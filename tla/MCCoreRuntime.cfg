SPECIFICATION Spec
CONSTANTS
    m1 = m1  m2 = m2  mBad = mBad
    NoMesh = NoMesh  NoTask = NoTask  NoStack = NoStack  NoConfig = NoConfig
    Broken = Broken  StopAllFails = TRUE
    ProxySettings = {p1, p2}
    Meshes = {m1, m2, mBad}
    BadMeshes = {mBad}
    Routes <- MCRoutes
    Services = {"http"}
    TaskCfgs = {t1}
INVARIANTS
    UpToDate
    NothingStranded
    RoutesAgree
PROPERTIES
    ApplyIsolates
