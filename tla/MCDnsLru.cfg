SPECIFICATION LruSpec
CONSTANTS
    Keys = {k1, k2, k3}
    Capacity = 2
    PersistentCache = TRUE
    MaxGeneration = 7
SYMMETRY Symmetric
INVARIANTS
    CacheBounded
PROPERTIES
    EvictsOldest
