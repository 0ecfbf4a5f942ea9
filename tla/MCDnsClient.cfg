SPECIFICATION FairSpec
CONSTANTS
    Keys = {k1}
    Queries = {q1, q2}
    Refreshes = {r1, r2}
    MaxClears = 1
    Optimistic = TRUE
    Persistent = TRUE
    None = None
INVARIANTS
    SafetyInv
    RefreshRespectsClear
PROPERTIES
    Answered
