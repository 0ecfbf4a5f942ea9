SPECIFICATION FairSpec
CONSTANTS
    MaxSessions = 2
    MaxCommands = 1
    MeshEnabled = TRUE
    None = None
CHECK_DEADLOCK FALSE
INVARIANTS
    SafetyInv
    StoppedLeavesNothing
PROPERTIES
    CallsComplete
