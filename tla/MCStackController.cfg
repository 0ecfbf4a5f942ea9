SPECIFICATION Spec
CONSTANTS
    TunModes <- MCTunModes
    WorkerPid <- MCWorkerPid
CHECK_DEADLOCK FALSE
INVARIANTS
    QuietAfterStop
    OutcomeKept
PROPERTIES
    NoRunningWhileStopping
    StopCompletes
    DeathReported
