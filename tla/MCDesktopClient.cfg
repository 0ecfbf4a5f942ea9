SPECIFICATION Spec
CONSTANTS
    Requests <- SmallRequests
    Workers = {w1}
    NoWorker = NoWorker
    NoConfig = NoConfig
    NoCore = NoCore
INVARIANTS
    SafetyInv
    AppliedIsSaved
PROPERTIES
    ChangesKeepLocalUnprivileged
    CommandEnds
