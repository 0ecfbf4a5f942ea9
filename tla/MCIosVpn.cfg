SPECIFICATION FairVpnSpec
CONSTANTS
    Ops = {o1, o2}
    MaxToggles = 3
CHECK_DEADLOCK FALSE
INVARIANTS
    VpnSafetyInv
PROPERTIES
    IntentionalIsQuiet
    StaysOff
