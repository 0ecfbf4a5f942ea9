SPECIFICATION Spec
CONSTANTS
    a = a
    b = b
    Peers <- TwoPeers
    Setups <- SmallSetups
    SendBuf = 2
    RecvBuf = 2
    MaxAcks = 1
    AckCap = 2
    MaxNet = 20
CHECK_DEADLOCK FALSE
INVARIANTS
    SafetyInv
PROPERTIES
    ImplementsFifo
    AllDelivered
