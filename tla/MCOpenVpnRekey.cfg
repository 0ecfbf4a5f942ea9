SPECIFICATION FairRekeySpec
CONSTANTS
    a = a
    b = b
    Peers <- TwoPeers
    KeyMax = 4
    Scan = 2
    Rekeys <- FewRekeys
CHECK_DEADLOCK FALSE
INVARIANTS
    RekeySafetyInv
    PeerReads
PROPERTIES
    RekeyCompletes
