---------------------------- MODULE OpenVpnPeers ----------------------------
(* The two ends of an OpenVPN session, a client and a server.                *)
CONSTANT Peers

ASSUME PeersAssumption == \E p, q \in Peers : p # q /\ Peers = {p, q}

Other(p) == CHOOSE q \in Peers : q # p

=============================================================================
