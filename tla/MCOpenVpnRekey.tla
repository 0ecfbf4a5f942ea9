--------------------------- MODULE MCOpenVpnRekey ---------------------------
(* A small instance of OpenVpnRekey: fewer key ids and a smaller ring than   *)
(* the source's 7 and 3, so that key ids wrap and old sessions are retired   *)
(* within six rekeys of one peer over a calm link. Over a rough one either   *)
(* one peer rekeys twice, or both do at any time.                      *)
EXTENDS OpenVpnRekey

CONSTANTS a, b
TwoPeers == {a, b}
Times(n, m) == [p \in TwoPeers |-> IF p = a THEN n ELSE m]
FewRekeys == [l \in {"calm", "rough"} |->
                 IF l = "calm" THEN {Times(6, 0)} ELSE {Times(2, 0), Times(1, 1)}]

=============================================================================
