------------------------- MODULE MCOpenVpnReliable -------------------------
(* A small instance of OpenVpnReliable, with windows scaled down (the source *)
(* has send 6, receive 12, 4 acknowledgments a packet, 8 queued) so far that *)
(* three packets overrun the receive window: with the first one lost, the    *)
(* second waits and the third is refused. The first key state of a           *)
(* tls-crypt-v2 client b; a renegotiated key state that a opened, with       *)
(* replay protection and more chunks than either window holds; and plain     *)
(* ones, whose link repeats datagrams, in one direction and in both. The     *)
(* link holds each datagram there is.                                        *)
EXTENDS OpenVpnReliable

CONSTANTS a, b
TwoPeers == {a, b}
Lengths(n, m) == [p \in TwoPeers |-> IF p = a THEN n ELSE m]
FirstKey == [wkc |-> {b}, resets |-> {}, protected |-> TRUE, total |-> Lengths(0, 1)]
SecondKey == [wkc |-> {}, resets |-> {a}, protected |-> TRUE, total |-> Lengths(3, 0)]
Plain == [wkc |-> {}, resets |-> {}, protected |-> FALSE, total |-> Lengths(2, 0)]
BothWays == [Plain EXCEPT !.total = Lengths(1, 1)]
SmallSetups == {FirstKey, SecondKey, Plain, BothWays}

=============================================================================
