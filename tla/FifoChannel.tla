---------------------------- MODULE FifoChannel ----------------------------
(* What a TLS engine needs of the control channel under it: in each          *)
(* direction, what one side reads is always a prefix of what the other side  *)
(* wrote, without gaps, repetitions or reordering.                           *)
EXTENDS Naturals, Sequences

CONSTANTS Peers, Chunks

VARIABLES sent, got     \* by the writing peer: what it wrote, what arrived

Init ==
    /\ sent = [p \in Peers |-> <<>>]
    /\ got = [p \in Peers |-> <<>>]

Write(p) ==
    /\ \E c \in Chunks : sent' = [sent EXCEPT ![p] = Append(@, c)]
    /\ UNCHANGED got

Read(p) ==
    /\ \E n \in Len(got[p]) + 1 .. Len(sent[p]) :
         got' = [got EXCEPT ![p] = SubSeq(sent[p], 1, n)]
    /\ UNCHANGED sent

Next == \E p \in Peers : Write(p) \/ Read(p)

Spec == Init /\ [][Next]_<<sent, got>>

=============================================================================
