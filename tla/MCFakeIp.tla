------------------------------ MODULE MCFakeIp ------------------------------
(* Small instances of FakeIp. Ranges are prefixes given by any address in     *)
(* them.                                                                      *)
EXTENDS FakeIp, TLC

CONSTANTS d1, d2, d3, d4

\* Eight addresses from 0 on, of which 5 and 6 are given, and four from 8
\* on, of which 10 is given.
MCRanges == {[net |-> 0, addr |-> 3, last |-> 7], [net |-> 8, addr |-> 8, last |-> 11]}

\* Two addresses, and eight addresses given by the last but two.
SmallRanges == {[net |-> 0, addr |-> 0, last |-> 1], [net |-> 0, addr |-> 5, last |-> 7]}

MCFaults == {{}, {"crash"}, {"store", "crash"}}

\* Domains are alike, and nothing checked is a liveness property.
DomainSymmetry == Permutations(Domains)

=============================================================================
