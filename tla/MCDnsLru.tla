------------------------------ MODULE MCDnsLru ------------------------------
(* Small instances of DnsLru: three keys compete for two places.             *)
EXTENDS DnsLru, TLC

Symmetric == Permutations(Keys)

=============================================================================
