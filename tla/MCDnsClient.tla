---------------------------- MODULE MCDnsClient ----------------------------
(* A small instance of DnsClient: queries of one key race each other, a      *)
(* clear and two refreshes; keys do not depend on each other.                *)
EXTENDS DnsClient

=============================================================================
