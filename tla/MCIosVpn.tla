------------------------------ MODULE MCIosVpn ------------------------------
(* Small instances of IosVpn.                                                 *)
EXTENDS IosVpn

=============================================================================
