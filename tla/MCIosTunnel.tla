---------------------------- MODULE MCIosTunnel ----------------------------
(* Small instances of IosTunnel: one or two sessions of one process.         *)
EXTENDS IosTunnel

=============================================================================
