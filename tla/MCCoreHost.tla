----------------------------- MODULE MCCoreHost -----------------------------
(* Two supervisors of one data directory, a WebUI and a desktop client, and  *)
(* the host process that one of them spawns.                                 *)
EXTENDS CoreHost

CONSTANTS webui, desktop, h1
=============================================================================
