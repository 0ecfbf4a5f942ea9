----------------------- MODULE MCStackController -----------------------
(* Both kinds of run, mixed port and TUN, of one controller.             *)
EXTENDS StackController

MCTunModes == BOOLEAN
MCWorkerPid == 4242
=========================================================================
