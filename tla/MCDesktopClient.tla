-------------------------- MODULE MCDesktopClient --------------------------
(* A small instance of DesktopClient: a proxy with TUN, which needs root, and *)
(* the same beside a relay, which needs none until its mesh is paused.        *)
EXTENDS DesktopClient

Cfg(enabled, tun, mesh) == [enabled |-> enabled, tun |-> tun, mesh |-> mesh]
SmallRequests == {Cfg(TRUE, TRUE, "off"), Cfg(TRUE, TRUE, "relay")}

=============================================================================
