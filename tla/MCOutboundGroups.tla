-------------------------- MODULE MCOutboundGroups --------------------------
(* Small instances of OutboundGroups: dials through a selector into a URL    *)
(* test, a URL test inside another one, and one that the API refreshes too,  *)
(* with delays inside and outside the tolerance.                             *)
EXTENDS OutboundGroups, TLC

CONSTANTS l1, l2, top, sub, pick
Dialled ==
    [members |-> pick :> <<top, l2>> @@ top :> <<l1, l2>>, root |-> pick,
     interrupt |-> TRUE, flaky |-> {l1}, forced |-> {}, dialers |-> Dialers,
     delays |-> {1}]
Nesting ==
    [members |-> top :> <<sub, l2>> @@ sub :> <<l1>>, root |-> top,
     interrupt |-> FALSE, flaky |-> {l1}, forced |-> {}, dialers |-> {},
     delays |-> {1}]
Measuring ==
    [members |-> top :> <<l1, l2>>, root |-> top,
     interrupt |-> FALSE, flaky |-> {l1}, forced |-> ForcedCallers, dialers |-> {},
     delays |-> Delays]
SmallSetups == {Dialled, Nesting, Measuring}

=============================================================================
