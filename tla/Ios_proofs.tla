----------------------------- MODULE Ios_proofs -----------------------------
(* Proofs about the iOS client: the VPN manager of the app for any number of  *)
(* overlapping calls, and the packet tunnel extension for any number of       *)
(* sessions and commands. Both rest on the inductive invariants at the end of *)
(* IosVpn (VpnInv) and of IosTunnel (TunnelInv): VpnInv says what a stop has  *)
(* done at each of its awaits, TunnelInv where the engine, the callback       *)
(* object and the handle of a session are at each step of its start and stop. *)
EXTENDS IosVpn, IosTunnel, TLAPS

-----------------------------------------------------------------------------
(* The VPN manager *)

\* A call that moves on, or begins when no other is under way, is a call, and
\* the only one.
LEMMA OneMoves ==
  ASSUME VpnInv, NEW o \in Ops, NEW c \in Calls, op' = [op EXCEPT ![o] = c],
         c.at = "none" => c = NoOp,
         op[o] # NoOp \/ Quiet \/ "overlap" \in mishap', mishap \subseteq mishap'
  PROVE  CallsOK' /\ OneCall'
<1>1. CallsOK'
  BY DEF VpnInv, VpnTypeOK, CallsOK
<1>2. \A p \in Ops : op'[p] = IF p = o THEN c ELSE op[p]
  BY DEF VpnInv, VpnTypeOK, CallsOK
<1>3. OneCall'
  BY <1>2, Zenon DEF VpnInv, OneCall, Quiet
<1>. QED
  BY <1>1, <1>3

\* What a call is made of.
LEMMA CallType ==
  ASSUME NEW at \in {"install", "installOnly", "save", "saving", "prefetch",
                     "ipc", "clear", "cleared", "reload", "wait", "reassert"},
         NEW then \in BOOLEAN, NEW m \in BOOLEAN
  PROVE  Call(at, then, m) \in Calls /\ Call(at, then, m).at # "none"
BY DEF Call, Calls, Starting, Stopping

LEMMA NoOpType == NoOp \in Calls
BY DEF NoOp, Call, Calls

LEMMA CallFields ==
  ASSUME CallsOK, NEW o \in Ops
  PROVE  op[o].then \in BOOLEAN /\ op[o].mesh \in BOOLEAN
BY DEF CallsOK, Calls, Starting, Stopping

LEMMA PrefsType ==
  ASSUME NEW a \in BOOLEAN, NEW b \in BOOLEAN
  PROVE  [onDemand |-> a, mesh |-> b] \in [onDemand: BOOLEAN, mesh: BOOLEAN]
OBVIOUS

LEMMA PrefsFields ==
  ASSUME FlagsOK
  PROVE  prefs.mesh \in BOOLEAN
BY DEF FlagsOK

LEMMA installVPNConfiguration_Inv ==
  ASSUME VpnInv, NEW o \in Ops, installVPNConfiguration(o)
  PROVE  VpnInv'
<1>1. FlagsOK'
  <2>1. setting' \in BOOLEAN /\ wanted' \in BOOLEAN /\ memory' \in BOOLEAN /\ installed' \in BOOLEAN
    BY Zenon DEF VpnInv, VpnTypeOK, FlagsOK, installVPNConfiguration, At, End, Saves, SaveFails, Cleared, user
  <2>2. busy' \in BOOLEAN /\ stopRequested' \in BOOLEAN /\ reported' \in BOOLEAN
    BY Zenon DEF VpnInv, VpnTypeOK, FlagsOK, installVPNConfiguration, At, End, Saves, SaveFails, Cleared, user
  <2>3. prefs' \in [onDemand: BOOLEAN, mesh: BOOLEAN] /\ mishap' \subseteq {"save", "overlap", "killed"}
    <3>1. prefs' = prefs \/ prefs' = [onDemand |-> FALSE, mesh |-> prefs.mesh]
      BY DEF installVPNConfiguration, At, End, Saves, SaveFails, Cleared, user
    <3>2. prefs' \in [onDemand: BOOLEAN, mesh: BOOLEAN]
      BY <3>1, PrefsType, PrefsFields, Zenon DEF VpnInv, VpnTypeOK, FlagsOK
    <3>3. mishap' \subseteq {"save", "overlap", "killed"}
      BY DEF VpnInv, VpnTypeOK, FlagsOK, installVPNConfiguration, At, End, Saves, SaveFails, Cleared, user
    <3>. QED
      BY <3>2, <3>3
  <2>4. session' \in [is: States, mesh: BOOLEAN] /\ cause' \in {"app", "system"} /\ status' \in States
    BY DEF VpnInv, VpnTypeOK, FlagsOK, CallsOK, Calls, Starting, Stopping, States, Active, installVPNConfiguration, At, End, Saves, SaveFails, Cleared, user
  <2>5. toggles' \in 0 .. MaxToggles
    BY TogglesAssumption DEF VpnInv, VpnTypeOK, FlagsOK, installVPNConfiguration, At, End, Saves, SaveFails, Cleared, user
  <2>. QED
    BY <2>1, <2>2, <2>3, <2>4, <2>5 DEF FlagsOK
<1>2. PICK c \in Calls : op' = [op EXCEPT ![o] = c] /\ (c.at = "none" => c = NoOp)
  <2>1. op' = [op EXCEPT ![o] = Call("save", op[o].then, op[o].mesh)] \/ op' = [op EXCEPT ![o] = NoOp]
    BY DEF installVPNConfiguration, At, End, Saves, SaveFails, Cleared, user
  <2>. QED
    BY <2>1, CallType, NoOpType, CallFields DEF VpnInv, VpnTypeOK, FlagsOK
<1>3. (op[o] # NoOp \/ Quiet \/ "overlap" \in mishap') /\ mishap \subseteq mishap'
  BY DEF NoOp, Call, installVPNConfiguration, At, End, Saves, SaveFails, Cleared, user
<1>4. CallsOK' /\ OneCall'
  BY <1>2, <1>3, OneMoves
<1>5. NeverLeftBusy'
  BY DEF VpnInv, VpnTypeOK, CallsOK, NeverLeftBusy, Quiet, Call, NoOp, installVPNConfiguration, At, End, Saves, SaveFails, Cleared, user
<1>6. OffInv'
  BY DEF VpnInv, VpnTypeOK, FlagsOK, CallsOK, Calls, Starting, Stopping, OneCall, OffInv, Quiet, States, Active, Call, NoOp, installVPNConfiguration, At, End, Saves, SaveFails, Cleared, user
<1>7. StopInv'
  BY DEF VpnInv, VpnTypeOK, FlagsOK, CallsOK, Calls, Starting, Stopping, OneCall, StopInv, Quiet, States, Active, Call, NoOp, installVPNConfiguration, At, End, Saves, SaveFails, Cleared, user
<1>. QED
  BY <1>1, <1>4, <1>5, <1>6, <1>7 DEF VpnInv, VpnTypeOK

LEMMA applyProtocol_Inv ==
  ASSUME VpnInv, NEW o \in Ops, applyProtocol(o)
  PROVE  VpnInv'
<1>1. FlagsOK'
  <2>1. setting' \in BOOLEAN /\ wanted' \in BOOLEAN /\ memory' \in BOOLEAN /\ installed' \in BOOLEAN
    BY Zenon DEF VpnInv, VpnTypeOK, FlagsOK, applyProtocol, At, user
  <2>2. busy' \in BOOLEAN /\ stopRequested' \in BOOLEAN /\ reported' \in BOOLEAN
    BY Zenon DEF VpnInv, VpnTypeOK, FlagsOK, applyProtocol, At, user
  <2>3. prefs' \in [onDemand: BOOLEAN, mesh: BOOLEAN] /\ mishap' \subseteq {"save", "overlap", "killed"}
    BY DEF VpnInv, VpnTypeOK, FlagsOK, applyProtocol, At, user
  <2>4. session' \in [is: States, mesh: BOOLEAN] /\ cause' \in {"app", "system"} /\ status' \in States
    BY DEF VpnInv, VpnTypeOK, FlagsOK, CallsOK, Calls, Starting, Stopping, States, Active, applyProtocol, At, user
  <2>5. toggles' \in 0 .. MaxToggles
    BY TogglesAssumption DEF VpnInv, VpnTypeOK, FlagsOK, applyProtocol, At, user
  <2>. QED
    BY <2>1, <2>2, <2>3, <2>4, <2>5 DEF FlagsOK
<1>2. PICK c \in Calls : op' = [op EXCEPT ![o] = c] /\ (c.at = "none" => c = NoOp)
  <2>1. op' = [op EXCEPT ![o] = Call("saving", op[o].then, op[o].mesh)]
    BY DEF applyProtocol, At, user
  <2>. QED
    BY <2>1, CallType, NoOpType, CallFields DEF VpnInv, VpnTypeOK, FlagsOK
<1>3. (op[o] # NoOp \/ Quiet \/ "overlap" \in mishap') /\ mishap \subseteq mishap'
  BY DEF NoOp, Call, applyProtocol, At, user
<1>4. CallsOK' /\ OneCall'
  BY <1>2, <1>3, OneMoves
<1>5. NeverLeftBusy'
  BY DEF VpnInv, VpnTypeOK, CallsOK, NeverLeftBusy, Quiet, Call, NoOp, applyProtocol, At, user
<1>6. OffInv'
  BY DEF VpnInv, VpnTypeOK, FlagsOK, CallsOK, Calls, Starting, Stopping, OneCall, OffInv, Quiet, States, Active, Call, NoOp, applyProtocol, At, user
<1>7. StopInv'
  BY DEF VpnInv, VpnTypeOK, FlagsOK, CallsOK, Calls, Starting, Stopping, OneCall, StopInv, Quiet, States, Active, Call, NoOp, applyProtocol, At, user
<1>. QED
  BY <1>1, <1>4, <1>5, <1>6, <1>7 DEF VpnInv, VpnTypeOK

LEMMA Saved_Inv ==
  ASSUME VpnInv, NEW o \in Ops, Saved(o)
  PROVE  VpnInv'
<1>1. FlagsOK'
  <2>1. setting' \in BOOLEAN /\ wanted' \in BOOLEAN /\ memory' \in BOOLEAN /\ installed' \in BOOLEAN
    BY Zenon DEF VpnInv, VpnTypeOK, FlagsOK, Saved, At, End, Saves, SaveFails, user
  <2>2. busy' \in BOOLEAN /\ stopRequested' \in BOOLEAN /\ reported' \in BOOLEAN
    BY Zenon DEF VpnInv, VpnTypeOK, FlagsOK, Saved, At, End, Saves, SaveFails, user
  <2>3. prefs' \in [onDemand: BOOLEAN, mesh: BOOLEAN] /\ mishap' \subseteq {"save", "overlap", "killed"}
    <3>1. prefs' = prefs \/ prefs' = [onDemand |-> TRUE, mesh |-> op[o].mesh]
      BY DEF Saved, At, End, Saves, SaveFails, user
    <3>2. prefs' \in [onDemand: BOOLEAN, mesh: BOOLEAN]
      BY <3>1, PrefsType, CallFields, Zenon DEF VpnInv, VpnTypeOK, FlagsOK
    <3>3. mishap' \subseteq {"save", "overlap", "killed"}
      BY DEF VpnInv, VpnTypeOK, FlagsOK, Saved, At, End, Saves, SaveFails, user
    <3>. QED
      BY <3>2, <3>3
  <2>4. session' \in [is: States, mesh: BOOLEAN] /\ cause' \in {"app", "system"} /\ status' \in States
    BY DEF VpnInv, VpnTypeOK, FlagsOK, CallsOK, Calls, Starting, Stopping, States, Active, Saved, At, End, Saves, SaveFails, user
  <2>5. toggles' \in 0 .. MaxToggles
    BY TogglesAssumption DEF VpnInv, VpnTypeOK, FlagsOK, Saved, At, End, Saves, SaveFails, user
  <2>. QED
    BY <2>1, <2>2, <2>3, <2>4, <2>5 DEF FlagsOK
<1>2. PICK c \in Calls : op' = [op EXCEPT ![o] = c] /\ (c.at = "none" => c = NoOp)
  <2>1. op' = [op EXCEPT ![o] = Call("prefetch", op[o].then, op[o].mesh)] \/ op' = [op EXCEPT ![o] = NoOp]
    BY DEF Saved, At, End, Saves, SaveFails, user
  <2>. QED
    BY <2>1, CallType, NoOpType, CallFields DEF VpnInv, VpnTypeOK, FlagsOK
<1>3. (op[o] # NoOp \/ Quiet \/ "overlap" \in mishap') /\ mishap \subseteq mishap'
  BY DEF NoOp, Call, Saved, At, End, Saves, SaveFails, user
<1>4. CallsOK' /\ OneCall'
  BY <1>2, <1>3, OneMoves
<1>5. NeverLeftBusy'
  BY DEF VpnInv, VpnTypeOK, CallsOK, NeverLeftBusy, Quiet, Call, NoOp, Saved, At, End, Saves, SaveFails, user
<1>6. OffInv'
  BY DEF VpnInv, VpnTypeOK, FlagsOK, CallsOK, Calls, Starting, Stopping, OneCall, OffInv, Quiet, States, Active, Call, NoOp, Saved, At, End, Saves, SaveFails, user
<1>7. StopInv'
  BY DEF VpnInv, VpnTypeOK, FlagsOK, CallsOK, Calls, Starting, Stopping, OneCall, StopInv, Quiet, States, Active, Call, NoOp, Saved, At, End, Saves, SaveFails, user
<1>. QED
  BY <1>1, <1>4, <1>5, <1>6, <1>7 DEF VpnInv, VpnTypeOK

LEMMA startVPNTunnel_Inv ==
  ASSUME VpnInv, NEW o \in Ops, startVPNTunnel(o)
  PROVE  VpnInv'
<1>1. FlagsOK'
  <2>1. setting' \in BOOLEAN /\ wanted' \in BOOLEAN /\ memory' \in BOOLEAN /\ installed' \in BOOLEAN
    BY Zenon DEF VpnInv, VpnTypeOK, FlagsOK, startVPNTunnel, End, user
  <2>2. busy' \in BOOLEAN /\ stopRequested' \in BOOLEAN /\ reported' \in BOOLEAN
    BY Zenon DEF VpnInv, VpnTypeOK, FlagsOK, startVPNTunnel, End, user
  <2>3. prefs' \in [onDemand: BOOLEAN, mesh: BOOLEAN] /\ mishap' \subseteq {"save", "overlap", "killed"}
    BY DEF VpnInv, VpnTypeOK, FlagsOK, startVPNTunnel, End, user
  <2>4. session' \in [is: States, mesh: BOOLEAN] /\ cause' \in {"app", "system"} /\ status' \in States
    BY DEF VpnInv, VpnTypeOK, FlagsOK, CallsOK, Calls, Starting, Stopping, States, Active, startVPNTunnel, End, user
  <2>5. toggles' \in 0 .. MaxToggles
    BY TogglesAssumption DEF VpnInv, VpnTypeOK, FlagsOK, startVPNTunnel, End, user
  <2>. QED
    BY <2>1, <2>2, <2>3, <2>4, <2>5 DEF FlagsOK
<1>2. PICK c \in Calls : op' = [op EXCEPT ![o] = c] /\ (c.at = "none" => c = NoOp)
  <2>1. op' = [op EXCEPT ![o] = NoOp]
    BY DEF startVPNTunnel, End, user
  <2>. QED
    BY <2>1, CallType, NoOpType, CallFields DEF VpnInv, VpnTypeOK, FlagsOK
<1>3. (op[o] # NoOp \/ Quiet \/ "overlap" \in mishap') /\ mishap \subseteq mishap'
  BY DEF NoOp, Call, startVPNTunnel, End, user
<1>4. CallsOK' /\ OneCall'
  BY <1>2, <1>3, OneMoves
<1>5. NeverLeftBusy'
  BY DEF VpnInv, VpnTypeOK, CallsOK, NeverLeftBusy, Quiet, Call, NoOp, startVPNTunnel, End, user
<1>6. OffInv'
  BY DEF VpnInv, VpnTypeOK, FlagsOK, CallsOK, Calls, Starting, Stopping, OneCall, OffInv, Quiet, States, Active, Call, NoOp, startVPNTunnel, End, user
<1>7. StopInv'
  BY DEF VpnInv, VpnTypeOK, FlagsOK, CallsOK, Calls, Starting, Stopping, OneCall, StopInv, Quiet, States, Active, Call, NoOp, startVPNTunnel, End, user
<1>. QED
  BY <1>1, <1>4, <1>5, <1>6, <1>7 DEF VpnInv, VpnTypeOK

LEMMA StopMesh_Inv ==
  ASSUME VpnInv, NEW o \in Ops, StopMesh(o)
  PROVE  VpnInv'
<1>1. FlagsOK'
  <2>1. setting' \in BOOLEAN /\ wanted' \in BOOLEAN /\ memory' \in BOOLEAN /\ installed' \in BOOLEAN
    BY Zenon DEF VpnInv, VpnTypeOK, FlagsOK, StopMesh, At, user
  <2>2. busy' \in BOOLEAN /\ stopRequested' \in BOOLEAN /\ reported' \in BOOLEAN
    BY Zenon DEF VpnInv, VpnTypeOK, FlagsOK, StopMesh, At, user
  <2>3. prefs' \in [onDemand: BOOLEAN, mesh: BOOLEAN] /\ mishap' \subseteq {"save", "overlap", "killed"}
    BY DEF VpnInv, VpnTypeOK, FlagsOK, StopMesh, At, user
  <2>4. session' \in [is: States, mesh: BOOLEAN] /\ cause' \in {"app", "system"} /\ status' \in States
    BY DEF VpnInv, VpnTypeOK, FlagsOK, CallsOK, Calls, Starting, Stopping, States, Active, StopMesh, At, user
  <2>5. toggles' \in 0 .. MaxToggles
    BY TogglesAssumption DEF VpnInv, VpnTypeOK, FlagsOK, StopMesh, At, user
  <2>. QED
    BY <2>1, <2>2, <2>3, <2>4, <2>5 DEF FlagsOK
<1>2. PICK c \in Calls : op' = [op EXCEPT ![o] = c] /\ (c.at = "none" => c = NoOp)
  <2>1. op' = [op EXCEPT ![o] = Call("clear", op[o].then, op[o].mesh)]
    BY DEF StopMesh, At, user
  <2>. QED
    BY <2>1, CallType, NoOpType, CallFields DEF VpnInv, VpnTypeOK, FlagsOK
<1>3. (op[o] # NoOp \/ Quiet \/ "overlap" \in mishap') /\ mishap \subseteq mishap'
  BY DEF NoOp, Call, StopMesh, At, user
<1>4. CallsOK' /\ OneCall'
  BY <1>2, <1>3, OneMoves
<1>5. NeverLeftBusy'
  BY DEF VpnInv, VpnTypeOK, CallsOK, NeverLeftBusy, Quiet, Call, NoOp, StopMesh, At, user
<1>6. OffInv'
  BY DEF VpnInv, VpnTypeOK, FlagsOK, CallsOK, Calls, Starting, Stopping, OneCall, OffInv, Quiet, States, Active, Call, NoOp, StopMesh, At, user
<1>7. StopInv'
  BY DEF VpnInv, VpnTypeOK, FlagsOK, CallsOK, Calls, Starting, Stopping, OneCall, StopInv, Quiet, States, Active, Call, NoOp, StopMesh, At, user
<1>. QED
  BY <1>1, <1>4, <1>5, <1>6, <1>7 DEF VpnInv, VpnTypeOK

LEMMA ClearOnDemand_Inv ==
  ASSUME VpnInv, NEW o \in Ops, ClearOnDemand(o)
  PROVE  VpnInv'
<1>1. FlagsOK'
  <2>1. setting' \in BOOLEAN /\ wanted' \in BOOLEAN /\ memory' \in BOOLEAN /\ installed' \in BOOLEAN
    BY Zenon DEF VpnInv, VpnTypeOK, FlagsOK, ClearOnDemand, At, user
  <2>2. busy' \in BOOLEAN /\ stopRequested' \in BOOLEAN /\ reported' \in BOOLEAN
    BY Zenon DEF VpnInv, VpnTypeOK, FlagsOK, ClearOnDemand, At, user
  <2>3. prefs' \in [onDemand: BOOLEAN, mesh: BOOLEAN] /\ mishap' \subseteq {"save", "overlap", "killed"}
    BY DEF VpnInv, VpnTypeOK, FlagsOK, ClearOnDemand, At, user
  <2>4. session' \in [is: States, mesh: BOOLEAN] /\ cause' \in {"app", "system"} /\ status' \in States
    BY DEF VpnInv, VpnTypeOK, FlagsOK, CallsOK, Calls, Starting, Stopping, States, Active, ClearOnDemand, At, user
  <2>5. toggles' \in 0 .. MaxToggles
    BY TogglesAssumption DEF VpnInv, VpnTypeOK, FlagsOK, ClearOnDemand, At, user
  <2>. QED
    BY <2>1, <2>2, <2>3, <2>4, <2>5 DEF FlagsOK
<1>2. PICK c \in Calls : op' = [op EXCEPT ![o] = c] /\ (c.at = "none" => c = NoOp)
  <2>1. op' = [op EXCEPT ![o] = Call("cleared", op[o].then, op[o].mesh)]
    BY DEF ClearOnDemand, At, user
  <2>. QED
    BY <2>1, CallType, NoOpType, CallFields DEF VpnInv, VpnTypeOK, FlagsOK
<1>3. (op[o] # NoOp \/ Quiet \/ "overlap" \in mishap') /\ mishap \subseteq mishap'
  BY DEF NoOp, Call, ClearOnDemand, At, user
<1>4. CallsOK' /\ OneCall'
  BY <1>2, <1>3, OneMoves
<1>5. NeverLeftBusy'
  BY DEF VpnInv, VpnTypeOK, CallsOK, NeverLeftBusy, Quiet, Call, NoOp, ClearOnDemand, At, user
<1>6. OffInv'
  BY DEF VpnInv, VpnTypeOK, FlagsOK, CallsOK, Calls, Starting, Stopping, OneCall, OffInv, Quiet, States, Active, Call, NoOp, ClearOnDemand, At, user
<1>7. StopInv'
  BY DEF VpnInv, VpnTypeOK, FlagsOK, CallsOK, Calls, Starting, Stopping, OneCall, StopInv, Quiet, States, Active, Call, NoOp, ClearOnDemand, At, user
<1>. QED
  BY <1>1, <1>4, <1>5, <1>6, <1>7 DEF VpnInv, VpnTypeOK

LEMMA SaveCleared_Inv ==
  ASSUME VpnInv, NEW o \in Ops, SaveCleared(o)
  PROVE  VpnInv'
<1>1. FlagsOK'
  <2>1. setting' \in BOOLEAN /\ wanted' \in BOOLEAN /\ memory' \in BOOLEAN /\ installed' \in BOOLEAN
    BY Zenon DEF VpnInv, VpnTypeOK, FlagsOK, SaveCleared, At, Saves, SaveFails, Cleared, user
  <2>2. busy' \in BOOLEAN /\ stopRequested' \in BOOLEAN /\ reported' \in BOOLEAN
    BY Zenon DEF VpnInv, VpnTypeOK, FlagsOK, SaveCleared, At, Saves, SaveFails, Cleared, user
  <2>3. prefs' \in [onDemand: BOOLEAN, mesh: BOOLEAN] /\ mishap' \subseteq {"save", "overlap", "killed"}
    <3>1. prefs' = prefs \/ prefs' = [onDemand |-> FALSE, mesh |-> prefs.mesh]
      BY DEF SaveCleared, At, Saves, SaveFails, Cleared, user
    <3>2. prefs' \in [onDemand: BOOLEAN, mesh: BOOLEAN]
      BY <3>1, PrefsType, PrefsFields, Zenon DEF VpnInv, VpnTypeOK, FlagsOK
    <3>3. mishap' \subseteq {"save", "overlap", "killed"}
      BY DEF VpnInv, VpnTypeOK, FlagsOK, SaveCleared, At, Saves, SaveFails, Cleared, user
    <3>. QED
      BY <3>2, <3>3
  <2>4. session' \in [is: States, mesh: BOOLEAN] /\ cause' \in {"app", "system"} /\ status' \in States
    BY DEF VpnInv, VpnTypeOK, FlagsOK, CallsOK, Calls, Starting, Stopping, States, Active, SaveCleared, At, Saves, SaveFails, Cleared, user
  <2>5. toggles' \in 0 .. MaxToggles
    BY TogglesAssumption DEF VpnInv, VpnTypeOK, FlagsOK, SaveCleared, At, Saves, SaveFails, Cleared, user
  <2>. QED
    BY <2>1, <2>2, <2>3, <2>4, <2>5 DEF FlagsOK
<1>2. PICK c \in Calls : op' = [op EXCEPT ![o] = c] /\ (c.at = "none" => c = NoOp)
  <2>1. op' = [op EXCEPT ![o] = Call("reload", op[o].then, op[o].mesh)]
    BY DEF SaveCleared, At, Saves, SaveFails, Cleared, user
  <2>. QED
    BY <2>1, CallType, NoOpType, CallFields DEF VpnInv, VpnTypeOK, FlagsOK
<1>3. (op[o] # NoOp \/ Quiet \/ "overlap" \in mishap') /\ mishap \subseteq mishap'
  BY DEF NoOp, Call, SaveCleared, At, Saves, SaveFails, Cleared, user
<1>4. CallsOK' /\ OneCall'
  BY <1>2, <1>3, OneMoves
<1>5. NeverLeftBusy'
  BY DEF VpnInv, VpnTypeOK, CallsOK, NeverLeftBusy, Quiet, Call, NoOp, SaveCleared, At, Saves, SaveFails, Cleared, user
<1>6. OffInv'
  BY DEF VpnInv, VpnTypeOK, FlagsOK, CallsOK, Calls, Starting, Stopping, OneCall, OffInv, Quiet, States, Active, Call, NoOp, SaveCleared, At, Saves, SaveFails, Cleared, user
<1>7. StopInv'
  BY DEF VpnInv, VpnTypeOK, FlagsOK, CallsOK, Calls, Starting, Stopping, OneCall, StopInv, Quiet, States, Active, Call, NoOp, SaveCleared, At, Saves, SaveFails, Cleared, user
<1>. QED
  BY <1>1, <1>4, <1>5, <1>6, <1>7 DEF VpnInv, VpnTypeOK

LEMMA stopVPNTunnel_Inv ==
  ASSUME VpnInv, NEW o \in Ops, stopVPNTunnel(o)
  PROVE  VpnInv'
<1>1. FlagsOK'
  <2>1. setting' \in BOOLEAN /\ wanted' \in BOOLEAN /\ memory' \in BOOLEAN /\ installed' \in BOOLEAN
    BY Zenon DEF VpnInv, VpnTypeOK, FlagsOK, stopVPNTunnel, At, In, user
  <2>2. busy' \in BOOLEAN /\ stopRequested' \in BOOLEAN /\ reported' \in BOOLEAN
    BY Zenon DEF VpnInv, VpnTypeOK, FlagsOK, stopVPNTunnel, At, In, user
  <2>3. prefs' \in [onDemand: BOOLEAN, mesh: BOOLEAN] /\ mishap' \subseteq {"save", "overlap", "killed"}
    BY DEF VpnInv, VpnTypeOK, FlagsOK, stopVPNTunnel, At, In, user
  <2>4. session' \in [is: States, mesh: BOOLEAN] /\ cause' \in {"app", "system"} /\ status' \in States
    BY DEF VpnInv, VpnTypeOK, FlagsOK, CallsOK, Calls, Starting, Stopping, States, Active, stopVPNTunnel, At, In, user
  <2>5. toggles' \in 0 .. MaxToggles
    BY TogglesAssumption DEF VpnInv, VpnTypeOK, FlagsOK, stopVPNTunnel, At, In, user
  <2>. QED
    BY <2>1, <2>2, <2>3, <2>4, <2>5 DEF FlagsOK
<1>2. PICK c \in Calls : op' = [op EXCEPT ![o] = c] /\ (c.at = "none" => c = NoOp)
  <2>1. op' = [op EXCEPT ![o] = Call("wait", op[o].then, op[o].mesh)]
    BY DEF stopVPNTunnel, At, In, user
  <2>. QED
    BY <2>1, CallType, NoOpType, CallFields DEF VpnInv, VpnTypeOK, FlagsOK
<1>3. (op[o] # NoOp \/ Quiet \/ "overlap" \in mishap') /\ mishap \subseteq mishap'
  BY DEF NoOp, Call, stopVPNTunnel, At, In, user
<1>4. CallsOK' /\ OneCall'
  BY <1>2, <1>3, OneMoves
<1>5. NeverLeftBusy'
  BY DEF VpnInv, VpnTypeOK, CallsOK, NeverLeftBusy, Quiet, Call, NoOp, stopVPNTunnel, At, In, user
<1>6. OffInv'
  BY DEF VpnInv, VpnTypeOK, FlagsOK, CallsOK, Calls, Starting, Stopping, OneCall, OffInv, Quiet, States, Active, Call, NoOp, stopVPNTunnel, At, In, user
<1>7. StopInv'
  BY DEF VpnInv, VpnTypeOK, FlagsOK, CallsOK, Calls, Starting, Stopping, OneCall, StopInv, Quiet, States, Active, Call, NoOp, stopVPNTunnel, At, In, user
<1>. QED
  BY <1>1, <1>4, <1>5, <1>6, <1>7 DEF VpnInv, VpnTypeOK

LEMMA Settle_Inv ==
  ASSUME VpnInv, NEW o \in Ops, Settle(o)
  PROVE  VpnInv'
<1>1. FlagsOK'
  <2>1. setting' \in BOOLEAN /\ wanted' \in BOOLEAN /\ memory' \in BOOLEAN /\ installed' \in BOOLEAN
    BY Zenon DEF VpnInv, VpnTypeOK, FlagsOK, Settle, At, End, Begin, user
  <2>2. busy' \in BOOLEAN /\ stopRequested' \in BOOLEAN /\ reported' \in BOOLEAN
    BY Zenon DEF VpnInv, VpnTypeOK, FlagsOK, Settle, At, End, Begin, user
  <2>3. prefs' \in [onDemand: BOOLEAN, mesh: BOOLEAN] /\ mishap' \subseteq {"save", "overlap", "killed"}
    BY DEF VpnInv, VpnTypeOK, FlagsOK, Settle, At, End, Begin, user
  <2>4. session' \in [is: States, mesh: BOOLEAN] /\ cause' \in {"app", "system"} /\ status' \in States
    BY DEF VpnInv, VpnTypeOK, FlagsOK, CallsOK, Calls, Starting, Stopping, States, Active, Settle, At, End, Begin, user
  <2>5. toggles' \in 0 .. MaxToggles
    BY TogglesAssumption DEF VpnInv, VpnTypeOK, FlagsOK, Settle, At, End, Begin, user
  <2>. QED
    BY <2>1, <2>2, <2>3, <2>4, <2>5 DEF FlagsOK
<1>2. PICK c \in Calls : op' = [op EXCEPT ![o] = c] /\ (c.at = "none" => c = NoOp)
  <2>1. op' = [op EXCEPT ![o] = NoOp]
      \/ op' = [op EXCEPT ![o] = Call(IF installed THEN "save" ELSE "install", FALSE, op[o].mesh)]
      \/ op' = [op EXCEPT ![o] = Call("reassert", op[o].then, op[o].mesh)]
    BY DEF Settle, At, End, Begin, user
  <2>. QED
    BY <2>1, CallType, NoOpType, CallFields DEF VpnInv, VpnTypeOK, FlagsOK
<1>3. (op[o] # NoOp \/ Quiet \/ "overlap" \in mishap') /\ mishap \subseteq mishap'
  BY DEF NoOp, Call, Settle, At, End, Begin, user
<1>4. CallsOK' /\ OneCall'
  BY <1>2, <1>3, OneMoves
<1>5. NeverLeftBusy'
  BY DEF VpnInv, VpnTypeOK, CallsOK, NeverLeftBusy, Quiet, Call, NoOp, Settle, At, End, Begin, user
<1>6. OffInv'
  BY DEF VpnInv, VpnTypeOK, FlagsOK, CallsOK, Calls, Starting, Stopping, OneCall, OffInv, Quiet, States, Active, Call, NoOp, Settle, At, End, Begin, user
<1>7. StopInv'
  BY DEF VpnInv, VpnTypeOK, FlagsOK, CallsOK, Calls, Starting, Stopping, OneCall, StopInv, Quiet, States, Active, Call, NoOp, Settle, At, End, Begin, user
<1>. QED
  BY <1>1, <1>4, <1>5, <1>6, <1>7 DEF VpnInv, VpnTypeOK

LEMMA Reasserted_Inv ==
  ASSUME VpnInv, NEW o \in Ops, Reasserted(o)
  PROVE  VpnInv'
<1>1. FlagsOK'
  <2>1. setting' \in BOOLEAN /\ wanted' \in BOOLEAN /\ memory' \in BOOLEAN /\ installed' \in BOOLEAN
    BY Zenon DEF VpnInv, VpnTypeOK, FlagsOK, Reasserted, End, Begin, Saves, SaveFails, Cleared, user
  <2>2. busy' \in BOOLEAN /\ stopRequested' \in BOOLEAN /\ reported' \in BOOLEAN
    BY Zenon DEF VpnInv, VpnTypeOK, FlagsOK, Reasserted, End, Begin, Saves, SaveFails, Cleared, user
  <2>3. prefs' \in [onDemand: BOOLEAN, mesh: BOOLEAN] /\ mishap' \subseteq {"save", "overlap", "killed"}
    <3>1. prefs' = prefs \/ prefs' = [onDemand |-> FALSE, mesh |-> prefs.mesh]
      BY DEF Reasserted, End, Begin, Saves, SaveFails, Cleared, user
    <3>2. prefs' \in [onDemand: BOOLEAN, mesh: BOOLEAN]
      BY <3>1, PrefsType, PrefsFields, Zenon DEF VpnInv, VpnTypeOK, FlagsOK
    <3>3. mishap' \subseteq {"save", "overlap", "killed"}
      BY DEF VpnInv, VpnTypeOK, FlagsOK, Reasserted, End, Begin, Saves, SaveFails, Cleared, user
    <3>. QED
      BY <3>2, <3>3
  <2>4. session' \in [is: States, mesh: BOOLEAN] /\ cause' \in {"app", "system"} /\ status' \in States
    BY DEF VpnInv, VpnTypeOK, FlagsOK, CallsOK, Calls, Starting, Stopping, States, Active, Reasserted, End, Begin, Saves, SaveFails, Cleared, user
  <2>5. toggles' \in 0 .. MaxToggles
    BY TogglesAssumption DEF VpnInv, VpnTypeOK, FlagsOK, Reasserted, End, Begin, Saves, SaveFails, Cleared, user
  <2>. QED
    BY <2>1, <2>2, <2>3, <2>4, <2>5 DEF FlagsOK
<1>2. PICK c \in Calls : op' = [op EXCEPT ![o] = c] /\ (c.at = "none" => c = NoOp)
  <2>1. op' = [op EXCEPT ![o] = NoOp]
      \/ op' = [op EXCEPT ![o] = Call(IF installed THEN "save" ELSE "install", FALSE, op[o].mesh)]
    BY DEF Reasserted, End, Begin, Saves, SaveFails, Cleared, user
  <2>. QED
    BY <2>1, CallType, NoOpType, CallFields DEF VpnInv, VpnTypeOK, FlagsOK
<1>3. (op[o] # NoOp \/ Quiet \/ "overlap" \in mishap') /\ mishap \subseteq mishap'
  BY DEF NoOp, Call, Reasserted, End, Begin, Saves, SaveFails, Cleared, user
<1>4. CallsOK' /\ OneCall'
  BY <1>2, <1>3, OneMoves
<1>5. NeverLeftBusy'
  BY DEF VpnInv, VpnTypeOK, CallsOK, NeverLeftBusy, Quiet, Call, NoOp, Reasserted, End, Begin, Saves, SaveFails, Cleared, user
<1>6. OffInv'
  BY DEF VpnInv, VpnTypeOK, FlagsOK, CallsOK, Calls, Starting, Stopping, OneCall, OffInv, Quiet, States, Active, Call, NoOp, Reasserted, End, Begin, Saves, SaveFails, Cleared, user
<1>7. StopInv'
  BY DEF VpnInv, VpnTypeOK, FlagsOK, CallsOK, Calls, Starting, Stopping, OneCall, StopInv, Quiet, States, Active, Call, NoOp, Reasserted, End, Begin, Saves, SaveFails, Cleared, user
<1>. QED
  BY <1>1, <1>4, <1>5, <1>6, <1>7 DEF VpnInv, VpnTypeOK

LEMMA setProxyEnabled_Inv ==
  ASSUME VpnInv, NEW o \in Ops, setProxyEnabled(o)
  PROVE  VpnInv'
<1>1. FlagsOK'
  <2>1. setting' \in BOOLEAN /\ wanted' \in BOOLEAN /\ memory' \in BOOLEAN /\ installed' \in BOOLEAN
    BY Zenon DEF VpnInv, VpnTypeOK, FlagsOK, setProxyEnabled, Free, Begin, BeginStop, End
  <2>2. busy' \in BOOLEAN /\ stopRequested' \in BOOLEAN /\ reported' \in BOOLEAN
    BY Zenon DEF VpnInv, VpnTypeOK, FlagsOK, setProxyEnabled, Free, Begin, BeginStop, End
  <2>3. prefs' \in [onDemand: BOOLEAN, mesh: BOOLEAN] /\ mishap' \subseteq {"save", "overlap", "killed"}
    BY DEF VpnInv, VpnTypeOK, FlagsOK, setProxyEnabled, Free, Begin, BeginStop, End
  <2>4. session' \in [is: States, mesh: BOOLEAN] /\ cause' \in {"app", "system"} /\ status' \in States
    BY DEF VpnInv, VpnTypeOK, FlagsOK, CallsOK, Calls, Starting, Stopping, States, Active, setProxyEnabled, Free, Begin, BeginStop, End
  <2>5. toggles' \in 0 .. MaxToggles
    BY TogglesAssumption DEF VpnInv, VpnTypeOK, FlagsOK, setProxyEnabled, Free, Begin, BeginStop, End
  <2>. QED
    BY <2>1, <2>2, <2>3, <2>4, <2>5 DEF FlagsOK
<1>2. PICK c \in Calls : op' = [op EXCEPT ![o] = c] /\ (c.at = "none" => c = NoOp)
  <2>1. \/ op' = [op EXCEPT ![o] = NoOp]
        \/ \E at \in {"install", "installOnly", "save"} :
               op' = [op EXCEPT ![o] = Call(at, FALSE, setting)]
        \/ op' = [op EXCEPT ![o] = Call(IF status \in Active THEN "ipc" ELSE "clear", FALSE, FALSE)]
    BY DEF setProxyEnabled, Free, Begin, BeginStop, End
  <2>. QED
    BY <2>1, CallType, NoOpType, CallFields DEF VpnInv, VpnTypeOK, FlagsOK
<1>3. (op[o] # NoOp \/ Quiet \/ "overlap" \in mishap') /\ mishap \subseteq mishap'
  BY DEF NoOp, Call, setProxyEnabled, Free, Begin, BeginStop, End
<1>4. CallsOK' /\ OneCall'
  BY <1>2, <1>3, OneMoves
<1>5. NeverLeftBusy'
  BY DEF VpnInv, VpnTypeOK, CallsOK, NeverLeftBusy, Quiet, Call, NoOp, setProxyEnabled, Free, Begin, BeginStop, End
<1>6. OffInv'
  <2>1. CASE status = "off"
    <3>1. wanted'
      BY <2>1, Zenon DEF setProxyEnabled
    <3>. QED
      BY <3>1 DEF OffInv
  <2>2. CASE status = "on" /\ mishap' = {}
    <3>1. Quiet
      BY <2>2 DEF setProxyEnabled, Free
    <3>2. op' = [op EXCEPT ![o] = Call("ipc", FALSE, FALSE)]
      BY <2>2 DEF setProxyEnabled, BeginStop, Active
    <3>3. \A p \in Ops : op'[p] = IF p = o THEN Call("ipc", FALSE, FALSE) ELSE NoOp
      BY <3>1, <3>2 DEF Quiet, VpnInv, VpnTypeOK, CallsOK
    <3>4. \A p \in Ops : op'[p].at \in {"none", "ipc"} /\ ~op'[p].then
      BY <3>3 DEF Call, NoOp
    <3>5. ~Quiet' /\ \A p \in Ops : op'[p].at \notin {"reload", "wait", "reassert"}
      BY <3>3 DEF Quiet, Call, NoOp
    <3>. QED
      BY <3>4, <3>5 DEF OffInv, Stopping
  <2>3. CASE mishap' # {}
    BY <2>3 DEF OffInv
  <2>. QED
    BY <2>1, <2>2, <2>3 DEF setProxyEnabled
<1>7. StopInv'
  BY DEF VpnInv, VpnTypeOK, FlagsOK, CallsOK, Calls, Starting, Stopping, OneCall, StopInv, Quiet, States, Active, Call, NoOp, setProxyEnabled, Free, Begin, BeginStop, End
<1>. QED
  BY <1>1, <1>4, <1>5, <1>6, <1>7 DEF VpnInv, VpnTypeOK

LEMMA applyMeshSettingChange_Inv ==
  ASSUME VpnInv, NEW o \in Ops, applyMeshSettingChange(o)
  PROVE  VpnInv'
<1>1. FlagsOK'
  <2>1. setting' \in BOOLEAN /\ wanted' \in BOOLEAN /\ memory' \in BOOLEAN /\ installed' \in BOOLEAN
    BY Zenon DEF VpnInv, VpnTypeOK, FlagsOK, applyMeshSettingChange, Free, BeginStop
  <2>2. busy' \in BOOLEAN /\ stopRequested' \in BOOLEAN /\ reported' \in BOOLEAN
    BY Zenon DEF VpnInv, VpnTypeOK, FlagsOK, applyMeshSettingChange, Free, BeginStop
  <2>3. prefs' \in [onDemand: BOOLEAN, mesh: BOOLEAN] /\ mishap' \subseteq {"save", "overlap", "killed"}
    BY DEF VpnInv, VpnTypeOK, FlagsOK, applyMeshSettingChange, Free, BeginStop
  <2>4. session' \in [is: States, mesh: BOOLEAN] /\ cause' \in {"app", "system"} /\ status' \in States
    BY DEF VpnInv, VpnTypeOK, FlagsOK, CallsOK, Calls, Starting, Stopping, States, Active, applyMeshSettingChange, Free, BeginStop
  <2>5. toggles' \in 0 .. MaxToggles
    BY TogglesAssumption DEF VpnInv, VpnTypeOK, FlagsOK, applyMeshSettingChange, Free, BeginStop
  <2>. QED
    BY <2>1, <2>2, <2>3, <2>4, <2>5 DEF FlagsOK
<1>2. ASSUME op' # op PROVE CallsOK' /\ OneCall'
  <2>1. PICK c \in Calls : op' = [op EXCEPT ![o] = c] /\ (c.at = "none" => c = NoOp)
    <3>1. op' = [op EXCEPT ![o] = Call(IF status \in Active THEN "ipc" ELSE "clear", TRUE, ~setting)]
      BY <1>2 DEF applyMeshSettingChange, Free, BeginStop
    <3>. QED
      BY <3>1, CallType DEF VpnInv, VpnTypeOK, FlagsOK
  <2>2. (op[o] # NoOp \/ Quiet \/ "overlap" \in mishap') /\ mishap \subseteq mishap'
    BY DEF NoOp, Call, applyMeshSettingChange, Free, BeginStop
  <2>. QED
    BY <2>1, <2>2, OneMoves
<1>3. ASSUME op' = op PROVE CallsOK' /\ OneCall'
  BY <1>3 DEF VpnInv, VpnTypeOK, CallsOK, OneCall, applyMeshSettingChange, Free, BeginStop
<1>4. CallsOK' /\ OneCall'
  BY <1>2, <1>3
<1>5. NeverLeftBusy'
  BY DEF VpnInv, VpnTypeOK, CallsOK, NeverLeftBusy, Quiet, Call, NoOp, applyMeshSettingChange, Free, BeginStop
<1>6. OffInv'
  BY DEF VpnInv, VpnTypeOK, FlagsOK, CallsOK, Calls, Starting, Stopping, OneCall, OffInv, Quiet, States, Active, Call, NoOp, applyMeshSettingChange, Free, BeginStop
<1>7. StopInv'
  BY DEF VpnInv, VpnTypeOK, FlagsOK, CallsOK, Calls, Starting, Stopping, OneCall, StopInv, Quiet, States, Active, Call, NoOp, applyMeshSettingChange, Free, BeginStop
<1>. QED
  BY <1>1, <1>4, <1>5, <1>6, <1>7 DEF VpnInv, VpnTypeOK

LEMMA System_Inv ==
  ASSUME VpnInv, System
  PROVE  VpnInv'
<1>1. FlagsOK' /\ CallsOK'
  BY DEF VpnInv, VpnTypeOK, FlagsOK, CallsOK, States, Active, System, Connected, Disconnected, Dropped, OnDemand, In, user
<1>2. NeverLeftBusy' /\ OneCall'
  BY DEF VpnInv, NeverLeftBusy, OneCall, Quiet, System, Connected, Disconnected, Dropped, OnDemand, In, user
<1>4. OffInv'
  BY DEF VpnInv, VpnTypeOK, FlagsOK, CallsOK, Calls, Starting, Stopping, OneCall, OffInv, Quiet, States, Active, System, Connected, Disconnected, Dropped, OnDemand, In, user
<1>5. StopInv'
  BY DEF VpnInv, VpnTypeOK, FlagsOK, CallsOK, Calls, Starting, Stopping, OneCall, StopInv, Quiet, States, Active, System, Connected, Disconnected, Dropped, OnDemand, In, user
<1>. QED
  BY <1>1, <1>2, <1>4, <1>5 DEF VpnInv, VpnTypeOK

LEMMA refreshInstallState_Inv ==
  ASSUME VpnInv, refreshInstallState
  PROVE  VpnInv'
<1>1. UNCHANGED <<setting, wanted, toggles, prefs, session, cause, busy, stopRequested, reported,
                  op, mishap>>
  BY DEF refreshInstallState, user
<1>2. FlagsOK /\ CallsOK
  BY DEF VpnInv, VpnTypeOK
<1>3. FlagsOK'
  <2>1. session.is \in States /\ prefs.onDemand \in BOOLEAN
    BY <1>2 DEF FlagsOK
  <2>2. installed' \in BOOLEAN /\ memory' \in BOOLEAN
    BY <1>2, <2>1, Zenon DEF FlagsOK, refreshInstallState
  <2>3. status' \in States
    BY <2>1 DEF refreshInstallState
  <2>. QED
    BY <1>1, <1>2, <2>2, <2>3 DEF FlagsOK
<1>4. CallsOK' /\ NeverLeftBusy' /\ OneCall'
  BY <1>1, <1>2 DEF VpnInv, CallsOK, NeverLeftBusy, OneCall, Quiet
<1>5. OffInv'
  BY <1>1 DEF VpnInv, OffInv, Quiet, Active, refreshInstallState
<1>6. StopInv'
  BY <1>1 DEF VpnInv, StopInv, Active, refreshInstallState
<1>. QED
  BY <1>3, <1>4, <1>5, <1>6 DEF VpnInv, VpnTypeOK

LEMMA NEVPNStatusDidChange_Inv ==
  ASSUME VpnInv, NEVPNStatusDidChange
  PROVE  VpnInv'
<1>1. FlagsOK' /\ CallsOK'
  <2>1. UNCHANGED <<setting, wanted, toggles, prefs, memory, installed, session, cause, busy, stopRequested, op, mishap>>
    BY DEF NEVPNStatusDidChange, user
  <2>2. FlagsOK /\ CallsOK
    BY DEF VpnInv, VpnTypeOK
  <2>3. status' \in States
    <3>1. session \in [is: States, mesh: BOOLEAN]
      BY <2>2 DEF FlagsOK
    <3>2. session.is \in States
      BY <3>1
    <3>. QED
      BY <3>2 DEF NEVPNStatusDidChange
  <2>4. reported' \in BOOLEAN
    <3>1. stopRequested \in BOOLEAN /\ reported \in BOOLEAN
      BY <2>2, Zenon DEF FlagsOK
    <3>2. reported' = ~stopRequested \/ reported' = FALSE \/ reported' = reported
      BY DEF NEVPNStatusDidChange
    <3>. QED
      BY <3>1, <3>2, Zenon
  <2>5. CallsOK'
    BY <2>1, <2>2 DEF CallsOK
  <2>. QED
    BY <2>1, <2>2, <2>3, <2>4, <2>5 DEF FlagsOK
<1>2. NeverLeftBusy' /\ OneCall'
  BY DEF VpnInv, NeverLeftBusy, OneCall, Quiet, NEVPNStatusDidChange, user
<1>4. OffInv'
  BY DEF VpnInv, VpnTypeOK, FlagsOK, CallsOK, Calls, Starting, Stopping, OneCall, OffInv, Quiet, States, Active, NEVPNStatusDidChange, user
<1>5. StopInv'
  BY DEF VpnInv, VpnTypeOK, FlagsOK, CallsOK, Calls, Starting, Stopping, OneCall, StopInv, Quiet, States, Active, NEVPNStatusDidChange, user
<1>. QED
  BY <1>1, <1>2, <1>4, <1>5 DEF VpnInv, VpnTypeOK

-----------------------------------------------------------------------------
LEMMA VpnInitInv ==
  VpnInit => VpnInv
<1> SUFFICES ASSUME VpnInit PROVE VpnInv
  OBVIOUS
<1>1. FlagsOK
  <2>1. setting \in BOOLEAN /\ wanted \in BOOLEAN /\ memory \in BOOLEAN /\ installed \in BOOLEAN
        /\ busy \in BOOLEAN /\ stopRequested \in BOOLEAN /\ reported \in BOOLEAN
    BY Zenon DEF VpnInit
  <2>2. prefs \in [onDemand: BOOLEAN, mesh: BOOLEAN] /\ session \in [is: States, mesh: BOOLEAN]
    BY DEF VpnInit, States
  <2>. QED
    BY <2>1, <2>2, TogglesAssumption DEF VpnInit, FlagsOK, States
<1>2. CallsOK /\ Quiet
  BY NoOpType DEF VpnInit, CallsOK, Quiet
<1>3. NoOp.at = "none" /\ ~NoOp.then
  BY DEF NoOp, Call
<1>4. \A o \in Ops : op[o].at = "none" /\ ~op[o].then
  BY <1>2, <1>3, Zenon DEF Quiet
<1>. QED
  BY <1>1, <1>2, <1>4
  DEF VpnInit, VpnInv, VpnTypeOK, NeverLeftBusy, OneCall, OffInv, StopInv, Quiet, Active

LEMMA VpnNextInv ==
  VpnInv /\ [VpnNext]_vpnVars => VpnInv'
<1> SUFFICES ASSUME VpnInv, [VpnNext]_vpnVars PROVE VpnInv'
  OBVIOUS
<1>1. ASSUME NEW o \in Ops, Proceed(o) PROVE VpnInv'
  BY <1>1, installVPNConfiguration_Inv, applyProtocol_Inv, Saved_Inv, startVPNTunnel_Inv, StopMesh_Inv,
     ClearOnDemand_Inv, SaveCleared_Inv, stopVPNTunnel_Inv, Settle_Inv, Reasserted_Inv DEF Proceed
<1>2. ASSUME NEW o \in Ops, setProxyEnabled(o) \/ applyMeshSettingChange(o) PROVE VpnInv'
  BY <1>2, setProxyEnabled_Inv, applyMeshSettingChange_Inv
<1>3. CASE UNCHANGED vpnVars
  BY <1>3 DEF vpnVars, VpnInv, VpnTypeOK, FlagsOK, CallsOK, NeverLeftBusy, OneCall, OffInv, StopInv, Quiet
<1>. QED
  BY <1>1, <1>2, <1>3, System_Inv, refreshInstallState_Inv, NEVPNStatusDidChange_Inv DEF VpnNext

LEMMA VpnInvariant == VpnSpec => []VpnInv
BY VpnInitInv, VpnNextInv, PTL DEF VpnSpec

\* However the calls of the manager overlap and fail, the home screen is not
\* left disabled, and a user who wants the tunnel off is not reconnected by the
\* system once the manager is done, unless a save failed, two calls overlapped or
\* the app was killed during a stop.
THEOREM VpnSafe == VpnSpec => []VpnSafetyInv
<1>1. VpnInv => VpnSafetyInv
  BY DEF VpnInv, VpnSafetyInv, StopClearsOnDemand, OffInv
<1>. QED
  BY <1>1, VpnInvariant, PTL

\* A stop that the user or the app asked for is never reported as a lost tunnel,
\* unless two calls overlapped: only the notification of a change reports, and by
\* StopInv the session was then lost.
THEOREM VpnIntentionalIsQuiet == VpnSpec => IntentionalIsQuiet
<1>1. ASSUME VpnInv, [VpnNext]_vpnVars, ~reported, reported', "overlap" \notin mishap
      PROVE  cause = "system"
  <2>1. ASSUME NEW o \in Ops, Proceed(o) PROVE FALSE
    BY <1>1, <2>1 DEF Proceed, installVPNConfiguration, applyProtocol, Saved, startVPNTunnel, StopMesh,
       ClearOnDemand, SaveCleared, stopVPNTunnel, Settle, Reasserted, Begin
  <2>2. ASSUME NEW o \in Ops, setProxyEnabled(o) \/ applyMeshSettingChange(o) PROVE FALSE
    BY <1>1, <2>2 DEF setProxyEnabled, applyMeshSettingChange, Begin
  <2>3. ~System /\ ~refreshInstallState /\ ~UNCHANGED vpnVars
    BY <1>1 DEF System, refreshInstallState, vpnVars
  <2>4. NEVPNStatusDidChange
    BY <1>1, <2>1, <2>2, <2>3 DEF VpnNext
  <2>5. status \in Active /\ session.is = "off" /\ ~stopRequested
    BY <1>1, <2>4, Zenon DEF NEVPNStatusDidChange
  <2>. QED
    BY <1>1, <2>5 DEF VpnInv, StopInv, Active
<1>2. VpnInv /\ [VpnNext]_vpnVars
      => [~reported /\ reported' /\ "overlap" \notin mishap => cause = "system"]_vpnVars
  BY <1>1
<1>. QED
  BY <1>2, VpnInvariant, PTL DEF VpnSpec, IntentionalIsQuiet

-----------------------------------------------------------------------------
(* The packet tunnel: its threads *)

LEMMA ThreadFacts ==
  /\ \A s \in Sessions : /\ Boot(s) \in Threads /\ Stop(s) \in Threads
                         /\ Session(Boot(s)) = s /\ Session(Stop(s)) = s
  /\ \A s, r \in Sessions : /\ Boot(s) # Stop(r)
                            /\ Boot(s) = Boot(r) => s = r
                            /\ Stop(s) = Stop(r) => s = r
  /\ \A t \in Threads : /\ Session(t) \in Sessions
                        /\ t = Boot(Session(t)) \/ t = Stop(Session(t))
BY DEF Threads, Boot, Stop, Session

\* A thread that moves leaves the others where they are.
LEMMA Moves ==
  ASSUME ThreadsOK, NEW t \in Threads, NEW job \in Jobs, job # "idle", NEW at \in Places,
         NEW joins \in Sessions \union {None}, at = "join" <=> joins # None,
         thread' = [thread EXCEPT ![t] = [job |-> job, at |-> at, joins |-> joins]]
  PROVE  /\ ThreadsOK'
         /\ \A r \in Threads : r # t => thread'[r] = thread[r]
         /\ thread'[t].job = job /\ thread'[t].at = at /\ thread'[t].joins = joins
         /\ thread'[t] # Idle
<1>1. [job |-> job, at |-> at, joins |-> joins] \in [job: Jobs, at: Places, joins: Sessions \union {None}]
  OBVIOUS
<1>2. thread'[t] = [job |-> job, at |-> at, joins |-> joins]
  BY DEF ThreadsOK
<1>3. thread'[t].job = job /\ thread'[t].at = at /\ thread'[t].joins = joins
  BY <1>2
<1>4. \A r \in Threads : r # t => thread'[r] = thread[r]
  BY DEF ThreadsOK
<1>5. thread' \in [Threads -> [job: Jobs, at: Places, joins: Sessions \union {None}]]
  BY <1>1 DEF ThreadsOK
<1>6. ThreadsOK'
  BY <1>3, <1>4, <1>5 DEF ThreadsOK
<1>7. Idle.job = "idle"
  BY DEF Idle
<1>. QED
  BY <1>3, <1>4, <1>6, <1>7

LEMMA GoesMoves ==
  ASSUME ThreadsOK, NEW t \in Threads, NEW job \in Jobs, job # "idle", NEW at \in Places, at # "join",
         Goes(t, job, at)
  PROVE  /\ ThreadsOK'
         /\ \A r \in Threads : r # t => thread'[r] = thread[r]
         /\ thread'[t].job = job /\ thread'[t].at = at /\ thread'[t].joins = None
         /\ thread'[t] # Idle
BY Moves DEF Goes

LEMMA JoinsMoves ==
  ASSUME ThreadsOK, NEW t \in Threads, thread[t].job # "idle", NEW s \in Sessions, Joins(t, s)
  PROVE  /\ ThreadsOK'
         /\ \A r \in Threads : r # t => thread'[r] = thread[r]
         /\ thread'[t].job = thread[t].job /\ thread'[t].at = "join" /\ thread'[t].joins = s
         /\ thread'[t] # Idle
<1>1. thread[t].job \in Jobs /\ "join" \in Places /\ s # None
  BY NoneAssumption DEF ThreadsOK, Places, Sessions
<1>. QED
  BY <1>1, Moves DEF Joins

LEMMA BootGoes ==
  ASSUME ThreadsOK, NEW s \in Sessions, NEW job \in Jobs, job # "idle", NEW at \in Places, at # "join",
         Goes(Boot(s), job, at)
  PROVE  /\ ThreadsOK'
         /\ \A r \in Sessions : thread'[Stop(r)] = thread[Stop(r)]
         /\ \A r \in Sessions : r # s => thread'[Boot(r)] = thread[Boot(r)]
         /\ thread'[Boot(s)].job = job /\ thread'[Boot(s)].at = at /\ thread'[Boot(s)].joins = None
         /\ thread'[Boot(s)] # Idle
BY ThreadFacts, GoesMoves

LEMMA BootJoins ==
  ASSUME ThreadsOK, NEW s \in Sessions, thread[Boot(s)].job # "idle", NEW q \in Sessions, Joins(Boot(s), q)
  PROVE  /\ ThreadsOK'
         /\ \A r \in Sessions : thread'[Stop(r)] = thread[Stop(r)]
         /\ \A r \in Sessions : r # s => thread'[Boot(r)] = thread[Boot(r)]
         /\ thread'[Boot(s)].job = thread[Boot(s)].job /\ thread'[Boot(s)].at = "join"
         /\ thread'[Boot(s)].joins = q
         /\ thread'[Boot(s)] # Idle
BY ThreadFacts, JoinsMoves

LEMMA StopGoes ==
  ASSUME ThreadsOK, NEW s \in Sessions, NEW job \in Jobs, job # "idle", NEW at \in Places, at # "join",
         Goes(Stop(s), job, at)
  PROVE  /\ ThreadsOK'
         /\ \A r \in Sessions : thread'[Boot(r)] = thread[Boot(r)]
         /\ \A r \in Sessions : r # s => thread'[Stop(r)] = thread[Stop(r)]
         /\ thread'[Stop(s)].job = job /\ thread'[Stop(s)].at = at /\ thread'[Stop(s)].joins = None
         /\ thread'[Stop(s)] # Idle
BY ThreadFacts, GoesMoves

LEMMA StopJoins ==
  ASSUME ThreadsOK, NEW s \in Sessions, thread[Stop(s)].job # "idle", NEW q \in Sessions, Joins(Stop(s), q)
  PROVE  /\ ThreadsOK'
         /\ \A r \in Sessions : thread'[Boot(r)] = thread[Boot(r)]
         /\ \A r \in Sessions : r # s => thread'[Stop(r)] = thread[Stop(r)]
         /\ thread'[Stop(s)].job = thread[Stop(s)].job /\ thread'[Stop(s)].at = "join"
         /\ thread'[Stop(s)].joins = q
         /\ thread'[Stop(s)] # Idle
BY ThreadFacts, JoinsMoves

LEMMA IdleFields == Idle.job = "idle" /\ Idle.at = "none" /\ Idle.joins = None
BY DEF Idle

LEMMA NoneNotSession == None \notin Sessions
BY NoneAssumption DEF Sessions

\* The parts of the invariant that an action may disturb.
Rest ==
    \A s \in Sessions :
        JobOK(s) /\ SessionOK(s) /\ MeshOK(s) /\ EngineOK(s) /\ PlatformOK(s) /\ HandleOK(s)

LEMMA NotJoining ==
  ASSUME TunnelInv, NEW s \in Sessions
  PROVE  /\ thread[Boot(s)].at # "join" => thread[Boot(s)].joins = None
         /\ thread[Stop(s)].at # "join" => thread[Stop(s)].joins = None
BY ThreadFacts DEF TunnelInv, TypeOK, ThreadsOK

\* The order of the sessions survives a step of a start that is under way.
LEMMA SessionBoot ==
  ASSUME TunnelInv, NEW s \in Sessions, UNCHANGED overtaken,
         thread[Boot(s)].job \notin {"idle", "done", "failed"}, thread'[Boot(s)] # Idle,
         \A r \in Sessions : thread'[Stop(r)] = thread[Stop(r)],
         \A r \in Sessions : r # s => thread'[Boot(r)] = thread[Boot(r)]
  PROVE  \A r \in Sessions : SessionOK(r)'
<1>1. \A r \in Sessions : Ended(r) => Ended(r)'
  BY DEF Ended
<1>2. thread[Boot(s)] # Idle
  BY IdleFields
<1>. QED
  BY <1>1, <1>2 DEF TunnelInv, SessionOK

\* The order of the sessions survives a step of a stop that is under way.
LEMMA SessionStop ==
  ASSUME TunnelInv, NEW s \in Sessions, UNCHANGED overtaken,
         thread[Stop(s)].job = "final", thread'[Stop(s)] # Idle,
         \A r \in Sessions : thread'[Boot(r)] = thread[Boot(r)],
         \A r \in Sessions : r # s => thread'[Stop(r)] = thread[Stop(r)]
  PROVE  \A r \in Sessions : SessionOK(r)'
<1>1. thread[Stop(s)] # Idle
  BY IdleFields
<1>2. \A r \in Sessions : Ended(r) => Ended(r)'
  BY <1>1 DEF Ended
<1>. QED
  BY <1>1, <1>2 DEF TunnelInv, SessionOK

\* A start that goes on without touching a finished engine.
LEMMA HandleBoot ==
  ASSUME TunnelInv, NEW s \in Sessions, UNCHANGED <<overtaken, slot>>,
         \A r \in Sessions : r # s => engine'[r] = engine[r],
         thread'[Boot(s)].job # "done",
         \A r \in Sessions : thread'[Stop(r)] = thread[Stop(r)],
         \A r \in Sessions : r # s => thread'[Boot(r)] = thread[Boot(r)]
  PROVE  \A r \in Sessions : HandleOK(r)'
BY DEF TunnelInv, HandleOK

\* A stop that has its engine behind it.
LEMMA HandleStop ==
  ASSUME TunnelInv, NEW s \in Sessions, UNCHANGED <<overtaken, slot, engine>>,
         \/ thread[Stop(s)].at \notin {"take", "join"}
         \/ thread[Stop(s)].at = "join" /\ engine[thread[Stop(s)].joins] = "ended"
         \/ thread[Stop(s)].at = "take" /\ slot = None,
         thread[Stop(s)].job = "final",
         \A r \in Sessions : thread'[Boot(r)] = thread[Boot(r)],
         \A r \in Sessions : r # s => thread'[Stop(r)] = thread[Stop(r)]
  PROVE  \A r \in Sessions : HandleOK(r)'
<1>1. thread[Stop(s)] # Idle
  BY IdleFields
<1>2. thread[Stop(s)].at # "join" => thread[Stop(s)].joins = None
  BY ThreadFacts DEF TunnelInv, TypeOK, ThreadsOK
<1>. QED
  BY <1>1, <1>2, NoneNotSession DEF TunnelInv, HandleOK

\* Between the end of a start and the end of its stop nothing else runs in the
\* process, when no stop has overtaken its start so far.
LEMMA Alone ==
  ASSUME TunnelInv, NEW q \in Sessions, (1 .. q) \intersect overtaken = {},
         thread[Boot(q)].job = "done", thread[Stop(q)].job # "done", NEW s \in Sessions
  PROVE  /\ thread[Boot(s)].job \in {"idle", "done", "failed"}
         /\ s # q => thread[Stop(s)].job \in {"idle", "done"}
<1>1. CASE s = q
  BY <1>1
<1>2. CASE s < q
  <2>1. Ended(s)
    BY <1>2, IdleFields DEF TunnelInv, SessionOK
  <2>2. s \notin overtaken
    BY <1>2 DEF Sessions
  <2>. QED
    BY <2>1, <2>2, IdleFields DEF TunnelInv, SessionOK, Ended
<1>3. CASE q < s
  <2>1. ~Ended(q)
    BY DEF Ended
  <2>2. thread[Boot(s)] = Idle /\ thread[Stop(s)] = Idle
    BY <1>3, <2>1 DEF TunnelInv, SessionOK
  <2>. QED
    BY <2>2, IdleFields
<1>. QED
  BY <1>1, <1>2, <1>3 DEF Sessions

\* A start or a stop that takes another engine, or replaces it, finds none that
\* still waits for its own stop.
LEMMA HandleTaken ==
  ASSUME TunnelInv, NEW s \in Sessions, UNCHANGED <<overtaken, engine>>,
         \/ /\ thread[Boot(s)].job \notin {"idle", "done", "failed"}
            /\ thread'[Boot(s)].job = "done" => slot' = s /\ (s \notin overtaken => thread[Stop(s)] = Idle)
            /\ \A r \in Sessions : thread'[Stop(r)] = thread[Stop(r)]
            /\ \A r \in Sessions : r # s => thread'[Boot(r)] = thread[Boot(r)]
         \/ /\ thread[Stop(s)].job = "final" /\ thread[Stop(s)].at = "take"
            /\ thread'[Stop(s)].joins = slot
            /\ \A r \in Sessions : thread'[Boot(r)] = thread[Boot(r)]
            /\ \A r \in Sessions : r # s => thread'[Stop(r)] = thread[Stop(r)]
  PROVE  \A r \in Sessions : HandleOK(r)'
<1> SUFFICES ASSUME NEW r \in Sessions, (1 .. r) \intersect overtaken = {}, thread'[Boot(r)].job = "done",
                    engine[r] # "ended"
             PROVE  \/ slot' = r /\ (thread'[Stop(r)] = Idle \/ thread'[Stop(r)].at = "take")
                    \/ thread'[Stop(r)].joins = r
  BY DEF HandleOK
<1>1. CASE r # s
  <2>1. thread[Boot(r)].job = "done" /\ thread'[Stop(r)] = thread[Stop(r)]
    BY <1>1
  <2>2. CASE thread[Stop(r)].job # "done"
    BY <1>1, <2>1, <2>2, Alone
  <2>3. CASE thread[Stop(r)].job = "done"
    <3>2. thread[Stop(r)] # Idle
      BY <2>3, IdleFields
    <3>3. thread[Stop(r)].at # "take" /\ thread[Stop(r)].joins # r
      <4>1. Legal(thread[Stop(r)])
        BY DEF TunnelInv, JobOK
      <4>2. thread[Stop(r)].at \notin {"take", "join"}
        BY <2>3, <4>1 DEF Legal
      <4>3. thread[Stop(r)].joins = None
        BY <4>2, NotJoining
      <4>. QED
        BY <4>2, <4>3, NoneNotSession
    <3>. QED
      BY <2>1, <3>2, <3>3 DEF TunnelInv, HandleOK
  <2>. QED
    BY <2>2, <2>3
<1>2. CASE r = s
  <2>1. s \notin overtaken
    BY <1>2 DEF Sessions
  <2>2. CASE thread[Boot(s)].job = "done"
    <3>1. thread[Stop(s)].job = "final" /\ thread[Stop(s)].at = "take" /\ thread[Stop(s)] # Idle
          /\ thread'[Stop(s)].joins = slot
      BY <2>2, IdleFields
    <3>2. thread[Stop(s)].joins # s
      BY <3>1, ThreadFacts, NoneNotSession DEF TunnelInv, TypeOK, ThreadsOK
    <3>. QED
      BY <1>2, <2>2, <3>1, <3>2 DEF TunnelInv, HandleOK
  <2>3. CASE thread[Boot(s)].job # "done"
    BY <1>2, <2>1, <2>3
  <2>. QED
    BY <2>2, <2>3
<1>. QED
  BY <1>1, <1>2

LEMMA SessionStarted ==
  ASSUME TunnelInv, NEW s \in Sessions, UNCHANGED overtaken,
         thread[Boot(s)] = Idle, s > 1 => Ended(s - 1), thread'[Boot(s)] # Idle,
         \A r \in Sessions : thread'[Stop(r)] = thread[Stop(r)],
         \A r \in Sessions : r # s => thread'[Boot(r)] = thread[Boot(r)]
  PROVE  \A r \in Sessions : SessionOK(r)'
<1>1. thread[Stop(s)] = Idle
  BY DEF TunnelInv, SessionOK
<1>2. \A r \in Sessions : Ended(r) => Ended(r)' /\ thread[Boot(r)] # Idle
  BY IdleFields DEF TunnelInv, SessionOK, Ended
<1>3. ASSUME NEW r \in Sessions, r < s PROVE Ended(r)
  <2>1. s > 1 /\ s - 1 \in Sessions /\ (r = s - 1 \/ r < s - 1)
    BY <1>3, BoundsAssumption DEF Sessions
  <2>. QED
    BY <1>2, <2>1 DEF TunnelInv, SessionOK
<1>. QED
  BY <1>1, <1>2, <1>3 DEF TunnelInv, SessionOK

LEMMA SessionStopped ==
  ASSUME TunnelInv, NEW s \in Sessions, thread[Stop(s)] = Idle, thread[Boot(s)] # Idle,
         \A r \in Sessions : r > s => thread[Boot(r)] = Idle,
         overtaken' = IF thread[Boot(s)].job \in {"done", "failed"} THEN overtaken ELSE overtaken \union {s},
         \A r \in Sessions : thread'[Boot(r)] = thread[Boot(r)],
         \A r \in Sessions : r # s => thread'[Stop(r)] = thread[Stop(r)]
  PROVE  \A r \in Sessions : SessionOK(r)'
<1>1. \A r \in Sessions : r # s => (Ended(r) => Ended(r)')
  BY DEF Ended
<1>2. \A r \in Sessions : s < r => thread[Boot(r)] = Idle
  BY DEF Sessions
<1>3. \A r \in Sessions : thread'[Stop(r)] # Idle => thread'[Boot(r)] # Idle
  BY DEF TunnelInv, SessionOK
<1>4. \A r \in Sessions : thread'[Stop(r)] # Idle /\ r \notin overtaken' => thread'[Boot(r)].job \in {"done", "failed"}
  BY DEF TunnelInv, SessionOK
<1>5. \A r \in Sessions : thread'[Boot(r)] # Idle => \A q \in Sessions : q < r => Ended(q)'
  BY <1>1, <1>2 DEF TunnelInv, SessionOK
<1>. QED
  BY <1>3, <1>4, <1>5 DEF SessionOK

LEMMA HandleStopped ==
  ASSUME TunnelInv, NEW s \in Sessions, UNCHANGED <<engine, slot>>, overtaken \subseteq overtaken',
         thread[Stop(s)] = Idle, thread'[Stop(s)].at = "take",
         \A r \in Sessions : thread'[Boot(r)] = thread[Boot(r)],
         \A r \in Sessions : r # s => thread'[Stop(r)] = thread[Stop(r)]
  PROVE  \A r \in Sessions : HandleOK(r)'
<1>1. \A r \in Sessions : (1 .. r) \intersect overtaken' = {} => (1 .. r) \intersect overtaken = {}
  OBVIOUS
<1>. QED
  BY <1>1, IdleFields, NoneNotSession DEF TunnelInv, HandleOK

LEMMA startTunnel_Inv ==
  ASSUME TunnelInv, NEW s \in Sessions, startTunnel(s)
  PROVE  TunnelInv'
<1>1. ThreadsOK' /\ Rest'
  <2>1. /\ thread[Boot(s)] = Idle
        /\ s > 1 => Ended(s - 1)
        /\ \A r \in Sessions : r # s => (meshAllowed'[r] <=> meshAllowed[r])
        /\ UNCHANGED <<platform, queue, mesh, meshEnded, engine, report, inbox, slot, lock, commands, dangling, overtaken>>
        /\ Goes(Boot(s), "reset", "take")
    BY ThreadFacts DEF TunnelInv, TypeOK, JobOK, Legal, Teardown, startTunnel, native
  <2>2. "reset" \in Jobs \ {"idle"} /\ "take" \in Places \ {"join"}
    BY <2>1, NoneNotSession DEF TunnelInv, TypeOK, JobOK, Legal, Jobs, Places, Teardown
  <2>3. /\ ThreadsOK'
        /\ \A r \in Sessions : thread'[Stop(r)] = thread[Stop(r)]
        /\ \A r \in Sessions : r # s => thread'[Boot(r)] = thread[Boot(r)]
        /\ thread'[Boot(s)].job = "reset" /\ thread'[Boot(s)].at = "take" /\ thread'[Boot(s)].joins = None
        /\ thread'[Boot(s)] # Idle
    BY <2>1, <2>2, BootGoes, Zenon DEF TunnelInv, TypeOK
  <2>4. \A r \in Sessions : r # s => JobOK(r)' /\ MeshOK(r)' /\ EngineOK(r)' /\ PlatformOK(r)'
    BY <2>1, <2>3, NoneNotSession DEF TunnelInv, JobOK, MeshOK, EngineOK, PlatformOK
  <2>5. JobOK(s)'
    BY <2>1, <2>3 DEF TunnelInv, JobOK, Legal, Teardown
  <2>6. \A r \in Sessions : SessionOK(r)'
    BY <2>1, <2>3, SessionStarted, IdleFields
  <2>7. MeshOK(s)'
    BY <2>1, <2>3, IdleFields DEF TunnelInv, JobOK, SessionOK, MeshOK
  <2>8. EngineOK(s)'
    BY <2>1, <2>3, NoneNotSession, NotJoining, IdleFields DEF TunnelInv, JobOK, Legal, EngineOK
  <2>9. PlatformOK(s)'
    BY <2>1, <2>3, IdleFields DEF TunnelInv, JobOK, SessionOK, EngineOK, PlatformOK
  <2>10. \A r \in Sessions : HandleOK(r)'
    BY <2>1, <2>3, HandleBoot, NoneNotSession, IdleFields
  <2>. QED
    BY <2>3, <2>4, <2>5, <2>6, <2>7, <2>8, <2>9, <2>10 DEF Rest
<1>3. TypeOK'
  <2>1. ThreadsOK'
    BY <1>1
  <2>2. /\ meshAllowed' \in [Sessions -> BOOLEAN] /\ queue' \in [Sessions -> BOOLEAN]
        /\ platform' \in [Sessions -> {"none", "alive", "reset", "freed"}]
        /\ mesh' \subseteq Sessions /\ meshEnded' \subseteq Sessions
        /\ dangling' \subseteq Sessions /\ overtaken' \subseteq Sessions
    BY ThreadFacts DEF TunnelInv, TypeOK, startTunnel, native
  <2>3. /\ engine' \in [Sessions -> {"none", "configuring", "starting", "serving", "ended"}]
        /\ report' \in [Sessions -> {"none", "ok", "error"}] /\ slot' \in Sessions \union {None}
        /\ commands' \in 0 .. MaxCommands /\ lock' \in 0 .. commands'
    BY ThreadFacts, BoundsAssumption DEF TunnelInv, TypeOK, startTunnel, native
  <2>4. inbox' \in [Sessions -> Seq(0 .. MaxCommands)]
    BY ThreadFacts, BoundsAssumption DEF TunnelInv, TypeOK, startTunnel, native
  <2>. QED
    BY <2>1, <2>2, <2>3, <2>4 DEF TypeOK
<1>. QED
  BY <1>1, <1>3 DEF TunnelInv, Rest

LEMMA stopTunnel_Inv ==
  ASSUME TunnelInv, NEW s \in Sessions, stopTunnel(s)
  PROVE  TunnelInv'
<1>1. ThreadsOK' /\ Rest'
  <2>1. /\ thread[Stop(s)] = Idle
        /\ thread[Boot(s)] # Idle
        /\ \A r \in Sessions : r > s => thread[Boot(r)] = Idle
        /\ ~meshAllowed'[s] /\ \A r \in Sessions : r # s => (meshAllowed'[r] <=> meshAllowed[r])
        /\ overtaken' = IF thread[Boot(s)].job \in {"done", "failed"} THEN overtaken ELSE overtaken \union {s}
        /\ UNCHANGED <<platform, queue, mesh, meshEnded, engine, report, inbox, slot, lock, commands, dangling>>
        /\ Goes(Stop(s), "final", "take")
    BY ThreadFacts DEF TunnelInv, TypeOK, JobOK, Legal, Teardown, stopTunnel, native
  <2>2. "final" \in Jobs \ {"idle"} /\ "take" \in Places \ {"join"}
    BY <2>1, NoneNotSession DEF TunnelInv, TypeOK, JobOK, Legal, Jobs, Places, Teardown
  <2>3. /\ ThreadsOK'
        /\ \A r \in Sessions : thread'[Boot(r)] = thread[Boot(r)]
        /\ \A r \in Sessions : r # s => thread'[Stop(r)] = thread[Stop(r)]
        /\ thread'[Stop(s)].job = "final" /\ thread'[Stop(s)].at = "take" /\ thread'[Stop(s)].joins = None
        /\ thread'[Stop(s)] # Idle
    BY <2>1, <2>2, StopGoes, Zenon DEF TunnelInv, TypeOK
  <2>4. \A r \in Sessions : r # s => JobOK(r)' /\ MeshOK(r)' /\ EngineOK(r)' /\ PlatformOK(r)'
    BY <2>1, <2>3, NoneNotSession DEF TunnelInv, JobOK, MeshOK, EngineOK, PlatformOK
  <2>5. JobOK(s)'
    BY <2>1, <2>3 DEF TunnelInv, JobOK, Legal, Teardown
  <2>6. \A r \in Sessions : SessionOK(r)'
    BY <2>1, <2>3, SessionStopped, IdleFields
  <2>7. MeshOK(s)'
    BY <2>1, <2>3, IdleFields DEF TunnelInv, JobOK, SessionOK, MeshOK
  <2>8. EngineOK(s)'
    BY <2>1, <2>3, NoneNotSession, NotJoining, IdleFields DEF TunnelInv, JobOK, Legal, EngineOK
  <2>9. PlatformOK(s)'
    BY <2>1, <2>3, IdleFields DEF TunnelInv, JobOK, SessionOK, EngineOK, PlatformOK
  <2>10. \A r \in Sessions : HandleOK(r)'
    BY <2>1, <2>3, HandleStopped, NoneNotSession, IdleFields
  <2>. QED
    BY <2>3, <2>4, <2>5, <2>6, <2>7, <2>8, <2>9, <2>10 DEF Rest
<1>3. TypeOK'
  <2>1. ThreadsOK'
    BY <1>1
  <2>2. /\ meshAllowed' \in [Sessions -> BOOLEAN] /\ queue' \in [Sessions -> BOOLEAN]
        /\ platform' \in [Sessions -> {"none", "alive", "reset", "freed"}]
        /\ mesh' \subseteq Sessions /\ meshEnded' \subseteq Sessions
        /\ dangling' \subseteq Sessions /\ overtaken' \subseteq Sessions
    BY ThreadFacts DEF TunnelInv, TypeOK, stopTunnel, native
  <2>3. /\ engine' \in [Sessions -> {"none", "configuring", "starting", "serving", "ended"}]
        /\ report' \in [Sessions -> {"none", "ok", "error"}] /\ slot' \in Sessions \union {None}
        /\ commands' \in 0 .. MaxCommands /\ lock' \in 0 .. commands'
    BY ThreadFacts, BoundsAssumption DEF TunnelInv, TypeOK, stopTunnel, native
  <2>4. inbox' \in [Sessions -> Seq(0 .. MaxCommands)]
    BY ThreadFacts, BoundsAssumption DEF TunnelInv, TypeOK, stopTunnel, native
  <2>. QED
    BY <2>1, <2>2, <2>3, <2>4 DEF TypeOK
<1>. QED
  BY <1>1, <1>3 DEF TunnelInv, Rest

LEMMA stopMeshFully_Inv ==
  ASSUME TunnelInv, NEW s \in Sessions, stopMeshFully(s)
  PROVE  TunnelInv'
<1>1. UNCHANGED thread
  BY DEF stopMeshFully, native
<1>2. TypeOK'
  <2>1. ThreadsOK'
    BY <1>1 DEF TunnelInv, TypeOK, ThreadsOK
  <2>2. /\ meshAllowed' \in [Sessions -> BOOLEAN] /\ queue' \in [Sessions -> BOOLEAN]
        /\ platform' \in [Sessions -> {"none", "alive", "reset", "freed"}]
        /\ mesh' \subseteq Sessions /\ meshEnded' \subseteq Sessions
        /\ dangling' \subseteq Sessions /\ overtaken' \subseteq Sessions
    BY ThreadFacts DEF TunnelInv, TypeOK, stopMeshFully, native
  <2>3. /\ engine' \in [Sessions -> {"none", "configuring", "starting", "serving", "ended"}]
        /\ report' \in [Sessions -> {"none", "ok", "error"}] /\ slot' \in Sessions \union {None}
        /\ commands' \in 0 .. MaxCommands /\ lock' \in 0 .. commands'
    BY ThreadFacts, BoundsAssumption DEF TunnelInv, TypeOK, stopMeshFully, native
  <2>4. inbox' \in [Sessions -> Seq(0 .. MaxCommands)]
    BY ThreadFacts, BoundsAssumption DEF TunnelInv, TypeOK, stopMeshFully, native
  <2>. QED
    BY <2>1, <2>2, <2>3, <2>4 DEF TypeOK
<1>3. ASSUME NEW r \in Sessions
      PROVE  JobOK(r)' /\ SessionOK(r)' /\ MeshOK(r)' /\ EngineOK(r)' /\ PlatformOK(r)' /\ HandleOK(r)'
  <2>1. JobOK(r)' /\ SessionOK(r)'
    BY <1>1 DEF TunnelInv, JobOK, SessionOK, Ended, stopMeshFully, native
  <2>2. MeshOK(r)'
    BY <1>1, IdleFields DEF TunnelInv, TypeOK, MeshOK, stopMeshFully, native
  <2>3. EngineOK(r)'
    BY <1>1 DEF TunnelInv, TypeOK, EngineOK, stopMeshFully, native
  <2>4. PlatformOK(r)'
    BY <1>1 DEF TunnelInv, TypeOK, EngineOK, PlatformOK, stopMeshFully, native
  <2>5. HandleOK(r)'
    BY <1>1 DEF TunnelInv, TypeOK, HandleOK, stopMeshFully, native
  <2>. QED
    BY <2>1, <2>2, <2>3, <2>4, <2>5
<1>. QED
  BY <1>2, <1>3 DEF TunnelInv

LEMMA stop_Inv ==
  ASSUME TunnelInv, NEW t \in Threads, stop(t)
  PROVE  TunnelInv'
<1>0. PICK s \in Sessions : Session(t) = s /\ (t = Boot(s) \/ t = Stop(s))
  BY ThreadFacts
<1>1. ASSUME t = Boot(s) /\ slot = None /\ thread[t].job = "start" PROVE ThreadsOK' /\ Rest'
  <2>1. /\ thread[Boot(s)].at = "take"
        /\ thread[Boot(s)].job = "start"
        /\ UNCHANGED <<meshAllowed, platform, queue, mesh, meshEnded, engine, report, inbox, slot, lock, commands, dangling, overtaken>>
        /\ Goes(Boot(s), "start", "spawn")
    BY <1>1, <1>0, ThreadFacts DEF TunnelInv, TypeOK, JobOK, Legal, Teardown, stop, native
  <2>2. "start" \in Jobs \ {"idle"} /\ "spawn" \in Places \ {"join"}
    BY <1>1, <2>1, NoneNotSession DEF TunnelInv, TypeOK, JobOK, Legal, Jobs, Places, Teardown
  <2>3. /\ ThreadsOK'
        /\ \A r \in Sessions : thread'[Stop(r)] = thread[Stop(r)]
        /\ \A r \in Sessions : r # s => thread'[Boot(r)] = thread[Boot(r)]
        /\ thread'[Boot(s)].job = "start" /\ thread'[Boot(s)].at = "spawn" /\ thread'[Boot(s)].joins = None
        /\ thread'[Boot(s)] # Idle
    BY <2>1, <2>2, BootGoes, Zenon DEF TunnelInv, TypeOK
  <2>4. \A r \in Sessions : r # s => JobOK(r)' /\ MeshOK(r)' /\ EngineOK(r)' /\ PlatformOK(r)'
    BY <2>1, <2>3, NoneNotSession DEF TunnelInv, JobOK, MeshOK, EngineOK, PlatformOK
  <2>5. JobOK(s)'
    BY <2>1, <2>3 DEF TunnelInv, JobOK, Legal, Teardown
  <2>6. \A r \in Sessions : SessionOK(r)'
    BY <2>1, <2>3, SessionBoot, IdleFields
  <2>7. MeshOK(s)'
    BY <2>1, <2>3, IdleFields DEF TunnelInv, JobOK, SessionOK, MeshOK
  <2>8. EngineOK(s)'
    BY <2>1, <2>3, NoneNotSession, NotJoining, IdleFields DEF TunnelInv, JobOK, Legal, EngineOK
  <2>9. PlatformOK(s)'
    BY <2>1, <2>3, IdleFields DEF TunnelInv, JobOK, SessionOK, EngineOK, PlatformOK
  <2>10. \A r \in Sessions : HandleOK(r)'
    BY <2>1, <2>3, HandleBoot, NoneNotSession, IdleFields
  <2>. QED
    BY <2>3, <2>4, <2>5, <2>6, <2>7, <2>8, <2>9, <2>10 DEF Rest
<1>2. ASSUME t = Boot(s) /\ slot = None /\ thread[t].job # "start" PROVE ThreadsOK' /\ Rest'
  <2>1. /\ thread[Boot(s)].at = "take"
        /\ thread[Boot(s)].job \in {"reset", "fail"}
        /\ UNCHANGED <<meshAllowed, platform, queue, mesh, meshEnded, engine, report, inbox, slot, lock, commands, dangling, overtaken>>
        /\ Goes(Boot(s), thread[Boot(s)].job, "platform")
    BY <1>2, <1>0, ThreadFacts DEF TunnelInv, TypeOK, JobOK, Legal, Teardown, stop, native
  <2>2. thread[Boot(s)].job \in Jobs \ {"idle"} /\ "platform" \in Places \ {"join"}
    BY <1>2, <2>1, NoneNotSession DEF TunnelInv, TypeOK, JobOK, Legal, Jobs, Places, Teardown
  <2>3. /\ ThreadsOK'
        /\ \A r \in Sessions : thread'[Stop(r)] = thread[Stop(r)]
        /\ \A r \in Sessions : r # s => thread'[Boot(r)] = thread[Boot(r)]
        /\ thread'[Boot(s)].job = thread[Boot(s)].job /\ thread'[Boot(s)].at = "platform" /\ thread'[Boot(s)].joins = None
        /\ thread'[Boot(s)] # Idle
    BY <2>1, <2>2, BootGoes, Zenon DEF TunnelInv, TypeOK
  <2>4. \A r \in Sessions : r # s => JobOK(r)' /\ MeshOK(r)' /\ EngineOK(r)' /\ PlatformOK(r)'
    BY <2>1, <2>3, NoneNotSession DEF TunnelInv, JobOK, MeshOK, EngineOK, PlatformOK
  <2>5. JobOK(s)'
    BY <2>1, <2>3 DEF TunnelInv, JobOK, Legal, Teardown
  <2>6. \A r \in Sessions : SessionOK(r)'
    BY <2>1, <2>3, SessionBoot, IdleFields
  <2>7. MeshOK(s)'
    BY <2>1, <2>3, IdleFields DEF TunnelInv, JobOK, SessionOK, MeshOK
  <2>8. EngineOK(s)'
    BY <2>1, <2>3, NoneNotSession, NotJoining, IdleFields DEF TunnelInv, JobOK, Legal, EngineOK
  <2>9. PlatformOK(s)'
    BY <2>1, <2>3, IdleFields DEF TunnelInv, JobOK, SessionOK, EngineOK, PlatformOK
  <2>10. \A r \in Sessions : HandleOK(r)'
    BY <2>1, <2>3, HandleBoot, NoneNotSession, IdleFields
  <2>. QED
    BY <2>3, <2>4, <2>5, <2>6, <2>7, <2>8, <2>9, <2>10 DEF Rest
<1>3. ASSUME t = Boot(s) /\ slot # None PROVE ThreadsOK' /\ Rest'
  <2>1. /\ thread[Boot(s)].at = "take"
        /\ thread[Boot(s)].job \in {"reset", "fail", "start"}
        /\ slot # None
        /\ slot' = None
        /\ UNCHANGED <<meshAllowed, platform, queue, mesh, meshEnded, engine, report, lock, commands, dangling, overtaken>>
        /\ Joins(Boot(s), slot)
    BY <1>3, <1>0, ThreadFacts DEF TunnelInv, TypeOK, JobOK, Legal, Teardown, stop, native
  <2>2. thread[Boot(s)].job # "idle" /\ slot \in Sessions
    BY <1>3, <2>1, NoneNotSession DEF TunnelInv, TypeOK, JobOK, Legal, Jobs, Places, Teardown
  <2>3. /\ ThreadsOK'
        /\ \A r \in Sessions : thread'[Stop(r)] = thread[Stop(r)]
        /\ \A r \in Sessions : r # s => thread'[Boot(r)] = thread[Boot(r)]
        /\ thread'[Boot(s)].job = thread[Boot(s)].job /\ thread'[Boot(s)].at = "join" /\ thread'[Boot(s)].joins = slot
        /\ thread'[Boot(s)] # Idle
    BY <2>1, <2>2, BootJoins, Zenon DEF TunnelInv, TypeOK
  <2>4. \A r \in Sessions : r # s => JobOK(r)' /\ MeshOK(r)' /\ EngineOK(r)' /\ PlatformOK(r)'
    BY <2>1, <2>3, NoneNotSession DEF TunnelInv, JobOK, MeshOK, EngineOK, PlatformOK
  <2>5. JobOK(s)'
    BY <2>1, <2>3 DEF TunnelInv, JobOK, Legal, Teardown
  <2>6. \A r \in Sessions : SessionOK(r)'
    BY <2>1, <2>3, SessionBoot, IdleFields
  <2>7. MeshOK(s)'
    BY <2>1, <2>3, IdleFields DEF TunnelInv, JobOK, SessionOK, MeshOK
  <2>8. EngineOK(s)'
    BY <2>1, <2>3, NoneNotSession, NotJoining, IdleFields DEF TunnelInv, JobOK, Legal, EngineOK
  <2>9. PlatformOK(s)'
    BY <2>1, <2>3, IdleFields DEF TunnelInv, JobOK, SessionOK, EngineOK, PlatformOK
  <2>10. \A r \in Sessions : HandleOK(r)'
    BY <2>1, <2>3, HandleTaken, NoneNotSession, IdleFields
  <2>. QED
    BY <2>3, <2>4, <2>5, <2>6, <2>7, <2>8, <2>9, <2>10 DEF Rest
<1>4. ASSUME t = Stop(s) /\ slot = None PROVE ThreadsOK' /\ Rest'
  <2>1. /\ thread[Stop(s)].at = "take"
        /\ thread[Stop(s)].job = "final"
        /\ slot = None
        /\ UNCHANGED <<meshAllowed, platform, queue, mesh, meshEnded, engine, report, inbox, slot, lock, commands, dangling, overtaken>>
        /\ Goes(Stop(s), "final", "platform")
    BY <1>4, <1>0, ThreadFacts DEF TunnelInv, TypeOK, JobOK, Legal, Teardown, stop, native
  <2>2. "final" \in Jobs \ {"idle"} /\ "platform" \in Places \ {"join"}
    BY <1>4, <2>1, NoneNotSession DEF TunnelInv, TypeOK, JobOK, Legal, Jobs, Places, Teardown
  <2>3. /\ ThreadsOK'
        /\ \A r \in Sessions : thread'[Boot(r)] = thread[Boot(r)]
        /\ \A r \in Sessions : r # s => thread'[Stop(r)] = thread[Stop(r)]
        /\ thread'[Stop(s)].job = "final" /\ thread'[Stop(s)].at = "platform" /\ thread'[Stop(s)].joins = None
        /\ thread'[Stop(s)] # Idle
    BY <2>1, <2>2, StopGoes, Zenon DEF TunnelInv, TypeOK
  <2>4. \A r \in Sessions : r # s => JobOK(r)' /\ MeshOK(r)' /\ EngineOK(r)' /\ PlatformOK(r)'
    BY <2>1, <2>3, NoneNotSession DEF TunnelInv, JobOK, MeshOK, EngineOK, PlatformOK
  <2>5. JobOK(s)'
    BY <2>1, <2>3 DEF TunnelInv, JobOK, Legal, Teardown
  <2>6. \A r \in Sessions : SessionOK(r)'
    BY <2>1, <2>3, SessionStop, IdleFields
  <2>7. MeshOK(s)'
    BY <2>1, <2>3, IdleFields DEF TunnelInv, JobOK, SessionOK, MeshOK
  <2>8. EngineOK(s)'
    BY <2>1, <2>3, NoneNotSession, NotJoining, IdleFields DEF TunnelInv, JobOK, Legal, EngineOK
  <2>9. PlatformOK(s)'
    BY <2>1, <2>3, IdleFields DEF TunnelInv, JobOK, SessionOK, EngineOK, PlatformOK
  <2>10. \A r \in Sessions : HandleOK(r)'
    BY <2>1, <2>3, HandleStop, NoneNotSession, IdleFields
  <2>. QED
    BY <2>3, <2>4, <2>5, <2>6, <2>7, <2>8, <2>9, <2>10 DEF Rest
<1>5. ASSUME t = Stop(s) /\ slot # None PROVE ThreadsOK' /\ Rest'
  <2>1. /\ thread[Stop(s)].at = "take"
        /\ thread[Stop(s)].job = "final"
        /\ slot # None
        /\ slot' = None
        /\ UNCHANGED <<meshAllowed, platform, queue, mesh, meshEnded, engine, report, lock, commands, dangling, overtaken>>
        /\ Joins(Stop(s), slot)
    BY <1>5, <1>0, ThreadFacts DEF TunnelInv, TypeOK, JobOK, Legal, Teardown, stop, native
  <2>2. thread[Stop(s)].job # "idle" /\ slot \in Sessions
    BY <1>5, <2>1, NoneNotSession DEF TunnelInv, TypeOK, JobOK, Legal, Jobs, Places, Teardown
  <2>3. /\ ThreadsOK'
        /\ \A r \in Sessions : thread'[Boot(r)] = thread[Boot(r)]
        /\ \A r \in Sessions : r # s => thread'[Stop(r)] = thread[Stop(r)]
        /\ thread'[Stop(s)].job = thread[Stop(s)].job /\ thread'[Stop(s)].at = "join" /\ thread'[Stop(s)].joins = slot
        /\ thread'[Stop(s)] # Idle
    BY <2>1, <2>2, StopJoins, Zenon DEF TunnelInv, TypeOK
  <2>4. \A r \in Sessions : r # s => JobOK(r)' /\ MeshOK(r)' /\ EngineOK(r)' /\ PlatformOK(r)'
    BY <2>1, <2>3, NoneNotSession DEF TunnelInv, JobOK, MeshOK, EngineOK, PlatformOK
  <2>5. JobOK(s)'
    BY <2>1, <2>3 DEF TunnelInv, JobOK, Legal, Teardown
  <2>6. \A r \in Sessions : SessionOK(r)'
    BY <2>1, <2>3, SessionStop, IdleFields
  <2>7. MeshOK(s)'
    BY <2>1, <2>3, IdleFields DEF TunnelInv, JobOK, SessionOK, MeshOK
  <2>8. EngineOK(s)'
    BY <2>1, <2>3, NoneNotSession, NotJoining, IdleFields DEF TunnelInv, JobOK, Legal, EngineOK
  <2>9. PlatformOK(s)'
    BY <2>1, <2>3, IdleFields DEF TunnelInv, JobOK, SessionOK, EngineOK, PlatformOK
  <2>10. \A r \in Sessions : HandleOK(r)'
    BY <2>1, <2>3, HandleTaken, NoneNotSession, IdleFields
  <2>. QED
    BY <2>3, <2>4, <2>5, <2>6, <2>7, <2>8, <2>9, <2>10 DEF Rest
<1>6. ThreadsOK' /\ Rest'
  BY <1>0, <1>1, <1>2, <1>3, <1>4, <1>5 DEF TunnelInv, JobOK, Legal, Teardown, stop, native
<1>7. TypeOK'
  <2>1. ThreadsOK'
    BY <1>6
  <2>2. /\ meshAllowed' \in [Sessions -> BOOLEAN] /\ queue' \in [Sessions -> BOOLEAN]
        /\ platform' \in [Sessions -> {"none", "alive", "reset", "freed"}]
        /\ mesh' \subseteq Sessions /\ meshEnded' \subseteq Sessions
        /\ dangling' \subseteq Sessions /\ overtaken' \subseteq Sessions
    BY ThreadFacts DEF TunnelInv, TypeOK, stop, native
  <2>3. /\ engine' \in [Sessions -> {"none", "configuring", "starting", "serving", "ended"}]
        /\ report' \in [Sessions -> {"none", "ok", "error"}] /\ slot' \in Sessions \union {None}
        /\ commands' \in 0 .. MaxCommands /\ lock' \in 0 .. commands'
    BY ThreadFacts, BoundsAssumption DEF TunnelInv, TypeOK, stop, native
  <2>4. inbox' \in [Sessions -> Seq(0 .. MaxCommands)]
    <3>1. inbox' = inbox \/ \E q \in Sessions : inbox' = [inbox EXCEPT ![q] = Append(inbox[q], 0)]
      BY ThreadFacts DEF TunnelInv, TypeOK, stop
    <3>2. \A x \in Seq(0 .. MaxCommands) : Append(x, 0) \in Seq(0 .. MaxCommands)
      BY BoundsAssumption
    <3>3. ASSUME NEW q \in Sessions, inbox' = [inbox EXCEPT ![q] = Append(inbox[q], 0)]
          PROVE  inbox' \in [Sessions -> Seq(0 .. MaxCommands)]
      <4>1. inbox \in [Sessions -> Seq(0 .. MaxCommands)] /\ inbox[q] \in Seq(0 .. MaxCommands)
        BY DEF TunnelInv, TypeOK
      <4>2. Append(inbox[q], 0) \in Seq(0 .. MaxCommands)
        BY <3>2, <4>1
      <4>. QED
        BY <3>3, <4>1, <4>2
    <3>. QED
      BY <3>1, <3>3 DEF TunnelInv, TypeOK
  <2>. QED
    BY <2>1, <2>2, <2>3, <2>4 DEF TypeOK
<1>. QED
  BY <1>6, <1>7 DEF TunnelInv, Rest

\* A bootstrap that fails has its mesh disallowed, and no other session's.
LEMMA Disallows ==
  ASSUME TunnelInv, NEW t \in Threads, NEW s \in Sessions, Session(t) = s, Fail(t)
  PROVE  /\ Goes(t, "fail", "take")
         /\ ~meshAllowed'[s]
         /\ \A r \in Sessions : r # s => (meshAllowed'[r] <=> meshAllowed[r])
         /\ meshAllowed' \in [Sessions -> BOOLEAN]
BY DEF TunnelInv, TypeOK, Fail

LEMMA stop_handle_Inv ==
  ASSUME TunnelInv, NEW t \in Threads, stop_handle(t)
  PROVE  TunnelInv'
<1>0. PICK s \in Sessions : Session(t) = s /\ (t = Boot(s) \/ t = Stop(s))
  BY ThreadFacts
<1>1. ASSUME t = Boot(s) /\ thread[t].job = "start" /\ Goes(t, "start", "spawn") /\ thread[t].joins # s /\ UNCHANGED meshAllowed PROVE ThreadsOK' /\ Rest'
  <2>1. /\ thread[Boot(s)].at = "join"
        /\ thread[Boot(s)].job = "start"
        /\ thread[Boot(s)].joins # s
        /\ engine[thread[Boot(s)].joins] = "ended"
        /\ UNCHANGED <<meshAllowed, platform, queue, mesh, meshEnded, engine, report, inbox, slot, lock, commands, dangling, overtaken>>
        /\ Goes(Boot(s), "start", "spawn")
    BY <1>1, <1>0, ThreadFacts DEF TunnelInv, TypeOK, JobOK, Legal, Teardown, stop_handle, native, Fail
  <2>2. "start" \in Jobs \ {"idle"} /\ "spawn" \in Places \ {"join"}
    BY <1>1, <2>1, NoneNotSession DEF TunnelInv, TypeOK, JobOK, Legal, Jobs, Places, Teardown
  <2>3. /\ ThreadsOK'
        /\ \A r \in Sessions : thread'[Stop(r)] = thread[Stop(r)]
        /\ \A r \in Sessions : r # s => thread'[Boot(r)] = thread[Boot(r)]
        /\ thread'[Boot(s)].job = "start" /\ thread'[Boot(s)].at = "spawn" /\ thread'[Boot(s)].joins = None
        /\ thread'[Boot(s)] # Idle
    BY <2>1, <2>2, BootGoes, Zenon DEF TunnelInv, TypeOK
  <2>4. \A r \in Sessions : r # s => JobOK(r)' /\ MeshOK(r)' /\ EngineOK(r)' /\ PlatformOK(r)'
    BY <2>1, <2>3, NoneNotSession DEF TunnelInv, JobOK, MeshOK, EngineOK, PlatformOK
  <2>5. JobOK(s)'
    BY <2>1, <2>3 DEF TunnelInv, JobOK, Legal, Teardown
  <2>6. \A r \in Sessions : SessionOK(r)'
    BY <2>1, <2>3, SessionBoot, IdleFields
  <2>7. MeshOK(s)'
    BY <2>1, <2>3, IdleFields DEF TunnelInv, JobOK, SessionOK, MeshOK
  <2>8. EngineOK(s)'
    BY <2>1, <2>3, NoneNotSession, NotJoining, IdleFields DEF TunnelInv, JobOK, Legal, EngineOK
  <2>9. PlatformOK(s)'
    BY <2>1, <2>3, IdleFields DEF TunnelInv, JobOK, SessionOK, EngineOK, PlatformOK
  <2>10. \A r \in Sessions : HandleOK(r)'
    BY <2>1, <2>3, HandleBoot, NoneNotSession, IdleFields
  <2>. QED
    BY <2>3, <2>4, <2>5, <2>6, <2>7, <2>8, <2>9, <2>10 DEF Rest
<1>2. ASSUME t = Boot(s) /\ thread[t].job = "start" /\ Fail(t) PROVE ThreadsOK' /\ Rest'
  <2>1. /\ thread[Boot(s)].at = "join"
        /\ thread[Boot(s)].job = "start"
        /\ engine[thread[Boot(s)].joins] = "ended"
        /\ ~meshAllowed'[s] /\ \A r \in Sessions : r # s => (meshAllowed'[r] <=> meshAllowed[r])
        /\ UNCHANGED <<platform, queue, mesh, meshEnded, engine, report, inbox, slot, lock, commands, dangling, overtaken>>
        /\ Goes(Boot(s), "fail", "take")
    BY <1>2, <1>0, ThreadFacts, Disallows DEF TunnelInv, TypeOK, JobOK, Legal, Teardown, stop_handle, native, Fail
  <2>2. "fail" \in Jobs \ {"idle"} /\ "take" \in Places \ {"join"}
    BY <1>2, <2>1, NoneNotSession DEF TunnelInv, TypeOK, JobOK, Legal, Jobs, Places, Teardown
  <2>3. /\ ThreadsOK'
        /\ \A r \in Sessions : thread'[Stop(r)] = thread[Stop(r)]
        /\ \A r \in Sessions : r # s => thread'[Boot(r)] = thread[Boot(r)]
        /\ thread'[Boot(s)].job = "fail" /\ thread'[Boot(s)].at = "take" /\ thread'[Boot(s)].joins = None
        /\ thread'[Boot(s)] # Idle
    BY <2>1, <2>2, BootGoes, Zenon DEF TunnelInv, TypeOK
  <2>4. \A r \in Sessions : r # s => JobOK(r)' /\ MeshOK(r)' /\ EngineOK(r)' /\ PlatformOK(r)'
    BY <2>1, <2>3, NoneNotSession DEF TunnelInv, JobOK, MeshOK, EngineOK, PlatformOK
  <2>5. JobOK(s)'
    BY <2>1, <2>3 DEF TunnelInv, JobOK, Legal, Teardown
  <2>6. \A r \in Sessions : SessionOK(r)'
    BY <2>1, <2>3, SessionBoot, IdleFields
  <2>7. MeshOK(s)'
    BY <2>1, <2>3, IdleFields DEF TunnelInv, JobOK, SessionOK, MeshOK
  <2>8. EngineOK(s)'
    BY <2>1, <2>3, NoneNotSession, NotJoining, IdleFields DEF TunnelInv, JobOK, Legal, EngineOK
  <2>9. PlatformOK(s)'
    BY <2>1, <2>3, IdleFields DEF TunnelInv, JobOK, SessionOK, EngineOK, PlatformOK
  <2>10. \A r \in Sessions : HandleOK(r)'
    BY <2>1, <2>3, HandleBoot, NoneNotSession, IdleFields
  <2>. QED
    BY <2>3, <2>4, <2>5, <2>6, <2>7, <2>8, <2>9, <2>10 DEF Rest
<1>3. ASSUME t = Boot(s) /\ thread[t].job # "start" PROVE ThreadsOK' /\ Rest'
  <2>1. /\ thread[Boot(s)].at = "join"
        /\ thread[Boot(s)].job \in {"reset", "fail"}
        /\ UNCHANGED <<meshAllowed, platform, queue, mesh, meshEnded, engine, report, inbox, slot, lock, commands, dangling, overtaken>>
        /\ Goes(Boot(s), thread[Boot(s)].job, "platform")
    BY <1>3, <1>0, ThreadFacts DEF TunnelInv, TypeOK, JobOK, Legal, Teardown, stop_handle, native, Fail
  <2>2. thread[Boot(s)].job \in Jobs \ {"idle"} /\ "platform" \in Places \ {"join"}
    BY <1>3, <2>1, NoneNotSession DEF TunnelInv, TypeOK, JobOK, Legal, Jobs, Places, Teardown
  <2>3. /\ ThreadsOK'
        /\ \A r \in Sessions : thread'[Stop(r)] = thread[Stop(r)]
        /\ \A r \in Sessions : r # s => thread'[Boot(r)] = thread[Boot(r)]
        /\ thread'[Boot(s)].job = thread[Boot(s)].job /\ thread'[Boot(s)].at = "platform" /\ thread'[Boot(s)].joins = None
        /\ thread'[Boot(s)] # Idle
    BY <2>1, <2>2, BootGoes, Zenon DEF TunnelInv, TypeOK
  <2>4. \A r \in Sessions : r # s => JobOK(r)' /\ MeshOK(r)' /\ EngineOK(r)' /\ PlatformOK(r)'
    BY <2>1, <2>3, NoneNotSession DEF TunnelInv, JobOK, MeshOK, EngineOK, PlatformOK
  <2>5. JobOK(s)'
    BY <2>1, <2>3 DEF TunnelInv, JobOK, Legal, Teardown
  <2>6. \A r \in Sessions : SessionOK(r)'
    BY <2>1, <2>3, SessionBoot, IdleFields
  <2>7. MeshOK(s)'
    BY <2>1, <2>3, IdleFields DEF TunnelInv, JobOK, SessionOK, MeshOK
  <2>8. EngineOK(s)'
    BY <2>1, <2>3, NoneNotSession, NotJoining, IdleFields DEF TunnelInv, JobOK, Legal, EngineOK
  <2>9. PlatformOK(s)'
    BY <2>1, <2>3, IdleFields DEF TunnelInv, JobOK, SessionOK, EngineOK, PlatformOK
  <2>10. \A r \in Sessions : HandleOK(r)'
    BY <2>1, <2>3, HandleBoot, NoneNotSession, IdleFields
  <2>. QED
    BY <2>3, <2>4, <2>5, <2>6, <2>7, <2>8, <2>9, <2>10 DEF Rest
<1>4. ASSUME t = Stop(s) PROVE ThreadsOK' /\ Rest'
  <2>1. /\ thread[Stop(s)].at = "join"
        /\ thread[Stop(s)].job = "final"
        /\ engine[thread[Stop(s)].joins] = "ended"
        /\ UNCHANGED <<meshAllowed, platform, queue, mesh, meshEnded, engine, report, inbox, slot, lock, commands, dangling, overtaken>>
        /\ Goes(Stop(s), "final", "platform")
    BY <1>4, <1>0, ThreadFacts DEF TunnelInv, TypeOK, JobOK, Legal, Teardown, stop_handle, native, Fail
  <2>2. "final" \in Jobs \ {"idle"} /\ "platform" \in Places \ {"join"}
    BY <1>4, <2>1, NoneNotSession DEF TunnelInv, TypeOK, JobOK, Legal, Jobs, Places, Teardown
  <2>3. /\ ThreadsOK'
        /\ \A r \in Sessions : thread'[Boot(r)] = thread[Boot(r)]
        /\ \A r \in Sessions : r # s => thread'[Stop(r)] = thread[Stop(r)]
        /\ thread'[Stop(s)].job = "final" /\ thread'[Stop(s)].at = "platform" /\ thread'[Stop(s)].joins = None
        /\ thread'[Stop(s)] # Idle
    BY <2>1, <2>2, StopGoes, Zenon DEF TunnelInv, TypeOK
  <2>4. \A r \in Sessions : r # s => JobOK(r)' /\ MeshOK(r)' /\ EngineOK(r)' /\ PlatformOK(r)'
    BY <2>1, <2>3, NoneNotSession DEF TunnelInv, JobOK, MeshOK, EngineOK, PlatformOK
  <2>5. JobOK(s)'
    BY <2>1, <2>3 DEF TunnelInv, JobOK, Legal, Teardown
  <2>6. \A r \in Sessions : SessionOK(r)'
    BY <2>1, <2>3, SessionStop, IdleFields
  <2>7. MeshOK(s)'
    BY <2>1, <2>3, IdleFields DEF TunnelInv, JobOK, SessionOK, MeshOK
  <2>8. EngineOK(s)'
    BY <2>1, <2>3, NoneNotSession, NotJoining, IdleFields DEF TunnelInv, JobOK, Legal, EngineOK
  <2>9. PlatformOK(s)'
    BY <2>1, <2>3, IdleFields DEF TunnelInv, JobOK, SessionOK, EngineOK, PlatformOK
  <2>10. \A r \in Sessions : HandleOK(r)'
    BY <2>1, <2>3, HandleStop, NoneNotSession, IdleFields
  <2>. QED
    BY <2>3, <2>4, <2>5, <2>6, <2>7, <2>8, <2>9, <2>10 DEF Rest
<1>5. ThreadsOK' /\ Rest'
  BY <1>0, <1>1, <1>2, <1>3, <1>4 DEF TunnelInv, JobOK, Legal, Teardown, stop_handle, native, Fail
<1>6. TypeOK'
  <2>1. ThreadsOK'
    BY <1>5
  <2>2. /\ meshAllowed' \in [Sessions -> BOOLEAN] /\ queue' \in [Sessions -> BOOLEAN]
        /\ platform' \in [Sessions -> {"none", "alive", "reset", "freed"}]
        /\ mesh' \subseteq Sessions /\ meshEnded' \subseteq Sessions
        /\ dangling' \subseteq Sessions /\ overtaken' \subseteq Sessions
    <3>1. UNCHANGED meshAllowed \/ Fail(t)
      BY DEF stop_handle
    <3>2. meshAllowed' \in [Sessions -> BOOLEAN]
      BY <1>0, <3>1, Disallows DEF TunnelInv, TypeOK
    <3>. QED
      BY <3>2, ThreadFacts DEF TunnelInv, TypeOK, stop_handle, native
  <2>3. /\ engine' \in [Sessions -> {"none", "configuring", "starting", "serving", "ended"}]
        /\ report' \in [Sessions -> {"none", "ok", "error"}] /\ slot' \in Sessions \union {None}
        /\ commands' \in 0 .. MaxCommands /\ lock' \in 0 .. commands'
    BY ThreadFacts, BoundsAssumption DEF TunnelInv, TypeOK, stop_handle, native, Fail
  <2>4. inbox' \in [Sessions -> Seq(0 .. MaxCommands)]
    BY ThreadFacts, BoundsAssumption DEF TunnelInv, TypeOK, stop_handle, native, Fail
  <2>. QED
    BY <2>1, <2>2, <2>3, <2>4 DEF TypeOK
<1>. QED
  BY <1>5, <1>6 DEF TunnelInv, Rest

LEMMA ReleasePlatform_Inv ==
  ASSUME TunnelInv, NEW t \in Threads, ReleasePlatform(t)
  PROVE  TunnelInv'
<1>0. PICK s \in Sessions : Session(t) = s /\ (t = Boot(s) \/ t = Stop(s))
  BY ThreadFacts
<1>1. ASSUME t = Boot(s) PROVE ThreadsOK' /\ Rest'
  <2>1. /\ thread[Boot(s)].at = "platform"
        /\ thread[Boot(s)].job \in {"reset", "fail"}
        /\ \A r \in Sessions : platform'[r] = IF r # s \/ platform[r] = "none" THEN platform[r] ELSE "freed"
        /\ UNCHANGED <<meshAllowed, queue, mesh, meshEnded, engine, report, inbox, slot, lock, commands, dangling, overtaken>>
        /\ Goes(Boot(s), thread[Boot(s)].job, "mesh")
    BY <1>1, <1>0, ThreadFacts DEF TunnelInv, TypeOK, JobOK, Legal, Teardown, ReleasePlatform, native
  <2>2. thread[Boot(s)].job \in Jobs \ {"idle"} /\ "mesh" \in Places \ {"join"}
    BY <1>1, <2>1, NoneNotSession DEF TunnelInv, TypeOK, JobOK, Legal, Jobs, Places, Teardown
  <2>3. /\ ThreadsOK'
        /\ \A r \in Sessions : thread'[Stop(r)] = thread[Stop(r)]
        /\ \A r \in Sessions : r # s => thread'[Boot(r)] = thread[Boot(r)]
        /\ thread'[Boot(s)].job = thread[Boot(s)].job /\ thread'[Boot(s)].at = "mesh" /\ thread'[Boot(s)].joins = None
        /\ thread'[Boot(s)] # Idle
    BY <2>1, <2>2, BootGoes, Zenon DEF TunnelInv, TypeOK
  <2>4. \A r \in Sessions : r # s => JobOK(r)' /\ MeshOK(r)' /\ EngineOK(r)' /\ PlatformOK(r)'
    BY <2>1, <2>3, NoneNotSession DEF TunnelInv, JobOK, MeshOK, EngineOK, PlatformOK
  <2>5. JobOK(s)'
    BY <2>1, <2>3 DEF TunnelInv, JobOK, Legal, Teardown
  <2>6. \A r \in Sessions : SessionOK(r)'
    BY <2>1, <2>3, SessionBoot, IdleFields
  <2>7. MeshOK(s)'
    BY <2>1, <2>3, IdleFields DEF TunnelInv, JobOK, SessionOK, MeshOK
  <2>8. EngineOK(s)'
    BY <2>1, <2>3, NoneNotSession, NotJoining, IdleFields DEF TunnelInv, JobOK, Legal, EngineOK
  <2>9. PlatformOK(s)'
    BY <2>1, <2>3, IdleFields DEF TunnelInv, JobOK, SessionOK, EngineOK, PlatformOK
  <2>10. \A r \in Sessions : HandleOK(r)'
    BY <2>1, <2>3, HandleBoot, NoneNotSession, IdleFields
  <2>. QED
    BY <2>3, <2>4, <2>5, <2>6, <2>7, <2>8, <2>9, <2>10 DEF Rest
<1>2. ASSUME t = Stop(s) PROVE ThreadsOK' /\ Rest'
  <2>1. /\ thread[Stop(s)].at = "platform"
        /\ thread[Stop(s)].job = "final"
        /\ /\ \A r \in Sessions : r # s => platform'[r] = platform[r]
           /\ platform'[s] = platform[s] \/ platform'[s] = "freed" \/ (platform'[s] = "reset" /\ thread[Boot(s)].job = "start")
           /\ platform[s] = "none" => platform'[s] = "none"
        /\ UNCHANGED <<meshAllowed, queue, mesh, meshEnded, engine, report, inbox, slot, lock, commands, dangling, overtaken>>
        /\ Goes(Stop(s), "final", "mesh")
    BY <1>2, <1>0, ThreadFacts DEF TunnelInv, TypeOK, JobOK, Legal, Teardown, ReleasePlatform, native
  <2>2. "final" \in Jobs \ {"idle"} /\ "mesh" \in Places \ {"join"}
    BY <1>2, <2>1, NoneNotSession DEF TunnelInv, TypeOK, JobOK, Legal, Jobs, Places, Teardown
  <2>3. /\ ThreadsOK'
        /\ \A r \in Sessions : thread'[Boot(r)] = thread[Boot(r)]
        /\ \A r \in Sessions : r # s => thread'[Stop(r)] = thread[Stop(r)]
        /\ thread'[Stop(s)].job = "final" /\ thread'[Stop(s)].at = "mesh" /\ thread'[Stop(s)].joins = None
        /\ thread'[Stop(s)] # Idle
    BY <2>1, <2>2, StopGoes, Zenon DEF TunnelInv, TypeOK
  <2>4. \A r \in Sessions : r # s => JobOK(r)' /\ MeshOK(r)' /\ EngineOK(r)' /\ PlatformOK(r)'
    BY <2>1, <2>3, NoneNotSession DEF TunnelInv, JobOK, MeshOK, EngineOK, PlatformOK
  <2>5. JobOK(s)'
    BY <2>1, <2>3 DEF TunnelInv, JobOK, Legal, Teardown
  <2>6. \A r \in Sessions : SessionOK(r)'
    BY <2>1, <2>3, SessionStop, IdleFields
  <2>7. MeshOK(s)'
    BY <2>1, <2>3, IdleFields DEF TunnelInv, JobOK, SessionOK, MeshOK
  <2>8. EngineOK(s)'
    BY <2>1, <2>3, NoneNotSession, NotJoining, IdleFields DEF TunnelInv, JobOK, Legal, EngineOK
  <2>9. PlatformOK(s)'
    BY <2>1, <2>3, IdleFields DEF TunnelInv, JobOK, SessionOK, EngineOK, PlatformOK
  <2>10. \A r \in Sessions : HandleOK(r)'
    BY <2>1, <2>3, HandleStop, NoneNotSession, IdleFields
  <2>. QED
    BY <2>3, <2>4, <2>5, <2>6, <2>7, <2>8, <2>9, <2>10 DEF Rest
<1>3. ThreadsOK' /\ Rest'
  BY <1>0, <1>1, <1>2 DEF TunnelInv, JobOK, Legal, Teardown, ReleasePlatform, native
<1>4. TypeOK'
  <2>1. ThreadsOK'
    BY <1>3
  <2>2. /\ meshAllowed' \in [Sessions -> BOOLEAN] /\ queue' \in [Sessions -> BOOLEAN]
        /\ platform' \in [Sessions -> {"none", "alive", "reset", "freed"}]
        /\ mesh' \subseteq Sessions /\ meshEnded' \subseteq Sessions
        /\ dangling' \subseteq Sessions /\ overtaken' \subseteq Sessions
    BY ThreadFacts DEF TunnelInv, TypeOK, ReleasePlatform, native
  <2>3. /\ engine' \in [Sessions -> {"none", "configuring", "starting", "serving", "ended"}]
        /\ report' \in [Sessions -> {"none", "ok", "error"}] /\ slot' \in Sessions \union {None}
        /\ commands' \in 0 .. MaxCommands /\ lock' \in 0 .. commands'
    BY ThreadFacts, BoundsAssumption DEF TunnelInv, TypeOK, ReleasePlatform, native
  <2>4. inbox' \in [Sessions -> Seq(0 .. MaxCommands)]
    BY ThreadFacts, BoundsAssumption DEF TunnelInv, TypeOK, ReleasePlatform, native
  <2>. QED
    BY <2>1, <2>2, <2>3, <2>4 DEF TypeOK
<1>. QED
  BY <1>3, <1>4 DEF TunnelInv, Rest

LEMMA teardownRuntime_Inv ==
  ASSUME TunnelInv, NEW t \in Threads, teardownRuntime(t)
  PROVE  TunnelInv'
<1>0. PICK s \in Sessions : Session(t) = s /\ (t = Boot(s) \/ t = Stop(s))
  BY ThreadFacts
<1>1. ASSUME t = Boot(s) /\ thread[t].job = "reset" /\ MeshEnabled PROVE ThreadsOK' /\ Rest'
  <2>1. /\ thread[Boot(s)].job = "reset"
        /\ mesh' = {}
        /\ UNCHANGED <<meshAllowed, platform, queue, meshEnded, engine, report, inbox, slot, lock, commands, dangling, overtaken>>
        /\ Goes(Boot(s), "mesh", "none")
    BY <1>1, <1>0, ThreadFacts DEF TunnelInv, TypeOK, JobOK, Legal, Teardown, teardownRuntime, native, Final
  <2>2. "mesh" \in Jobs \ {"idle"} /\ "none" \in Places \ {"join"}
    BY <1>1, <2>1, NoneNotSession DEF TunnelInv, TypeOK, JobOK, Legal, Jobs, Places, Teardown
  <2>3. /\ ThreadsOK'
        /\ \A r \in Sessions : thread'[Stop(r)] = thread[Stop(r)]
        /\ \A r \in Sessions : r # s => thread'[Boot(r)] = thread[Boot(r)]
        /\ thread'[Boot(s)].job = "mesh" /\ thread'[Boot(s)].at = "none" /\ thread'[Boot(s)].joins = None
        /\ thread'[Boot(s)] # Idle
    BY <2>1, <2>2, BootGoes, Zenon DEF TunnelInv, TypeOK
  <2>4. \A r \in Sessions : r # s => JobOK(r)' /\ MeshOK(r)' /\ EngineOK(r)' /\ PlatformOK(r)'
    BY <2>1, <2>3, NoneNotSession DEF TunnelInv, JobOK, MeshOK, EngineOK, PlatformOK
  <2>5. JobOK(s)'
    BY <2>1, <2>3 DEF TunnelInv, JobOK, Legal, Teardown
  <2>6. \A r \in Sessions : SessionOK(r)'
    BY <2>1, <2>3, SessionBoot, IdleFields
  <2>7. MeshOK(s)'
    BY <2>1, <2>3, IdleFields DEF TunnelInv, JobOK, SessionOK, MeshOK
  <2>8. EngineOK(s)'
    BY <2>1, <2>3, NoneNotSession, NotJoining, IdleFields DEF TunnelInv, JobOK, Legal, EngineOK
  <2>9. PlatformOK(s)'
    BY <2>1, <2>3, IdleFields DEF TunnelInv, JobOK, SessionOK, EngineOK, PlatformOK
  <2>10. \A r \in Sessions : HandleOK(r)'
    BY <2>1, <2>3, HandleBoot, NoneNotSession, IdleFields
  <2>. QED
    BY <2>3, <2>4, <2>5, <2>6, <2>7, <2>8, <2>9, <2>10 DEF Rest
<1>2. ASSUME t = Boot(s) /\ thread[t].job = "reset" /\ ~MeshEnabled PROVE ThreadsOK' /\ Rest'
  <2>1. /\ thread[Boot(s)].job = "reset"
        /\ mesh' = {}
        /\ UNCHANGED <<meshAllowed, platform, queue, meshEnded, engine, report, inbox, slot, lock, commands, dangling, overtaken>>
        /\ Goes(Boot(s), "build", "none")
    BY <1>2, <1>0, ThreadFacts DEF TunnelInv, TypeOK, JobOK, Legal, Teardown, teardownRuntime, native, Final
  <2>2. "build" \in Jobs \ {"idle"} /\ "none" \in Places \ {"join"}
    BY <1>2, <2>1, NoneNotSession DEF TunnelInv, TypeOK, JobOK, Legal, Jobs, Places, Teardown
  <2>3. /\ ThreadsOK'
        /\ \A r \in Sessions : thread'[Stop(r)] = thread[Stop(r)]
        /\ \A r \in Sessions : r # s => thread'[Boot(r)] = thread[Boot(r)]
        /\ thread'[Boot(s)].job = "build" /\ thread'[Boot(s)].at = "none" /\ thread'[Boot(s)].joins = None
        /\ thread'[Boot(s)] # Idle
    BY <2>1, <2>2, BootGoes, Zenon DEF TunnelInv, TypeOK
  <2>4. \A r \in Sessions : r # s => JobOK(r)' /\ MeshOK(r)' /\ EngineOK(r)' /\ PlatformOK(r)'
    BY <2>1, <2>3, NoneNotSession DEF TunnelInv, JobOK, MeshOK, EngineOK, PlatformOK
  <2>5. JobOK(s)'
    BY <2>1, <2>3 DEF TunnelInv, JobOK, Legal, Teardown
  <2>6. \A r \in Sessions : SessionOK(r)'
    BY <2>1, <2>3, SessionBoot, IdleFields
  <2>7. MeshOK(s)'
    BY <2>1, <2>3, IdleFields DEF TunnelInv, JobOK, SessionOK, MeshOK
  <2>8. EngineOK(s)'
    BY <2>1, <2>3, NoneNotSession, NotJoining, IdleFields DEF TunnelInv, JobOK, Legal, EngineOK
  <2>9. PlatformOK(s)'
    BY <2>1, <2>3, IdleFields DEF TunnelInv, JobOK, SessionOK, EngineOK, PlatformOK
  <2>10. \A r \in Sessions : HandleOK(r)'
    BY <2>1, <2>3, HandleBoot, NoneNotSession, IdleFields
  <2>. QED
    BY <2>3, <2>4, <2>5, <2>6, <2>7, <2>8, <2>9, <2>10 DEF Rest
<1>3. ASSUME t = Boot(s) /\ thread[t].job = "fail" PROVE ThreadsOK' /\ Rest'
  <2>1. /\ thread[Boot(s)].job = "fail"
        /\ thread[Boot(s)].at = "mesh"
        /\ mesh' = {}
        /\ ~meshAllowed'[s] /\ \A r \in Sessions : r # s => (meshAllowed'[r] <=> meshAllowed[r])
        /\ meshEnded' = meshEnded \union {s}
        /\ UNCHANGED <<platform, queue, engine, report, inbox, slot, lock, commands, dangling, overtaken>>
        /\ Goes(Boot(s), "failed", "none")
    BY <1>3, <1>0, ThreadFacts DEF TunnelInv, TypeOK, JobOK, Legal, Teardown, teardownRuntime, native, Final
  <2>2. "failed" \in Jobs \ {"idle"} /\ "none" \in Places \ {"join"}
    BY <1>3, <2>1, NoneNotSession DEF TunnelInv, TypeOK, JobOK, Legal, Jobs, Places, Teardown
  <2>3. /\ ThreadsOK'
        /\ \A r \in Sessions : thread'[Stop(r)] = thread[Stop(r)]
        /\ \A r \in Sessions : r # s => thread'[Boot(r)] = thread[Boot(r)]
        /\ thread'[Boot(s)].job = "failed" /\ thread'[Boot(s)].at = "none" /\ thread'[Boot(s)].joins = None
        /\ thread'[Boot(s)] # Idle
    BY <2>1, <2>2, BootGoes, Zenon DEF TunnelInv, TypeOK
  <2>4. \A r \in Sessions : r # s => JobOK(r)' /\ MeshOK(r)' /\ EngineOK(r)' /\ PlatformOK(r)'
    BY <2>1, <2>3, NoneNotSession DEF TunnelInv, JobOK, MeshOK, EngineOK, PlatformOK
  <2>5. JobOK(s)'
    BY <2>1, <2>3 DEF TunnelInv, JobOK, Legal, Teardown
  <2>6. \A r \in Sessions : SessionOK(r)'
    BY <2>1, <2>3, SessionBoot, IdleFields
  <2>7. MeshOK(s)'
    BY <2>1, <2>3, IdleFields DEF TunnelInv, JobOK, SessionOK, MeshOK
  <2>8. EngineOK(s)'
    BY <2>1, <2>3, NoneNotSession, NotJoining, IdleFields DEF TunnelInv, JobOK, Legal, EngineOK
  <2>9. PlatformOK(s)'
    BY <2>1, <2>3, IdleFields DEF TunnelInv, JobOK, SessionOK, EngineOK, PlatformOK
  <2>10. \A r \in Sessions : HandleOK(r)'
    BY <2>1, <2>3, HandleBoot, NoneNotSession, IdleFields
  <2>. QED
    BY <2>3, <2>4, <2>5, <2>6, <2>7, <2>8, <2>9, <2>10 DEF Rest
<1>4. ASSUME t = Stop(s) PROVE ThreadsOK' /\ Rest'
  <2>1. /\ thread[Stop(s)].job = "final"
        /\ thread[Stop(s)].at = "mesh"
        /\ mesh' = {}
        /\ ~meshAllowed'[s] /\ \A r \in Sessions : r # s => (meshAllowed'[r] <=> meshAllowed[r])
        /\ meshEnded' = meshEnded \union {s}
        /\ UNCHANGED <<platform, queue, engine, report, inbox, slot, lock, commands, dangling, overtaken>>
        /\ Goes(Stop(s), "done", "none")
    BY <1>4, <1>0, ThreadFacts DEF TunnelInv, TypeOK, JobOK, Legal, Teardown, teardownRuntime, native, Final
  <2>2. "done" \in Jobs \ {"idle"} /\ "none" \in Places \ {"join"}
    BY <1>4, <2>1, NoneNotSession DEF TunnelInv, TypeOK, JobOK, Legal, Jobs, Places, Teardown
  <2>3. /\ ThreadsOK'
        /\ \A r \in Sessions : thread'[Boot(r)] = thread[Boot(r)]
        /\ \A r \in Sessions : r # s => thread'[Stop(r)] = thread[Stop(r)]
        /\ thread'[Stop(s)].job = "done" /\ thread'[Stop(s)].at = "none" /\ thread'[Stop(s)].joins = None
        /\ thread'[Stop(s)] # Idle
    BY <2>1, <2>2, StopGoes, Zenon DEF TunnelInv, TypeOK
  <2>4. \A r \in Sessions : r # s => JobOK(r)' /\ MeshOK(r)' /\ EngineOK(r)' /\ PlatformOK(r)'
    BY <2>1, <2>3, NoneNotSession DEF TunnelInv, JobOK, MeshOK, EngineOK, PlatformOK
  <2>5. JobOK(s)'
    BY <2>1, <2>3 DEF TunnelInv, JobOK, Legal, Teardown
  <2>6. \A r \in Sessions : SessionOK(r)'
    BY <2>1, <2>3, SessionStop, IdleFields
  <2>7. MeshOK(s)'
    BY <2>1, <2>3, IdleFields DEF TunnelInv, JobOK, SessionOK, MeshOK
  <2>8. EngineOK(s)'
    BY <2>1, <2>3, NoneNotSession, NotJoining, IdleFields DEF TunnelInv, JobOK, Legal, EngineOK
  <2>9. PlatformOK(s)'
    BY <2>1, <2>3, IdleFields DEF TunnelInv, JobOK, SessionOK, EngineOK, PlatformOK
  <2>10. \A r \in Sessions : HandleOK(r)'
    BY <2>1, <2>3, HandleStop, NoneNotSession, IdleFields
  <2>. QED
    BY <2>3, <2>4, <2>5, <2>6, <2>7, <2>8, <2>9, <2>10 DEF Rest
<1>5. ThreadsOK' /\ Rest'
  BY <1>0, <1>1, <1>2, <1>3, <1>4 DEF TunnelInv, JobOK, Legal, Teardown, teardownRuntime, native, Final
<1>6. TypeOK'
  <2>1. ThreadsOK'
    BY <1>5
  <2>2. /\ meshAllowed' \in [Sessions -> BOOLEAN] /\ queue' \in [Sessions -> BOOLEAN]
        /\ platform' \in [Sessions -> {"none", "alive", "reset", "freed"}]
        /\ mesh' \subseteq Sessions /\ meshEnded' \subseteq Sessions
        /\ dangling' \subseteq Sessions /\ overtaken' \subseteq Sessions
    <3>1. /\ Session(t) \in Sessions
          /\ meshAllowed \in [Sessions -> BOOLEAN] /\ queue \in [Sessions -> BOOLEAN]
          /\ platform \in [Sessions -> {"none", "alive", "reset", "freed"}]
          /\ mesh \subseteq Sessions /\ meshEnded \subseteq Sessions
          /\ dangling \subseteq Sessions /\ overtaken \subseteq Sessions
      BY ThreadFacts DEF TunnelInv, TypeOK
    <3>2. mesh' = {} /\ UNCHANGED <<platform, queue, dangling, overtaken>>
      BY DEF teardownRuntime, native
    <3>3. \/ /\ meshAllowed' = [meshAllowed EXCEPT ![Session(t)] = FALSE]
             /\ meshEnded' = meshEnded \union {Session(t)}
          \/ UNCHANGED <<meshAllowed, meshEnded>>
      BY DEF teardownRuntime
    <3>4. meshAllowed' \in [Sessions -> BOOLEAN] /\ meshEnded' \subseteq Sessions
      BY <3>1, <3>3
    <3>. QED
      BY <3>1, <3>2, <3>4
  <2>3. /\ engine' \in [Sessions -> {"none", "configuring", "starting", "serving", "ended"}]
        /\ report' \in [Sessions -> {"none", "ok", "error"}] /\ slot' \in Sessions \union {None}
        /\ commands' \in 0 .. MaxCommands /\ lock' \in 0 .. commands'
    BY ThreadFacts, BoundsAssumption DEF TunnelInv, TypeOK, teardownRuntime, native, Final
  <2>4. inbox' \in [Sessions -> Seq(0 .. MaxCommands)]
    BY ThreadFacts, BoundsAssumption DEF TunnelInv, TypeOK, teardownRuntime, native, Final
  <2>. QED
    BY <2>1, <2>2, <2>3, <2>4 DEF TypeOK
<1>. QED
  BY <1>5, <1>6 DEF TunnelInv, Rest

LEMMA StartMesh_Inv ==
  ASSUME TunnelInv, NEW t \in Threads, StartMesh(t)
  PROVE  TunnelInv'
<1>0. PICK s \in Sessions : Session(t) = s /\ (t = Boot(s) \/ t = Stop(s))
  BY ThreadFacts
<1>1. ASSUME Goes(t, "build", "none") /\ UNCHANGED <<mesh, queue>> /\ UNCHANGED meshAllowed PROVE ThreadsOK' /\ Rest'
  <2>1. /\ thread[Boot(s)].job = "mesh"
        /\ UNCHANGED <<meshAllowed, platform, queue, mesh, meshEnded, engine, report, inbox, slot, lock, commands, dangling, overtaken>>
        /\ Goes(Boot(s), "build", "none")
    BY <1>1, <1>0, ThreadFacts DEF TunnelInv, TypeOK, JobOK, Legal, Teardown, StartMesh, native, Fail
  <2>2. "build" \in Jobs \ {"idle"} /\ "none" \in Places \ {"join"}
    BY <1>1, <2>1, NoneNotSession DEF TunnelInv, TypeOK, JobOK, Legal, Jobs, Places, Teardown
  <2>3. /\ ThreadsOK'
        /\ \A r \in Sessions : thread'[Stop(r)] = thread[Stop(r)]
        /\ \A r \in Sessions : r # s => thread'[Boot(r)] = thread[Boot(r)]
        /\ thread'[Boot(s)].job = "build" /\ thread'[Boot(s)].at = "none" /\ thread'[Boot(s)].joins = None
        /\ thread'[Boot(s)] # Idle
    BY <2>1, <2>2, BootGoes, Zenon DEF TunnelInv, TypeOK
  <2>4. \A r \in Sessions : r # s => JobOK(r)' /\ MeshOK(r)' /\ EngineOK(r)' /\ PlatformOK(r)'
    BY <2>1, <2>3, NoneNotSession DEF TunnelInv, JobOK, MeshOK, EngineOK, PlatformOK
  <2>5. JobOK(s)'
    BY <2>1, <2>3 DEF TunnelInv, JobOK, Legal, Teardown
  <2>6. \A r \in Sessions : SessionOK(r)'
    BY <2>1, <2>3, SessionBoot, IdleFields
  <2>7. MeshOK(s)'
    BY <2>1, <2>3, IdleFields DEF TunnelInv, JobOK, SessionOK, MeshOK
  <2>8. EngineOK(s)'
    BY <2>1, <2>3, NoneNotSession, NotJoining, IdleFields DEF TunnelInv, JobOK, Legal, EngineOK
  <2>9. PlatformOK(s)'
    BY <2>1, <2>3, IdleFields DEF TunnelInv, JobOK, SessionOK, EngineOK, PlatformOK
  <2>10. \A r \in Sessions : HandleOK(r)'
    BY <2>1, <2>3, HandleBoot, NoneNotSession, IdleFields
  <2>. QED
    BY <2>3, <2>4, <2>5, <2>6, <2>7, <2>8, <2>9, <2>10 DEF Rest
<1>2. ASSUME Fail(t) /\ UNCHANGED <<mesh, queue>> PROVE ThreadsOK' /\ Rest'
  <2>1. /\ thread[Boot(s)].job = "mesh"
        /\ thread[Boot(s)].at = "none"
        /\ ~meshAllowed'[s] /\ \A r \in Sessions : r # s => (meshAllowed'[r] <=> meshAllowed[r])
        /\ UNCHANGED <<platform, queue, mesh, meshEnded, engine, report, inbox, slot, lock, commands, dangling, overtaken>>
        /\ Goes(Boot(s), "fail", "take")
    BY <1>2, <1>0, ThreadFacts, Disallows DEF TunnelInv, TypeOK, JobOK, Legal, Teardown, StartMesh, native, Fail
  <2>2. "fail" \in Jobs \ {"idle"} /\ "take" \in Places \ {"join"}
    BY <1>2, <2>1, NoneNotSession DEF TunnelInv, TypeOK, JobOK, Legal, Jobs, Places, Teardown
  <2>3. /\ ThreadsOK'
        /\ \A r \in Sessions : thread'[Stop(r)] = thread[Stop(r)]
        /\ \A r \in Sessions : r # s => thread'[Boot(r)] = thread[Boot(r)]
        /\ thread'[Boot(s)].job = "fail" /\ thread'[Boot(s)].at = "take" /\ thread'[Boot(s)].joins = None
        /\ thread'[Boot(s)] # Idle
    BY <2>1, <2>2, BootGoes, Zenon DEF TunnelInv, TypeOK
  <2>4. \A r \in Sessions : r # s => JobOK(r)' /\ MeshOK(r)' /\ EngineOK(r)' /\ PlatformOK(r)'
    BY <2>1, <2>3, NoneNotSession DEF TunnelInv, JobOK, MeshOK, EngineOK, PlatformOK
  <2>5. JobOK(s)'
    BY <2>1, <2>3 DEF TunnelInv, JobOK, Legal, Teardown
  <2>6. \A r \in Sessions : SessionOK(r)'
    BY <2>1, <2>3, SessionBoot, IdleFields
  <2>7. MeshOK(s)'
    BY <2>1, <2>3, IdleFields DEF TunnelInv, JobOK, SessionOK, MeshOK
  <2>8. EngineOK(s)'
    BY <2>1, <2>3, NoneNotSession, NotJoining, IdleFields DEF TunnelInv, JobOK, Legal, EngineOK
  <2>9. PlatformOK(s)'
    BY <2>1, <2>3, IdleFields DEF TunnelInv, JobOK, SessionOK, EngineOK, PlatformOK
  <2>10. \A r \in Sessions : HandleOK(r)'
    BY <2>1, <2>3, HandleBoot, NoneNotSession, IdleFields
  <2>. QED
    BY <2>3, <2>4, <2>5, <2>6, <2>7, <2>8, <2>9, <2>10 DEF Rest
<1>3. ASSUME Goes(t, "mesh", "vip") /\ meshAllowed[s] /\ mesh' = mesh \union {s} /\ UNCHANGED meshAllowed PROVE ThreadsOK' /\ Rest'
  <2>1. /\ thread[Boot(s)].job = "mesh"
        /\ meshAllowed[s]
        /\ mesh' = mesh \union {s}
        /\ UNCHANGED <<meshAllowed, platform, meshEnded, engine, report, inbox, slot, lock, commands, dangling, overtaken>>
        /\ Goes(Boot(s), "mesh", "vip")
    BY <1>3, <1>0, ThreadFacts DEF TunnelInv, TypeOK, JobOK, Legal, Teardown, StartMesh, native, Fail
  <2>2. "mesh" \in Jobs \ {"idle"} /\ "vip" \in Places \ {"join"}
    BY <1>3, <2>1, NoneNotSession DEF TunnelInv, TypeOK, JobOK, Legal, Jobs, Places, Teardown
  <2>3. /\ ThreadsOK'
        /\ \A r \in Sessions : thread'[Stop(r)] = thread[Stop(r)]
        /\ \A r \in Sessions : r # s => thread'[Boot(r)] = thread[Boot(r)]
        /\ thread'[Boot(s)].job = "mesh" /\ thread'[Boot(s)].at = "vip" /\ thread'[Boot(s)].joins = None
        /\ thread'[Boot(s)] # Idle
    BY <2>1, <2>2, BootGoes, Zenon DEF TunnelInv, TypeOK
  <2>4. \A r \in Sessions : r # s => JobOK(r)' /\ MeshOK(r)' /\ EngineOK(r)' /\ PlatformOK(r)'
    BY <2>1, <2>3, NoneNotSession DEF TunnelInv, JobOK, MeshOK, EngineOK, PlatformOK
  <2>5. JobOK(s)'
    BY <2>1, <2>3 DEF TunnelInv, JobOK, Legal, Teardown
  <2>6. \A r \in Sessions : SessionOK(r)'
    BY <2>1, <2>3, SessionBoot, IdleFields
  <2>7. MeshOK(s)'
    BY <2>1, <2>3, IdleFields DEF TunnelInv, JobOK, SessionOK, MeshOK
  <2>8. EngineOK(s)'
    BY <2>1, <2>3, NoneNotSession, NotJoining, IdleFields DEF TunnelInv, JobOK, Legal, EngineOK
  <2>9. PlatformOK(s)'
    BY <2>1, <2>3, IdleFields DEF TunnelInv, JobOK, SessionOK, EngineOK, PlatformOK
  <2>10. \A r \in Sessions : HandleOK(r)'
    BY <2>1, <2>3, HandleBoot, NoneNotSession, IdleFields
  <2>. QED
    BY <2>3, <2>4, <2>5, <2>6, <2>7, <2>8, <2>9, <2>10 DEF Rest
<1>4. ThreadsOK' /\ Rest'
  BY <1>0, <1>1, <1>2, <1>3 DEF TunnelInv, JobOK, Legal, Teardown, StartMesh, native, Fail
<1>5. TypeOK'
  <2>1. ThreadsOK'
    BY <1>4
  <2>2. /\ meshAllowed' \in [Sessions -> BOOLEAN] /\ queue' \in [Sessions -> BOOLEAN]
        /\ platform' \in [Sessions -> {"none", "alive", "reset", "freed"}]
        /\ mesh' \subseteq Sessions /\ meshEnded' \subseteq Sessions
        /\ dangling' \subseteq Sessions /\ overtaken' \subseteq Sessions
    <3>1. /\ Session(t) \in Sessions
          /\ meshAllowed \in [Sessions -> BOOLEAN] /\ queue \in [Sessions -> BOOLEAN]
          /\ platform \in [Sessions -> {"none", "alive", "reset", "freed"}]
          /\ mesh \subseteq Sessions /\ meshEnded \subseteq Sessions
          /\ dangling \subseteq Sessions /\ overtaken \subseteq Sessions
      BY ThreadFacts DEF TunnelInv, TypeOK
    <3>2. UNCHANGED <<platform, meshEnded, dangling, overtaken>>
      BY DEF StartMesh, native
    <3>3. \/ /\ mesh' = mesh \union {Session(t)}
             /\ queue' = [queue EXCEPT ![Session(t)] = TRUE]
          \/ UNCHANGED <<mesh, queue>>
      BY DEF StartMesh
    <3>4. queue' \in [Sessions -> BOOLEAN] /\ mesh' \subseteq Sessions
      BY <3>1, <3>3
    <3>5. meshAllowed' \in [Sessions -> BOOLEAN]
      <4>1. UNCHANGED meshAllowed \/ Fail(t)
        BY DEF StartMesh
      <4>. QED
        BY <3>1, <4>1, <1>0, Disallows
    <3>. QED
      BY <3>1, <3>2, <3>4, <3>5
  <2>3. /\ engine' \in [Sessions -> {"none", "configuring", "starting", "serving", "ended"}]
        /\ report' \in [Sessions -> {"none", "ok", "error"}] /\ slot' \in Sessions \union {None}
        /\ commands' \in 0 .. MaxCommands /\ lock' \in 0 .. commands'
    BY ThreadFacts, BoundsAssumption DEF TunnelInv, TypeOK, StartMesh, native, Fail
  <2>4. inbox' \in [Sessions -> Seq(0 .. MaxCommands)]
    BY ThreadFacts, BoundsAssumption DEF TunnelInv, TypeOK, StartMesh, native, Fail
  <2>. QED
    BY <2>1, <2>2, <2>3, <2>4 DEF TypeOK
<1>. QED
  BY <1>4, <1>5 DEF TunnelInv, Rest

LEMMA AwaitAddress_Inv ==
  ASSUME TunnelInv, NEW t \in Threads, AwaitAddress(t)
  PROVE  TunnelInv'
<1>0. PICK s \in Sessions : Session(t) = s /\ (t = Boot(s) \/ t = Stop(s))
  BY ThreadFacts
<1>1. ASSUME Goes(t, "build", "none") /\ UNCHANGED meshAllowed PROVE ThreadsOK' /\ Rest'
  <2>1. /\ thread[Boot(s)].job = "mesh"
        /\ mesh' \subseteq mesh
        /\ UNCHANGED <<meshAllowed, platform, meshEnded, engine, report, inbox, slot, lock, commands, dangling, overtaken>>
        /\ Goes(Boot(s), "build", "none")
    BY <1>1, <1>0, ThreadFacts DEF TunnelInv, TypeOK, JobOK, Legal, Teardown, AwaitAddress, native, Fail
  <2>2. "build" \in Jobs \ {"idle"} /\ "none" \in Places \ {"join"}
    BY <1>1, <2>1, NoneNotSession DEF TunnelInv, TypeOK, JobOK, Legal, Jobs, Places, Teardown
  <2>3. /\ ThreadsOK'
        /\ \A r \in Sessions : thread'[Stop(r)] = thread[Stop(r)]
        /\ \A r \in Sessions : r # s => thread'[Boot(r)] = thread[Boot(r)]
        /\ thread'[Boot(s)].job = "build" /\ thread'[Boot(s)].at = "none" /\ thread'[Boot(s)].joins = None
        /\ thread'[Boot(s)] # Idle
    BY <2>1, <2>2, BootGoes, Zenon DEF TunnelInv, TypeOK
  <2>4. \A r \in Sessions : r # s => JobOK(r)' /\ MeshOK(r)' /\ EngineOK(r)' /\ PlatformOK(r)'
    BY <2>1, <2>3, NoneNotSession DEF TunnelInv, JobOK, MeshOK, EngineOK, PlatformOK
  <2>5. JobOK(s)'
    BY <2>1, <2>3 DEF TunnelInv, JobOK, Legal, Teardown
  <2>6. \A r \in Sessions : SessionOK(r)'
    BY <2>1, <2>3, SessionBoot, IdleFields
  <2>7. MeshOK(s)'
    BY <2>1, <2>3, IdleFields DEF TunnelInv, JobOK, SessionOK, MeshOK
  <2>8. EngineOK(s)'
    BY <2>1, <2>3, NoneNotSession, NotJoining, IdleFields DEF TunnelInv, JobOK, Legal, EngineOK
  <2>9. PlatformOK(s)'
    BY <2>1, <2>3, IdleFields DEF TunnelInv, JobOK, SessionOK, EngineOK, PlatformOK
  <2>10. \A r \in Sessions : HandleOK(r)'
    BY <2>1, <2>3, HandleBoot, NoneNotSession, IdleFields
  <2>. QED
    BY <2>3, <2>4, <2>5, <2>6, <2>7, <2>8, <2>9, <2>10 DEF Rest
<1>2. ASSUME Fail(t) PROVE ThreadsOK' /\ Rest'
  <2>1. /\ thread[Boot(s)].job = "mesh"
        /\ mesh' \subseteq mesh
        /\ ~meshAllowed'[s] /\ \A r \in Sessions : r # s => (meshAllowed'[r] <=> meshAllowed[r])
        /\ UNCHANGED <<platform, meshEnded, engine, report, inbox, slot, lock, commands, dangling, overtaken>>
        /\ Goes(Boot(s), "fail", "take")
    BY <1>2, <1>0, ThreadFacts, Disallows DEF TunnelInv, TypeOK, JobOK, Legal, Teardown, AwaitAddress, native, Fail
  <2>2. "fail" \in Jobs \ {"idle"} /\ "take" \in Places \ {"join"}
    BY <1>2, <2>1, NoneNotSession DEF TunnelInv, TypeOK, JobOK, Legal, Jobs, Places, Teardown
  <2>3. /\ ThreadsOK'
        /\ \A r \in Sessions : thread'[Stop(r)] = thread[Stop(r)]
        /\ \A r \in Sessions : r # s => thread'[Boot(r)] = thread[Boot(r)]
        /\ thread'[Boot(s)].job = "fail" /\ thread'[Boot(s)].at = "take" /\ thread'[Boot(s)].joins = None
        /\ thread'[Boot(s)] # Idle
    BY <2>1, <2>2, BootGoes, Zenon DEF TunnelInv, TypeOK
  <2>4. \A r \in Sessions : r # s => JobOK(r)' /\ MeshOK(r)' /\ EngineOK(r)' /\ PlatformOK(r)'
    BY <2>1, <2>3, NoneNotSession DEF TunnelInv, JobOK, MeshOK, EngineOK, PlatformOK
  <2>5. JobOK(s)'
    BY <2>1, <2>3 DEF TunnelInv, JobOK, Legal, Teardown
  <2>6. \A r \in Sessions : SessionOK(r)'
    BY <2>1, <2>3, SessionBoot, IdleFields
  <2>7. MeshOK(s)'
    BY <2>1, <2>3, IdleFields DEF TunnelInv, JobOK, SessionOK, MeshOK
  <2>8. EngineOK(s)'
    BY <2>1, <2>3, NoneNotSession, NotJoining, IdleFields DEF TunnelInv, JobOK, Legal, EngineOK
  <2>9. PlatformOK(s)'
    BY <2>1, <2>3, IdleFields DEF TunnelInv, JobOK, SessionOK, EngineOK, PlatformOK
  <2>10. \A r \in Sessions : HandleOK(r)'
    BY <2>1, <2>3, HandleBoot, NoneNotSession, IdleFields
  <2>. QED
    BY <2>3, <2>4, <2>5, <2>6, <2>7, <2>8, <2>9, <2>10 DEF Rest
<1>3. ThreadsOK' /\ Rest'
  BY <1>0, <1>1, <1>2 DEF TunnelInv, JobOK, Legal, Teardown, AwaitAddress, native, Fail
<1>4. TypeOK'
  <2>1. ThreadsOK'
    BY <1>3
  <2>2. /\ meshAllowed' \in [Sessions -> BOOLEAN] /\ queue' \in [Sessions -> BOOLEAN]
        /\ platform' \in [Sessions -> {"none", "alive", "reset", "freed"}]
        /\ mesh' \subseteq Sessions /\ meshEnded' \subseteq Sessions
        /\ dangling' \subseteq Sessions /\ overtaken' \subseteq Sessions
    <3>1. UNCHANGED meshAllowed \/ Fail(t)
      BY DEF AwaitAddress
    <3>2. meshAllowed' \in [Sessions -> BOOLEAN]
      BY <1>0, <3>1, Disallows DEF TunnelInv, TypeOK
    <3>. QED
      BY <3>2, ThreadFacts DEF TunnelInv, TypeOK, AwaitAddress, native
  <2>3. /\ engine' \in [Sessions -> {"none", "configuring", "starting", "serving", "ended"}]
        /\ report' \in [Sessions -> {"none", "ok", "error"}] /\ slot' \in Sessions \union {None}
        /\ commands' \in 0 .. MaxCommands /\ lock' \in 0 .. commands'
    BY ThreadFacts, BoundsAssumption DEF TunnelInv, TypeOK, AwaitAddress, native, Fail
  <2>4. inbox' \in [Sessions -> Seq(0 .. MaxCommands)]
    BY ThreadFacts, BoundsAssumption DEF TunnelInv, TypeOK, AwaitAddress, native, Fail
  <2>. QED
    BY <2>1, <2>2, <2>3, <2>4 DEF TypeOK
<1>. QED
  BY <1>3, <1>4 DEF TunnelInv, Rest

LEMMA Build_Inv ==
  ASSUME TunnelInv, NEW t \in Threads, Build(t)
  PROVE  TunnelInv'
<1>0. PICK s \in Sessions : Session(t) = s /\ (t = Boot(s) \/ t = Stop(s))
  BY ThreadFacts
<1>1. ASSUME Fail(t) /\ UNCHANGED platform PROVE ThreadsOK' /\ Rest'
  <2>1. /\ thread[Boot(s)].job = "build"
        /\ ~meshAllowed'[s] /\ \A r \in Sessions : r # s => (meshAllowed'[r] <=> meshAllowed[r])
        /\ UNCHANGED <<platform, queue, mesh, meshEnded, engine, report, inbox, slot, lock, commands, dangling, overtaken>>
        /\ Goes(Boot(s), "fail", "take")
    BY <1>1, <1>0, ThreadFacts, Disallows DEF TunnelInv, TypeOK, JobOK, Legal, Teardown, Build, native, Fail
  <2>2. "fail" \in Jobs \ {"idle"} /\ "take" \in Places \ {"join"}
    BY <1>1, <2>1, NoneNotSession DEF TunnelInv, TypeOK, JobOK, Legal, Jobs, Places, Teardown
  <2>3. /\ ThreadsOK'
        /\ \A r \in Sessions : thread'[Stop(r)] = thread[Stop(r)]
        /\ \A r \in Sessions : r # s => thread'[Boot(r)] = thread[Boot(r)]
        /\ thread'[Boot(s)].job = "fail" /\ thread'[Boot(s)].at = "take" /\ thread'[Boot(s)].joins = None
        /\ thread'[Boot(s)] # Idle
    BY <2>1, <2>2, BootGoes, Zenon DEF TunnelInv, TypeOK
  <2>4. \A r \in Sessions : r # s => JobOK(r)' /\ MeshOK(r)' /\ EngineOK(r)' /\ PlatformOK(r)'
    BY <2>1, <2>3, NoneNotSession DEF TunnelInv, JobOK, MeshOK, EngineOK, PlatformOK
  <2>5. JobOK(s)'
    BY <2>1, <2>3 DEF TunnelInv, JobOK, Legal, Teardown
  <2>6. \A r \in Sessions : SessionOK(r)'
    BY <2>1, <2>3, SessionBoot, IdleFields
  <2>7. MeshOK(s)'
    BY <2>1, <2>3, IdleFields DEF TunnelInv, JobOK, SessionOK, MeshOK
  <2>8. EngineOK(s)'
    BY <2>1, <2>3, NoneNotSession, NotJoining, IdleFields DEF TunnelInv, JobOK, Legal, EngineOK
  <2>9. PlatformOK(s)'
    BY <2>1, <2>3, IdleFields DEF TunnelInv, JobOK, SessionOK, EngineOK, PlatformOK
  <2>10. \A r \in Sessions : HandleOK(r)'
    BY <2>1, <2>3, HandleBoot, NoneNotSession, IdleFields
  <2>. QED
    BY <2>3, <2>4, <2>5, <2>6, <2>7, <2>8, <2>9, <2>10 DEF Rest
<1>2. ASSUME Goes(t, "start", "take") /\ platform' = [platform EXCEPT ![s] = "alive"] /\ UNCHANGED meshAllowed PROVE ThreadsOK' /\ Rest'
  <2>1. /\ thread[Boot(s)].job = "build"
        /\ \A r \in Sessions : platform'[r] = IF r = s THEN "alive" ELSE platform[r]
        /\ UNCHANGED <<meshAllowed, queue, mesh, meshEnded, engine, report, inbox, slot, lock, commands, dangling, overtaken>>
        /\ Goes(Boot(s), "start", "take")
    BY <1>2, <1>0, ThreadFacts DEF TunnelInv, TypeOK, JobOK, Legal, Teardown, Build, native, Fail
  <2>2. "start" \in Jobs \ {"idle"} /\ "take" \in Places \ {"join"}
    BY <1>2, <2>1, NoneNotSession DEF TunnelInv, TypeOK, JobOK, Legal, Jobs, Places, Teardown
  <2>3. /\ ThreadsOK'
        /\ \A r \in Sessions : thread'[Stop(r)] = thread[Stop(r)]
        /\ \A r \in Sessions : r # s => thread'[Boot(r)] = thread[Boot(r)]
        /\ thread'[Boot(s)].job = "start" /\ thread'[Boot(s)].at = "take" /\ thread'[Boot(s)].joins = None
        /\ thread'[Boot(s)] # Idle
    BY <2>1, <2>2, BootGoes, Zenon DEF TunnelInv, TypeOK
  <2>4. \A r \in Sessions : r # s => JobOK(r)' /\ MeshOK(r)' /\ EngineOK(r)' /\ PlatformOK(r)'
    BY <2>1, <2>3, NoneNotSession DEF TunnelInv, JobOK, MeshOK, EngineOK, PlatformOK
  <2>5. JobOK(s)'
    BY <2>1, <2>3 DEF TunnelInv, JobOK, Legal, Teardown
  <2>6. \A r \in Sessions : SessionOK(r)'
    BY <2>1, <2>3, SessionBoot, IdleFields
  <2>7. MeshOK(s)'
    BY <2>1, <2>3, IdleFields DEF TunnelInv, JobOK, SessionOK, MeshOK
  <2>8. EngineOK(s)'
    BY <2>1, <2>3, NoneNotSession, NotJoining, IdleFields DEF TunnelInv, JobOK, Legal, EngineOK
  <2>9. PlatformOK(s)'
    BY <2>1, <2>3, IdleFields DEF TunnelInv, JobOK, SessionOK, EngineOK, PlatformOK
  <2>10. \A r \in Sessions : HandleOK(r)'
    BY <2>1, <2>3, HandleBoot, NoneNotSession, IdleFields
  <2>. QED
    BY <2>3, <2>4, <2>5, <2>6, <2>7, <2>8, <2>9, <2>10 DEF Rest
<1>3. ThreadsOK' /\ Rest'
  BY <1>0, <1>1, <1>2 DEF TunnelInv, JobOK, Legal, Teardown, Build, native, Fail
<1>4. TypeOK'
  <2>1. ThreadsOK'
    BY <1>3
  <2>2. /\ meshAllowed' \in [Sessions -> BOOLEAN] /\ queue' \in [Sessions -> BOOLEAN]
        /\ platform' \in [Sessions -> {"none", "alive", "reset", "freed"}]
        /\ mesh' \subseteq Sessions /\ meshEnded' \subseteq Sessions
        /\ dangling' \subseteq Sessions /\ overtaken' \subseteq Sessions
    <3>1. UNCHANGED meshAllowed \/ Fail(t)
      BY DEF Build
    <3>2. meshAllowed' \in [Sessions -> BOOLEAN]
      BY <1>0, <3>1, Disallows DEF TunnelInv, TypeOK
    <3>3. UNCHANGED platform \/ platform' = [platform EXCEPT ![s] = "alive"]
      BY <1>0 DEF Build
    <3>4. platform' \in [Sessions -> {"none", "alive", "reset", "freed"}]
      BY <3>3 DEF TunnelInv, TypeOK
    <3>5. UNCHANGED <<queue, mesh, meshEnded, dangling, overtaken>>
      BY DEF Build, native
    <3>. QED
      BY <3>2, <3>4, <3>5 DEF TunnelInv, TypeOK
  <2>3. /\ engine' \in [Sessions -> {"none", "configuring", "starting", "serving", "ended"}]
        /\ report' \in [Sessions -> {"none", "ok", "error"}] /\ slot' \in Sessions \union {None}
        /\ commands' \in 0 .. MaxCommands /\ lock' \in 0 .. commands'
    BY ThreadFacts, BoundsAssumption DEF TunnelInv, TypeOK, Build, native, Fail
  <2>4. inbox' \in [Sessions -> Seq(0 .. MaxCommands)]
    BY ThreadFacts, BoundsAssumption DEF TunnelInv, TypeOK, Build, native, Fail
  <2>. QED
    BY <2>1, <2>2, <2>3, <2>4 DEF TypeOK
<1>. QED
  BY <1>3, <1>4 DEF TunnelInv, Rest

LEMMA Spawn_Inv ==
  ASSUME TunnelInv, NEW t \in Threads, Spawn(t)
  PROVE  TunnelInv'
<1>0. PICK s \in Sessions : Session(t) = s /\ (t = Boot(s) \/ t = Stop(s))
  BY ThreadFacts
<1>1. ASSUME Goes(t, "start", "startup"), UNCHANGED meshAllowed,
             engine' = [engine EXCEPT ![s] = "configuring"]
      PROVE  ThreadsOK' /\ Rest'
  <2>1. /\ thread[Boot(s)].job = "start"
        /\ thread[Boot(s)].at = "spawn"
        /\ \A r \in Sessions : engine'[r] = IF r = s THEN "configuring" ELSE engine[r]
        /\ UNCHANGED <<meshAllowed, platform, queue, mesh, meshEnded, report, inbox, slot, lock, commands, dangling, overtaken>>
        /\ Goes(Boot(s), "start", "startup")
    BY <1>1, <1>0, ThreadFacts DEF TunnelInv, TypeOK, JobOK, Legal, Teardown, Spawn, native, Fail
  <2>2. "start" \in Jobs \ {"idle"} /\ "startup" \in Places \ {"join"}
    BY <1>1, <2>1, NoneNotSession DEF TunnelInv, TypeOK, JobOK, Legal, Jobs, Places, Teardown
  <2>3. /\ ThreadsOK'
        /\ \A r \in Sessions : thread'[Stop(r)] = thread[Stop(r)]
        /\ \A r \in Sessions : r # s => thread'[Boot(r)] = thread[Boot(r)]
        /\ thread'[Boot(s)].job = "start" /\ thread'[Boot(s)].at = "startup" /\ thread'[Boot(s)].joins = None
        /\ thread'[Boot(s)] # Idle
    BY <2>1, <2>2, BootGoes, Zenon DEF TunnelInv, TypeOK
  <2>4. \A r \in Sessions : r # s => JobOK(r)' /\ MeshOK(r)' /\ EngineOK(r)' /\ PlatformOK(r)'
    BY <2>1, <2>3, NoneNotSession DEF TunnelInv, JobOK, MeshOK, EngineOK, PlatformOK
  <2>5. JobOK(s)'
    BY <2>1, <2>3 DEF TunnelInv, JobOK, Legal, Teardown
  <2>6. \A r \in Sessions : SessionOK(r)'
    BY <2>1, <2>3, SessionBoot, IdleFields
  <2>7. MeshOK(s)'
    BY <2>1, <2>3, IdleFields DEF TunnelInv, JobOK, SessionOK, MeshOK
  <2>8. EngineOK(s)'
    BY <2>1, <2>3, NoneNotSession, NotJoining, IdleFields DEF TunnelInv, JobOK, Legal, EngineOK
  <2>9. PlatformOK(s)'
    BY <2>1, <2>3, IdleFields DEF TunnelInv, JobOK, SessionOK, EngineOK, PlatformOK
  <2>10. \A r \in Sessions : HandleOK(r)'
    BY <2>1, <2>3, HandleBoot, NoneNotSession, IdleFields
  <2>. QED
    BY <2>3, <2>4, <2>5, <2>6, <2>7, <2>8, <2>9, <2>10 DEF Rest
<1>2. ASSUME Fail(t) /\ UNCHANGED engine PROVE ThreadsOK' /\ Rest'
  <2>1. /\ thread[Boot(s)].job = "start"
        /\ thread[Boot(s)].at = "spawn"
        /\ ~meshAllowed'[s] /\ \A r \in Sessions : r # s => (meshAllowed'[r] <=> meshAllowed[r])
        /\ UNCHANGED <<platform, queue, mesh, meshEnded, engine, report, inbox, slot, lock, commands, dangling, overtaken>>
        /\ Goes(Boot(s), "fail", "take")
    BY <1>2, <1>0, ThreadFacts, Disallows DEF TunnelInv, TypeOK, JobOK, Legal, Teardown, Spawn, native, Fail
  <2>2. "fail" \in Jobs \ {"idle"} /\ "take" \in Places \ {"join"}
    BY <1>2, <2>1, NoneNotSession DEF TunnelInv, TypeOK, JobOK, Legal, Jobs, Places, Teardown
  <2>3. /\ ThreadsOK'
        /\ \A r \in Sessions : thread'[Stop(r)] = thread[Stop(r)]
        /\ \A r \in Sessions : r # s => thread'[Boot(r)] = thread[Boot(r)]
        /\ thread'[Boot(s)].job = "fail" /\ thread'[Boot(s)].at = "take" /\ thread'[Boot(s)].joins = None
        /\ thread'[Boot(s)] # Idle
    BY <2>1, <2>2, BootGoes, Zenon DEF TunnelInv, TypeOK
  <2>4. \A r \in Sessions : r # s => JobOK(r)' /\ MeshOK(r)' /\ EngineOK(r)' /\ PlatformOK(r)'
    BY <2>1, <2>3, NoneNotSession DEF TunnelInv, JobOK, MeshOK, EngineOK, PlatformOK
  <2>5. JobOK(s)'
    BY <2>1, <2>3 DEF TunnelInv, JobOK, Legal, Teardown
  <2>6. \A r \in Sessions : SessionOK(r)'
    BY <2>1, <2>3, SessionBoot, IdleFields
  <2>7. MeshOK(s)'
    BY <2>1, <2>3, IdleFields DEF TunnelInv, JobOK, SessionOK, MeshOK
  <2>8. EngineOK(s)'
    BY <2>1, <2>3, NoneNotSession, NotJoining, IdleFields DEF TunnelInv, JobOK, Legal, EngineOK
  <2>9. PlatformOK(s)'
    BY <2>1, <2>3, IdleFields DEF TunnelInv, JobOK, SessionOK, EngineOK, PlatformOK
  <2>10. \A r \in Sessions : HandleOK(r)'
    BY <2>1, <2>3, HandleBoot, NoneNotSession, IdleFields
  <2>. QED
    BY <2>3, <2>4, <2>5, <2>6, <2>7, <2>8, <2>9, <2>10 DEF Rest
<1>3. ThreadsOK' /\ Rest'
  BY <1>0, <1>1, <1>2 DEF TunnelInv, JobOK, Legal, Teardown, Spawn, native, Fail
<1>4. TypeOK'
  <2>1. ThreadsOK'
    BY <1>3
  <2>2. /\ meshAllowed' \in [Sessions -> BOOLEAN] /\ queue' \in [Sessions -> BOOLEAN]
        /\ platform' \in [Sessions -> {"none", "alive", "reset", "freed"}]
        /\ mesh' \subseteq Sessions /\ meshEnded' \subseteq Sessions
        /\ dangling' \subseteq Sessions /\ overtaken' \subseteq Sessions
    <3>1. UNCHANGED meshAllowed \/ Fail(t)
      BY DEF Spawn
    <3>2. meshAllowed' \in [Sessions -> BOOLEAN]
      BY <1>0, <3>1, Disallows DEF TunnelInv, TypeOK
    <3>. QED
      BY <3>2, ThreadFacts DEF TunnelInv, TypeOK, Spawn, native
  <2>3. /\ engine' \in [Sessions -> {"none", "configuring", "starting", "serving", "ended"}]
        /\ report' \in [Sessions -> {"none", "ok", "error"}] /\ slot' \in Sessions \union {None}
        /\ commands' \in 0 .. MaxCommands /\ lock' \in 0 .. commands'
    BY ThreadFacts, BoundsAssumption DEF TunnelInv, TypeOK, Spawn, native, Fail
  <2>4. inbox' \in [Sessions -> Seq(0 .. MaxCommands)]
    BY ThreadFacts, BoundsAssumption DEF TunnelInv, TypeOK, Spawn, native, Fail
  <2>. QED
    BY <2>1, <2>2, <2>3, <2>4 DEF TypeOK
<1>. QED
  BY <1>3, <1>4 DEF TunnelInv, Rest

LEMMA Register_Inv ==
  ASSUME TunnelInv, NEW t \in Threads, Register(t)
  PROVE  TunnelInv'
<1>0. PICK s \in Sessions : Session(t) = s /\ (t = Boot(s) \/ t = Stop(s))
  BY ThreadFacts
<1>1. ASSUME TRUE PROVE ThreadsOK' /\ Rest'
  <2>1. /\ thread[Boot(s)].job = "start"
        /\ thread[Boot(s)].at = "startup"
        /\ report[s] = "ok"
        /\ slot' = s
        /\ UNCHANGED <<meshAllowed, platform, queue, mesh, meshEnded, engine, report, lock, commands, dangling, overtaken>>
        /\ Goes(Boot(s), "done", "none")
    BY <1>1, <1>0, ThreadFacts DEF TunnelInv, TypeOK, JobOK, Legal, Teardown, Register, native
  <2>2. "done" \in Jobs \ {"idle"} /\ "none" \in Places \ {"join"}
    BY <1>1, <2>1, NoneNotSession DEF TunnelInv, TypeOK, JobOK, Legal, Jobs, Places, Teardown
  <2>3. /\ ThreadsOK'
        /\ \A r \in Sessions : thread'[Stop(r)] = thread[Stop(r)]
        /\ \A r \in Sessions : r # s => thread'[Boot(r)] = thread[Boot(r)]
        /\ thread'[Boot(s)].job = "done" /\ thread'[Boot(s)].at = "none" /\ thread'[Boot(s)].joins = None
        /\ thread'[Boot(s)] # Idle
    BY <2>1, <2>2, BootGoes, Zenon DEF TunnelInv, TypeOK
  <2>4. \A r \in Sessions : r # s => JobOK(r)' /\ MeshOK(r)' /\ EngineOK(r)' /\ PlatformOK(r)'
    BY <2>1, <2>3, NoneNotSession DEF TunnelInv, JobOK, MeshOK, EngineOK, PlatformOK
  <2>5. JobOK(s)'
    BY <2>1, <2>3 DEF TunnelInv, JobOK, Legal, Teardown
  <2>6. \A r \in Sessions : SessionOK(r)'
    BY <2>1, <2>3, SessionBoot, IdleFields
  <2>7. MeshOK(s)'
    BY <2>1, <2>3, IdleFields DEF TunnelInv, JobOK, SessionOK, MeshOK
  <2>8. EngineOK(s)'
    BY <2>1, <2>3, NoneNotSession, NotJoining, IdleFields DEF TunnelInv, JobOK, Legal, EngineOK
  <2>9. PlatformOK(s)'
    BY <2>1, <2>3, IdleFields DEF TunnelInv, JobOK, SessionOK, EngineOK, PlatformOK
  <2>10. \A r \in Sessions : HandleOK(r)'
    BY <2>1, <2>3, HandleTaken, NoneNotSession, IdleFields DEF TunnelInv, SessionOK
  <2>. QED
    BY <2>3, <2>4, <2>5, <2>6, <2>7, <2>8, <2>9, <2>10 DEF Rest
<1>2. ThreadsOK' /\ Rest'
  BY <1>0, <1>1 DEF TunnelInv, JobOK, Legal, Teardown, Register, native
<1>3. TypeOK'
  <2>1. ThreadsOK'
    BY <1>2
  <2>2. /\ meshAllowed' \in [Sessions -> BOOLEAN] /\ queue' \in [Sessions -> BOOLEAN]
        /\ platform' \in [Sessions -> {"none", "alive", "reset", "freed"}]
        /\ mesh' \subseteq Sessions /\ meshEnded' \subseteq Sessions
        /\ dangling' \subseteq Sessions /\ overtaken' \subseteq Sessions
    BY ThreadFacts DEF TunnelInv, TypeOK, Register, native
  <2>3. /\ engine' \in [Sessions -> {"none", "configuring", "starting", "serving", "ended"}]
        /\ report' \in [Sessions -> {"none", "ok", "error"}] /\ slot' \in Sessions \union {None}
        /\ commands' \in 0 .. MaxCommands /\ lock' \in 0 .. commands'
    BY ThreadFacts, BoundsAssumption DEF TunnelInv, TypeOK, Register, native
  <2>4. inbox' \in [Sessions -> Seq(0 .. MaxCommands)]
    <3>1. inbox' = inbox \/ \E q \in Sessions : inbox' = [inbox EXCEPT ![q] = Append(inbox[q], 0)]
      BY ThreadFacts DEF TunnelInv, TypeOK, Register
    <3>2. \A x \in Seq(0 .. MaxCommands) : Append(x, 0) \in Seq(0 .. MaxCommands)
      BY BoundsAssumption
    <3>3. ASSUME NEW q \in Sessions, inbox' = [inbox EXCEPT ![q] = Append(inbox[q], 0)]
          PROVE  inbox' \in [Sessions -> Seq(0 .. MaxCommands)]
      <4>1. inbox \in [Sessions -> Seq(0 .. MaxCommands)] /\ inbox[q] \in Seq(0 .. MaxCommands)
        BY DEF TunnelInv, TypeOK
      <4>2. Append(inbox[q], 0) \in Seq(0 .. MaxCommands)
        BY <3>2, <4>1
      <4>. QED
        BY <3>3, <4>1, <4>2
    <3>. QED
      BY <3>1, <3>3 DEF TunnelInv, TypeOK
  <2>. QED
    BY <2>1, <2>2, <2>3, <2>4 DEF TypeOK
<1>. QED
  BY <1>2, <1>3 DEF TunnelInv, Rest

LEMMA StartupFailed_Inv ==
  ASSUME TunnelInv, NEW t \in Threads, StartupFailed(t)
  PROVE  TunnelInv'
<1>0. PICK s \in Sessions : Session(t) = s /\ (t = Boot(s) \/ t = Stop(s))
  BY ThreadFacts
<1>1. ASSUME TRUE PROVE ThreadsOK' /\ Rest'
  <2>1. /\ thread[Boot(s)].job = "start"
        /\ thread[Boot(s)].at = "startup"
        /\ UNCHANGED <<meshAllowed, platform, queue, mesh, meshEnded, engine, report, slot, lock, commands, dangling, overtaken>>
        /\ Joins(Boot(s), s)
    BY <1>1, <1>0, ThreadFacts DEF TunnelInv, TypeOK, JobOK, Legal, Teardown, StartupFailed, native
  <2>2. thread[Boot(s)].job # "idle" /\ s \in Sessions
    BY <1>1, <2>1, NoneNotSession DEF TunnelInv, TypeOK, JobOK, Legal, Jobs, Places, Teardown
  <2>3. /\ ThreadsOK'
        /\ \A r \in Sessions : thread'[Stop(r)] = thread[Stop(r)]
        /\ \A r \in Sessions : r # s => thread'[Boot(r)] = thread[Boot(r)]
        /\ thread'[Boot(s)].job = thread[Boot(s)].job /\ thread'[Boot(s)].at = "join" /\ thread'[Boot(s)].joins = s
        /\ thread'[Boot(s)] # Idle
    BY <2>1, <2>2, BootJoins, Zenon DEF TunnelInv, TypeOK
  <2>4. \A r \in Sessions : r # s => JobOK(r)' /\ MeshOK(r)' /\ EngineOK(r)' /\ PlatformOK(r)'
    BY <2>1, <2>3, NoneNotSession DEF TunnelInv, JobOK, MeshOK, EngineOK, PlatformOK
  <2>5. JobOK(s)'
    BY <2>1, <2>3 DEF TunnelInv, JobOK, Legal, Teardown
  <2>6. \A r \in Sessions : SessionOK(r)'
    BY <2>1, <2>3, SessionBoot, IdleFields
  <2>7. MeshOK(s)'
    BY <2>1, <2>3, IdleFields DEF TunnelInv, JobOK, SessionOK, MeshOK
  <2>8. EngineOK(s)'
    BY <2>1, <2>3, NoneNotSession, NotJoining, IdleFields DEF TunnelInv, JobOK, Legal, EngineOK
  <2>9. PlatformOK(s)'
    BY <2>1, <2>3, IdleFields DEF TunnelInv, JobOK, SessionOK, EngineOK, PlatformOK
  <2>10. \A r \in Sessions : HandleOK(r)'
    BY <2>1, <2>3, HandleBoot, NoneNotSession, IdleFields
  <2>. QED
    BY <2>3, <2>4, <2>5, <2>6, <2>7, <2>8, <2>9, <2>10 DEF Rest
<1>2. ThreadsOK' /\ Rest'
  BY <1>0, <1>1 DEF TunnelInv, JobOK, Legal, Teardown, StartupFailed, native
<1>3. TypeOK'
  <2>1. ThreadsOK'
    BY <1>2
  <2>2. /\ meshAllowed' \in [Sessions -> BOOLEAN] /\ queue' \in [Sessions -> BOOLEAN]
        /\ platform' \in [Sessions -> {"none", "alive", "reset", "freed"}]
        /\ mesh' \subseteq Sessions /\ meshEnded' \subseteq Sessions
        /\ dangling' \subseteq Sessions /\ overtaken' \subseteq Sessions
    BY ThreadFacts DEF TunnelInv, TypeOK, StartupFailed, native
  <2>3. /\ engine' \in [Sessions -> {"none", "configuring", "starting", "serving", "ended"}]
        /\ report' \in [Sessions -> {"none", "ok", "error"}] /\ slot' \in Sessions \union {None}
        /\ commands' \in 0 .. MaxCommands /\ lock' \in 0 .. commands'
    BY ThreadFacts, BoundsAssumption DEF TunnelInv, TypeOK, StartupFailed, native
  <2>4. inbox' \in [Sessions -> Seq(0 .. MaxCommands)]
    <3>1. inbox' = inbox \/ \E q \in Sessions : inbox' = [inbox EXCEPT ![q] = Append(inbox[q], 0)]
      BY ThreadFacts DEF TunnelInv, TypeOK, StartupFailed
    <3>2. \A x \in Seq(0 .. MaxCommands) : Append(x, 0) \in Seq(0 .. MaxCommands)
      BY BoundsAssumption
    <3>3. ASSUME NEW q \in Sessions, inbox' = [inbox EXCEPT ![q] = Append(inbox[q], 0)]
          PROVE  inbox' \in [Sessions -> Seq(0 .. MaxCommands)]
      <4>1. inbox \in [Sessions -> Seq(0 .. MaxCommands)] /\ inbox[q] \in Seq(0 .. MaxCommands)
        BY DEF TunnelInv, TypeOK
      <4>2. Append(inbox[q], 0) \in Seq(0 .. MaxCommands)
        BY <3>2, <4>1
      <4>. QED
        BY <3>3, <4>1, <4>2
    <3>. QED
      BY <3>1, <3>3 DEF TunnelInv, TypeOK
  <2>. QED
    BY <2>1, <2>2, <2>3, <2>4 DEF TypeOK
<1>. QED
  BY <1>2, <1>3 DEF TunnelInv, Rest

LEMMA Configure_Inv ==
  ASSUME TunnelInv, NEW s \in Sessions, Configure(s)
  PROVE  TunnelInv'
<1>1. UNCHANGED thread
  BY DEF Configure, native
<1>2. TypeOK'
  <2>1. ThreadsOK'
    BY <1>1 DEF TunnelInv, TypeOK, ThreadsOK
  <2>2. /\ meshAllowed' \in [Sessions -> BOOLEAN] /\ queue' \in [Sessions -> BOOLEAN]
        /\ platform' \in [Sessions -> {"none", "alive", "reset", "freed"}]
        /\ mesh' \subseteq Sessions /\ meshEnded' \subseteq Sessions
        /\ dangling' \subseteq Sessions /\ overtaken' \subseteq Sessions
    BY ThreadFacts DEF TunnelInv, TypeOK, Configure, native
  <2>3. /\ engine' \in [Sessions -> {"none", "configuring", "starting", "serving", "ended"}]
        /\ report' \in [Sessions -> {"none", "ok", "error"}] /\ slot' \in Sessions \union {None}
        /\ commands' \in 0 .. MaxCommands /\ lock' \in 0 .. commands'
    BY ThreadFacts, BoundsAssumption DEF TunnelInv, TypeOK, Configure, native
  <2>4. inbox' \in [Sessions -> Seq(0 .. MaxCommands)]
    BY ThreadFacts, BoundsAssumption DEF TunnelInv, TypeOK, Configure, native
  <2>. QED
    BY <2>1, <2>2, <2>3, <2>4 DEF TypeOK
<1>3. ASSUME NEW r \in Sessions
      PROVE  JobOK(r)' /\ SessionOK(r)' /\ MeshOK(r)' /\ EngineOK(r)' /\ PlatformOK(r)' /\ HandleOK(r)'
  <2>1. JobOK(r)' /\ SessionOK(r)'
    BY <1>1 DEF TunnelInv, JobOK, SessionOK, Ended, Configure, native
  <2>2. MeshOK(r)'
    BY <1>1, IdleFields DEF TunnelInv, TypeOK, MeshOK, Configure, native
  <2>3. EngineOK(r)'
    BY <1>1 DEF TunnelInv, TypeOK, EngineOK, Configure, native
  <2>4. PlatformOK(r)'
    BY <1>1 DEF TunnelInv, TypeOK, EngineOK, PlatformOK, Configure, native
  <2>5. HandleOK(r)'
    BY <1>1 DEF TunnelInv, TypeOK, HandleOK, Configure, native
  <2>. QED
    BY <2>1, <2>2, <2>3, <2>4, <2>5
<1>. QED
  BY <1>2, <1>3 DEF TunnelInv

LEMMA open_tun_Inv ==
  ASSUME TunnelInv, NEW s \in Sessions, open_tun(s)
  PROVE  TunnelInv'
<1>1. UNCHANGED thread
  BY DEF open_tun, native
<1>2. TypeOK'
  <2>1. ThreadsOK'
    BY <1>1 DEF TunnelInv, TypeOK, ThreadsOK
  <2>2. /\ meshAllowed' \in [Sessions -> BOOLEAN] /\ queue' \in [Sessions -> BOOLEAN]
        /\ platform' \in [Sessions -> {"none", "alive", "reset", "freed"}]
        /\ mesh' \subseteq Sessions /\ meshEnded' \subseteq Sessions
        /\ dangling' \subseteq Sessions /\ overtaken' \subseteq Sessions
    BY ThreadFacts DEF TunnelInv, TypeOK, open_tun, native
  <2>3. /\ engine' \in [Sessions -> {"none", "configuring", "starting", "serving", "ended"}]
        /\ report' \in [Sessions -> {"none", "ok", "error"}] /\ slot' \in Sessions \union {None}
        /\ commands' \in 0 .. MaxCommands /\ lock' \in 0 .. commands'
    BY ThreadFacts, BoundsAssumption DEF TunnelInv, TypeOK, open_tun, native
  <2>4. inbox' \in [Sessions -> Seq(0 .. MaxCommands)]
    BY ThreadFacts, BoundsAssumption DEF TunnelInv, TypeOK, open_tun, native
  <2>. QED
    BY <2>1, <2>2, <2>3, <2>4 DEF TypeOK
<1>3. ASSUME NEW r \in Sessions
      PROVE  JobOK(r)' /\ SessionOK(r)' /\ MeshOK(r)' /\ EngineOK(r)' /\ PlatformOK(r)' /\ HandleOK(r)'
  <2>1. JobOK(r)' /\ SessionOK(r)'
    BY <1>1 DEF TunnelInv, JobOK, SessionOK, Ended, open_tun, native
  <2>2. MeshOK(r)'
    BY <1>1, IdleFields DEF TunnelInv, TypeOK, MeshOK, open_tun, native
  <2>3. EngineOK(r)'
    BY <1>1 DEF TunnelInv, TypeOK, EngineOK, open_tun, native
  <2>4. PlatformOK(r)'
    <3>1. EngineOK(r) /\ PlatformOK(r)
      BY DEF TunnelInv
    <3>2. UNCHANGED <<platform, overtaken>>
      BY DEF open_tun
    <3>3. r \in dangling' => r \in dangling \/ (r = s /\ platform[s] = "freed" /\ engine[s] = "starting")
      BY DEF open_tun
    <3>4. CASE r \in dangling' /\ r \notin dangling /\ r \notin overtaken
      <4>1. r = s /\ platform[r] = "freed" /\ engine[r] = "starting"
        BY <3>3, <3>4
      <4>2. thread[Boot(r)].job = "start"
        BY <3>1, <4>1, <3>4 DEF EngineOK, PlatformOK
      <4>. QED
        BY <3>1, <3>4, <4>1, <4>2 DEF PlatformOK
    <3>5. CASE ~(r \in dangling' /\ r \notin dangling /\ r \notin overtaken)
      BY <1>1, <3>1, <3>2, <3>5 DEF PlatformOK
    <3>. QED
      BY <3>4, <3>5
  <2>5. HandleOK(r)'
    BY <1>1 DEF TunnelInv, TypeOK, HandleOK, open_tun, native
  <2>. QED
    BY <2>1, <2>2, <2>3, <2>4, <2>5
<1>. QED
  BY <1>2, <1>3 DEF TunnelInv

LEMMA Serve_Inv ==
  ASSUME TunnelInv, NEW s \in Sessions, Serve(s)
  PROVE  TunnelInv'
<1>1. UNCHANGED thread
  BY DEF Serve, native
<1>2. TypeOK'
  <2>1. ThreadsOK'
    BY <1>1 DEF TunnelInv, TypeOK, ThreadsOK
  <2>2. /\ meshAllowed' \in [Sessions -> BOOLEAN] /\ queue' \in [Sessions -> BOOLEAN]
        /\ platform' \in [Sessions -> {"none", "alive", "reset", "freed"}]
        /\ mesh' \subseteq Sessions /\ meshEnded' \subseteq Sessions
        /\ dangling' \subseteq Sessions /\ overtaken' \subseteq Sessions
    BY ThreadFacts DEF TunnelInv, TypeOK, Serve, native
  <2>3. /\ engine' \in [Sessions -> {"none", "configuring", "starting", "serving", "ended"}]
        /\ report' \in [Sessions -> {"none", "ok", "error"}] /\ slot' \in Sessions \union {None}
        /\ commands' \in 0 .. MaxCommands /\ lock' \in 0 .. commands'
    <3>1. /\ engine' \in [Sessions -> {"none", "configuring", "starting", "serving", "ended"}]
          /\ report' \in [Sessions -> {"none", "ok", "error"}] /\ slot' \in Sessions \union {None}
      BY DEF TunnelInv, TypeOK, Serve
    <3>2. commands' \in 0 .. MaxCommands /\ lock' \in 0 .. commands'
      BY BoundsAssumption DEF TunnelInv, TypeOK, Serve
    <3>. QED
      BY <3>1, <3>2
  <2>4. inbox' \in [Sessions -> Seq(0 .. MaxCommands)]
    BY ThreadFacts, BoundsAssumption DEF TunnelInv, TypeOK, Serve, native
  <2>. QED
    BY <2>1, <2>2, <2>3, <2>4 DEF TypeOK
<1>3. ASSUME NEW r \in Sessions
      PROVE  JobOK(r)' /\ SessionOK(r)' /\ MeshOK(r)' /\ EngineOK(r)' /\ PlatformOK(r)' /\ HandleOK(r)'
  <2>1. JobOK(r)' /\ SessionOK(r)'
    BY <1>1 DEF TunnelInv, JobOK, SessionOK, Ended, Serve, native
  <2>2. MeshOK(r)'
    BY <1>1, IdleFields DEF TunnelInv, TypeOK, MeshOK, Serve, native
  <2>3. EngineOK(r)'
    BY <1>1 DEF TunnelInv, TypeOK, EngineOK, Serve, native
  <2>4. PlatformOK(r)'
    BY <1>1 DEF TunnelInv, TypeOK, EngineOK, PlatformOK, Serve, native
  <2>5. HandleOK(r)'
    BY <1>1 DEF TunnelInv, TypeOK, HandleOK, Serve, native
  <2>. QED
    BY <2>1, <2>2, <2>3, <2>4, <2>5
<1>. QED
  BY <1>2, <1>3 DEF TunnelInv

LEMMA Command_Inv ==
  ASSUME TunnelInv, NEW s \in Sessions, Command(s)
  PROVE  TunnelInv'
<1>1. UNCHANGED thread
  BY DEF Command, native
<1>2. TypeOK'
  <2>1. ThreadsOK'
    BY <1>1 DEF TunnelInv, TypeOK, ThreadsOK
  <2>2. /\ meshAllowed' \in [Sessions -> BOOLEAN] /\ queue' \in [Sessions -> BOOLEAN]
        /\ platform' \in [Sessions -> {"none", "alive", "reset", "freed"}]
        /\ mesh' \subseteq Sessions /\ meshEnded' \subseteq Sessions
        /\ dangling' \subseteq Sessions /\ overtaken' \subseteq Sessions
    BY ThreadFacts DEF TunnelInv, TypeOK, Command, native
  <2>3. /\ engine' \in [Sessions -> {"none", "configuring", "starting", "serving", "ended"}]
        /\ report' \in [Sessions -> {"none", "ok", "error"}] /\ slot' \in Sessions \union {None}
        /\ commands' \in 0 .. MaxCommands /\ lock' \in 0 .. commands'
    BY ThreadFacts, BoundsAssumption DEF TunnelInv, TypeOK, Command, native
  <2>4. inbox' \in [Sessions -> Seq(0 .. MaxCommands)]
    BY ThreadFacts, BoundsAssumption DEF TunnelInv, TypeOK, Command, native
  <2>. QED
    BY <2>1, <2>2, <2>3, <2>4 DEF TypeOK
<1>3. ASSUME NEW r \in Sessions
      PROVE  JobOK(r)' /\ SessionOK(r)' /\ MeshOK(r)' /\ EngineOK(r)' /\ PlatformOK(r)' /\ HandleOK(r)'
  <2>1. JobOK(r)' /\ SessionOK(r)'
    BY <1>1 DEF TunnelInv, JobOK, SessionOK, Ended, Command, native
  <2>2. MeshOK(r)'
    BY <1>1, IdleFields DEF TunnelInv, TypeOK, MeshOK, Command, native
  <2>3. EngineOK(r)'
    BY <1>1 DEF TunnelInv, TypeOK, EngineOK, Command, native
  <2>4. PlatformOK(r)'
    BY <1>1 DEF TunnelInv, TypeOK, EngineOK, PlatformOK, Command, native
  <2>5. HandleOK(r)'
    BY <1>1 DEF TunnelInv, TypeOK, HandleOK, Command, native
  <2>. QED
    BY <2>1, <2>2, <2>3, <2>4, <2>5
<1>. QED
  BY <1>2, <1>3 DEF TunnelInv

LEMMA CommandTimeout_Inv ==
  ASSUME TunnelInv, CommandTimeout
  PROVE  TunnelInv'
<1>1. UNCHANGED thread
  BY DEF CommandTimeout, native
<1>2. TypeOK'
  <2>1. ThreadsOK'
    BY <1>1 DEF TunnelInv, TypeOK, ThreadsOK
  <2>2. /\ meshAllowed' \in [Sessions -> BOOLEAN] /\ queue' \in [Sessions -> BOOLEAN]
        /\ platform' \in [Sessions -> {"none", "alive", "reset", "freed"}]
        /\ mesh' \subseteq Sessions /\ meshEnded' \subseteq Sessions
        /\ dangling' \subseteq Sessions /\ overtaken' \subseteq Sessions
    BY ThreadFacts DEF TunnelInv, TypeOK, CommandTimeout, native
  <2>3. /\ engine' \in [Sessions -> {"none", "configuring", "starting", "serving", "ended"}]
        /\ report' \in [Sessions -> {"none", "ok", "error"}] /\ slot' \in Sessions \union {None}
        /\ commands' \in 0 .. MaxCommands /\ lock' \in 0 .. commands'
    BY ThreadFacts, BoundsAssumption DEF TunnelInv, TypeOK, CommandTimeout, native
  <2>4. inbox' \in [Sessions -> Seq(0 .. MaxCommands)]
    BY ThreadFacts, BoundsAssumption DEF TunnelInv, TypeOK, CommandTimeout, native
  <2>. QED
    BY <2>1, <2>2, <2>3, <2>4 DEF TypeOK
<1>3. ASSUME NEW r \in Sessions
      PROVE  JobOK(r)' /\ SessionOK(r)' /\ MeshOK(r)' /\ EngineOK(r)' /\ PlatformOK(r)' /\ HandleOK(r)'
  <2>1. JobOK(r)' /\ SessionOK(r)'
    BY <1>1 DEF TunnelInv, JobOK, SessionOK, Ended, CommandTimeout, native
  <2>2. MeshOK(r)'
    BY <1>1, IdleFields DEF TunnelInv, TypeOK, MeshOK, CommandTimeout, native
  <2>3. EngineOK(r)'
    BY <1>1 DEF TunnelInv, TypeOK, EngineOK, CommandTimeout, native
  <2>4. PlatformOK(r)'
    BY <1>1 DEF TunnelInv, TypeOK, EngineOK, PlatformOK, CommandTimeout, native
  <2>5. HandleOK(r)'
    BY <1>1 DEF TunnelInv, TypeOK, HandleOK, CommandTimeout, native
  <2>. QED
    BY <2>1, <2>2, <2>3, <2>4, <2>5
<1>. QED
  BY <1>2, <1>3 DEF TunnelInv

-----------------------------------------------------------------------------
LEMMA TunnelInit ==
  Init => TunnelInv
<1> SUFFICES ASSUME Init PROVE TunnelInv
  OBVIOUS
<1>1. \A s \in Sessions : thread[Boot(s)] = Idle /\ thread[Stop(s)] = Idle
  BY ThreadFacts DEF Init
<1>2. ThreadsOK
  <2>1. Idle \in [job: Jobs, at: Places, joins: Sessions \union {None}]
    BY DEF Idle, Jobs, Places
  <2>2. \A t \in Threads : thread[t] = Idle
    BY DEF Init
  <2>. QED
    BY <2>1, <2>2, IdleFields DEF Init, ThreadsOK
<1>3. TypeOK
  BY <1>2, BoundsAssumption DEF Init, TypeOK
<1>4. ASSUME NEW s \in Sessions
      PROVE  JobOK(s) /\ SessionOK(s) /\ MeshOK(s) /\ EngineOK(s) /\ PlatformOK(s) /\ HandleOK(s)
  <2>1. JobOK(s) /\ SessionOK(s)
    BY <1>1, IdleFields DEF JobOK, Legal, SessionOK
  <2>2. MeshOK(s) /\ EngineOK(s)
    BY <1>1, IdleFields, NoneNotSession DEF Init, MeshOK, EngineOK
  <2>3. PlatformOK(s) /\ HandleOK(s)
    BY <1>1, IdleFields DEF Init, PlatformOK, HandleOK
  <2>. QED
    BY <2>1, <2>2, <2>3
<1>. QED
  BY <1>3, <1>4 DEF TunnelInv

LEMMA TunnelNext ==
  TunnelInv /\ [Next]_vars => TunnelInv'
<1> SUFFICES ASSUME TunnelInv, [Next]_vars PROVE TunnelInv'
  OBVIOUS
<1>1. ASSUME NEW s \in Sessions, startTunnel(s) \/ stopTunnel(s) \/ stopMeshFully(s) PROVE TunnelInv'
  BY <1>1, startTunnel_Inv, stopTunnel_Inv, stopMeshFully_Inv
<1>2. ASSUME NEW s \in Sessions, Engine(s) \/ Command(s) PROVE TunnelInv'
  BY <1>2, Configure_Inv, open_tun_Inv, Serve_Inv, Command_Inv DEF Engine
<1>3. ASSUME NEW t \in Threads, Run(t) PROVE TunnelInv'
  BY <1>3, stop_Inv, stop_handle_Inv, ReleasePlatform_Inv, teardownRuntime_Inv, StartMesh_Inv,
     AwaitAddress_Inv, Build_Inv, Spawn_Inv, Register_Inv, StartupFailed_Inv DEF Run
<1>4. CASE UNCHANGED vars
  <2>1. TypeOK'
    BY <1>4 DEF TunnelInv, TypeOK, ThreadsOK, vars
  <2>2. ASSUME NEW s \in Sessions
        PROVE  JobOK(s)' /\ SessionOK(s)' /\ MeshOK(s)' /\ EngineOK(s)' /\ PlatformOK(s)' /\ HandleOK(s)'
    BY <1>4 DEF TunnelInv, vars, JobOK, SessionOK, Ended, MeshOK, EngineOK, PlatformOK, HandleOK
  <2>. QED
    BY <2>1, <2>2 DEF TunnelInv
<1>. QED
  BY <1>1, <1>2, <1>3, <1>4, CommandTimeout_Inv DEF Next

LEMMA TunnelInvariant == Spec => []TunnelInv
BY TunnelInit, TunnelNext, PTL DEF Spec

\* In any number of sessions, however starts, stops and commands interleave and
\* fail: a mesh that has been stopped for good does not run again, and a start
\* that reports an error leaves no engine, no mesh and no object behind.
THEOREM TunnelSafe == Spec => []SafetyInv
<1>1. TunnelInv => MeshStaysStopped
  BY DEF TunnelInv, TypeOK, MeshOK, MeshStaysStopped
<1>2. TunnelInv => FailedStartLeavesNothing
  BY DEF TunnelInv, MeshOK, EngineOK, PlatformOK, FailedStartLeavesNothing
<1>3. TunnelInv => SafetyInv
  BY <1>1, <1>2 DEF TunnelInv, SafetyInv
<1>. QED
  BY <1>3, TunnelInvariant, PTL

\* When stopTunnel has returned its session has no engine, and no engine has
\* called back into a released object, unless a stop has overtaken its start.
THEOREM TunnelStopped == Spec => []StoppedLeavesNothing
<1>1. ASSUME TunnelInv PROVE StoppedLeavesNothing
  <2> SUFFICES ASSUME NEW s \in Sessions, (1 .. s) \intersect overtaken = {}
               PROVE  /\ thread[Stop(s)].job = "done" => engine[s] \in {"none", "ended"}
                      /\ s \notin dangling
    BY DEF StoppedLeavesNothing
  <2>1. s \notin overtaken
    BY DEF Sessions
  <2>2. s \notin dangling
    BY <1>1, <2>1 DEF TunnelInv, PlatformOK
  <2>3. ASSUME thread[Stop(s)].job = "done" PROVE engine[s] \in {"none", "ended"}
    <3>1. thread[Stop(s)] # Idle /\ thread[Boot(s)].job \in {"done", "failed"}
      BY <1>1, <2>1, <2>3, IdleFields DEF TunnelInv, SessionOK
    <3>2. thread[Stop(s)].at \notin {"take", "join"}
      BY <1>1, <2>3 DEF TunnelInv, JobOK, Legal
    <3>3. thread[Stop(s)].joins # s
      BY <1>1, <3>2, NotJoining, NoneNotSession
    <3>. QED
      BY <1>1, <3>1, <3>2, <3>3 DEF TunnelInv, EngineOK, HandleOK
  <2>. QED
    BY <2>2, <2>3
<1>. QED
  BY <1>1, TunnelInvariant, PTL

=============================================================================
