------------------------------- MODULE IosVpn -------------------------------
(* The VPN manager of the iOS app: what the user's toggles do to the system's *)
(* VPN preference, to the tunnel session and to the flags of the app. The     *)
(* manager lives on the main actor, so other calls run between its awaits.    *)
(* The system is external: it saves the preference or fails to, connects and  *)
(* disconnects the session, and connects it by itself while on-demand is on.  *)
EXTENDS Naturals

CONSTANTS
    Ops,            \* bound: calls of start, stop and applyMeshSettingChange at a time
    MaxToggles      \* bound: what the user does

ASSUME TogglesAssumption == MaxToggles \in Nat

VARIABLES
    setting,        \* configStore.config.meshEnabled
    wanted,         \* history: the user's last use of the proxy toggle
    prefs,          \* the saved preference: on-demand and the configuration
    memory,         \* isOnDemandEnabled of the manager object in the app
    installed,      \* the app has a manager
    session,        \* the system's session: its state and its configuration
    cause,          \* history: who ended the session
    status,         \* VPNManager.status
    busy,           \* VPNManager.isBusy
    stopRequested,  \* VPNManager.stopRequested
    reported,       \* lastError says that the tunnel was lost
    op,             \* the calls under way
    toggles,        \* history: number of user actions
    mishap          \* history: a save failed; a call began while another was under way;
                    \* the app was killed before a stop was done

vpnVars ==
    <<setting, wanted, prefs, memory, installed, session, cause, status, busy, stopRequested,
      reported, op, toggles, mishap>>
user == <<setting, wanted, toggles>>

States == {"off", "connecting", "on", "disconnecting"}
Active == {"connecting", "on"}
Call(at, then, mesh) == [at |-> at, then |-> then, mesh |-> mesh]
NoOp == Call("none", FALSE, FALSE)
Quiet == \A o \in Ops : op[o] = NoOp

Starting == {"install", "installOnly", "save", "saving", "prefetch"}
Stopping == {"ipc", "clear", "cleared", "reload", "wait", "reassert"}
Calls == [at: {"none"} \union Starting \union Stopping, then: BOOLEAN, mesh: BOOLEAN]

FlagsOK ==
    /\ setting \in BOOLEAN /\ wanted \in BOOLEAN
    /\ prefs \in [onDemand: BOOLEAN, mesh: BOOLEAN] /\ memory \in BOOLEAN /\ installed \in BOOLEAN
    /\ session \in [is: States, mesh: BOOLEAN] /\ cause \in {"app", "system"}
    /\ status \in States
    /\ busy \in BOOLEAN /\ stopRequested \in BOOLEAN /\ reported \in BOOLEAN
    /\ toggles \in 0 .. MaxToggles /\ mishap \subseteq {"save", "overlap", "killed"}
CallsOK == op \in [Ops -> Calls] /\ \A o \in Ops : op[o].at = "none" => op[o] = NoOp
VpnTypeOK == FlagsOK /\ CallsOK

\* The app is launched, perhaps over a tunnel that an earlier launch started: it
\* has no manager yet and shows no status.
VpnInit ==
    /\ setting \in BOOLEAN /\ wanted \in BOOLEAN
    /\ prefs \in [onDemand: BOOLEAN, mesh: {setting}] /\ memory = FALSE /\ installed = FALSE
    /\ session \in [is: States, mesh: {setting}] /\ cause = "app" /\ status = "off"
    /\ busy = FALSE /\ stopRequested = FALSE /\ reported = FALSE
    /\ op = [o \in Ops |-> NoOp] /\ toggles = 0
    /\ mishap = IF ~wanted /\ (prefs.onDemand \/ session.is \in Active) THEN {"killed"} ELSE {}

\* A call of saveToPreferences succeeds, or it fails.
Saves == UNCHANGED mishap
SaveFails == mishap' = mishap \union {"save"}

At(o, at) == [op EXCEPT ![o] = Call(at, op[o].then, op[o].mesh)]
\* The preference with on-demand cleared; the session in another state.
Cleared == [onDemand |-> FALSE, mesh |-> prefs.mesh]
In(is) == [is |-> is, mesh |-> session.mesh]
\* isBusy is cleared when the call returns, whoever else set it.
End(o) == busy' = FALSE /\ op' = [op EXCEPT ![o] = NoOp]

-----------------------------------------------------------------------------
(* start(config) *)

\* An invalid configuration, one with the mesh but not all of its fields, is only
\* refused after the preference is installed.
Begin(o, mesh, valid) ==
    /\ reported' = FALSE
    /\ IF installed /\ ~valid THEN End(o)
       ELSE /\ busy' = TRUE
            /\ op' = [op EXCEPT ![o] =
                   Call(IF installed THEN "save" ELSE IF valid THEN "install" ELSE "installOnly",
                        FALSE, mesh)]

\* The preference is installed without on-demand, or it is not, or cannot be read
\* back. The flag that the inner call set is cleared when it returns.
installVPNConfiguration(o) ==
    /\ op[o].at \in {"install", "installOnly"}
    /\ \/ /\ Saves /\ prefs' = Cleared /\ memory' = FALSE
          /\ installed' = TRUE /\ status' = session.is /\ busy' = FALSE
          /\ op' = IF op[o].at = "install" THEN At(o, "save") ELSE [op EXCEPT ![o] = NoOp]
       \/ /\ \/ Saves /\ prefs' = Cleared
             \/ SaveFails /\ UNCHANGED prefs
          /\ installed' = FALSE /\ status' = "off" /\ End(o) /\ UNCHANGED memory
    /\ UNCHANGED <<user, session, cause, stopRequested, reported>>

\* The configuration is applied to the manager and saved with on-demand.
applyProtocol(o) ==
    /\ op[o].at = "save"
    /\ memory' = TRUE /\ op' = At(o, "saving")
    /\ UNCHANGED <<user, prefs, installed, session, cause, status, busy, stopRequested,
                   reported, mishap>>
\* Mutant: the error path does not clear the flag.
SavedOrStuck(o) ==
    /\ op[o].at = "saving"
    /\ \/ /\ Saves /\ prefs' = [onDemand |-> TRUE, mesh |-> op[o].mesh] /\ memory' = TRUE
          /\ op' = At(o, "prefetch")
       \/ SaveFails /\ op' = [op EXCEPT ![o] = NoOp] /\ UNCHANGED <<prefs, memory>>
    /\ UNCHANGED <<user, installed, session, cause, status, busy, stopRequested, reported>>
\* The save may also succeed and the preference not be read back.
Saved(o) ==
    /\ op[o].at = "saving"
    /\ \/ /\ Saves /\ prefs' = [onDemand |-> TRUE, mesh |-> op[o].mesh] /\ memory' = TRUE
          /\ (op' = At(o, "prefetch") /\ UNCHANGED busy) \/ End(o)
       \/ SaveFails /\ End(o) /\ UNCHANGED <<prefs, memory>>
    /\ UNCHANGED <<user, installed, session, cause, status, stopRequested, reported>>

\* After the subscription was fetched the tunnel is started. A session that is
\* not off is left as it is. The status read back may not show the request yet.
\* When the request is refused it is not read.
startVPNTunnel(o) ==
    /\ op[o].at = "prefetch"
    /\ stopRequested' = FALSE
    /\ \/ /\ session' = IF session.is = "off" THEN [is |-> "connecting", mesh |-> op[o].mesh]
                        ELSE session
          /\ status' \in {session.is, session'.is}
       \/ UNCHANGED <<session, status>>
    /\ End(o)
    /\ UNCHANGED <<user, prefs, memory, installed, cause, reported, mishap>>

-----------------------------------------------------------------------------
(* stop(), and applyMeshSettingChange(), which starts again after it *)

\* Mutant: the stop is not remembered.
StopForgotten(o, then, mesh) ==
    /\ busy' = TRUE /\ UNCHANGED stopRequested
    /\ op' = [op EXCEPT ![o] = Call(IF status \in Active THEN "ipc" ELSE "clear", then, mesh)]

BeginStop(o, then, mesh) ==
    /\ busy' = TRUE /\ stopRequested' = TRUE
    /\ op' = [op EXCEPT ![o] = Call(IF status \in Active THEN "ipc" ELSE "clear", then, mesh)]

\* The extension stops the mesh, or cannot be reached.
StopMesh(o) ==
    /\ op[o].at = "ipc"
    /\ op' = At(o, "clear")
    /\ UNCHANGED <<user, prefs, memory, installed, session, cause, status, busy, stopRequested,
                   reported, mishap>>

ClearOnDemand(o) ==
    /\ op[o].at = "clear"
    /\ memory' = FALSE /\ op' = At(o, "cleared")
    /\ UNCHANGED <<user, prefs, installed, session, cause, status, busy, stopRequested,
                   reported, mishap>>

\* Mutant: on-demand stays as it is in the preference.
KeepsOnDemand(o) ==
    /\ op[o].at = "cleared"
    /\ op' = At(o, "reload")
    /\ UNCHANGED <<user, prefs, memory, installed, session, cause, status, busy, stopRequested,
                   reported, mishap>>

\* The save is done or has failed, which is logged.
SaveCleared(o) ==
    /\ op[o].at = "cleared"
    /\ \/ Saves /\ prefs' = Cleared
       \/ SaveFails /\ UNCHANGED prefs
    /\ op' = At(o, "reload")
    /\ UNCHANGED <<user, memory, installed, session, cause, status, busy, stopRequested, reported>>

\* The manager is loaded again, its flag cleared in memory, and the tunnel stopped.
stopVPNTunnel(o) ==
    /\ op[o].at = "reload"
    /\ memory' = FALSE
    /\ session' = IF session.is \in Active THEN In("disconnecting") ELSE session
    /\ cause' = IF session.is \in Active THEN "app" ELSE cause
    /\ status' \in {session.is, session'.is}
    /\ op' = At(o, "wait")
    /\ UNCHANGED <<user, prefs, installed, busy, stopRequested, reported, mishap>>

\* It waits for the disconnect, but not for long, and clears on-demand again
\* when the manager in memory says that it is on.
Settle(o) ==
    /\ op[o].at = "wait"
    /\ status' = session.is
    /\ IF memory
       THEN memory' = FALSE /\ op' = At(o, "reassert") /\ UNCHANGED <<busy, reported>>
       ELSE /\ UNCHANGED memory
            /\ IF op[o].then THEN Begin(o, op[o].mesh, TRUE) ELSE End(o) /\ UNCHANGED reported
    /\ UNCHANGED <<user, prefs, installed, session, cause, stopRequested, mishap>>
Reasserted(o) ==
    /\ op[o].at = "reassert"
    /\ \/ Saves /\ prefs' = Cleared
       \/ SaveFails /\ UNCHANGED prefs
    /\ IF op[o].then THEN Begin(o, op[o].mesh, TRUE) ELSE End(o) /\ UNCHANGED reported
    /\ status' = session.is
    /\ UNCHANGED <<user, memory, installed, session, cause, stopRequested>>

-----------------------------------------------------------------------------
(* The user *)

Free(o) ==
    /\ op[o] = NoOp
    /\ toggles < MaxToggles /\ toggles' = toggles + 1
    /\ mishap' = IF Quiet THEN mishap ELSE mishap \union {"overlap"}

\* HomeView: the toggle is disabled while the manager is busy or the session
\* changes.
setProxyEnabled(o) ==
    /\ Free(o)
    /\ ~busy /\ status \in {"off", "on"}
    /\ wanted' = (status = "off")
    /\ IF status = "off"
       THEN UNCHANGED stopRequested /\ \E ready \in BOOLEAN : Begin(o, setting, setting => ready)
       ELSE BeginStop(o, FALSE, FALSE) /\ UNCHANGED reported
    /\ UNCHANGED <<setting, prefs, memory, installed, session, cause, status>>

\* The mesh toggle of the home screen is disabled while the manager is busy, the
\* one of the Mesh tab is not. The running tunnel is restarted, unless the mesh
\* is turned on and not all of its fields are filled in.
applyMeshSettingChange(o) ==
    /\ Free(o)
    /\ setting' = ~setting
    /\ IF status \in Active
       THEN /\ reported' = FALSE
            /\ \/ BeginStop(o, TRUE, ~setting)
               \/ ~setting /\ UNCHANGED <<busy, stopRequested, op>>
       ELSE UNCHANGED <<busy, stopRequested, op, reported>>
    /\ UNCHANGED <<wanted, prefs, memory, installed, session, cause, status>>

-----------------------------------------------------------------------------
(* The system *)

Connected == session.is = "connecting" /\ session' = In("on") /\ UNCHANGED cause
Disconnected == session.is = "disconnecting" /\ session' = In("off") /\ UNCHANGED cause
Dropped ==
    /\ session.is \in Active
    /\ session' = In("off") /\ cause' = "system"
OnDemand ==
    /\ prefs.onDemand /\ session.is = "off"
    /\ session' = [is |-> "connecting", mesh |-> prefs.mesh] /\ UNCHANGED cause
System ==
    /\ Connected \/ Disconnected \/ Dropped \/ OnDemand
    /\ UNCHANGED <<user, prefs, memory, installed, status, busy, stopRequested,
                   reported, op, mishap>>

\* A screen that appears looks for the preference, at launch and later.
refreshInstallState ==
    /\ installed' = TRUE /\ status' = session.is
    /\ memory' = IF installed THEN memory ELSE prefs.onDemand
    /\ UNCHANGED <<user, prefs, session, cause, busy, stopRequested, reported, op, mishap>>

\* The notification of a change reads the session when it is handled.
NEVPNStatusDidChange ==
    /\ installed /\ status # session.is
    /\ status' = session.is
    /\ reported' = CASE status \in Active /\ session.is = "off" -> ~stopRequested
                     [] session.is = "on" -> FALSE
                     [] OTHER -> reported
    /\ UNCHANGED <<user, prefs, memory, installed, session, cause, busy, stopRequested, op, mishap>>

-----------------------------------------------------------------------------
Proceed(o) ==
    \/ installVPNConfiguration(o) \/ applyProtocol(o) \/ Saved(o) \/ startVPNTunnel(o)
    \/ StopMesh(o) \/ ClearOnDemand(o) \/ SaveCleared(o) \/ stopVPNTunnel(o)
    \/ Settle(o) \/ Reasserted(o)

VpnNext ==
    \/ \E o \in Ops : Proceed(o) \/ setProxyEnabled(o) \/ applyMeshSettingChange(o)
    \/ System \/ refreshInstallState
    \/ NEVPNStatusDidChange

\* Awaited calls return, notifications are delivered, sessions connect and
\* disconnect.
VpnFairness ==
    /\ \A o \in Ops : WF_vpnVars(Proceed(o))
    /\ WF_vpnVars(NEVPNStatusDidChange) /\ WF_vpnVars(System)

VpnSpec == VpnInit /\ [][VpnNext]_vpnVars
FairVpnSpec == VpnSpec /\ VpnFairness

-----------------------------------------------------------------------------
(* Properties *)

\* isBusy disables the controls of the home screen. However the calls overlap
\* and fail, the controls are not left disabled when the last call has returned.
NeverLeftBusy == Quiet => ~busy

\* applyProtocol: "Stop path clears these so the user can truly disconnect":
\* when the manager is done and the user wants the tunnel off, the system does
\* not bring it back, unless a save failed, two calls overlapped or the app was
\* killed during a stop.
StopClearsOnDemand == Quiet /\ ~wanted /\ mishap = {} => ~prefs.onDemand

\* What holds between the calls.
VpnSafetyInv == VpnTypeOK /\ NeverLeftBusy /\ StopClearsOnDemand

\* "Intentional user/config stops must not be reported as tunnel failures."
\* They are not, unless two calls overlapped.
IntentionalIsQuiet ==
    [][~reported /\ reported' /\ "overlap" \notin mishap => cause = "system"]_vpnVars

\* A user who turned the proxy off and leaves it off is disconnected for good,
\* unless a save failed, two calls overlapped or the app was killed during the
\* stop: what then becomes of the tunnel is AlwaysStaysOff.
StaysOff == <>[](~wanted /\ mishap = {}) => <>[](session.is = "off")

-----------------------------------------------------------------------------
(* What the code does not keep: calls overlap when the toggle of the Mesh tab *)
(* is used during a call, and when the first start has just installed the     *)
(* preference and cleared isBusy. A change made then is lost, a stop undone,  *)
(* a wanted disconnect reported as a failure. A failed save leaves on-demand. *)

\* "Mesh changes alter sing-box outbounds and routes. Apply them with one
\* coordinated tunnel restart": the tunnel runs with the setting the user sees.
MeshApplied == Quiet /\ session.is = "on" => session.mesh = setting

\* StopClearsOnDemand, IntentionalIsQuiet and StaysOff, whatever happens.
AlwaysCleared == Quiet /\ ~wanted => ~prefs.onDemand
AlwaysQuiet == [][~reported /\ reported' => cause = "system"]_vpnVars
AlwaysStaysOff == <>[](~wanted) => <>[](session.is = "off")

-----------------------------------------------------------------------------
(* The inductive invariant of the proofs. *)

\* Calls that do not overlap run one at a time.
OneCall == "overlap" \notin mishap => \A o, p \in Ops : op[o] # NoOp /\ op[p] # NoOp => o = p

\* While the user wants the tunnel off only a stop runs. From the moment it has
\* asked the system on, on-demand is off and the session is ending; when it has
\* returned the app no longer takes the tunnel for a running one either.
OffInv ==
    ~wanted /\ mishap = {} =>
        /\ \A o \in Ops : op[o].at \in {"none"} \union Stopping /\ ~op[o].then
        /\ (\E o \in Ops : op[o].at = "reload") => ~prefs.onDemand
        /\ Quiet \/ (\E o \in Ops : op[o].at \in {"wait", "reassert"}) =>
               ~prefs.onDemand /\ session.is \notin Active
        /\ Quiet => status \notin Active

\* A stop is remembered before it reaches the session. Once it is forgotten, or the
\* tunnel about to be started again, a session that the app takes for a running
\* one can only have been lost.
StopInv ==
    "overlap" \notin mishap =>
        /\ \A o \in Ops : op[o].at \in {"ipc", "clear", "cleared", "reload"} => stopRequested
        /\ /\ ~stopRequested \/ \E o \in Ops : op[o].at \in Starting
           /\ status \in Active /\ session.is \notin Active
           => session.is = "off" /\ cause = "system"

VpnInv == VpnTypeOK /\ NeverLeftBusy /\ OneCall /\ OffInv /\ StopInv

=============================================================================
