----------------------------- MODULE IosTunnel -----------------------------
(* The packet tunnel extension of the iOS client: the provider object of each *)
(* tunnel session (PacketTunnelProvider), the embedded engine with its thread *)
(* and the ENGINE slot (singbox_runtime.rs), and the EasyTier instance of the *)
(* process. startTunnel bootstraps on a background queue while the system may *)
(* already call stopTunnel. A wait for the engine's answer is part of the     *)
(* join that follows it; stop_mesh always succeeds.                           *)
EXTENDS Naturals, Sequences, FiniteSets

CONSTANTS
    MaxSessions,        \* bound: sessions one process serves after each other
    MaxCommands,        \* bound: select, groups and url_test calls
    MeshEnabled,        \* config.meshEnabled
    None

ASSUME BoundsAssumption == MaxSessions \in Nat \ {0} /\ MaxCommands \in Nat
ASSUME MeshAssumption == MeshEnabled \in BOOLEAN
ASSUME NoneAssumption == None \notin Nat

Sessions == 1 .. MaxSessions
Threads == Sessions \X {"boot", "stop"}

VARIABLES
    thread,         \* the calls of bootstrap and of stopTunnel
    meshAllowed,    \* PacketTunnelProvider.meshAllowed
    platform,       \* the TunnelPlatformInterface the engine's context points to
    queue,          \* the thread inside each provider's meshQueue
    mesh,           \* the sessions whose EasyTier instance runs
    meshEnded,      \* history: sessions whose mesh has been stopped for good
    engine,         \* the engine thread of each session
    report,         \* what the engine thread has sent to startup_rx
    inbox,          \* its commands; 0 is Stop or the end of the channel
    slot,           \* ENGINE
    lock,           \* the command call that holds the mutex of ENGINE, or 0
    commands,       \* history: command calls so far
    dangling,       \* history: sessions whose callback used a freed context
    overtaken       \* history: sessions stopped while they were starting

vars == <<thread, meshAllowed, platform, queue, mesh, meshEnded, engine, report, inbox, slot, lock,
          commands, dangling, overtaken>>
native == <<engine, report, inbox, slot, lock, commands, dangling>>

Jobs == {"idle", "reset", "mesh", "build", "start", "fail", "final", "done", "failed"}
Idle == [job |-> "idle", at |-> "none", joins |-> None]

Places == {"take", "join", "platform", "mesh", "spawn", "startup", "vip", "none"}
ThreadsOK ==
    /\ thread \in [Threads -> [job: Jobs, at: Places, joins: Sessions \union {None}]]
    /\ \A t \in Threads : thread[t].at = "join" <=> thread[t].joins # None
TypeOK ==
    /\ ThreadsOK
    /\ meshAllowed \in [Sessions -> BOOLEAN]
    /\ platform \in [Sessions -> {"none", "alive", "reset", "freed"}]
    /\ queue \in [Sessions -> BOOLEAN]
    /\ mesh \subseteq Sessions /\ meshEnded \subseteq Sessions
    /\ engine \in [Sessions -> {"none", "configuring", "starting", "serving", "ended"}]
    /\ report \in [Sessions -> {"none", "ok", "error"}]
    /\ inbox \in [Sessions -> Seq(0 .. MaxCommands)]
    /\ slot \in Sessions \union {None} /\ lock \in 0 .. commands
    /\ commands \in 0 .. MaxCommands /\ dangling \subseteq Sessions /\ overtaken \subseteq Sessions

Init ==
    /\ thread = [t \in Threads |-> Idle]
    /\ meshAllowed = [s \in Sessions |-> TRUE]
    /\ platform = [s \in Sessions |-> "none"]
    /\ queue = [s \in Sessions |-> FALSE]
    /\ mesh = {} /\ meshEnded = {}
    /\ engine = [s \in Sessions |-> "none"] /\ report = [s \in Sessions |-> "none"]
    /\ inbox = [s \in Sessions |-> <<>>]
    /\ slot = None /\ lock = 0 /\ commands = 0 /\ dangling = {} /\ overtaken = {}

Boot(s) == <<s, "boot">>
Stop(s) == <<s, "stop">>
Session(t) == t[1]
Goes(t, job, at) == thread' = [thread EXCEPT ![t] = [job |-> job, at |-> at, joins |-> None]]
\* bootstrap throws: the final teardown disallows the mesh as it is entered.
Fail(t) ==
    /\ Goes(t, "fail", "take")
    /\ meshAllowed' = [meshAllowed EXCEPT ![Session(t)] = FALSE]
Joins(t, s) == thread' = [thread EXCEPT ![t] = [job |-> thread[t].job, at |-> "join", joins |-> s]]
\* A session is over when it was stopped, or when it failed and was not stopped.
Ended(s) ==
    \/ thread[Stop(s)].job = "done"
    \/ thread[Stop(s)] = Idle /\ thread[Boot(s)].job = "failed"
Teardown == {"reset", "fail", "final"}
Final == {"fail", "final"}

-----------------------------------------------------------------------------
(* The calls of the system *)

startTunnel(s) ==
    /\ thread[Boot(s)] = Idle
    /\ s > 1 => Ended(s - 1)
    /\ meshAllowed' = [meshAllowed EXCEPT ![s] = TRUE]
    /\ Goes(Boot(s), "reset", "take")
    /\ UNCHANGED <<platform, queue, mesh, meshEnded, native, overtaken>>

stopTunnel(s) ==
    /\ thread[Stop(s)] = Idle
    /\ thread[Boot(s)] # Idle
    /\ \A next \in Sessions : next > s => thread[Boot(next)] = Idle
    /\ overtaken' = IF thread[Boot(s)].job \in {"done", "failed"} THEN overtaken ELSE overtaken \union {s}
    /\ meshAllowed' = [meshAllowed EXCEPT ![s] = FALSE]
    /\ Goes(Stop(s), "final", "take")
    /\ UNCHANGED <<platform, queue, mesh, meshEnded, native>>

\* The app sends stop-mesh before it asks the system to disconnect.
stopMeshFully(s) ==
    /\ thread[Boot(s)].job \notin {"idle", "failed"} /\ thread[Stop(s)].job # "done"
    /\ ~queue[s]
    /\ meshAllowed' = [meshAllowed EXCEPT ![s] = FALSE]
    /\ mesh' = {} /\ meshEnded' = meshEnded \union {s}
    /\ UNCHANGED <<thread, platform, queue, native, overtaken>>

-----------------------------------------------------------------------------
(* stop(), the first step of teardownRuntime and of start() *)

\* Mutant: the engine is not told.
StopUntold(t) ==
    /\ thread[t].at = "take" /\ lock = 0
    /\ Goes(t, thread[t].job, IF thread[t].job = "start" THEN "spawn" ELSE "platform")
    /\ slot' = None
    /\ UNCHANGED <<inbox, meshAllowed, platform, queue, mesh, meshEnded, engine, report, lock, commands, dangling, overtaken>>

\* The handle is taken out of the slot; its engine is told to stop.
stop(t) ==
    /\ thread[t].at = "take" /\ lock = 0
    /\ IF slot = None
       THEN /\ Goes(t, thread[t].job, IF thread[t].job = "start" THEN "spawn" ELSE "platform")
            /\ UNCHANGED <<inbox, slot>>
       ELSE /\ Joins(t, slot)
            /\ inbox' = [inbox EXCEPT ![slot] = Append(@, 0)]
            /\ slot' = None
    /\ UNCHANGED <<meshAllowed, platform, queue, mesh, meshEnded, engine, report, lock, commands, dangling, overtaken>>

\* The thread is joined whether or not the engine answered in time. A start
\* goes on only when the old engine was closed without an error.
stop_handle(t) ==
    /\ thread[t].at = "join" /\ engine[thread[t].joins] = "ended"
    /\ IF thread[t].job = "start"
       THEN \/ thread[t].joins # Session(t) /\ Goes(t, "start", "spawn") /\ UNCHANGED meshAllowed
            \/ Fail(t)
       ELSE Goes(t, thread[t].job, "platform") /\ UNCHANGED meshAllowed
    /\ UNCHANGED <<platform, queue, mesh, meshEnded, native, overtaken>>

-----------------------------------------------------------------------------
(* teardownRuntime *)

\* The object behind the context is reset and released. A bootstrap that still
\* has it in a local variable may or may not keep it.
ReleasePlatform(t) ==
    /\ thread[t].job \in Teardown /\ thread[t].at = "platform"
    /\ platform[Session(t)] # "none" =>
           \/ platform' = [platform EXCEPT ![Session(t)] = "freed"]
           \/ thread[Boot(Session(t))].job = "start" /\ platform' = [platform EXCEPT ![Session(t)] = "reset"]
    /\ platform[Session(t)] = "none" => UNCHANGED platform
    /\ Goes(t, thread[t].job, "mesh")
    /\ UNCHANGED <<meshAllowed, queue, mesh, meshEnded, native, overtaken>>

\* The mesh is stopped inside the provider's queue.
teardownRuntime(t) ==
    /\ thread[t].job \in Teardown /\ thread[t].at = "mesh"
    /\ ~queue[Session(t)]
    /\ mesh' = {}
    /\ IF thread[t].job \in Final
       THEN /\ meshAllowed' = [meshAllowed EXCEPT ![Session(t)] = FALSE]
            /\ meshEnded' = meshEnded \union {Session(t)}
       ELSE UNCHANGED <<meshAllowed, meshEnded>>
    /\ \/ thread[t].job = "reset" /\ Goes(t, IF MeshEnabled THEN "mesh" ELSE "build", "none")
       \/ thread[t].job = "fail" /\ Goes(t, "failed", "none")
       \/ thread[t].job = "final" /\ Goes(t, "done", "none")
    /\ UNCHANGED <<platform, queue, native, overtaken>>

-----------------------------------------------------------------------------
(* bootstrap *)

\* Mutant: it is not asked whether the mesh may start.
StartMeshAnyway(t) ==
    /\ thread[t].job = "mesh" /\ thread[t].at = "none"
    /\ ~queue[Session(t)]
    /\ Goes(t, "mesh", "vip")
    /\ mesh' = mesh \union {Session(t)} /\ queue' = [queue EXCEPT ![Session(t)] = TRUE]
    /\ UNCHANGED <<meshAllowed, platform, meshEnded, native, overtaken>>

\* startMeshRuntime enters the queue; it may be refused, or fail to start.
StartMesh(t) ==
    /\ thread[t].job = "mesh" /\ thread[t].at = "none"
    /\ ~queue[Session(t)]
    /\ \/ /\ ~meshAllowed[Session(t)] /\ Goes(t, "build", "none")
          /\ UNCHANGED <<mesh, queue, meshAllowed>>
       \/ meshAllowed[Session(t)] /\ Fail(t) /\ UNCHANGED <<mesh, queue>>
       \/ /\ meshAllowed[Session(t)] /\ Goes(t, "mesh", "vip")
          /\ mesh' = mesh \union {Session(t)} /\ queue' = [queue EXCEPT ![Session(t)] = TRUE]
          /\ UNCHANGED meshAllowed
    /\ UNCHANGED <<platform, meshEnded, native, overtaken>>

\* It waits for the virtual address, and stops the mesh again when it has been
\* disallowed in the meantime. Then the relay's addresses are looked up.
AwaitAddress(t) ==
    /\ thread[t].job = "mesh" /\ thread[t].at = "vip"
    /\ queue' = [queue EXCEPT ![Session(t)] = FALSE]
    /\ (Goes(t, "build", "none") /\ UNCHANGED meshAllowed) \/ Fail(t)
    /\ mesh' = IF meshAllowed[Session(t)] THEN mesh ELSE {}
    /\ UNCHANGED <<platform, meshEnded, native, overtaken>>

\* The configuration is built and the object for the callback created.
Build(t) ==
    /\ thread[t].job = "build"
    /\ \/ Fail(t) /\ UNCHANGED platform
       \/ /\ Goes(t, "start", "take") /\ platform' = [platform EXCEPT ![Session(t)] = "alive"]
          /\ UNCHANGED meshAllowed
    /\ UNCHANGED <<queue, mesh, meshEnded, native, overtaken>>

\* start() spawns the engine thread, which may fail ...
Spawn(t) ==
    /\ thread[t].job = "start" /\ thread[t].at = "spawn"
    /\ \/ /\ Goes(t, "start", "startup")
          /\ engine' = [engine EXCEPT ![Session(t)] = "configuring"]
          /\ UNCHANGED meshAllowed
       \/ Fail(t) /\ UNCHANGED engine
    /\ UNCHANGED <<platform, queue, mesh, meshEnded, report, inbox, slot, lock, commands, dangling, overtaken>>

\* ... and puts its handle into the slot once it has started. A handle that is
\* already there is dropped, which closes that engine's channel.
Register(t) ==
    /\ thread[t].job = "start" /\ thread[t].at = "startup"
    /\ report[Session(t)] = "ok" /\ lock = 0
    /\ slot' = Session(t)
    /\ inbox' = IF slot = None THEN inbox ELSE [inbox EXCEPT ![slot] = Append(@, 0)]
    /\ Goes(t, "done", "none")
    /\ UNCHANGED <<meshAllowed, platform, queue, mesh, meshEnded, engine, report, lock, commands, dangling, overtaken>>

\* The engine failed to start, or did not start in time and is told to stop.
\* Either way its thread is joined.
StartupFailed(t) ==
    /\ thread[t].job = "start" /\ thread[t].at = "startup"
    /\ \/ report[Session(t)] = "error" /\ UNCHANGED inbox
       \/ report[Session(t)] = "none" /\ inbox' = [inbox EXCEPT ![Session(t)] = Append(@, 0)]
    /\ Joins(t, Session(t))
    /\ UNCHANGED <<meshAllowed, platform, queue, mesh, meshEnded, engine, report, slot, lock, commands, dangling, overtaken>>

-----------------------------------------------------------------------------
(* The engine thread *)

Configure(s) ==
    /\ engine[s] = "configuring"
    /\ \/ engine' = [engine EXCEPT ![s] = "starting"] /\ UNCHANGED report
       \/ engine' = [engine EXCEPT ![s] = "ended"] /\ report' = [report EXCEPT ![s] = "error"]
    /\ UNCHANGED <<thread, meshAllowed, platform, queue, mesh, meshEnded, inbox, slot, lock, commands, dangling, overtaken>>

\* The runtime starts and opens the TUN device through the callback.
open_tun(s) ==
    /\ engine[s] = "starting"
    /\ dangling' = IF platform[s] = "freed" THEN dangling \union {s} ELSE dangling
    /\ \/ /\ platform[s] = "alive"
          /\ engine' = [engine EXCEPT ![s] = "serving"] /\ report' = [report EXCEPT ![s] = "ok"]
       \/ engine' = [engine EXCEPT ![s] = "ended"] /\ report' = [report EXCEPT ![s] = "error"]
    /\ UNCHANGED <<thread, meshAllowed, platform, queue, mesh, meshEnded, inbox, slot, lock, commands, overtaken>>

\* Mutant: it answers a stop like any other command.
ServeForever(s) ==
    /\ engine[s] = "serving" /\ inbox[s] # <<>>
    /\ inbox' = [inbox EXCEPT ![s] = Tail(@)]
    /\ lock' = (IF lock = Head(inbox[s]) THEN 0 ELSE lock)
    /\ UNCHANGED <<engine, thread, meshAllowed, platform, queue, mesh, meshEnded, report, slot, commands, dangling, overtaken>>

\* It serves one command after the other until it is told to stop or nobody
\* holds its handle.
Serve(s) ==
    /\ engine[s] = "serving" /\ inbox[s] # <<>>
    /\ inbox' = [inbox EXCEPT ![s] = Tail(@)]
    /\ IF Head(inbox[s]) = 0
       THEN engine' = [engine EXCEPT ![s] = "ended"] /\ UNCHANGED lock
       ELSE lock' = (IF lock = Head(inbox[s]) THEN 0 ELSE lock) /\ UNCHANGED engine
    /\ UNCHANGED <<thread, meshAllowed, platform, queue, mesh, meshEnded, report, slot, commands, dangling, overtaken>>

\* select, groups or url_test: the mutex is held until the answer, the end of
\* the engine or the timeout.
Command(s) ==
    /\ commands < MaxCommands
    /\ lock = 0 /\ slot = s
    /\ lock' = commands + 1 /\ commands' = commands + 1
    /\ inbox' = [inbox EXCEPT ![s] = Append(@, commands + 1)]
    /\ UNCHANGED <<thread, meshAllowed, platform, queue, mesh, meshEnded, engine, report, slot, dangling, overtaken>>
CommandTimeout ==
    /\ lock # 0
    /\ lock' = 0
    /\ UNCHANGED <<thread, meshAllowed, platform, queue, mesh, meshEnded, engine, report, inbox, slot, commands, dangling, overtaken>>

-----------------------------------------------------------------------------
Run(t) ==
    \/ stop(t) \/ stop_handle(t) \/ ReleasePlatform(t) \/ teardownRuntime(t)
    \/ StartMesh(t) \/ AwaitAddress(t) \/ Build(t) \/ Spawn(t) \/ Register(t) \/ StartupFailed(t)
Engine(s) == Configure(s) \/ open_tun(s) \/ Serve(s)

Next ==
    \/ \E s \in Sessions : startTunnel(s) \/ stopTunnel(s) \/ stopMeshFully(s) \/ Engine(s) \/ Command(s)
    \/ \E t \in Threads : Run(t)
    \/ CommandTimeout

\* Threads run, and the calls an engine thread makes return; every wait for a
\* command has a timeout.
Fairness ==
    /\ \A t \in Threads : WF_vars(Run(t))
    /\ \A s \in Sessions : WF_vars(Engine(s))
    /\ WF_vars(CommandTimeout)

Spec == Init /\ [][Next]_vars
FairSpec == Spec /\ Fairness

-----------------------------------------------------------------------------
(* Properties *)

\* PacketTunnelProvider: meshAllowed is "cleared on user stop / teardown so no
\* asynchronous path can resurrect Mesh".
MeshStaysStopped == meshEnded \intersect mesh = {}

\* A start that reports an error leaves no engine thread, no mesh and no object
\* behind, however far it got and whatever stopped it.
FailedStartLeavesNothing ==
    \A s \in Sessions : thread[Boot(s)].job = "failed" =>
        /\ engine[s] \in {"none", "ended"} /\ slot # s
        /\ s \notin mesh
        /\ platform[s] \in {"none", "freed"}

\* Everything is where it may be, and nothing that has ended comes back.
SafetyInv == TypeOK /\ MeshStaysStopped /\ FailedStartLeavesNothing

\* When stopTunnel has returned, its session has no engine any more, and an
\* engine never calls back into a released object ("the Swift owner guarantees
\* that context remains alive until stop returns", singbox_runtime.rs), unless
\* a stop has overtaken its start, now or in an earlier session.
StoppedLeavesNothing ==
    \A s \in Sessions : (1 .. s) \intersect overtaken = {} =>
        /\ thread[Stop(s)].job = "done" => engine[s] \in {"none", "ended"}
        /\ s \notin dangling

\* The system always learns how a start ended and that a stop is complete.
CallsComplete ==
    \A t \in Threads : thread[t].job \in {"reset", "final"} ~> thread[t].job \in {"done", "failed"}

-----------------------------------------------------------------------------
(* What the code does not keep: a stopTunnel that comes while bootstrap is    *)
(* inside start() finds the slot empty, releases the object and returns, and  *)
(* the engine goes on.                                                        *)

\* No session has an engine after its stopTunnel.
AlwaysStopped == \A s \in Sessions : thread[Stop(s)].job = "done" => engine[s] \in {"none", "ended"}

\* The callback never uses a released object.
ContextAlive == dangling = {}

-----------------------------------------------------------------------------
(* The inductive invariant of the proofs. *)

\* Where each kind of call may be.
Legal(call) ==
    /\ call.job = "idle" => call = Idle
    /\ call.at \in {"take", "join"} => call.job \in {"reset", "fail", "final", "start"}
    /\ call.at \in {"platform", "mesh"} => call.job \in Teardown
    /\ call.at \in {"spawn", "startup"} => call.job = "start"
    /\ call.at = "vip" => call.job = "mesh"
    /\ call.at = "none" => call.job \in {"idle", "mesh", "build", "done", "failed"}
JobOK(s) ==
    /\ Legal(thread[Boot(s)]) /\ thread[Boot(s)].job # "final"
    /\ Legal(thread[Stop(s)]) /\ thread[Stop(s)].job \in {"idle", "final", "done"}

\* Sessions follow each other; a stop that overtook nothing found its start over.
SessionOK(s) ==
    /\ thread[Stop(s)] # Idle => thread[Boot(s)] # Idle
    /\ thread[Stop(s)] # Idle /\ s \notin overtaken => thread[Boot(s)].job \in {"done", "failed"}
    /\ thread[Boot(s)] # Idle => \A r \in Sessions : r < s => Ended(r)

\* A mesh that has ended is not allowed to start; one that runs has a session.
MeshOK(s) ==
    /\ s \in meshEnded => ~meshAllowed[s] /\ thread[Boot(s)] # Idle
    /\ s \in mesh => s \notin meshEnded /\ thread[Boot(s)].job # "failed"

\* An engine has a start that waits for it or is done with it.
EngineOK(s) ==
    LET boot == thread[Boot(s)] IN
    /\ engine[s] # "none" => boot.job \in {"start", "fail", "failed", "done"}
    /\ engine[s] # "none" /\ boot.job = "start" => boot.at = "startup" \/ boot.joins = s
    /\ boot.job \in {"fail", "failed"} => engine[s] \in {"none", "ended"}
    /\ boot.job = "done" \/ report[s] = "ok" => engine[s] \in {"serving", "ended"}
    /\ slot = s => boot.job = "done"

\* The object exists from Build on, and is good until somebody stops the session.
PlatformOK(s) ==
    LET boot == thread[Boot(s)] IN
    /\ boot.job \in {"idle", "reset", "mesh", "build"} => platform[s] = "none"
    /\ boot.job = "failed" \/ (boot.job = "fail" /\ boot.at = "mesh") => platform[s] \in {"none", "freed"}
    /\ boot.job = "start" /\ s \notin overtaken => platform[s] = "alive"
    /\ s \notin overtaken => s \notin dangling

\* When no stop has overtaken its start so far, the engine of a finished start is
\* in the slot, joined by the stop of its session, or over.
HandleOK(s) ==
    (1 .. s) \intersect overtaken = {} /\ thread[Boot(s)].job = "done" =>
        \/ engine[s] = "ended"
        \/ slot = s /\ (thread[Stop(s)] = Idle \/ thread[Stop(s)].at = "take")
        \/ thread[Stop(s)].joins = s

TunnelInv ==
    /\ TypeOK
    /\ \A s \in Sessions :
        JobOK(s) /\ SessionOK(s) /\ MeshOK(s) /\ EngineOK(s) /\ PlatformOK(s) /\ HandleOK(s)

=============================================================================
