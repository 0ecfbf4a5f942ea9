-------------------------- MODULE StackController --------------------------
(* One run of the proxy stack, thread by thread (src/stack/controller.rs).   *)
(* Five actors share the fields of StackController: the owner that calls     *)
(* start_proxy_cli / wait_started / stop, the worker thread running          *)
(* run_stack_managed, the health monitor thread the worker owns, and either  *)
(* the in-process engine thread (mixed port) or the TUN worker process.      *)
(* RunningComponents::start_stack creates a new controller for every start,  *)
(* so a behaviour is one controller's life: at most one start and one stop.  *)
EXTENDS Naturals

CONSTANTS
    TunModes,       \* values state.tun_enabled can take, a subset of BOOLEAN
    WorkerPid       \* the process id of the TUN worker; 0 means "no process"

ASSUME ModesAssumption == TunModes \subseteq BOOLEAN
ASSUME PidAssumption == WorkerPid \in Nat \ {0}

VARIABLES
    status,         \* StackStatus: state, pid, proxy_ready, error
    pid,            \* AtomicU32 read by stop()
    native,         \* is a RuntimeHandle stored for stop() to cancel
    running,        \* AtomicBool: cleared when run_stack_managed returned
    stop_requested, \* AtomicBool: set by stop()
    ready,          \* AtomicBool: what wait_started() waits for
    tun,            \* is this run a TUN run
    worker,         \* where the worker thread stands
    result,         \* Result of run_stack_managed
    engine,         \* the in-process engine thread of NativeRuntime
    child,          \* the TUN worker process, seen by the kernel
    exit_ok,        \* did the engine or the process end without an error
    line,           \* the READY_MESSAGE line on its way to the log buffer
    monitor,        \* where the ProxyHealthMonitor thread stands
    monitor_stop,   \* its stop flag
    verdict,        \* the probe result it is about to apply
    owner,          \* where the owner stands
    seen,           \* the state wait_started() read last
    waited,         \* what wait_started() returned
    target,         \* the pid stop() loaded
    lost            \* did waiting on the process fail with an I/O error

controllerVars == <<status, pid, native, running, stop_requested, ready>>
workerVars == <<tun, worker, result, lost>>
engineVars == <<engine, child, exit_ok, line>>
monitorVars == <<monitor, monitor_stop, verdict>>
ownerVars == <<owner, seen, waited, target>>
vars == <<controllerVars, workerVars, engineVars, monitorVars, ownerVars>>

StackRunState ==
    {"Stopped", "Starting", "Running", "Degraded", "Failed", "Stopping"}
StackStatus == [state: StackRunState, pid: BOOLEAN, proxy_ready: BOOLEAN,
                error: {"none", "health", "conflict", "failed"}]
DefaultStatus == [state |-> "Stopped", pid |-> FALSE,
                  proxy_ready |-> FALSE, error |-> "none"]

WorkerPlaces ==
    {"unborn", "prepare", "configure", "route_check", "conflict", "launch",
     "store_handle", "set_ready", "recheck", "store_pid", "status_pid",
     "start_monitor", "wait_engine", "take_handle", "poll", "poll_ready",
     "poll_stop", "wait_child", "reaped", "drop_monitor", "join_monitor",
     "clear_running", "clear_pid", "final", "done"}
StopPlaces == {"stop_flag", "stop_pid", "stop_signal", "stop_native", "stop_join"}
OwnerPlaces ==
    {"new", "waiting", "decide", "settled", "stop_status", "stopped"}
        \union StopPlaces

ChildAlive == {"booting", "up", "terminating"}

FlagsOK ==
    /\ native \in BOOLEAN /\ running \in BOOLEAN
    /\ stop_requested \in BOOLEAN /\ ready \in BOOLEAN
    /\ tun \in BOOLEAN /\ lost \in BOOLEAN /\ exit_ok \in BOOLEAN
    /\ monitor_stop \in BOOLEAN /\ verdict \in BOOLEAN

PlacesOK ==
    /\ pid \in {0, WorkerPid} /\ target \in {0, WorkerPid}
    /\ worker \in WorkerPlaces
    /\ result \in {"none", "ok", "err"}
    /\ engine \in {"none", "up", "cancelled", "closed"}
    /\ child \in {"none", "exited", "reaped"} \union ChildAlive
    /\ line \in {"none", "printed", "logged", "evicted"}
    /\ monitor \in {"none", "ready_wait", "probe", "verdict", "apply",
                    "sleep", "reprobe", "done"}
    /\ owner \in OwnerPlaces
    /\ seen \in StackRunState
    /\ waited \in {"none", "ok", "err"}

\* Every field of the controller and every actor stays in the range the code
\* gives it; the pid is never that of another process.
TypeOK == status \in StackStatus /\ FlagsOK /\ PlacesOK

Init ==
    /\ status = DefaultStatus
    /\ pid = 0 /\ native = FALSE /\ running = FALSE
    /\ stop_requested = FALSE /\ ready = FALSE
    /\ tun \in TunModes
    /\ worker = "unborn" /\ result = "none" /\ lost = FALSE
    /\ engine = "none" /\ child = "none" /\ exit_ok = TRUE /\ line = "none"
    /\ monitor = "none" /\ monitor_stop = FALSE /\ verdict = FALSE
    /\ owner = "new" /\ seen = "Stopped" /\ waited = "none" /\ target = 0

-----------------------------------------------------------------------------
(* The owner: start, wait, stop.                                             *)

\* start_managed: the stores all precede thread::spawn, so no other thread
\* sees them apart.
start_managed ==
    /\ owner = "new" /\ ~running
    /\ status' = [DefaultStatus EXCEPT !.state = "Starting"]
    /\ stop_requested' = FALSE /\ ready' = FALSE /\ running' = TRUE
    /\ worker' = "prepare"
    /\ owner' = "waiting"
    /\ UNCHANGED <<pid, native, tun, result, lost, engineVars, monitorVars,
                   seen, waited, target>>

\* wait_started takes a copy of the status, then loads ready.
WaitReadStatus ==
    /\ owner = "waiting"
    /\ seen' = status.state
    /\ owner' = "decide"
    /\ UNCHANGED <<controllerVars, workerVars, engineVars, monitorVars,
                   waited, target>>

WaitSettled(outcome) == owner' = "settled" /\ waited' = outcome

\* The checks of one round, in the order of the code; the last disjuncts are
\* the 90 s deadline and the next round after the sleep.
wait_started ==
    /\ owner = "decide"
    /\ \/ seen \in {"Failed", "Stopped"} /\ WaitSettled("err")
       \/ /\ seen \notin {"Failed", "Stopped"}
          /\ \/ ready /\ WaitSettled("ok")
             \/ ~ready /\ seen = "Degraded" /\ WaitSettled("err")
             \/ ~ready /\ seen # "Degraded" /\ WaitSettled("err")
             \/ /\ ~ready /\ seen # "Degraded"
                /\ owner' = "waiting" /\ UNCHANGED waited
    /\ UNCHANGED <<controllerVars, workerVars, engineVars, monitorVars,
                   seen, target>>

\* The future of start_stack can be dropped while it sleeps in wait_started.
WaitDropped ==
    /\ owner = "waiting"
    /\ WaitSettled("none")
    /\ UNCHANGED <<controllerVars, workerVars, engineVars, monitorVars,
                   seen, target>>

StopCheck ==
    /\ owner = "settled"
    /\ owner' = IF running THEN "stop_status" ELSE "stopped"
    /\ UNCHANGED <<controllerVars, workerVars, engineVars, monitorVars,
                   seen, waited, target>>

StopStatus ==
    /\ owner = "stop_status"
    /\ status' = [status EXCEPT !.state = "Stopping"]
    /\ owner' = "stop_flag"
    /\ UNCHANGED <<pid, native, running, stop_requested, ready, workerVars,
                   engineVars, monitorVars, seen, waited, target>>

StopFlag ==
    /\ owner = "stop_flag"
    /\ stop_requested' = TRUE
    /\ owner' = "stop_pid"
    /\ UNCHANGED <<status, pid, native, running, ready, workerVars,
                   engineVars, monitorVars, seen, waited, target>>

StopLoadPid ==
    /\ owner = "stop_pid"
    /\ target' = pid
    /\ owner' = "stop_signal"
    /\ UNCHANGED <<controllerVars, workerVars, engineVars, monitorVars,
                   seen, waited>>

\* What SIGTERM does to the process behind a pid: nothing to one that exited.
Signalled(c) == IF c \in ChildAlive THEN "terminating" ELSE c

\* What RuntimeHandle::cancel does: an engine that closed stays closed.
Cancelled(e) == IF e = "up" THEN "cancelled" ELSE e

terminate_worker_process ==
    /\ owner = "stop_signal"
    /\ child' = IF target # 0 THEN Signalled(child) ELSE child
    /\ owner' = "stop_native"
    /\ UNCHANGED <<controllerVars, workerVars, engine, exit_ok, line,
                   monitorVars, seen, waited, target>>

StopNative ==
    /\ owner = "stop_native"
    /\ engine' = IF native THEN Cancelled(engine) ELSE engine
    /\ native' = FALSE
    /\ owner' = "stop_join"
    /\ UNCHANGED <<status, pid, running, stop_requested, ready, workerVars,
                   child, exit_ok, line, monitorVars, seen, waited, target>>

\* handle.join returns when the worker thread ended; nobody else writes after
\* it, so the last stores are one step.
StopJoin ==
    /\ owner = "stop_join" /\ worker = "done"
    /\ running' = FALSE /\ pid' = 0
    /\ status' = [status EXCEPT !.state = "Stopped", !.pid = FALSE]
    /\ owner' = "stopped"
    /\ UNCHANGED <<native, stop_requested, ready, workerVars, engineVars,
                   monitorVars, seen, waited, target>>

-----------------------------------------------------------------------------
(* The worker thread: run_stack_managed and the closure around it.           *)

\* An early return, before the monitor exists.
Return(outcome) == worker' = "clear_running" /\ result' = outcome

\* Configuration checks and bootstrap::prepare_stack, each with `?`.
WorkerPrepare ==
    /\ worker = "prepare"
    /\ \/ worker' = "configure" /\ UNCHANGED result
       \/ Return("err")
    /\ UNCHANGED <<controllerVars, tun, lost, engineVars, monitorVars, ownerVars>>

WorkerConfigure ==
    /\ worker = "configure"
    /\ status' = [status EXCEPT !.proxy_ready = FALSE, !.error = "none"]
    /\ worker' = "route_check"
    /\ UNCHANGED <<pid, native, running, stop_requested, ready, tun, result,
                   lost, engineVars, monitorVars, ownerVars>>

\* ensure_no_conflicting_full_tun: only a TUN run can meet a conflict. The
\* status is overwritten whatever it says, Stopping included.
WorkerConflict ==
    /\ worker = "route_check" /\ tun
    /\ status' = [status EXCEPT !.state = "Degraded", !.error = "conflict"]
    /\ worker' = "conflict"
    /\ UNCHANGED <<pid, native, running, stop_requested, ready, tun, result,
                   lost, engineVars, monitorVars, ownerVars>>

WorkerConflictStop ==
    /\ worker = "conflict" /\ stop_requested
    /\ Return("ok")
    /\ UNCHANGED <<controllerVars, tun, lost, engineVars, monitorVars, ownerVars>>

WorkerNoConflict ==
    /\ worker = "route_check"
    /\ worker' = "launch"
    /\ UNCHANGED <<controllerVars, tun, result, lost, engineVars, monitorVars,
                   ownerVars>>

\* refresh_config, ensure_mixed_port_free, NativeRuntime::start and
\* spawn_tun_worker return their errors through here.
WorkerLaunchFails ==
    /\ worker = "launch"
    /\ Return("err")
    /\ UNCHANGED <<controllerVars, tun, lost, engineVars, monitorVars, ownerVars>>

\* NativeRuntime::start returns once the engine reported readiness.
WorkerStartEngine ==
    /\ worker = "launch" /\ ~tun
    /\ engine' = "up"
    /\ worker' = "store_handle"
    /\ UNCHANGED <<controllerVars, tun, result, lost, child, exit_ok, line,
                   monitorVars, ownerVars>>

WorkerStoreHandle ==
    /\ worker = "store_handle"
    /\ native' = TRUE
    /\ worker' = "set_ready"
    /\ UNCHANGED <<status, pid, running, stop_requested, ready, tun, result,
                   lost, engineVars, monitorVars, ownerVars>>

WorkerSetReady ==
    /\ worker = "set_ready"
    /\ ready' = TRUE
    /\ worker' = "recheck"
    /\ UNCHANGED <<status, pid, native, running, stop_requested, tun, result,
                   lost, engineVars, monitorVars, ownerVars>>

\* Mutant: the flag is not read again.
FlagNotReread == FALSE

\* A stop() that ran before the handle was stored found nothing to cancel, so
\* the flag is read once more after the store.
StopAlreadyRequested == stop_requested

WorkerRecheckStop ==
    /\ worker = "recheck"
    /\ engine' = IF StopAlreadyRequested THEN Cancelled(engine) ELSE engine
    /\ worker' = "start_monitor"
    /\ UNCHANGED <<controllerVars, tun, result, lost, child, exit_ok, line,
                   monitorVars, ownerVars>>

ProxyHealthMonitor_start ==
    /\ worker = "start_monitor"
    /\ monitor' = IF tun THEN "ready_wait" ELSE "probe"
    /\ worker' = IF tun THEN "poll" ELSE "wait_engine"
    /\ UNCHANGED <<controllerVars, tun, result, lost, engineVars,
                   monitor_stop, verdict, ownerVars>>

\* runtime.wait joins the engine thread and takes its result.
WorkerEngineWait ==
    /\ worker = "wait_engine" /\ engine = "closed"
    /\ result' = IF exit_ok THEN "ok" ELSE "err"
    /\ worker' = "take_handle"
    /\ UNCHANGED <<controllerVars, tun, lost, engineVars, monitorVars, ownerVars>>

WorkerTakeHandle ==
    /\ worker = "take_handle"
    /\ native' = FALSE
    /\ worker' = "drop_monitor"
    /\ UNCHANGED <<status, pid, running, stop_requested, ready, tun, result,
                   lost, engineVars, monitorVars, ownerVars>>

spawn_tun_worker ==
    /\ worker = "launch" /\ tun
    /\ child' = "booting"
    /\ worker' = "store_pid"
    /\ UNCHANGED <<controllerVars, tun, result, lost, engine, exit_ok, line,
                   monitorVars, ownerVars>>

\* NativeTunWorker::id: the process to signal, not the shell that waits for it.
ChildId == WorkerPid

WorkerStorePid ==
    /\ worker = "store_pid"
    /\ pid' = ChildId
    /\ worker' = "status_pid"
    /\ UNCHANGED <<status, native, running, stop_requested, ready, tun, result,
                   lost, engineVars, monitorVars, ownerVars>>

WorkerStatusPid ==
    /\ worker = "status_pid"
    /\ status' = [status EXCEPT !.pid = TRUE]
    /\ worker' = "start_monitor"
    /\ UNCHANGED <<pid, native, running, stop_requested, ready, tun, result,
                   lost, engineVars, monitorVars, ownerVars>>

\* Mutant: an exited process is not noticed.
NeverReaped == FALSE

\* try_wait reaps a process that exited.
TryWaitSome == child = "exited"

WorkerPoll ==
    /\ worker = "poll"
    /\ IF TryWaitSome
       THEN child' = "reaped" /\ worker' = "reaped"
       ELSE worker' = "poll_ready" /\ UNCHANGED child
    /\ UNCHANGED <<controllerVars, tun, result, lost, engine, exit_ok, line,
                   monitorVars, ownerVars>>

\* try_wait or wait returns an I/O error: the process is left as it is.
WorkerWaitError ==
    /\ worker \in {"poll", "wait_child"}
    /\ lost' = TRUE
    /\ result' = "err" /\ worker' = "drop_monitor"
    /\ UNCHANGED <<controllerVars, tun, engineVars, monitorVars, ownerVars>>

\* Is the READY_MESSAGE line in the log buffer at this moment.
native_tun_worker_ready == line = "logged"

WorkerPollReady ==
    /\ worker = "poll_ready"
    /\ ready' = (ready \/ native_tun_worker_ready)
    /\ worker' = "poll_stop"
    /\ UNCHANGED <<status, pid, native, running, stop_requested, tun, result,
                   lost, engineVars, monitorVars, ownerVars>>

WorkerPollStop ==
    /\ worker = "poll_stop"
    /\ IF stop_requested
       THEN child' = Signalled(child) /\ worker' = "wait_child"
       ELSE worker' = "poll" /\ UNCHANGED child
    /\ UNCHANGED <<controllerVars, tun, result, lost, engine, exit_ok, line,
                   monitorVars, ownerVars>>

WorkerWaitChild ==
    /\ worker = "wait_child" /\ child = "exited"
    /\ child' = "reaped" /\ worker' = "reaped"
    /\ UNCHANGED <<controllerVars, tun, result, lost, engine, exit_ok, line,
                   monitorVars, ownerVars>>

\* A requested stop is never a failure, whatever the exit code.
WorkerReaped ==
    /\ worker = "reaped"
    /\ result' = IF stop_requested \/ exit_ok THEN "ok" ELSE "err"
    /\ worker' = "drop_monitor"
    /\ UNCHANGED <<controllerVars, tun, lost, engineVars, monitorVars, ownerVars>>

\* Drop for ProxyHealthMonitor: raise the flag, then join the thread.
WorkerDropMonitor ==
    /\ worker = "drop_monitor"
    /\ monitor_stop' = TRUE
    /\ worker' = "join_monitor"
    /\ UNCHANGED <<controllerVars, tun, result, lost, engineVars, monitor,
                   verdict, ownerVars>>

\* Mutant: the monitor is not joined.
MonitorNotAwaited == TRUE

MonitorJoined == monitor = "done"

WorkerJoinMonitor ==
    /\ worker = "join_monitor" /\ MonitorJoined
    /\ worker' = "clear_running"
    /\ UNCHANGED <<controllerVars, tun, result, lost, engineVars, monitorVars,
                   ownerVars>>

WorkerClearRunning ==
    /\ worker = "clear_running"
    /\ running' = FALSE
    /\ worker' = "clear_pid"
    /\ UNCHANGED <<status, pid, native, stop_requested, ready, tun, result,
                   lost, engineVars, monitorVars, ownerVars>>

WorkerClearPid ==
    /\ worker = "clear_pid"
    /\ pid' = 0
    /\ worker' = "final"
    /\ UNCHANGED <<status, native, running, stop_requested, ready, tun, result,
                   lost, engineVars, monitorVars, ownerVars>>

\* Mutant: the error is dropped.
ErrorDropped(r) == [status EXCEPT !.state = "Stopped", !.pid = FALSE]

\* The status after the run: an error is kept for the user to read.
FinalStatus(r) ==
    IF r = "ok"
    THEN [status EXCEPT !.state = "Stopped", !.pid = FALSE]
    ELSE [status EXCEPT !.state = "Failed", !.pid = FALSE, !.error = "failed"]

WorkerFinal ==
    /\ worker = "final"
    /\ status' = FinalStatus(result)
    /\ worker' = "done"
    /\ UNCHANGED <<pid, native, running, stop_requested, ready, tun, result,
                   lost, engineVars, monitorVars, ownerVars>>

-----------------------------------------------------------------------------
(* The health monitor thread.                                                *)

MonitorOnly == UNCHANGED <<pid, native, running, stop_requested, ready,
                           workerVars, engineVars, monitor_stop, ownerVars>>

\* wait_for_initial_proxy_health, TUN part: the READY line, or the stop flag or
\* the 45 s deadline with an error.
MonitorReadyWait ==
    /\ monitor = "ready_wait"
    /\ \/ native_tun_worker_ready /\ monitor' = "probe" /\ UNCHANGED verdict
       \/ monitor' = "verdict" /\ verdict' = FALSE
    /\ MonitorOnly /\ UNCHANGED status

\* The probe goes through the network: either answer is possible at any time.
MonitorProbe ==
    /\ monitor = "probe"
    /\ verdict' \in BOOLEAN
    /\ monitor' = "verdict"
    /\ MonitorOnly /\ UNCHANGED status

\* The first verdict is dropped when the monitor was stopped meanwhile.
MonitorInitial ==
    /\ monitor = "verdict"
    /\ monitor' = IF monitor_stop THEN "done" ELSE "apply"
    /\ MonitorOnly /\ UNCHANGED <<status, verdict>>

\* Mutant: a verdict may still change Stopping.
EndedStates == {"Stopped", "Failed"}

\* States a probe result may no longer change.
ShutStates == {"Stopped", "Failed", "Stopping"}

HealthApplied(st, ok) ==
    IF ok
    THEN [st EXCEPT !.proxy_ready = TRUE, !.error = "none",
                    !.state = IF @ \in {"Starting", "Degraded"}
                              THEN "Running" ELSE @]
    ELSE [st EXCEPT !.proxy_ready = FALSE, !.error = "health",
                    !.state = "Degraded"]

apply_proxy_health ==
    /\ monitor = "apply"
    /\ status' = IF status.state \in ShutStates
                 THEN status ELSE HealthApplied(status, verdict)
    /\ monitor' = "sleep"
    /\ MonitorOnly /\ UNCHANGED verdict

\* The 30 s sleep checks the flag every 250 ms; the probe after it does not.
MonitorSleep ==
    /\ monitor = "sleep"
    /\ monitor' = IF monitor_stop THEN "done" ELSE "reprobe"
    /\ MonitorOnly /\ UNCHANGED <<status, verdict>>

update_proxy_health ==
    /\ monitor = "reprobe"
    /\ verdict' \in BOOLEAN
    /\ monitor' = "apply"
    /\ MonitorOnly /\ UNCHANGED status

-----------------------------------------------------------------------------
(* The engine thread and the TUN worker process.                             *)

Outside == UNCHANGED <<controllerVars, workerVars, monitorVars, ownerVars>>

\* A cancelled engine closes its services, with or without an error.
EngineCloses ==
    /\ engine = "cancelled"
    /\ engine' = "closed" /\ exit_ok' \in BOOLEAN
    /\ Outside /\ UNCHANGED <<child, line>>

\* The engine thread panics.
EnginePanics ==
    /\ engine = "up"
    /\ engine' = "closed" /\ exit_ok' = FALSE
    /\ Outside /\ UNCHANGED <<child, line>>

\* native_tun_worker::run: the runtime started and READY_MESSAGE is printed.
ChildReady ==
    /\ child = "booting"
    /\ child' = "up" /\ line' = "printed"
    /\ Outside /\ UNCHANGED <<engine, exit_ok>>

\* The process ends by itself: start error, engine end, or a signal from
\* outside.
ChildDies ==
    /\ child \in {"booting", "up"}
    /\ child' = "exited" /\ exit_ok' \in BOOLEAN
    /\ Outside /\ UNCHANGED <<engine, line>>

\* SIGTERM breaks the select loop; the runtime is cancelled and joined.
ChildTerminates ==
    /\ child = "terminating"
    /\ child' = "exited" /\ exit_ok' \in BOOLEAN
    /\ Outside /\ UNCHANGED <<engine, line>>

\* pipe_singbox_to_buffer copies the line; the buffer keeps its last 4096.
PipeReadyLine ==
    /\ line = "printed"
    /\ line' = "logged"
    /\ Outside /\ UNCHANGED <<engine, child, exit_ok>>

EvictReadyLine ==
    /\ line = "logged"
    /\ line' = "evicted"
    /\ Outside /\ UNCHANGED <<engine, child, exit_ok>>

-----------------------------------------------------------------------------
WaitStep == WaitReadStatus \/ wait_started \/ WaitDropped
StopStep ==
    \/ StopStatus \/ StopFlag \/ StopLoadPid \/ terminate_worker_process
    \/ StopNative \/ StopJoin
OwnerStep == start_managed \/ WaitStep \/ StopCheck \/ StopStep

WorkerStart ==
    \/ WorkerPrepare \/ WorkerConfigure \/ WorkerConflict \/ WorkerConflictStop
    \/ WorkerNoConflict \/ WorkerLaunchFails
WorkerMixed ==
    \/ WorkerStartEngine \/ WorkerStoreHandle \/ WorkerSetReady
    \/ WorkerRecheckStop \/ WorkerEngineWait \/ WorkerTakeHandle
WorkerTun ==
    \/ spawn_tun_worker \/ WorkerStorePid \/ WorkerStatusPid \/ WorkerPoll
    \/ WorkerWaitError \/ WorkerPollReady \/ WorkerPollStop \/ WorkerWaitChild
    \/ WorkerReaped
WorkerEnd ==
    \/ ProxyHealthMonitor_start \/ WorkerDropMonitor \/ WorkerJoinMonitor
    \/ WorkerClearRunning \/ WorkerClearPid \/ WorkerFinal
WorkerStep == WorkerStart \/ WorkerMixed \/ WorkerTun \/ WorkerEnd

MonitorStep ==
    \/ MonitorReadyWait \/ MonitorProbe \/ MonitorInitial \/ apply_proxy_health
    \/ MonitorSleep \/ update_proxy_health

EngineStep ==
    \/ EngineCloses \/ EnginePanics \/ ChildReady \/ ChildDies
    \/ ChildTerminates \/ PipeReadyLine \/ EvictReadyLine

Next == OwnerStep \/ WorkerStep \/ MonitorStep \/ EngineStep

\* Threads are scheduled, probes time out, and what was told to stop stops.
\* Nothing makes the owner call stop(), the process become ready, or the log
\* pipe run in time.
Fairness ==
    /\ WF_vars(StopStep) /\ WF_vars(WorkerStep) /\ WF_vars(MonitorStep)
    /\ WF_vars(EngineCloses) /\ WF_vars(ChildTerminates)

Spec == Init /\ [][Next]_vars /\ Fairness

-----------------------------------------------------------------------------
(* Properties.                                                               *)

\* When stop() has returned, nothing of the run is left: no engine, no TUN
\* process (unless the operating system refused to wait for it), no monitor,
\* no handle. The early return of stop() on ~running relies on the order in
\* which the worker tears down; the other one on the join.
QuietAfterStop ==
    owner = "stopped" =>
        /\ engine \in {"none", "closed"}
        /\ child \in ChildAlive => lost
        /\ monitor \in {"none", "done"}
        /\ native = FALSE
        /\ ~running

\* wait_started() reports success only for a run whose engine was up: the flag
\* it waits for is raised after NativeRuntime::start returned, or after the
\* TUN worker's own READY line was seen.
StartedMeansServed ==
    waited = "ok" =>
        IF tun THEN line \in {"logged", "evicted"} ELSE engine # "none"

\* A run that ended by itself keeps its outcome: no health verdict that
\* arrives late overwrites Failed or Stopped, and no pid is left in the status.
OutcomeKept ==
    worker = "done" /\ owner \in {"waiting", "decide", "settled", "stop_status"} =>
        /\ status.state = IF result = "err" THEN "Failed" ELSE "Stopped"
        /\ result = "err" => status.error = "failed"
        /\ ~status.pid

\* Once stop() announced Stopping, the stack is never reported Running again.
NoRunningWhileStopping ==
    [][~(/\ owner \in StopPlaces
         /\ status.state # "Running" /\ status'.state = "Running")]_vars

\* stop() always returns: whichever of the handle, the pid and the flag the
\* worker had or had not published when stop() looked, the worker ends.
StopCompletes == (owner = "stop_status") ~> (owner = "stopped")

\* An engine or a TUN worker that ended, however it ended, is reported: the
\* status reaches Stopped or Failed, so a dead stack is not shown as active.
DeathReported ==
    (child = "exited" \/ engine = "closed")
        ~> (status.state \in {"Stopped", "Failed"})

-----------------------------------------------------------------------------
(* The inductive invariant behind the safety properties: what each place of  *)
(* the worker thread says about the other actors.                            *)

LaunchPlaces ==
    {"unborn", "prepare", "configure", "route_check", "conflict", "launch"}
MixedPlaces == {"store_handle", "set_ready", "recheck", "wait_engine", "take_handle"}
ChildPlaces == {"store_pid", "status_pid", "poll", "poll_ready", "poll_stop",
                "wait_child"}
TunPlaces == ChildPlaces \union {"conflict", "reaped"}
TornDown == {"clear_running", "clear_pid", "final", "done"}
MonitoredPlaces == {"wait_engine", "take_handle", "poll", "poll_ready",
                    "poll_stop", "wait_child", "reaped", "drop_monitor",
                    "join_monitor"}

ModeInv ==
    /\ worker \in MixedPlaces => ~tun
    /\ worker \in TunPlaces => tun
    /\ IF tun THEN engine = "none" /\ ~native
              ELSE child = "none" /\ line = "none"

EngineInv ==
    /\ engine \in {"up", "cancelled"} =>
          worker \in {"store_handle", "set_ready", "recheck", "start_monitor",
                     "wait_engine"}
    /\ ~tun /\ worker \in {"store_handle", "set_ready", "recheck", "start_monitor"}
          => engine # "none"
    /\ native => worker \in {"set_ready", "recheck", "start_monitor",
                            "wait_engine", "take_handle"}

ChildInv ==
    /\ child \in ChildAlive \union {"exited"} =>
          lost \/ worker \in ChildPlaces \union {"start_monitor"}
    /\ worker \in LaunchPlaces => child = "none"
    /\ child \in {"none", "booting"} => line = "none"

MonitorInv == monitor \notin {"none", "done"} => worker \in MonitoredPlaces

OwnerInv ==
    /\ owner = "new" <=> worker = "unborn"
    /\ owner = "new" => ~ready
    /\ owner \in {"new", "waiting", "decide"} => waited = "none"
    /\ owner # "new" /\ ~running => worker \in {"clear_pid", "final", "done"}
    /\ owner = "stopped" => ~running
    /\ ready => IF tun THEN line \in {"logged", "evicted"} ELSE engine # "none"

\* During stop() the state is one no verdict may change, or the Degraded of a
\* route conflict, which no monitor watches.
StoppingInv ==
    owner \in StopPlaces =>
        \/ status.state \in {"Stopped", "Failed", "Stopping"}
        \/ /\ status.state = "Degraded"
           /\ worker \in {"conflict", "clear_running", "clear_pid", "final"}

ResultInv ==
    worker \in {"take_handle", "drop_monitor", "join_monitor"} \union TornDown =>
        result # "none"

SafetyInv ==
    /\ ModeInv /\ EngineInv /\ ChildInv /\ MonitorInv /\ OwnerInv
    /\ StoppingInv /\ ResultInv
    /\ StartedMeansServed /\ OutcomeKept
=============================================================================
