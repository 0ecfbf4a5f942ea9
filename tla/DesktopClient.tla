--------------------------- MODULE DesktopClient ---------------------------
(* The desktop application's backend (client/desktop/src/backend.rs) and the *)
(* native client it drives (src/desktop.rs). One task executes one command   *)
(* at a time. It saves the requested configuration, starts, applies or stops *)
(* the core, and puts the previous configuration back when that fails. The   *)
(* core runs in this process, or, when the configuration needs root, in a    *)
(* worker process of the macOS helper. Between two awaits the worker can     *)
(* die, and the application can be killed at any time. How a core applies a  *)
(* configuration in detail is CoreRuntime; the host protocol is CoreHost.    *)
EXTENDS Naturals, FiniteSets

CONSTANTS
    Requests,       \* the configurations the user asks for
    Workers,        \* the worker processes that can be authorized
    NoWorker, NoConfig, NoCore

\* What tells configurations apart: proxy.enabled, proxy.tun.enabled, and the
\* enabled mesh by its role ("off": absent or disabled).
Config == [enabled: BOOLEAN, tun: BOOLEAN, mesh: {"off", "node", "relay"}]
\* A CoreRuntime with `running`: the configuration it has recorded, its proxy
\* (none, one that died, one without and one with a TUN), the mesh that runs, and
\* is an error (with the forced restart of the proxy) pending.
Live == {"plain", "tun"}
Core == [cfg: Config, stack: {"none", "dead"} \union Live, mesh: {"off", "node", "relay"},
         pending: BOOLEAN]

ASSUME RequestAssumption == Requests \subseteq Config /\ NoConfig \notin Config
ASSUME WorkerAssumption == NoWorker \notin Workers /\ NoCore \notin Core

VARIABLES
    file,           \* zay.toml of the desktop's data directory
    local,          \* Client.local
    elevated,       \* is Client.elevated Some
    guard,          \* the worker its CoreSupervisor holds
    worker,         \* where each worker process stands
    core,           \* the core inside each worker
    control,        \* the worker the control file names
    op,             \* the command in progress, or the last one
    pc,             \* where it stands
    flow,           \* inside Client::start or Client::apply
    want,           \* the configuration of the command
    previous,       \* the one apply_change restores
    ok,             \* result.is_ok()
    retry_config,   \* what the Retry button asks for, after an error
    \* History.
    dropped,        \* workers whose handle was given up while they lived
    accepted,       \* what the last successful change, or a failed restore, left
    asked,          \* the user enabled a connection
    misread         \* a status this command read was CoreStatus::failed

cores == <<local, elevated, guard, worker, core, control>>
command == <<op, want, previous, retry_config>>
history == <<accepted, asked>>
vars == <<file, cores, command, pc, flow, ok, dropped, history, misread>>

Changes == {"save", "retry", "pause"}
Places == {"off", "fresh", "idle", "save", "choose", "stop", "release", "reauth",
           "authorize", "handover", "ask", "start_local", "apply", "apply_core",
           "settle", "finish"}

ConfigsOK ==
    /\ file \in Config \union {NoConfig} /\ want \in Config \union {NoConfig}
    /\ retry_config \in Config \union {NoConfig}
    /\ previous \in Config \union {NoConfig} /\ accepted \in Config \union {NoConfig}
CoresOK ==
    /\ local \in Core \union {NoCore} /\ core \in [Workers -> Core \union {NoCore}]
    /\ elevated \in BOOLEAN /\ guard \in Workers \union {NoWorker}
    /\ worker \in [Workers -> {"unborn", "alive", "dead"}]
    /\ control \in Workers \union {NoWorker} /\ dropped \subseteq Workers
    /\ pc = "handover" => guard \in Workers
CommandOK ==
    /\ op \in Changes \union {"none", "launch", "refresh"}
    /\ pc \in Places /\ flow \in {"none", "start", "apply"}
    /\ ok \in BOOLEAN /\ asked \in BOOLEAN /\ misread \in BOOLEAN
\* Every variable is in its range, and a handed-over worker is a worker.
TypeOK == ConfigsOK /\ CoresOK /\ CommandOK

Init ==
    /\ file \in Requests \union {NoConfig}
    /\ local = NoCore /\ elevated = FALSE /\ guard = NoWorker
    /\ worker = [w \in Workers |-> "unborn"] /\ core = [w \in Workers |-> NoCore]
    /\ control = NoWorker
    /\ op = "none" /\ pc = "off" /\ flow = "none" /\ ok = TRUE
    /\ want = NoConfig /\ previous = NoConfig /\ retry_config = NoConfig
    /\ dropped = {} /\ accepted = file /\ asked = (file # NoConfig)
    /\ misread = FALSE

-----------------------------------------------------------------------------
(* Configurations and cores.                                                 *)

connections_enabled(c) == c.enabled \/ c.mesh # "off"

\* A relay's TUN is off, so a relay next to a TUN proxy needs no root.
requires_root(c) == c.mesh = "node" \/ (c.enabled /\ c.tun /\ c.mesh # "relay")

\* set_service_state, for Pause and Stop.
WithoutProxy(c) == [enabled |-> FALSE, tun |-> c.tun, mesh |-> c.mesh]
WithMesh(c, mesh) == [enabled |-> c.enabled, tun |-> c.tun, mesh |-> mesh]
WithoutMesh(c) == WithMesh(c, "off")

Up(r) == IF r = NoCore THEN {}
         ELSE {s \in {"proxy", "mesh"} : IF s = "proxy" THEN r.stack \in Live ELSE r.mesh # "off"}
ServicesUp == Up(local) \union UNION {Up(core[w]) : w \in Workers}

Alive(w) == w \in Workers /\ worker[w] = "alive"

\* The stack that persistent_stack_cli describes.
Stack(c) ==
    IF ~c.enabled THEN "none" ELSE IF c.tun /\ c.mesh # "relay" THEN "tun" ELSE "plain"
\* start_stack keeps the controller although waiting for it failed: the stack may
\* be up, or not; before that, the controller may refuse to start.
Unstarted(c) == {"none", "dead", Stack(c)}

Running(cfg, stack, mesh, pending) ==
    [cfg |-> cfg, stack |-> stack, mesh |-> mesh, pending |-> pending]
Outcome(to, done) == [to |-> to, ok |-> done]

\* CoreRuntime::start: nothing when it runs already; an unreadable file or a failing
\* mesh fails it; a failing proxy leaves it running with the error pending.
StartResults(r) ==
    IF r # NoCore THEN {Outcome(r, TRUE)}
    ELSE {Outcome(Running(file, Stack(file), file.mesh, FALSE), TRUE), Outcome(NoCore, FALSE)}
         \union {Outcome(Running(file, stack, file.mesh, TRUE), FALSE) :
                    stack \in IF file.enabled THEN Unstarted(file) ELSE {}}

\* CoreRuntime::apply: the file cannot be read; the mesh is refused before anything
\* stops; the proxy, or the old mesh, does not stop cleanly; the new mesh fails,
\* which may leave it running; the proxy fails to start.
ApplyResults(r, force) ==
    IF r = NoCore THEN {Outcome(r, TRUE), Outcome(r, FALSE)}
    ELSE LET planned == /\ r.cfg.enabled \/ file.enabled
                        /\ force \/ r.pending \/ r.cfg # file
             switched == r.cfg.mesh # file.mesh
             left == IF planned THEN "none" ELSE r.stack
             mesh == IF switched THEN file.mesh ELSE r.mesh
         IN {Outcome(Running(file, IF planned THEN Stack(file) ELSE r.stack, mesh, FALSE), TRUE),
             Outcome(r, FALSE), Outcome(Running(r.cfg, r.stack, r.mesh, TRUE), FALSE),
             Outcome(Running(r.cfg, left, r.mesh, TRUE), FALSE)}
            \union {Outcome(Running(r.cfg, left, m, TRUE), FALSE) :
                       m \in IF switched THEN {"off", file.mesh} ELSE {}}
            \union {Outcome(Running(WithMesh(r.cfg, file.mesh), stack, mesh, TRUE), FALSE) :
                       stack \in IF planned /\ file.enabled THEN Unstarted(file) ELSE {}}

-----------------------------------------------------------------------------
(* Pieces of the client's operations.                                        *)

Goto(place) == pc' = place
Succeed == ok' = TRUE /\ Goto("settle")
Fail == ok' = FALSE /\ Goto("finish")
KeepCommand == UNCHANGED <<command, history>>

\* Client::status(): a worker that is gone, and a request that fails, are answered
\* with CoreStatus::failed, which says running; only a supervisor without a handle
\* is stopped.
Failed == [running |-> TRUE, failed |-> TRUE]
Answers ==
    LET Answer(r) == [running |-> r # NoCore, failed |-> FALSE]
    IN IF ~elevated THEN {Answer(local)}
       ELSE IF guard = NoWorker THEN {Answer(NoCore)}
       ELSE IF Alive(guard) THEN {Answer(core[guard]), Failed} ELSE {Failed}
\* The handle of a worker that is gone is dropped by the same call.
Forget == guard' = IF elevated /\ ~Alive(guard) THEN NoWorker ELSE guard
Read(answer) ==
    /\ answer \in Answers
    /\ misread' = (op \in {"save", "retry"} /\ (misread \/ answer.failed))
Status(answer) == Read(answer) /\ Forget

\* CoreSupervisor::shutdown of a native helper's worker: "stop", wait up to 10 s
\* for the exit, close the connection and remove the control file.
shutdown ==
    /\ elevated' = FALSE /\ guard' = NoWorker
    /\ IF ~Alive(guard)
       THEN /\ UNCHANGED <<worker, core, dropped>>
            /\ control' = IF guard = NoWorker THEN control ELSE NoWorker
       ELSE /\ control' = NoWorker
            /\ \/ /\ worker' = [worker EXCEPT ![guard] = "dead"]
                  /\ core' = [core EXCEPT ![guard] = NoCore]
                  /\ dropped' = dropped
               \/ dropped' = dropped \union {guard} /\ UNCHANGED <<worker, core>>

\* The authorization went through and the worker wrote its control file.
Authorized(w) ==
    /\ worker[w] = "unborn"
    /\ worker' = [worker EXCEPT ![w] = "alive"]
    /\ guard' = w /\ control' = w
    /\ UNCHANGED core

\* CoreSupervisor::initialize_for_desktop without a live handle: another core
\* that answers is left alone, otherwise the system asks the user, who may cancel.
initialize_for_desktop(next) ==
    \/ /\ Alive(control)
       /\ guard' = NoWorker /\ UNCHANGED <<worker, core, control>> /\ Fail
    \/ /\ ~Alive(control)
       /\ \/ guard' = NoWorker /\ control' = NoWorker /\ UNCHANGED <<worker, core>> /\ Fail
          \/ (\E w \in Workers : Authorized(w)) /\ Goto(next) /\ UNCHANGED ok

-----------------------------------------------------------------------------
(* backend::launch.                                                          *)

Default == [enabled |-> TRUE, tun |-> TRUE, mesh |-> "off"]

\* `configured`, then Client::new, which writes the default file.
New ==
    /\ pc = "off"
    /\ op' = "launch" /\ want' = NoConfig /\ previous' = file /\ retry_config' = NoConfig
    /\ file' = IF file = NoConfig THEN Default ELSE file
    /\ accepted' = file'
    /\ Goto("fresh") /\ flow' = "start" /\ ok' = TRUE
    /\ UNCHANGED <<cores, dropped, asked, misread>>

\* A fresh install is saved with the proxy off; an enabled configuration resumes.
Startup ==
    /\ pc = "fresh"
    /\ \/ /\ previous = NoConfig
          /\ \/ /\ file' = WithoutProxy(file) /\ accepted' = file'
                /\ Goto("finish") /\ UNCHANGED ok
             \/ ok' = FALSE /\ Goto("finish") /\ UNCHANGED <<file, accepted>>
       \/ /\ previous # NoConfig
          /\ Goto(IF connections_enabled(file) THEN "release" ELSE "finish")
          /\ UNCHANGED <<file, ok, accepted>>
    /\ UNCHANGED <<cores, command, flow, dropped, asked, misread>>

-----------------------------------------------------------------------------
(* The command loop.                                                         *)

Begin(kind, c) ==
    /\ pc = "idle"
    /\ op' = kind /\ want' = c /\ previous' = NoConfig /\ misread' = FALSE
    /\ UNCHANGED <<retry_config, dropped, accepted>>

\* Command::Save, ControlService(Start), and the edits of subscriptions, rules
\* and selections; and Command::Start, which the Retry button sends.
Request(kind, c) ==
    /\ Begin(kind, c)
    /\ Goto("save") /\ flow' = "none"
    /\ asked' = (asked \/ connections_enabled(c)) /\ ok' = TRUE
    /\ UNCHANGED <<file, cores>>

\* Command::ControlService(Pause | Stop): when nothing runs it only saves.
ControlService(c) ==
    /\ Begin("pause", c) /\ c # file
    /\ asked' = (asked \/ connections_enabled(c))
    /\ Forget
    /\ \E status \in Answers :
            IF status.running
            THEN Goto("save") /\ ok' = TRUE /\ file' = file
            ELSE \/ file' = c /\ ok' = TRUE /\ Goto("finish")
                 \/ file' = file /\ ok' = FALSE /\ Goto("finish")
    /\ flow' = "none"
    /\ UNCHANGED <<local, elevated, worker, core, control>>

\* Command::RefreshProxies with a running proxy; otherwise only a download.
RefreshProxies ==
    /\ Begin("refresh", NoConfig)
    /\ Forget
    /\ \E status \in Answers :
            IF status.running /\ file.enabled
            THEN Goto("apply_core") /\ ok' = TRUE
            ELSE ok' \in BOOLEAN /\ Goto("finish")
    /\ flow' = "none"
    /\ UNCHANGED <<file, local, elevated, worker, core, control, asked>>

\* Command::Shutdown; the application exits.
Shutdown ==
    /\ pc = "idle" /\ Goto("off")
    /\ op' = "none"
    /\ shutdown
    /\ local' = NoCore /\ retry_config' = NoConfig /\ ok' = TRUE /\ misread' = FALSE
    /\ UNCHANGED <<file, want, previous, flow, accepted, asked>>

-----------------------------------------------------------------------------
(* apply_change and finish_change.                                           *)

SaveChange ==
    /\ pc = "save"
    /\ previous' = file
    /\ \/ file' = want /\ Goto("choose") /\ UNCHANGED ok
       \/ file' = file /\ ok' = FALSE /\ Goto("finish")
    /\ UNCHANGED <<cores, op, want, retry_config, flow, dropped, history,
                   misread>>

\* Mutant: start() is called in the place of apply().
ChooseStart ==
    /\ pc = "choose"
    /\ flow' = "start"
    /\ Goto(IF connections_enabled(want) THEN "release" ELSE "stop")
    /\ UNCHANGED <<file, cores, ok, dropped, misread>>
    /\ KeepCommand

Choose ==
    /\ pc = "choose"
    /\ IF ~connections_enabled(want)
       THEN Goto("stop") /\ flow' = "none" /\ UNCHANGED <<guard, misread>>
       ELSE IF op = "retry"
       THEN Goto("release") /\ flow' = "start" /\ UNCHANGED <<guard, misread>>
       ELSE \E status \in Answers :
              /\ Status(status)
              /\ flow' = IF status.running THEN "apply" ELSE "start"
              /\ Goto(IF status.running THEN "apply" ELSE "release")
    /\ UNCHANGED <<file, local, elevated, worker, core, control, ok, dropped>>
    /\ KeepCommand

ProxyUp(r) == r # NoCore /\ r.stack \in Live

\* sync_proxy_selection pushes the selection to the controller of the proxy.
sync_proxy_selection == ok' \in {FALSE, ProxyUp(local) \/ \E w \in Workers : ProxyUp(core[w])}

\* A launch pushes it when the proxy is enabled, a change when in addition the core
\* is said to run.
Settle ==
    /\ pc = "settle"
    /\ \/ /\ op = "launch"
          /\ IF file.enabled THEN sync_proxy_selection ELSE ok' = ok
          /\ UNCHANGED <<guard, misread>>
       \/ /\ op \in Changes /\ want.enabled
          /\ \E status \in Answers :
               /\ Status(status)
               /\ IF status.running THEN sync_proxy_selection ELSE ok' = ok
       \/ /\ op \notin {"launch"} \union Changes \/ (op \in Changes /\ ~want.enabled)
          /\ UNCHANGED <<ok, guard, misread>>
    /\ Goto("finish")
    /\ UNCHANGED <<file, local, elevated, worker, core, control, flow, dropped>>
    /\ KeepCommand

\* A command that succeeds clears retry_config, one that fails leaves what it
\* asked for.
CommandOver ==
    /\ Goto("idle") /\ flow' = "none"
    /\ retry_config' = CASE ok -> NoConfig
                          [] ~ok /\ op = "launch" -> file
                          [] ~ok /\ op \in Changes -> want
                          [] OTHER -> retry_config
    /\ want' = NoConfig /\ previous' = NoConfig

\* The loop reads the status once more before it waits for the next command.
Loop ==
    /\ pc = "finish" /\ CommandOver /\ Forget
    /\ UNCHANGED <<local, elevated, worker, core, control, op, ok, dropped, asked, misread>>

Rejected == ~ok /\ op \in Changes /\ previous # NoConfig

\* Mutant: the change stays although it was rejected.
KeepRejected ==
    /\ Loop
    /\ file' = file
    /\ accepted' = IF ok /\ op \in Changes THEN want ELSE accepted

\* A rejected change is taken back ...
finish_change ==
    /\ Loop
    /\ file' = IF Rejected THEN previous ELSE file
    /\ accepted' = IF ok /\ op \in Changes THEN want ELSE accepted

\* ... unless that save fails too ("could not restore settings").
RestoreFails ==
    /\ Loop /\ Rejected
    /\ file' = file /\ accepted' = file

\* Every second the loop reads the status.
Tick ==
    /\ pc = "idle" /\ guard # NoWorker /\ Forget
    /\ UNCHANGED <<file, local, elevated, worker, core, control, command, pc, flow, ok, dropped,
                   history, misread>>

-----------------------------------------------------------------------------
(* Client::start, apply, stop.                                               *)

\* Client::stop.
Stop ==
    /\ pc = "stop"
    /\ \/ elevated /\ shutdown /\ Succeed /\ UNCHANGED local
       \/ /\ ~elevated
          /\ local' = NoCore
          /\ Succeed \/ (local # NoCore /\ Fail)
          /\ UNCHANGED <<elevated, guard, worker, core, control, dropped>>
    /\ UNCHANGED <<file, flow, misread>> /\ KeepCommand

\* release_unneeded_privileges, first step of Client::start.
Release ==
    /\ pc = "release"
    /\ IF elevated /\ ~requires_root(file)
       THEN shutdown /\ Goto("authorize")
       ELSE /\ Goto(IF elevated THEN "reauth" ELSE "authorize")
            /\ UNCHANGED <<elevated, guard, worker, core, control, dropped>>
    /\ UNCHANGED <<file, local, flow, ok, misread>> /\ KeepCommand

\* Client::start with a supervisor whose worker may have exited.
Reauthorize ==
    /\ pc = "reauth"
    /\ IF Alive(guard)
       THEN Goto("ask") /\ UNCHANGED <<guard, worker, core, control, ok>>
       ELSE initialize_for_desktop("ask")
    /\ UNCHANGED <<file, local, elevated, flow, dropped, misread>> /\ KeepCommand

AfterAuthorize == IF flow = "start" THEN "start_local" ELSE "apply_core"

\* Mutant: nobody asks whether root is needed.
StayLocal ==
    /\ pc = "authorize"
    /\ Goto(AfterAuthorize)
    /\ UNCHANGED <<file, cores, flow, ok, dropped, misread>> /\ KeepCommand

\* authorize_if_needed: a new supervisor, initialized before the local core stops.
authorize_if_needed ==
    /\ pc = "authorize"
    /\ IF requires_root(file) /\ ~elevated
       THEN initialize_for_desktop("handover")
       ELSE /\ Goto(AfterAuthorize)
            /\ UNCHANGED <<guard, worker, core, control, ok>>
    /\ UNCHANGED <<file, local, elevated, flow, dropped, misread>> /\ KeepCommand

\* Mutant: the local core is not stopped.
KeepLocal ==
    /\ pc = "handover"
    /\ elevated' = TRUE
    /\ Goto(IF flow = "start" THEN "ask" ELSE "release") /\ flow' = "start"
    /\ UNCHANGED <<file, local, guard, worker, core, control, ok, dropped, misread>>
    /\ KeepCommand

\* local.stop(); a failure drops the new supervisor and its worker's connection.
Handover ==
    /\ pc = "handover"
    /\ local' = NoCore
    /\ \/ /\ elevated' = TRUE
          /\ Goto(IF flow = "start" THEN "ask" ELSE "release") /\ flow' = "start"
          /\ UNCHANGED <<guard, dropped, ok>>
       \/ /\ local # NoCore
          /\ dropped' = dropped \union {guard} /\ guard' = NoWorker
          /\ Fail /\ UNCHANGED <<elevated, flow>>
    /\ UNCHANGED <<file, worker, core, control, misread>> /\ KeepCommand

\* Mutant: it waits for a worker that is gone.
AskLiving ==
    /\ pc = "ask" /\ Alive(guard)
    /\ \E s \in StartResults(core[guard]) :
         /\ core' = [core EXCEPT ![guard] = s.to]
         /\ IF s.ok THEN Succeed ELSE Fail
    /\ UNCHANGED <<file, local, elevated, guard, worker, control, flow, dropped,
                   misread>>
    /\ KeepCommand

\* CoreSupervisor::start: initialize once more (a worker that died since is
\* replaced only with a cached sudo authorization), then "components-start".
Ask ==
    /\ pc = "ask"
    /\ IF Alive(guard)
       THEN /\ \/ \E s \in StartResults(core[guard]) :
                    /\ core' = [core EXCEPT ![guard] = s.to]
                    /\ (s.ok /\ Succeed) \/ Fail
               \/ Fail /\ core' = core
            /\ UNCHANGED <<guard, worker, control>>
       ELSE \/ guard' = NoWorker /\ Fail /\ UNCHANGED <<worker, core, control>>
            \/ /\ ~Alive(control)
               /\ \E w \in Workers : Authorized(w)
               /\ UNCHANGED <<pc, ok>>
    /\ UNCHANGED <<file, local, elevated, flow, dropped, misread>> /\ KeepCommand

StartLocal ==
    /\ pc = "start_local"
    /\ \E s \in StartResults(local) :
         local' = s.to /\ IF s.ok THEN Succeed ELSE Fail
    /\ UNCHANGED <<file, elevated, guard, worker, core, control, flow, dropped, misread>>
    /\ KeepCommand

\* Client::apply up to its call of the core.
Apply ==
    /\ pc = "apply"
    /\ \E status \in Answers :
         IF elevated /\ ~requires_root(file)
         THEN /\ Read(status) /\ shutdown
              /\ Goto(IF status.running THEN "start_local" ELSE "apply_core")
         ELSE /\ Status(status)
              /\ Goto(IF status.running THEN "authorize" ELSE "apply_core")
              /\ UNCHANGED <<elevated, worker, core, control, dropped>>
    /\ UNCHANGED <<file, local, flow, ok>> /\ KeepCommand

\* CoreRuntime::apply here, or "components-apply" or "proxy-apply" there; a
\* supervisor without a worker reports that nothing had to be applied.
ApplyCore ==
    /\ pc = "apply_core"
    /\ IF elevated
       THEN /\ \/ /\ Alive(guard)
                  /\ \E s \in ApplyResults(core[guard], op = "refresh") :
                       /\ core' = [core EXCEPT ![guard] = s.to]
                       /\ (s.ok /\ Succeed) \/ Fail
               \/ guard # NoWorker /\ Fail /\ core' = core
               \/ guard = NoWorker /\ Succeed /\ core' = core
            /\ local' = local
       ELSE /\ \E s \in ApplyResults(local, op = "refresh") :
                 local' = s.to /\ IF s.ok THEN Succeed ELSE Fail
            /\ core' = core
    /\ UNCHANGED <<file, elevated, guard, worker, control, flow, dropped, misread>>
    /\ KeepCommand

-----------------------------------------------------------------------------
(* The environment.                                                          *)

\* A worker exits: by itself, or because its connection or its owner is gone.
WorkerDies(w) ==
    /\ worker[w] = "alive"
    /\ worker' = [worker EXCEPT ![w] = "dead"]
    /\ core' = [core EXCEPT ![w] = NoCore]
    /\ UNCHANGED <<file, local, elevated, guard, control, command, pc, flow, ok,
                   dropped, history, misread>>

\* The proxy of a core stops by itself; its controller stays.
Lost(r) == Running(r.cfg, "dead", r.mesh, r.pending)
ProxyDies ==
    /\ \/ /\ ProxyUp(local)
          /\ local' = Lost(local) /\ UNCHANGED core
       \/ /\ \E w \in Workers : ProxyUp(core[w]) /\ core' = [core EXCEPT ![w] = Lost(core[w])]
          /\ UNCHANGED local
    /\ UNCHANGED <<file, elevated, guard, worker, control, command, pc, flow, ok, dropped,
                   history, misread>>

\* The application is killed; what it saved last stays.
Crash ==
    /\ pc # "off"
    /\ local' = NoCore /\ elevated' = FALSE /\ guard' = NoWorker
    /\ dropped' = dropped \union ({guard} \ {NoWorker})
    /\ Goto("off") /\ op' = "none" /\ flow' = "none" /\ accepted' = file
    /\ want' = NoConfig /\ previous' = NoConfig /\ retry_config' = NoConfig
    /\ ok' = TRUE /\ misread' = FALSE
    /\ UNCHANGED <<file, worker, core, control, asked>>

ClientStep ==
    \/ Startup \/ SaveChange \/ Choose \/ Settle \/ finish_change \/ RestoreFails \/ Stop \/ Release
    \/ Reauthorize \/ authorize_if_needed \/ Handover \/ Ask \/ StartLocal \/ Apply
    \/ ApplyCore

Next ==
    \/ New
    \/ \E c \in Requests : Request("save", c)
    \/ retry_config # NoConfig /\ Request("retry", retry_config)
    \/ /\ pc = "idle"
       /\ \E c \in {WithoutProxy(file), WithoutMesh(file)} : ControlService(c)
    \/ RefreshProxies
    \/ Shutdown
    \/ ClientStep
    \/ Tick
    \/ \E w \in Workers : WorkerDies(w)
    \/ ProxyDies
    \/ Crash

\* The backend task is scheduled, and the helper ends a worker that lost its owner.
Fairness ==
    /\ WF_vars(ClientStep)
    /\ \A w \in Workers : WF_vars(w \in dropped /\ WorkerDies(w))

Spec == Init /\ [][Next]_vars /\ Fairness

-----------------------------------------------------------------------------
(* Properties.                                                               *)

\* What the client's own cores run: the local one and that of the held worker.
Owned == {local} \union {core[w] : w \in {guard} \ {NoWorker}}
\* It has recorded the file, without an error, and the proxy the file enables was
\* started from it. (A mesh, or a disabled proxy, that an earlier failure left is
\* beyond the plan of an apply.)
UpToDate(r) ==
    /\ r.cfg = file /\ ~r.pending
    /\ file.enabled => r.stack \in {Stack(file), "dead"}
NeedsRoot(r) == r.mesh = "node" \/ r.stack = "tun"
\* A core runs, or did until its worker was lost.
SomethingRuns == local # NoCore \/ (elevated /\ (~Alive(guard) \/ core[guard] # NoCore))

\* Moving between the local and the elevated core (authorize_if_needed,
\* release_unneeded_privileges) never leaves two cores of one data directory:
\* a worker whose connection is open is the one the client holds, and while it
\* runs components the local core runs none.
OneCore ==
    /\ \A w \in Workers : Alive(w) /\ w \notin dropped => w = guard
    /\ elevated => local = NoCore
    /\ Cardinality({r \in Owned : r # NoCore}) <= 1

LocalNeedsRoot == local # NoCore /\ NeedsRoot(local)

\* A start, a change or a pause asks for the helper before it brings up anything
\* that needs root: the unprivileged core never gets there by one of them,
\* whatever was cancelled, rejected or restored before.
ChangesKeepLocalUnprivileged ==
    [][~LocalNeedsRoot /\ LocalNeedsRoot' => op = "refresh"]_vars

\* "Keep rejected changes out of the saved configuration": between two commands
\* the file is what the last successful change asked for, or what the application
\* was launched with, unless the save that restores it failed.
RejectedIsNotSaved == pc = "idle" => file = accepted

\* What holds between the steps and between the commands.
SafetyInv == TypeOK /\ OneCore /\ RejectedIsNotSaved

\* After a change or a pause that was reported as done, every core of the client
\* has applied the saved configuration; and a change that enables a connection left
\* a core running, unless a status it read was a failure.
AppliedIsSaved ==
    pc = "idle" /\ ok =>
        /\ op \in {"save", "pause"} => \A r \in Owned \ {NoCore} : UpToDate(r)
        /\ op \in {"save", "retry"} /\ connections_enabled(file) /\ ~misread => SomethingRuns

\* A command ends, also when the worker dies in the middle of it.
CommandEnds == pc \notin {"off", "idle"} ~> pc \in {"off", "idle"}

-----------------------------------------------------------------------------
(* The inductive invariant behind the proofs.                                *)

\* A launched application has a file, and what is about to be saved is a
\* configuration.
FileInv == (pc # "off" => file \in Config) /\ (pc = "save" => want \in Config)

\* A core without an error has started the proxy its configuration enables; a worker
\* that does not live has no core.
Sound(r) ==
    r # NoCore => (~r.pending /\ r.cfg.enabled => r.stack \in {Stack(r.cfg), "dead"})
CoreInv == /\ Sound(local)
           /\ \A w \in Workers : /\ Sound(core[w])
                                 /\ worker[w] # "alive" => core[w] = NoCore

NothingRuns == local = NoCore /\ (guard # NoWorker => core[guard] = NoCore)

\* Who holds a worker: an elevated client, or one that is about to be, with a
\* worker that has not started anything.
HolderInv ==
    /\ \A w \in Workers : Alive(w) /\ w \notin dropped => w = guard
    /\ elevated => local = NoCore
    /\ ~elevated => guard = NoWorker \/ (pc = "handover" /\ core[guard] = NoCore)
    /\ pc = "handover" => guard \in Workers /\ ~elevated

\* The way through Client::start and apply.
FlowInv ==
    /\ pc \in {"reauth", "ask"} => elevated
    /\ pc \in {"fresh", "release", "reauth", "ask"} => flow = "start"
    /\ (pc \in {"save", "choose"} => op \in Changes) /\ (pc = "fresh" => op = "launch")
    /\ pc = "apply" => flow = "apply"
    /\ pc = "authorize" /\ flow = "start" => ~elevated
    /\ pc = "start_local" => ~elevated /\ ~requires_root(file)
    /\ pc = "apply_core" /\ ~elevated /\ op # "refresh" =>
            local = NoCore \/ ~requires_root(file)

\* What apply_change puts back is what the last command left in place, and while
\* nothing has failed the file is what the command asks for.
RestoreInv ==
    /\ pc \in {"fresh", "idle", "save"} \/ (op \notin Changes /\ pc # "off") => file = accepted
    /\ op \in Changes /\ pc \notin {"off", "idle", "save"} =>
          /\ pc # "finish" => previous # NoConfig
          /\ pc # "finish" \/ ok => file = want
          /\ IF previous = NoConfig THEN ~ok => file = accepted ELSE previous = accepted

\* A change that starts cores starts all of them, and one that is done has them
\* all as the file says.
Changing == op \in {"save", "pause"}
StartPlaces == {"release", "reauth", "authorize", "handover", "ask"}
AppliedInv ==
    /\ Changing /\ flow = "start" /\ pc \in StartPlaces => NothingRuns
    /\ Changing /\ pc = "start_local" => NothingRuns
    /\ Changing /\ (pc = "settle" \/ (pc \in {"finish", "idle"} /\ ok)) =>
            \A r \in Owned \ {NoCore} : UpToDate(r)

\* An apply whose status was no failure has found a core.
Applying == pc \in {"apply", "apply_core"} \/ (pc = "authorize" /\ flow # "start")
RunningInv ==
    op \in {"save", "retry"} /\ ~misread =>
        /\ pc = "stop" => ~connections_enabled(file)
        /\ Applying => SomethingRuns /\ (elevated => guard # NoWorker)
        /\ (pc = "settle" \/ (pc \in {"finish", "idle"} /\ ok)) /\ connections_enabled(file) =>
               SomethingRuns

IInv == /\ TypeOK /\ FileInv /\ CoreInv /\ HolderInv /\ FlowInv /\ RestoreInv
        /\ AppliedInv /\ RunningInv

-----------------------------------------------------------------------------
(* What the README or a comment says and the code does not keep. *)

\* README: "TUN and Mesh node mode use a separate, signed networking helper".
HelperRunsRoot == ~LocalNeedsRoot

\* README: a fresh installation has proxy and mesh disabled, and backend::launch:
\* "Fresh installs wait for the user to enable a connection".
FreshInstallWaits == ServicesUp # {} => asked

\* README: "Pause and Stop never request authorization".
PauseNeverAuthorizes ==
    [][op = "pause" => \A w \in Workers : Alive(w)' => Alive(w)]_vars

\* README: "Retry reapplies that specific attempted configuration".
RetryReapplies ==
    pc = "idle" /\ op = "retry" /\ ok => \A r \in Owned \ {NoCore} : UpToDate(r)

\* backend.rs: "Stopping one service must never start or authorize another
\* configured service after a failed startup".
PauseStartsNothing ==
    [][op = "pause" /\ pc = "apply_core" => ServicesUp' \subseteq ServicesUp]_vars

\* README: "Start or Save starts the configuration", whatever the status said on
\* the way.
DoneIsRunning ==
    pc = "idle" /\ ok /\ op = "save" /\ connections_enabled(file) => SomethingRuns

=============================================================================
