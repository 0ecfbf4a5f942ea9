---------------------------- MODULE CoreRuntime ----------------------------
(* The component runner (src/runtime.rs): CoreRuntime starts, stops,         *)
(* restarts and re-applies the components zay.toml enables, through          *)
(* RunningComponents and ChangePlan. The caller holds the core's mutex for   *)
(* a whole operation, so one operation runs at a time; its awaits are the    *)
(* steps here, and between them the file can be saved again and the proxy    *)
(* can die.                                                                  *)
CONSTANTS
    ProxySettings,  \* what proxy_view keeps of [proxy], besides `enabled`
    Meshes,         \* the mesh configurations
    BadMeshes,      \* those to_easytier_toml rejects
    Routes,         \* the route-relevant fields of a mesh configuration
    NoMesh,         \* mesh absent or disabled
    Services,       \* the task-based services: http, fwd, ssh
    TaskCfgs,       \* the configurations of one of them
    NoTask, NoStack, NoConfig,
    Broken,         \* a file load_persistent_config rejects
    StopAllFails    \* whether easytier::stop_all can return an error

ASSUME MeshAssumption ==
    /\ BadMeshes \subseteq Meshes
    /\ NoMesh \notin Meshes
    /\ DOMAIN Routes = Meshes \union {NoMesh}
ASSUME ServiceAssumption ==
    /\ "proxy" \notin Services /\ "mesh" \notin Services
    /\ NoTask \notin TaskCfgs
ASSUME StopAllAssumption == StopAllFails \in BOOLEAN

Config == [proxy: [enabled: BOOLEAN, view: ProxySettings],
           mesh: Meshes \union {NoMesh},
           tasks: [Services -> TaskCfgs]]
ASSUME ConfigAssumption == NoConfig \notin Config /\ Broken \notin Config

VARIABLES
    disk,           \* zay.toml
    running,        \* is CoreRuntime.running Some
    config,         \* RunningComponents.config
    stack,          \* RunningComponents.stack: what it was started with, is it up
    mesh,           \* the EasyTier instances of this process
    tasks,          \* the running http, fwd and ssh tasks
    apply_error,    \* CoreRuntime.apply_error is Some
    pending_proxy,
    op,             \* the operation in progress
    pc,             \* where it stands
    cfg,            \* the configuration it loaded
    plan,           \* the components it replaces
    answer,         \* what the last operation returned
    mesh_failed     \* history: replacing the mesh failed and was not redone

components == <<config, stack, mesh, tasks>>
flags == <<apply_error, pending_proxy>>
vars == <<disk, running, components, flags, op, pc, cfg, plan, answer, mesh_failed>>

Component == {"proxy", "mesh"} \union Services
NoTasks == [s \in Services |-> NoTask]
Stack == [view: ProxySettings, routes: {Routes[m]: m \in Meshes \union {NoMesh}},
          up: BOOLEAN]
ASSUME StackAssumption == NoStack \notin Stack

ApplyPlaces == {"stop_stack", "stop_mesh", "start_mesh", "start_stack", "tasks"}
StartPlaces == {"boot_mesh", "boot_clean", "boot_stack", "boot_tasks"}
HaltPlaces == {"halt_tasks", "halt_stack", "halt_mesh", "halt_drop"}

ConfigsOK ==
    /\ disk \in Config \union {Broken}
    /\ config \in Config \union {NoConfig}
    /\ cfg \in Config \union {NoConfig}
ComponentsOK ==
    /\ stack \in Stack \union {NoStack}
    /\ mesh \subseteq Meshes
    /\ tasks \in [Services -> TaskCfgs \union {NoTask}]
FlagsOK ==
    /\ running \in BOOLEAN /\ apply_error \in BOOLEAN
    /\ pending_proxy \in BOOLEAN /\ mesh_failed \in BOOLEAN
PlacesOK ==
    /\ op \in {"none", "start", "stop", "restart", "apply"}
    /\ pc \in {"idle", "reload"} \union ApplyPlaces \union StartPlaces \union HaltPlaces
    /\ plan \subseteq Component
    /\ answer \in {"none", "ok", "err", "invalid", "ignored"}

\* Every variable stays in the range of the type it stands for; an absent mesh
\* is never started as one.
TypeOK == ConfigsOK /\ ComponentsOK /\ FlagsOK /\ PlacesOK

Init ==
    /\ disk \in Config
    /\ running = FALSE /\ config = NoConfig /\ stack = NoStack /\ mesh = {}
    /\ tasks = NoTasks /\ apply_error = FALSE /\ pending_proxy = FALSE
    /\ op = "none" /\ pc = "idle" /\ cfg = NoConfig /\ plan = {}
    /\ answer = "none" /\ mesh_failed = FALSE

-----------------------------------------------------------------------------
(* What changes between two configurations.                                  *)

\* proxy_view: the proxy settings and the mesh fields its TUN depends on.
proxy_view(c) == [proxy |-> c.proxy, mesh_routes |-> Routes[c.mesh]]

ChangePlan(old, new, force_proxy) ==
    {x \in Component :
        CASE x = "proxy" -> /\ old.proxy.enabled \/ new.proxy.enabled
                            /\ force_proxy \/ proxy_view(old) # proxy_view(new)
          [] x = "mesh"  -> old.mesh # new.mesh
          [] OTHER       -> old.tasks[x] # new.tasks[x]}

\* status().pending_changes
PendingChanges ==
    running /\ (apply_error \/ disk = Broken \/ ChangePlan(config, disk, FALSE) # {})

-----------------------------------------------------------------------------
(* The file, and the proxy, change on their own.                             *)

\* A client saves the file, or somebody edits it by hand.
Save ==
    /\ disk' \in Config \union {Broken}
    /\ disk' # disk
    /\ UNCHANGED <<running, components, flags, op, pc, cfg, plan, answer,
                   mesh_failed>>

StackDies ==
    /\ stack # NoStack /\ stack.up
    /\ stack' = [stack EXCEPT !.up = FALSE]
    /\ UNCHANGED <<disk, running, config, mesh, tasks, flags, op, pc, cfg, plan,
                   answer, mesh_failed>>

-----------------------------------------------------------------------------
(* Building blocks of the operations.                                        *)

Begin(kind, place, loaded, changed) ==
    op' = kind /\ pc' = place /\ cfg' = loaded /\ plan' = changed

Return(outcome) ==
    /\ op' = "none" /\ pc' = "idle" /\ cfg' = NoConfig /\ plan' = {}
    /\ answer' = outcome

Goto(place) == pc' = place /\ UNCHANGED <<op, cfg, plan, answer>>

\* RunningComponents::start_mesh. A failure can leave the instance behind: the
\* instance started and its address or listener never came up.
MeshStarted(m) == mesh' = IF m = NoMesh THEN mesh ELSE mesh \union {m}
MeshNotStarted(m) ==
    m # NoMesh /\ mesh' \in {mesh} \union {mesh \union ({m} \ BadMeshes)}

\* easytier::stop_all where its result is ignored.
MeshDropped == mesh' = {} \/ (StopAllFails /\ mesh' = mesh)

\* RunningComponents::start_stack keeps the controller whether or not
\* wait_started succeeded; a failed one may still be alive.
StackFrom(c, up) ==
    [view |-> c.proxy.view, routes |-> Routes[c.mesh], up |-> up]

\* start_http, start_fwd, start_ssh: a spawn cannot fail. How a task ends by
\* itself is only logged.
Respawned(changed) ==
    [s \in Services |-> IF s \in changed THEN cfg.tasks[s] ELSE tasks[s]]

-----------------------------------------------------------------------------
(* CoreRuntime::start and RunningComponents::from_config.                    *)

start_already ==
    /\ pc = "idle" /\ running
    /\ Return("ok")
    /\ UNCHANGED <<disk, running, components, flags, mesh_failed>>

\* Loading the file, at the start of start() and again in restart().
start_load(kind) ==
    /\ \/ disk = Broken /\ Return("invalid")
       \/ disk # Broken /\ Begin(kind, "boot_mesh", disk, {}) /\ UNCHANGED answer
    /\ UNCHANGED <<disk, running, components, flags, mesh_failed>>

start == pc = "idle" /\ ~running /\ start_load("start")

BootMesh ==
    /\ pc = "boot_mesh"
    /\ \/ cfg.mesh \notin BadMeshes /\ MeshStarted(cfg.mesh) /\ Goto("boot_stack")
       \/ MeshNotStarted(cfg.mesh) /\ Goto("boot_clean")
    /\ UNCHANGED <<disk, running, config, stack, tasks, flags, mesh_failed>>

\* stop_all runs here and once more in the Drop of the components; both
\* results are ignored.
BootClean ==
    /\ pc = "boot_clean"
    /\ MeshDropped
    /\ mesh_failed' = (mesh' # {})
    /\ apply_error' = TRUE
    /\ Return("err")
    /\ UNCHANGED <<disk, running, config, stack, tasks, pending_proxy>>

\* A proxy that failed to start is recorded and does not end the start.
BootStack ==
    /\ pc = "boot_stack"
    /\ IF cfg.proxy.enabled
       THEN \E up, failed \in BOOLEAN :
              /\ up \/ failed
              /\ stack' = StackFrom(cfg, up)
              /\ pending_proxy' = failed /\ apply_error' = failed
       ELSE stack' = NoStack /\ pending_proxy' = FALSE /\ apply_error' = FALSE
    /\ Goto("boot_tasks")
    /\ UNCHANGED <<disk, running, config, mesh, tasks, mesh_failed>>

BootTasks ==
    /\ pc = "boot_tasks"
    /\ tasks' = Respawned(Services)
    /\ running' = TRUE /\ config' = cfg
    /\ mesh_failed' = (mesh \ {cfg.mesh} # {})
    /\ Return(IF apply_error THEN "err" ELSE "ok")
    /\ UNCHANGED <<disk, stack, mesh, flags>>

-----------------------------------------------------------------------------
(* CoreRuntime::stop, RunningComponents::stop and its Drop.                  *)

stop_idle ==
    /\ pc = "idle" /\ ~running
    /\ apply_error' = FALSE /\ pending_proxy' = FALSE
    /\ Return("ok")
    /\ UNCHANGED <<disk, running, components, mesh_failed>>

\* self.running.take(): from here on the components belong to the operation.
Halt(kind) ==
    /\ running' = FALSE
    /\ Begin(kind, "halt_tasks", NoConfig, {})
    /\ UNCHANGED <<disk, components, flags, answer, mesh_failed>>

stop == pc = "idle" /\ running /\ Halt("stop")

HaltTasks ==
    /\ pc = "halt_tasks"
    /\ tasks' = NoTasks
    /\ Goto("halt_stack")
    /\ UNCHANGED <<disk, running, config, stack, mesh, flags, mesh_failed>>

HaltStack ==
    /\ pc = "halt_stack"
    /\ stack' = NoStack
    /\ Goto("halt_mesh")
    /\ UNCHANGED <<disk, running, config, mesh, tasks, flags, mesh_failed>>

\* The end of CoreRuntime::stop: restart() goes on to start().
Halted ==
    /\ config' = NoConfig
    /\ apply_error' = FALSE /\ pending_proxy' = FALSE
    /\ IF op = "restart" THEN Goto("reload") ELSE Return("ok")

\* Mutant: the mesh is stopped for the proxy's sake only.
KeptWithoutProxy(c) == c.mesh = NoMesh \/ ~c.proxy.enabled

\* stop_all runs when the configuration the components were started with has
\* a mesh.
MeshSkipped(c) == c.mesh = NoMesh

HaltMesh ==
    /\ pc = "halt_mesh"
    /\ \/ MeshSkipped(config) /\ Halted /\ UNCHANGED <<mesh, mesh_failed>>
       \/ /\ ~MeshSkipped(config)
          /\ \/ mesh' = {} /\ mesh_failed' = FALSE /\ Halted
             \/ /\ StopAllFails /\ Goto("halt_drop")
                /\ UNCHANGED <<mesh, mesh_failed, config, flags>>
    /\ UNCHANGED <<disk, running, stack, tasks>>

\* Drop for RunningComponents: one more stop_all, its result ignored.
HaltDrop ==
    /\ pc = "halt_drop"
    /\ MeshDropped
    /\ mesh_failed' = (mesh' # {})
    /\ config' = NoConfig
    /\ Return("err")
    /\ UNCHANGED <<disk, running, stack, tasks, flags>>

-----------------------------------------------------------------------------
(* CoreRuntime::restart.                                                     *)

\* The restart of a stopped core goes straight on to start().
restart ==
    /\ pc = "idle"
    /\ \/ /\ disk = Broken /\ Return("ignored")
          /\ UNCHANGED <<disk, running, components, flags, mesh_failed>>
       \/ disk # Broken /\ running /\ Halt("restart")
       \/ /\ disk # Broken /\ ~running
          /\ Begin("start", "reload", NoConfig, {})
          /\ apply_error' = FALSE /\ pending_proxy' = FALSE
          /\ UNCHANGED <<disk, running, components, answer, mesh_failed>>

RestartLoad == pc = "reload" /\ start_load(op)

-----------------------------------------------------------------------------
(* CoreRuntime::apply and RunningComponents::apply.                          *)

\* The early returns: a file that does not load, a core that does not run.
apply_nothing ==
    /\ pc = "idle"
    /\ \/ disk = Broken /\ Return("ignored")
       \/ disk # Broken /\ ~running /\ Return("ok")
    /\ UNCHANGED <<disk, running, components, flags, mesh_failed>>

\* Mutant: no retry is owed after a failure.
FailureForgotten == apply_error' = TRUE /\ UNCHANGED pending_proxy

FailureRecorded == apply_error' = TRUE /\ pending_proxy' = TRUE

ApplyFails == FailureRecorded /\ Return("err")

apply(force_proxy) ==
    /\ pc = "idle" /\ running /\ disk # Broken
    /\ LET forced == pending_proxy \/ force_proxy IN
       \/ /\ disk.mesh \notin BadMeshes
          /\ pending_proxy' = forced /\ UNCHANGED apply_error
          /\ Begin("apply", "stop_stack", disk, ChangePlan(config, disk, forced))
          /\ UNCHANGED answer
       \/ disk.mesh \in BadMeshes /\ ApplyFails
    /\ UNCHANGED <<disk, running, components, mesh_failed>>

\* Mutant: the proxy is left up while the mesh is replaced.
StopLater == stack

\* Mutant: the proxy is stopped whatever the plan.
StoppedAlways == NoStack

\* The proxy goes first: its TUN depends on the mesh routes.
StoppedFirst == IF "proxy" \in plan THEN NoStack ELSE stack

ApplyStopStack ==
    /\ pc = "stop_stack"
    /\ stack' = StoppedFirst
    /\ Goto("stop_mesh")
    /\ UNCHANGED <<disk, running, config, mesh, tasks, flags, mesh_failed>>

ApplyStopMesh ==
    /\ pc = "stop_mesh"
    /\ IF "mesh" \in plan
       THEN \/ mesh' = {} /\ Goto("start_mesh") /\ UNCHANGED <<flags, mesh_failed>>
            \/ /\ StopAllFails
               /\ mesh_failed' = TRUE /\ ApplyFails /\ UNCHANGED mesh
       ELSE Goto("start_stack") /\ UNCHANGED <<mesh, flags, mesh_failed>>
    /\ UNCHANGED <<disk, running, config, stack, tasks>>

\* config.mesh follows only a success.
ApplyStartMesh ==
    /\ pc = "start_mesh"
    /\ \/ /\ MeshStarted(cfg.mesh)
          /\ config' = [config EXCEPT !.mesh = cfg.mesh]
          /\ mesh_failed' = FALSE
          /\ Goto("start_stack") /\ UNCHANGED flags
       \/ /\ MeshNotStarted(cfg.mesh)
          /\ mesh_failed' = TRUE
          /\ ApplyFails /\ UNCHANGED config
    /\ UNCHANGED <<disk, running, stack, tasks>>

ApplyStartStack ==
    /\ pc = "start_stack"
    /\ IF "proxy" \in plan /\ cfg.proxy.enabled
       THEN \/ stack' = StackFrom(cfg, TRUE) /\ Goto("tasks") /\ UNCHANGED flags
            \/ \E up \in BOOLEAN : stack' = StackFrom(cfg, up) /\ ApplyFails
       ELSE Goto("tasks") /\ UNCHANGED <<stack, flags>>
    /\ UNCHANGED <<disk, running, config, mesh, tasks, mesh_failed>>

\* After the remaining services the new configuration is the running one.
ApplyTasks ==
    /\ pc = "tasks"
    /\ tasks' = Respawned(plan)
    /\ config' = cfg
    /\ apply_error' = FALSE /\ pending_proxy' = FALSE
    /\ Return("ok")
    /\ UNCHANGED <<disk, running, stack, mesh, mesh_failed>>

-----------------------------------------------------------------------------
StartStep == start_already \/ start \/ BootMesh \/ BootClean \/ BootStack \/ BootTasks
StopStep == stop_idle \/ stop \/ HaltTasks \/ HaltStack \/ HaltMesh \/ HaltDrop
RestartStep == restart \/ RestartLoad
ApplyStep ==
    \/ apply_nothing \/ (\E force_proxy \in BOOLEAN : apply(force_proxy))
    \/ ApplyStopStack \/ ApplyStopMesh \/ ApplyStartMesh \/ ApplyStartStack
    \/ ApplyTasks
Next == Save \/ StackDies \/ StartStep \/ StopStep \/ RestartStep \/ ApplyStep

Spec == Init /\ [][Next]_vars

-----------------------------------------------------------------------------
(* Properties.                                                               *)

Quiescent == pc = "idle" /\ running

\* A proxy whose replacement failed, at whatever step, is tried again: unless
\* a retry is owed, an enabled proxy was last started with the settings and
\* with the mesh routes of the configuration the core says it runs.
ProxyConverges ==
    Quiescent /\ ~pending_proxy /\ config.proxy.enabled =>
        /\ stack # NoStack
        /\ stack.view = config.proxy.view /\ stack.routes = Routes[config.mesh]

\* What the WebUI shows as up to date is: with no change pending, the tasks run
\* what is on disk, an enabled proxy was started from what is on disk, and so
\* was the mesh unless replacing it failed before.
UpToDate ==
    Quiescent /\ ~PendingChanges =>
        /\ tasks = disk.tasks
        /\ disk.proxy.enabled =>
              /\ stack # NoStack
              /\ stack.view = disk.proxy.view /\ stack.routes = Routes[disk.mesh]
        /\ mesh_failed \/ mesh = {disk.mesh} \ {NoMesh}

\* A core that is not running holds no component, however its last operation
\* ended: no proxy, no task, and no mesh unless stopping one failed.
NothingStranded ==
    pc = "idle" /\ ~running =>
        /\ stack = NoStack /\ tasks = NoTasks
        /\ mesh = {} \/ mesh_failed

\* While the enabled proxy is up, no mesh with other routes than the ones its
\* TUN was built for is running, not even between two steps of an apply.
RoutesAgree ==
    (stack # NoStack /\ config # NoConfig /\ ~mesh_failed) =>
        (config.proxy.enabled /\ stack.up =>
            \A m \in mesh : Routes[m] = stack.routes)

\* A component is replaced by apply only when its own configuration, or for
\* the proxy the mesh routes, changed, or a proxy retry was asked for or owed;
\* unchanged configuration restarts nothing.
Affected(old, new, forced) ==
    {s \in Services : old.tasks[s] # new.tasks[s]}
        \union (IF old.mesh # new.mesh THEN {"mesh"} ELSE {})
        \union (IF forced \/ old.proxy # new.proxy \/ Routes[old.mesh] # Routes[new.mesh]
                THEN {"proxy"} ELSE {})

IsolatedStep ==
    /\ (op # "apply" /\ op' = "apply") =>
          plan' \subseteq Affected(config, cfg', pending_proxy')
    /\ (op = "apply" /\ pc' # pc) =>
          /\ "mesh" \notin plan => mesh' = mesh
          /\ "proxy" \notin plan => stack' = stack
          /\ \A s \in Services \ plan : tasks'[s] = tasks[s]

ApplyIsolates == [][IsolatedStep]_vars

-----------------------------------------------------------------------------
(* The inductive invariant behind the safety properties.                     *)

StackGood(c) ==
    stack # NoStack /\ stack.view = c.proxy.view /\ stack.routes = Routes[c.mesh]
MeshIs(m) == mesh = {m} \ {NoMesh}

\* Who owns the components at each place.
PlaceInv ==
    /\ running => config \in Config /\ pc \in {"idle"} \union ApplyPlaces
    /\ pc \in ApplyPlaces => running /\ cfg \in Config
    /\ op = "apply" <=> pc \in ApplyPlaces
    /\ pc \in HaltPlaces => config \in Config
    /\ pc \in StartPlaces => cfg \in Config
    /\ ~running /\ pc \notin HaltPlaces => config = NoConfig /\ tasks = NoTasks
    /\ ~running /\ pc \in {"idle", "reload", "boot_mesh", "boot_clean", "boot_stack",
                          "halt_mesh", "halt_drop"} => stack = NoStack
    /\ pc \in {"halt_stack", "halt_mesh", "halt_drop"} => tasks = NoTasks

\* What the running services are.
TaskInv ==
    /\ running => tasks = config.tasks
    /\ pc \in ApplyPlaces =>
          \A s \in Services : s \in plan <=> config.tasks[s] # cfg.tasks[s]

\* What the proxy was started with, or that a retry is owed.
ProxyInv ==
    /\ pc \in {"idle", "boot_tasks"} /\ (running \/ pc = "boot_tasks") =>
          (apply_error <=> pending_proxy)
    /\ ProxyConverges
    /\ pc \in ApplyPlaces /\ "proxy" \notin plan =>
          /\ cfg.proxy.enabled => StackGood(cfg)
          /\ config.proxy.enabled =>
                config.proxy = cfg.proxy /\ Routes[config.mesh] = Routes[cfg.mesh]
    /\ pc \in {"stop_mesh", "start_mesh", "start_stack"} /\ "proxy" \in plan =>
          stack = NoStack
    /\ pc \in {"tasks", "boot_tasks"} /\ cfg.proxy.enabled => StackGood(cfg)

\* Which mesh runs, unless replacing it failed.
MeshInv ==
    /\ ~mesh_failed /\ (pc \in HaltPlaces \/ (running /\ pc # "start_mesh")) =>
          MeshIs(config.mesh)
    /\ pc \in {"stop_stack", "stop_mesh"} =>
          ("mesh" \in plan <=> config.mesh # cfg.mesh)
    /\ pc \in {"start_stack", "tasks"} => config.mesh = cfg.mesh
    /\ pc = "start_mesh" => mesh = {} /\ "mesh" \in plan
    /\ ~running /\ pc \in {"idle", "reload", "boot_mesh"} => mesh = {} \/ mesh_failed
    /\ pc \in {"boot_stack", "boot_tasks"} /\ cfg.mesh # NoMesh => cfg.mesh \in mesh

\* The routes an enabled proxy was built for.
RouteInv ==
    (running \/ pc \in HaltPlaces) /\ config.proxy.enabled /\ stack # NoStack
    /\ ~mesh_failed => stack.routes = Routes[config.mesh]

SafetyInv == PlaceInv /\ TaskInv /\ ProxyInv /\ MeshInv /\ RouteInv

-----------------------------------------------------------------------------
(* What the documentation, the user interface or a comment says and the code *)
(* does not keep.                                                            *)

\* "Configuration is up to date": with no change pending, the running mesh is
\* the configured one. After a failed mesh switch config.mesh still names the
\* old mesh, so putting the old configuration back leaves nothing to apply.
MeshUpToDate ==
    Quiescent /\ ~PendingChanges /\ ~apply_error => mesh = {disk.mesh} \ {NoMesh}

\* The same for a disabled proxy: enabling it failed with its worker alive, the
\* rejected settings were put back, and no plan names the proxy any more.
DisabledProxyIsOff ==
    Quiescent /\ ~PendingChanges /\ ~disk.proxy.enabled => stack = NoStack

\* "stopping persistent components" stops them all: a stop that succeeded
\* leaves no mesh behind.
StopStopsMesh ==
    [][(op = "stop" /\ pc = "halt_mesh" /\ pc' = "idle") => mesh' = {}]_vars

\* "Validate before interrupting any running component": no restart interrupts
\* the components and then fails on the file.
RestartValidated ==
    [][(op = "restart" /\ pc' = "idle") => answer' # "invalid"]_vars
=============================================================================
