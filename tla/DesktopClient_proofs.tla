----------------------- MODULE DesktopClient_proofs -----------------------
(* Proofs about DesktopClient, for any set of requested configurations, any  *)
(* number of workers and any number of launches: the client never has two    *)
(* cores, a rejected change does not stay in the file, a change that is done *)
(* is what the cores run, and no change brings up in this process what needs *)
(* root. IInv is inductive: it follows a command through Client::start and   *)
(* apply and says at each place who holds a worker and what may run.         *)
EXTENDS DesktopClient, FiniteSetTheorems, TLAPS

-----------------------------------------------------------------------------
(* The pieces the actions are made of.                                       *)

LEMMA ConfigFacts ==
    ASSUME NEW c \in Config
    PROVE  /\ c.enabled \in BOOLEAN /\ c.tun \in BOOLEAN /\ c.mesh \in {"off", "node", "relay"}
           /\ WithoutProxy(c) \in Config /\ WithoutMesh(c) \in Config
           /\ \A mesh \in {"off", "node", "relay"} : WithMesh(c, mesh) \in Config
  BY DEF Config, WithoutProxy, WithMesh, WithoutMesh

\* persistent_stack_cli: a TUN only for what needs root.
LEMMA StackFacts ==
    ASSUME NEW c \in Config
    PROVE  /\ Stack(c) \in {"none", "plain", "tun"}
           /\ Stack(c) = "tun" => requires_root(c)
  BY ConfigFacts DEF Stack, requires_root

LEMMA CoreFacts ==
    ASSUME NEW r \in Core
    PROVE  /\ r.cfg \in Config /\ r.stack \in {"none", "dead", "plain", "tun"}
           /\ r.mesh \in {"off", "node", "relay"} /\ r.pending \in BOOLEAN
  BY DEF Core, Live

\* What CoreRuntime::start can leave behind.
LEMMA StartFacts ==
    ASSUME file \in Config, NEW r \in Core \union {NoCore}, Sound(r), NEW s \in StartResults(r)
    PROVE  /\ s.to \in Core \union {NoCore} /\ Sound(s.to)
           /\ r # NoCore => s.to = r
           /\ s.ok => s.to # NoCore
           /\ r = NoCore /\ s.ok => UpToDate(s.to)
           /\ r = NoCore /\ s.to # NoCore /\ NeedsRoot(s.to) => requires_root(file)
<1>1. CASE r # NoCore
  <2>1. s = Outcome(r, TRUE)
    BY <1>1 DEF StartResults
  <2>2. s.to = r
    BY <2>1 DEF Outcome
  <2> QED  BY <1>1, <2>2
<1>2. CASE r = NoCore
  <2>1. /\ file.enabled \in BOOLEAN /\ file.mesh \in {"off", "node", "relay"}
        /\ Stack(file) \in {"none", "plain", "tun"} /\ (Stack(file) = "tun" => requires_root(file))
        /\ file.mesh = "node" => requires_root(file)
    BY ConfigFacts, StackFacts DEF requires_root
  <2>2. \/ s = Outcome(Running(file, Stack(file), file.mesh, FALSE), TRUE)
        \/ s = Outcome(NoCore, FALSE)
        \/ \E stack \in {"none", "dead", Stack(file)} :
              s = Outcome(Running(file, stack, file.mesh, TRUE), FALSE)
    BY <1>2 DEF StartResults, Unstarted
  <2>3. CASE s = Outcome(NoCore, FALSE)
    BY <1>2, <2>3 DEF Sound, Outcome
  <2>4. CASE s = Outcome(Running(file, Stack(file), file.mesh, FALSE), TRUE)
    <3>1. /\ s.to \in Core /\ s.to # NoCore /\ s.to.cfg = file /\ s.to.stack = Stack(file)
          /\ s.to.mesh = file.mesh /\ s.to.pending = FALSE
      <4>1. s.to = Running(file, Stack(file), file.mesh, FALSE)
        BY <2>4 DEF Outcome
      <4>2. s.to \in Core
        BY <2>1, <4>1 DEF Running, Core, Live
      <4>3. s.to # NoCore
        BY <4>2, WorkerAssumption
      <4> QED  BY <4>1, <4>2, <4>3 DEF Running
    <3> QED  BY <1>2, <2>1, <3>1 DEF Sound, UpToDate, NeedsRoot
  <2>5. ASSUME NEW stack \in {"none", "dead", Stack(file)},
               s = Outcome(Running(file, stack, file.mesh, TRUE), FALSE)
        PROVE  /\ s.to \in Core /\ s.to # NoCore /\ s.ok = FALSE /\ s.to.pending = TRUE
               /\ s.to.stack = stack /\ s.to.mesh = file.mesh
    <3>1. s.to = Running(file, stack, file.mesh, TRUE) /\ s.ok = FALSE
      BY <2>5 DEF Outcome
    <3>2. s.to \in Core
      BY <2>1, <3>1 DEF Running, Core, Live
    <3>3. s.to # NoCore
      BY <3>2, WorkerAssumption
    <3> QED  BY <3>1, <3>2, <3>3 DEF Running
  <2>6. CASE \E stack \in {"none", "dead", Stack(file)} :
               s = Outcome(Running(file, stack, file.mesh, TRUE), FALSE)
    <3>1. PICK stack \in {"none", "dead", Stack(file)} :
             /\ s.to \in Core /\ s.to # NoCore /\ s.ok = FALSE /\ s.to.pending = TRUE
             /\ s.to.stack = stack /\ s.to.mesh = file.mesh
      BY <2>5, <2>6
    <3> QED  BY <1>2, <2>1, <3>1 DEF Sound, NeedsRoot
  <2> QED  BY <2>2, <2>3, <2>4, <2>6
<1> QED  BY <1>1, <1>2

\* What CoreRuntime::apply can leave behind.
LEMMA ApplyFacts ==
    ASSUME file \in Config, NEW r \in Core \union {NoCore}, Sound(r), NEW force \in BOOLEAN,
           NEW s \in ApplyResults(r, force)
    PROVE  /\ s.to \in Core \union {NoCore} /\ Sound(s.to)
           /\ (r = NoCore) = (s.to = NoCore)
           /\ s.to # NoCore /\ s.ok => UpToDate(s.to)
           /\ r # NoCore /\ ~requires_root(file) /\ NeedsRoot(s.to) => NeedsRoot(r)
<1>1. CASE r = NoCore
  <2>1. s = Outcome(r, TRUE) \/ s = Outcome(r, FALSE)
    BY <1>1 DEF ApplyResults
  <2>2. s.to = NoCore
    BY <1>1, <2>1 DEF Outcome
  <2> QED  BY <1>1, <2>2 DEF Sound
<1>2. CASE r # NoCore
  <2> DEFINE planned == (r.cfg.enabled \/ file.enabled) /\ (force \/ r.pending \/ r.cfg # file)
             switched == r.cfg.mesh # file.mesh
             left == IF planned THEN "none" ELSE r.stack
             after == IF planned THEN Stack(file) ELSE r.stack
             mesh == IF switched THEN file.mesh ELSE r.mesh
             mixed == WithMesh(r.cfg, file.mesh)
             stacks == {"none", "dead", r.stack, Stack(file)}
             meshes == {"off", r.mesh, file.mesh}
  <2>1. /\ r \in Core /\ r.cfg \in Config /\ r.stack \in {"none", "dead", "plain", "tun"}
        /\ r.mesh \in {"off", "node", "relay"} /\ r.pending \in BOOLEAN
        /\ r.cfg.enabled \in BOOLEAN /\ file.enabled \in BOOLEAN
        /\ file.mesh \in {"off", "node", "relay"}
        /\ Stack(file) \in {"none", "plain", "tun"} /\ (Stack(file) = "tun" => requires_root(file))
        /\ file.mesh = "node" => requires_root(file)
    BY <1>2, ConfigFacts, CoreFacts, StackFacts DEF requires_root
  <2>2. mixed \in Config
    BY <2>1, ConfigFacts
  <2>3. mesh \in meshes /\ left \in stacks /\ after \in stacks
    OBVIOUS
  <2>4. file.enabled => after \in {Stack(file), "dead"}
    <3>1. ~r.pending /\ r.cfg.enabled => r.stack \in {Stack(r.cfg), "dead"}
      BY <1>2 DEF Sound
    <3> QED  BY <2>1, <3>1
  <2>5. \/ s = Outcome(Running(file, after, mesh, FALSE), TRUE)
        \/ s = Outcome(r, FALSE)
        \/ s = Outcome(Running(r.cfg, r.stack, r.mesh, TRUE), FALSE)
        \/ s = Outcome(Running(r.cfg, left, r.mesh, TRUE), FALSE)
        \/ \E m \in {"off", file.mesh} : s = Outcome(Running(r.cfg, left, m, TRUE), FALSE)
        \/ \E stack \in {"none", "dead", Stack(file)} :
              s = Outcome(Running(mixed, stack, mesh, TRUE), FALSE)
    BY <1>2 DEF ApplyResults, Unstarted
  <2> HIDE DEF planned, switched, left, after, mesh, mixed
  <2>6. \/ s = Outcome(Running(file, after, mesh, FALSE), TRUE)
        \/ s = Outcome(r, FALSE)
        \/ \E cfg \in Config, stack \in stacks, m \in meshes :
              s = Outcome(Running(cfg, stack, m, TRUE), FALSE)
    <3>1. CASE s = Outcome(Running(r.cfg, r.stack, r.mesh, TRUE), FALSE)
      BY <2>1, <3>1
    <3>2. CASE s = Outcome(Running(r.cfg, left, r.mesh, TRUE), FALSE)
      BY <2>1, <2>3, <3>2
    <3>3. CASE \E m \in {"off", file.mesh} : s = Outcome(Running(r.cfg, left, m, TRUE), FALSE)
      BY <2>1, <2>3, <3>3
    <3>4. CASE \E stack \in {"none", "dead", Stack(file)} :
                 s = Outcome(Running(mixed, stack, mesh, TRUE), FALSE)
      BY <2>2, <2>3, <3>4
    <3> QED  BY <2>5, <3>1, <3>2, <3>3, <3>4
  <2>7. CASE s = Outcome(Running(file, after, mesh, FALSE), TRUE)
    <3>1. /\ s.to \in Core /\ s.to # NoCore /\ s.to.cfg = file /\ s.to.stack = after
          /\ s.to.mesh = mesh /\ s.to.pending = FALSE
      <4>1. s.to = Running(file, after, mesh, FALSE)
        BY <2>7 DEF Outcome
      <4>2. s.to \in Core
        BY <2>1, <2>3, <4>1 DEF Running, Core, Live
      <4>3. s.to # NoCore
        BY <4>2, WorkerAssumption
      <4> QED  BY <4>1, <4>2, <4>3 DEF Running
    <3> QED  BY <1>2, <2>1, <2>3, <2>4, <3>1 DEF Sound, UpToDate, NeedsRoot
  <2>8. CASE s = Outcome(r, FALSE)
    <3>1. s.to = r /\ s.ok = FALSE
      BY <2>8 DEF Outcome
    <3> QED  BY <1>2, <2>1, <3>1
  <2>9. ASSUME NEW cfg \in Config, NEW stack \in stacks, NEW m \in meshes,
               s = Outcome(Running(cfg, stack, m, TRUE), FALSE)
        PROVE  /\ s.to \in Core /\ s.to # NoCore /\ s.ok = FALSE /\ s.to.pending = TRUE
               /\ s.to.stack = stack /\ s.to.mesh = m
    <3>1. s.to = Running(cfg, stack, m, TRUE) /\ s.ok = FALSE
      BY <2>9 DEF Outcome
    <3>2. s.to \in Core
      BY <2>1, <3>1 DEF Running, Core, Live
    <3>3. s.to # NoCore
      BY <3>2, WorkerAssumption
    <3> QED  BY <3>1, <3>2, <3>3 DEF Running
  <2>10. CASE \E cfg \in Config, stack \in stacks, m \in meshes :
                s = Outcome(Running(cfg, stack, m, TRUE), FALSE)
    <3>1. PICK stack \in stacks, m \in meshes :
             /\ s.to \in Core /\ s.to # NoCore /\ s.ok = FALSE /\ s.to.pending = TRUE
             /\ s.to.stack = stack /\ s.to.mesh = m
      BY <2>9, <2>10
    <3> QED  BY <1>2, <2>1, <3>1 DEF Sound, NeedsRoot
  <2> QED  BY <2>6, <2>7, <2>8, <2>10
<1> QED  BY <1>1, <1>2

\* What Client::status answers: nothing runs when it says so, and a core does when
\* it says that and is no failure.
LEMMA AnswerFacts ==
    ASSUME IInv, pc # "handover", NEW status \in Answers
    PROVE  /\ status.running \in BOOLEAN /\ status.failed \in BOOLEAN
           /\ ~status.running => NothingRuns
           /\ status.running /\ ~status.failed =>
                 SomethingRuns /\ (elevated => guard # NoWorker /\ Alive(guard))
           /\ ~status.failed /\ elevated /\ guard # NoWorker =>
                 Alive(guard) /\ status.running = (core[guard] # NoCore)
           /\ ~elevated => status.failed = FALSE /\ status.running = (local # NoCore)
<1>1. (elevated => local = NoCore) /\ (~elevated => guard = NoWorker) /\ elevated \in BOOLEAN
  BY DEF IInv, HolderInv, TypeOK, CoresOK
<1>2. CASE ~elevated
  <2>1. status = [running |-> local # NoCore, failed |-> FALSE]
    BY <1>2 DEF Answers
  <2> QED  BY <1>1, <1>2, <2>1 DEF NothingRuns, SomethingRuns
<1>3. CASE elevated /\ guard = NoWorker
  <2>1. status = [running |-> NoCore # NoCore, failed |-> FALSE]
    BY <1>3 DEF Answers
  <2> QED  BY <1>1, <1>3, <2>1 DEF NothingRuns
<1>4. CASE elevated /\ guard # NoWorker /\ ~Alive(guard)
  <2>1. status = [running |-> TRUE, failed |-> TRUE]
    BY <1>4 DEF Answers, Failed
  <2> QED  BY <1>4, <2>1
<1>5. CASE elevated /\ guard # NoWorker /\ Alive(guard)
  <2>1. \/ status = [running |-> core[guard] # NoCore, failed |-> FALSE]
        \/ status = [running |-> TRUE, failed |-> TRUE]
    BY <1>5 DEF Answers, Failed
  <2>2. CASE status = [running |-> TRUE, failed |-> TRUE]
    BY <1>1, <1>5, <2>2
  <2>3. CASE status = [running |-> core[guard] # NoCore, failed |-> FALSE]
    <3>1. status.running = (core[guard] # NoCore) /\ status.failed = FALSE
      BY <2>3
    <3> QED  BY <1>1, <1>5, <3>1 DEF NothingRuns, SomethingRuns
  <2> QED  BY <2>1, <2>2, <2>3
<1> QED  BY <1>1, <1>2, <1>3, <1>4, <1>5

\* Only a worker that is gone is forgotten.
LEMMA ForgetFacts ==
    ASSUME IInv, pc # "handover", Forget
    PROVE  /\ guard' \in Workers \union {NoWorker} /\ guard' \in {guard, NoWorker}
           /\ guard' # guard => ~Alive(guard) /\ elevated
           /\ ~elevated => guard' = NoWorker
<1>1. guard \in Workers \union {NoWorker} /\ elevated \in BOOLEAN
  BY DEF IInv, TypeOK, CoresOK
<1> QED  BY <1>1 DEF Forget, IInv, HolderInv

LEMMA ReadFacts ==
    ASSUME IInv, NEW status \in Answers, status.failed \in BOOLEAN, Read(status)
    PROVE  /\ misread' \in BOOLEAN
           /\ op \in {"save", "retry"} /\ ~misread' => ~misread /\ ~status.failed
<1>1. misread \in BOOLEAN
  BY DEF IInv, TypeOK, CommandOK
<1> QED  BY <1>1 DEF Read

\* CoreSupervisor::shutdown: no worker is left that lives and is not given up.
LEMMA ShutdownFacts ==
    ASSUME IInv, shutdown
    PROVE  /\ elevated' = FALSE /\ guard' = NoWorker
           /\ worker' \in [Workers -> {"unborn", "alive", "dead"}]
           /\ core' \in [Workers -> Core \union {NoCore}]
           /\ control' \in Workers \union {NoWorker} /\ dropped' \subseteq Workers
           /\ \A w \in Workers : /\ core'[w] \in {core[w], NoCore}
                                 /\ worker'[w] # "alive" => core'[w] = NoCore
                                 /\ worker'[w] = "alive" => w \in dropped'
<1>1. /\ guard \in Workers \union {NoWorker} /\ control \in Workers \union {NoWorker}
      /\ worker \in [Workers -> {"unborn", "alive", "dead"}]
      /\ core \in [Workers -> Core \union {NoCore}] /\ dropped \subseteq Workers
      /\ \A w \in Workers : /\ worker[w] # "alive" => core[w] = NoCore
                            /\ worker[w] = "alive" /\ w \notin dropped => w = guard
  BY DEF IInv, TypeOK, CoresOK, CommandOK, CoreInv, HolderInv, Alive
<1>2. CASE ~Alive(guard)
  BY <1>1, <1>2 DEF shutdown, Alive
<1>3. CASE Alive(guard)
  BY <1>1, <1>3 DEF shutdown, Alive
<1> QED  BY <1>2, <1>3

\* CoreSupervisor::initialize_for_desktop, called when the client holds no worker
\* that lives.
LEMMA AuthorizedFacts ==
    ASSUME IInv, ~Alive(guard), NEW w \in Workers, Authorized(w)
    PROVE  /\ guard' = w /\ control' = w /\ core' = core /\ core[w] = NoCore
           /\ worker' \in [Workers -> {"unborn", "alive", "dead"}]
           /\ worker'[w] = "alive"
           /\ \A v \in Workers : v # w => worker'[v] = worker[v]
           /\ \A v \in Workers : v # w /\ worker[v] = "alive" => v \in dropped
  BY DEF Authorized, IInv, TypeOK, CoresOK, CoreInv, HolderInv, Alive

LEMMA InitializeFacts ==
    ASSUME IInv, ~Alive(guard), NEW next \in Places, initialize_for_desktop(next)
    PROVE  /\ guard' \in Workers \union {NoWorker} /\ control' \in Workers \union {NoWorker}
           /\ core' = core /\ ok' \in BOOLEAN
           /\ worker' \in [Workers -> {"unborn", "alive", "dead"}]
           /\ \A w \in Workers : worker'[w] # "alive" => core[w] = NoCore
           /\ \A w \in Workers : worker'[w] = "alive" /\ w \notin dropped => w = guard'
           /\ guard' # NoWorker => core[guard'] = NoCore
           /\ \/ pc' = "finish" /\ ok' = FALSE /\ guard' = NoWorker
              \/ pc' = next /\ ok' = ok /\ guard' \in Workers
<1>1. /\ control \in Workers \union {NoWorker} /\ ok \in BOOLEAN
      /\ worker \in [Workers -> {"unborn", "alive", "dead"}]
      /\ \A w \in Workers : /\ worker[w] # "alive" => core[w] = NoCore
                            /\ worker[w] = "alive" /\ w \notin dropped => w = guard
  BY DEF IInv, TypeOK, CoresOK, CommandOK, CoreInv, HolderInv, Alive
<1>2. \A w \in Workers : worker[w] = "alive" => w # guard
  BY DEF Alive
<1>3. CASE guard' = NoWorker /\ UNCHANGED <<worker, core>> /\ Fail
           /\ control' \in {control, NoWorker}
  BY <1>1, <1>2, <1>3 DEF Fail, Goto
<1>4. ASSUME NEW w \in Workers, Authorized(w), Goto(next), ok' = ok
      PROVE  /\ guard' \in Workers \union {NoWorker} /\ control' \in Workers \union {NoWorker}
             /\ core' = core /\ ok' \in BOOLEAN
             /\ worker' \in [Workers -> {"unborn", "alive", "dead"}]
             /\ \A v \in Workers : worker'[v] # "alive" => core[v] = NoCore
             /\ \A v \in Workers : worker'[v] = "alive" /\ v \notin dropped => v = guard'
             /\ core[guard'] = NoCore /\ pc' = next /\ guard' \in Workers
  <2>1. /\ guard' = w /\ control' = w /\ core' = core /\ core[w] = NoCore
        /\ worker' \in [Workers -> {"unborn", "alive", "dead"}] /\ worker'[w] = "alive"
        /\ \A v \in Workers : v # w => worker'[v] = worker[v]
        /\ \A v \in Workers : v # w /\ worker[v] = "alive" => v \in dropped
    BY <1>4, AuthorizedFacts
  <2> QED  BY <1>1, <1>4, <2>1 DEF Goto
<1>5. \/ /\ guard' = NoWorker /\ UNCHANGED <<worker, core>> /\ Fail
         /\ control' \in {control, NoWorker}
      \/ \E w \in Workers : Authorized(w) /\ Goto(next) /\ ok' = ok
  BY <1>1 DEF initialize_for_desktop
<1>6. CASE \E w \in Workers : Authorized(w) /\ Goto(next) /\ ok' = ok
  <2>1. PICK w \in Workers : Authorized(w) /\ Goto(next) /\ ok' = ok
    BY <1>6
  <2> QED  BY <1>4, <2>1
<1> QED  BY <1>3, <1>5, <1>6

-----------------------------------------------------------------------------
(* One lemma per action.                                                     *)

\* A launch.
LEMMA NewStep == ASSUME IInv, New PROVE IInv'
<1>a. Default \in Config
  BY DEF Default, Config
<1>1. ConfigsOK'
  BY <1>a DEF IInv, TypeOK, ConfigsOK, FileInv, New, Goto, KeepCommand, command, history, cores
<1>2. CoresOK'
  BY <1>a DEF IInv, TypeOK, CoresOK, New, Goto, KeepCommand, command, history, cores
<1>3. CommandOK'
  BY <1>a DEF IInv, TypeOK, CommandOK, Changes, Places, New, Goto, KeepCommand,
     command, history, cores
<1>4. FileInv'
  BY <1>a DEF IInv, TypeOK, ConfigsOK, FileInv, New, Goto, KeepCommand, command, history, cores
<1>5. CoreInv'
  BY <1>a DEF IInv, TypeOK, CoresOK, CoreInv, Sound, New, Goto, KeepCommand, command, history,
     cores
<1>6. HolderInv'
  BY <1>a DEF IInv, TypeOK, CoresOK, HolderInv, Alive, New, Goto, KeepCommand, command,
     history, cores
<1>7. FlowInv'
  BY <1>a DEF IInv, FlowInv, requires_root, New, Goto, KeepCommand, command, history, cores
<1>8. RestoreInv'
  BY <1>a DEF IInv, TypeOK, ConfigsOK, FileInv, RestoreInv, Changes, New,
     Goto, KeepCommand, command, history, cores
<1>9. AppliedInv'
  BY <1>a DEF IInv, TypeOK, CoresOK, HolderInv, AppliedInv, Changing, NothingRuns, StartPlaces,
     Owned, UpToDate, New, Goto, KeepCommand, command, history, cores
<1>10. RunningInv'
  BY <1>a DEF IInv, RunningInv, SomethingRuns, Applying, RestoreInv, FlowInv,
     connections_enabled, Alive, TypeOK, CoresOK, HolderInv, New, Goto, KeepCommand, command,
     history, cores
<1> QED  BY <1>1, <1>2, <1>3, <1>4, <1>5, <1>6, <1>7, <1>8, <1>9, <1>10 DEF IInv, TypeOK

\* A fresh install, or one that resumes.
LEMMA StartupStep == ASSUME IInv, Startup PROVE IInv'
<1>a. WithoutProxy(file) \in Config
  BY ConfigFacts DEF IInv, FileInv, Startup
<1>b. pc' \in {"finish", "release"}
  BY DEF Startup, Goto
<1>1. ConfigsOK'
  BY <1>a, <1>b DEF IInv, TypeOK, ConfigsOK, FileInv, Startup, Goto, KeepCommand, command,
     history, cores
<1>2. CoresOK'
  BY <1>a, <1>b DEF IInv, TypeOK, CoresOK, Startup, Goto, KeepCommand, command, history, cores
<1>3. CommandOK'
  BY <1>a, <1>b DEF IInv, TypeOK, CommandOK, Changes, Places, Startup, Goto, KeepCommand,
     command, history, cores
<1>4. FileInv'
  BY <1>a, <1>b DEF IInv, TypeOK, ConfigsOK, FileInv, Startup, Goto, KeepCommand, command,
     history, cores
<1>5. CoreInv'
  BY <1>a, <1>b DEF IInv, TypeOK, CoresOK, CoreInv, Sound, Startup, Goto, KeepCommand, command,
     history, cores
<1>6. HolderInv'
  BY <1>a, <1>b DEF IInv, TypeOK, CoresOK, HolderInv, Alive, Startup, Goto, KeepCommand,
     command, history, cores
<1>7. FlowInv'
  BY <1>a, <1>b DEF IInv, FlowInv, requires_root, Startup, Goto, KeepCommand, command, history,
     cores
<1>8. RestoreInv'
  BY <1>a, <1>b DEF IInv, TypeOK, ConfigsOK, FileInv, RestoreInv, Changes,
     Startup, Goto, KeepCommand, command, history, cores
<1>9. AppliedInv'
  BY <1>b DEF IInv, FlowInv, AppliedInv, Changing, Startup, command
<1>10. RunningInv'
  BY <1>b DEF IInv, RunningInv, SomethingRuns, Applying, RestoreInv, FlowInv,
     connections_enabled, Alive, Startup, command
<1> QED  BY <1>1, <1>2, <1>3, <1>4, <1>5, <1>6, <1>7, <1>8, <1>9, <1>10 DEF IInv, TypeOK

\* apply_change saves.
LEMMA SaveStep == ASSUME IInv, SaveChange PROVE IInv'
<1>1. ConfigsOK'
  BY DEF IInv, TypeOK, ConfigsOK, FileInv, SaveChange, Goto, KeepCommand, command, history,
     cores
<1>2. CoresOK'
  BY DEF IInv, TypeOK, CoresOK, SaveChange, Goto, KeepCommand, command, history, cores
<1>3. CommandOK'
  BY DEF IInv, TypeOK, CommandOK, Changes, Places, SaveChange, Goto, KeepCommand, command,
     history, cores
<1>4. FileInv'
  BY DEF IInv, TypeOK, ConfigsOK, FileInv, SaveChange, Goto, KeepCommand, command, history,
     cores
<1>5. CoreInv'
  BY DEF IInv, TypeOK, CoresOK, CoreInv, Sound, SaveChange, Goto, KeepCommand, command,
     history, cores
<1>6. HolderInv'
  BY DEF IInv, TypeOK, CoresOK, HolderInv, Alive, SaveChange, Goto, KeepCommand, command,
     history, cores
<1>7. FlowInv'
  BY DEF IInv, FlowInv, requires_root, SaveChange, Goto, KeepCommand, command, history, cores
<1>8. RestoreInv'
  BY RequestAssumption DEF IInv, TypeOK, ConfigsOK, FileInv, FlowInv, RestoreInv, Changes,
     SaveChange, Goto, KeepCommand, command, history, cores
<1>9. AppliedInv'
  BY DEF IInv, TypeOK, CoresOK, HolderInv, AppliedInv, Changing, NothingRuns, StartPlaces,
     Owned, UpToDate, SaveChange, Goto, KeepCommand, command, history, cores
<1>10. RunningInv'
  BY DEF IInv, RunningInv, SomethingRuns, Applying, RestoreInv, FlowInv, connections_enabled,
     Alive, TypeOK, CoresOK, HolderInv, SaveChange, Goto, KeepCommand, command, history, cores
<1> QED  BY <1>1, <1>2, <1>3, <1>4, <1>5, <1>6, <1>7, <1>8, <1>9, <1>10 DEF IInv, TypeOK

\* A worker exits.
LEMMA WorkerDiesStep == ASSUME IInv, NEW w \in Workers, WorkerDies(w) PROVE IInv'
<1>1. ConfigsOK'
  BY DEF IInv, TypeOK, ConfigsOK, FileInv, WorkerDies, Goto, KeepCommand, command, history,
     cores
<1>2. CoresOK'
  BY DEF IInv, TypeOK, CoresOK, WorkerDies, Goto, KeepCommand, command, history, cores
<1>3. CommandOK'
  BY DEF IInv, TypeOK, CommandOK, Changes, Places, WorkerDies, Goto, KeepCommand, command,
     history, cores
<1>4. FileInv'
  BY DEF IInv, TypeOK, ConfigsOK, FileInv, WorkerDies, Goto, KeepCommand, command, history,
     cores
<1>5. CoreInv'
  BY DEF IInv, TypeOK, CoresOK, CoreInv, Sound, WorkerDies, Goto, KeepCommand, command,
     history, cores
<1>6. HolderInv'
  BY DEF IInv, TypeOK, CoresOK, HolderInv, Alive, WorkerDies, Goto, KeepCommand, command,
     history, cores
<1>7. FlowInv'
  BY DEF IInv, FlowInv, requires_root, WorkerDies, Goto, KeepCommand, command, history, cores
<1>8. RestoreInv'
  BY DEF IInv, TypeOK, ConfigsOK, FileInv, RestoreInv, Changes, WorkerDies,
     Goto, KeepCommand, command, history, cores
<1>9. AppliedInv'
  BY DEF IInv, TypeOK, CoresOK, HolderInv, AppliedInv, Changing, NothingRuns, StartPlaces,
     Owned, UpToDate, WorkerDies, Goto, KeepCommand, command, history, cores
<1>10. RunningInv'
  BY DEF IInv, RunningInv, SomethingRuns, Applying, RestoreInv, FlowInv, connections_enabled,
     Alive, TypeOK, CoresOK, HolderInv, WorkerDies, Goto, KeepCommand, command, history, cores
<1> QED  BY <1>1, <1>2, <1>3, <1>4, <1>5, <1>6, <1>7, <1>8, <1>9, <1>10 DEF IInv, TypeOK

\* The application is killed.
LEMMA CrashStep == ASSUME IInv, Crash PROVE IInv'
<1>1. ConfigsOK'
  BY DEF IInv, TypeOK, ConfigsOK, FileInv, Crash, Goto, KeepCommand, command, history, cores
<1>2. CoresOK'
  BY DEF IInv, TypeOK, CoresOK, Crash, Goto, KeepCommand, command, history, cores
<1>3. CommandOK'
  BY DEF IInv, TypeOK, CommandOK, Changes, Places, Crash, Goto, KeepCommand, command, history,
     cores
<1>4. FileInv'
  BY DEF IInv, TypeOK, ConfigsOK, FileInv, Crash, Goto, KeepCommand, command, history, cores
<1>5. CoreInv'
  BY DEF IInv, TypeOK, CoresOK, CoreInv, Sound, Crash, Goto, KeepCommand, command, history,
     cores
<1>6. HolderInv'
  BY DEF IInv, TypeOK, CoresOK, HolderInv, Alive, Crash, Goto, KeepCommand, command, history,
     cores
<1>7. FlowInv'
  BY DEF IInv, FlowInv, requires_root, Crash, Goto, KeepCommand, command, history, cores
<1>8. RestoreInv'
  BY DEF IInv, TypeOK, ConfigsOK, FileInv, RestoreInv, Changes, Crash,
     Goto, KeepCommand, command, history, cores
<1>9. AppliedInv'
  BY DEF IInv, TypeOK, CoresOK, HolderInv, AppliedInv, Changing, NothingRuns, StartPlaces,
     Owned, UpToDate, Crash, Goto, KeepCommand, command, history, cores
<1>10. RunningInv'
  BY DEF IInv, RunningInv, SomethingRuns, Applying, RestoreInv, FlowInv, connections_enabled,
     Alive, TypeOK, CoresOK, HolderInv, Crash, Goto, KeepCommand, command, history, cores
<1> QED  BY <1>1, <1>2, <1>3, <1>4, <1>5, <1>6, <1>7, <1>8, <1>9, <1>10 DEF IInv, TypeOK

\* A change or a retry is asked for.
LEMMA RequestStep ==
    ASSUME IInv, NEW kind \in {"save", "retry"}, NEW c \in Config, Request(kind, c)
    PROVE  IInv'
<1>a. asked' \in BOOLEAN
  BY DEF IInv, TypeOK, CommandOK, Request, Begin, connections_enabled
<1>1. ConfigsOK'
  BY <1>a DEF IInv, TypeOK, ConfigsOK, FileInv, Request, Begin, Goto, KeepCommand, command,
     history, cores
<1>2. CoresOK'
  BY <1>a DEF IInv, TypeOK, CoresOK, Request, Begin, Goto, KeepCommand, command, history, cores
<1>3. CommandOK'
  BY <1>a DEF IInv, TypeOK, CommandOK, Changes, Places, Request, Begin, Goto, KeepCommand,
     command, history, cores
<1>4. FileInv'
  BY <1>a DEF IInv, TypeOK, ConfigsOK, FileInv, Request, Begin, Goto, KeepCommand, command,
     history, cores
<1>5. CoreInv'
  BY <1>a DEF IInv, TypeOK, CoresOK, CoreInv, Sound, Request, Begin, Goto, KeepCommand,
     command, history, cores
<1>6. HolderInv'
  BY <1>a DEF IInv, TypeOK, CoresOK, HolderInv, Alive, Request, Begin, Goto, KeepCommand,
     command, history, cores
<1>7. FlowInv'
  BY <1>a DEF IInv, FlowInv, Changes, requires_root, Request, Begin, Goto, KeepCommand, command,
     history, cores
<1>8. RestoreInv'
  BY <1>a DEF IInv, TypeOK, ConfigsOK, FileInv, RestoreInv, Changes,
     Request, Begin, Goto, KeepCommand, command, history, cores
<1>9. AppliedInv'
  BY <1>a DEF IInv, TypeOK, CoresOK, HolderInv, AppliedInv, Changing, NothingRuns, StartPlaces,
     Owned, UpToDate, Request, Begin, Goto, KeepCommand, command, history, cores
<1>10. RunningInv'
  BY <1>a DEF IInv, RunningInv, SomethingRuns, Applying, RestoreInv, FlowInv,
     connections_enabled, Alive, TypeOK, CoresOK, HolderInv, Request, Begin, Goto, KeepCommand,
     command, history, cores
<1> QED  BY <1>1, <1>2, <1>3, <1>4, <1>5, <1>6, <1>7, <1>8, <1>9, <1>10 DEF IInv, TypeOK

\* Pause and Stop.
LEMMA ControlServiceStep == ASSUME IInv, NEW c \in Config, ControlService(c) PROVE IInv'
<1>a. asked' \in BOOLEAN
  BY DEF IInv, TypeOK, CommandOK, ControlService, Begin, connections_enabled
<1>b. PICK status \in Answers :
        IF status.running
        THEN pc' = "save" /\ ok' = TRUE /\ file' = file
        ELSE \/ file' = c /\ ok' = TRUE /\ pc' = "finish"
             \/ file' = file /\ ok' = FALSE /\ pc' = "finish"
  BY DEF ControlService, Goto
<1>d. /\ pc = "idle" /\ op' = "pause" /\ want' = c /\ previous' = NoConfig /\ flow' = "none"
      /\ misread' = FALSE
      /\ UNCHANGED <<retry_config, dropped, accepted, local, elevated>>
      /\ UNCHANGED <<worker, core, control>>
  BY DEF ControlService, Begin
<1>c. /\ guard' \in Workers \union {NoWorker} /\ guard' \in {guard, NoWorker}
      /\ guard' # guard => ~Alive(guard) /\ elevated
      /\ ~elevated => guard' = NoWorker
      /\ status.running \in BOOLEAN /\ (~status.running => NothingRuns)
  BY <1>b, <1>d, AnswerFacts, ForgetFacts DEF ControlService
<1>1. ConfigsOK'
  BY <1>a, <1>b, <1>c, <1>d DEF IInv, TypeOK, ConfigsOK, FileInv, ControlService, Begin, Goto,
     KeepCommand, command, history, cores
<1>2. CoresOK'
  BY <1>a, <1>b, <1>c, <1>d DEF IInv, TypeOK, CoresOK, ControlService, Begin, Goto,
     KeepCommand, command, history, cores
<1>3. CommandOK'
  BY <1>a, <1>b, <1>c, <1>d DEF IInv, TypeOK, CommandOK, Changes, Places, ControlService,
     Begin, Goto, KeepCommand, command, history, cores
<1>4. FileInv'
  BY <1>a, <1>b, <1>c, <1>d DEF IInv, TypeOK, ConfigsOK, FileInv, ControlService, Begin, Goto,
     KeepCommand, command, history, cores
<1>5. CoreInv'
  BY <1>a, <1>b, <1>c, <1>d DEF IInv, TypeOK, CoresOK, CoreInv, Sound, ControlService, Begin,
     Goto, KeepCommand, command, history, cores
<1>6. HolderInv'
  BY <1>a, <1>b, <1>c, <1>d DEF IInv, TypeOK, CoresOK, HolderInv, Alive, ControlService, Begin,
     Goto, KeepCommand, command, history, cores
<1>7. FlowInv'
  BY <1>a, <1>b, <1>c, <1>d DEF IInv, FlowInv, Changes, requires_root, ControlService, Begin, Goto,
     KeepCommand, command, history, cores
<1>8. RestoreInv'
  BY <1>a, <1>b, <1>c, <1>d DEF IInv, TypeOK, ConfigsOK, FileInv, RestoreInv,
     RejectedIsNotSaved, Changes, ControlService, Begin, Goto, KeepCommand, command, history,
     cores
<1>9. AppliedInv'
  BY <1>a, <1>b, <1>c, <1>d DEF IInv, TypeOK, CoresOK, HolderInv, AppliedInv, Changing,
     NothingRuns, StartPlaces, Owned, UpToDate, ControlService, Begin, Goto, KeepCommand,
     command, history, cores
<1>10. RunningInv'
  BY <1>a, <1>b, <1>c, <1>d DEF IInv, RunningInv, SomethingRuns, Applying, RestoreInv, FlowInv,
     connections_enabled, Alive, TypeOK, CoresOK, HolderInv, ControlService, Begin, Goto,
     KeepCommand, command, history, cores
<1> QED  BY <1>1, <1>2, <1>3, <1>4, <1>5, <1>6, <1>7, <1>8, <1>9, <1>10 DEF IInv, TypeOK

\* Subscriptions are downloaded again.
LEMMA RefreshStep == ASSUME IInv, RefreshProxies PROVE IInv'
<1>b. ok' \in BOOLEAN /\ pc' \in {"apply_core", "finish"}
  BY DEF RefreshProxies, Goto
<1>d. /\ pc = "idle" /\ op' = "refresh" /\ want' = NoConfig /\ previous' = NoConfig
      /\ flow' = "none" /\ file' = file /\ misread' = FALSE
      /\ UNCHANGED <<retry_config, dropped, accepted, asked, local, elevated>>
      /\ UNCHANGED <<worker, core, control>>
  BY DEF RefreshProxies, Begin
<1>c. /\ guard' \in Workers \union {NoWorker} /\ guard' \in {guard, NoWorker}
      /\ guard' # guard => ~Alive(guard) /\ elevated
      /\ ~elevated => guard' = NoWorker
  BY <1>d, ForgetFacts DEF RefreshProxies
<1>1. ConfigsOK'
  BY <1>b, <1>c, <1>d DEF IInv, TypeOK, ConfigsOK, FileInv, RefreshProxies, Begin, Goto,
     KeepCommand, command, history, cores
<1>2. CoresOK'
  BY <1>b, <1>c, <1>d DEF IInv, TypeOK, CoresOK, RefreshProxies, Begin, Goto,
     KeepCommand, command, history, cores
<1>3. CommandOK'
  BY <1>b, <1>c, <1>d DEF IInv, TypeOK, CommandOK, Changes, Places, RefreshProxies,
     Begin, Goto, KeepCommand, command, history, cores
<1>4. FileInv'
  BY <1>b, <1>c, <1>d DEF IInv, TypeOK, ConfigsOK, FileInv, RefreshProxies, Begin, Goto,
     KeepCommand, command, history, cores
<1>5. CoreInv'
  BY <1>b, <1>c, <1>d DEF IInv, TypeOK, CoresOK, CoreInv, Sound, RefreshProxies, Begin,
     Goto, KeepCommand, command, history, cores
<1>6. HolderInv'
  BY <1>b, <1>c, <1>d DEF IInv, TypeOK, CoresOK, HolderInv, Alive, RefreshProxies, Begin,
     Goto, KeepCommand, command, history, cores
<1>7. FlowInv'
  BY <1>b, <1>c, <1>d DEF IInv, FlowInv, requires_root, RefreshProxies, Begin, Goto,
     KeepCommand, command, history, cores
<1>8. RestoreInv'
  BY <1>b, <1>c, <1>d DEF IInv, TypeOK, ConfigsOK, FileInv, RestoreInv,
     RejectedIsNotSaved, Changes, RefreshProxies, Begin, Goto, KeepCommand, command, history,
     cores
<1>9. AppliedInv'
  BY <1>b, <1>c, <1>d DEF IInv, TypeOK, CoresOK, HolderInv, AppliedInv, Changing,
     NothingRuns, StartPlaces, Owned, UpToDate, RefreshProxies, Begin, Goto, KeepCommand,
     command, history, cores
<1>10. RunningInv'
  BY <1>b, <1>c, <1>d DEF IInv, RunningInv, SomethingRuns, Applying, RestoreInv, FlowInv,
     connections_enabled, Alive, TypeOK, CoresOK, HolderInv, RefreshProxies, Begin, Goto,
     KeepCommand, command, history, cores
<1> QED  BY <1>1, <1>2, <1>3, <1>4, <1>5, <1>6, <1>7, <1>8, <1>9, <1>10 DEF IInv, TypeOK

\* The application exits.
LEMMA ShutdownStep == ASSUME IInv, Shutdown PROVE IInv'
<1>a. /\ elevated' = FALSE /\ guard' = NoWorker
      /\ worker' \in [Workers -> {"unborn", "alive", "dead"}]
      /\ core' \in [Workers -> Core \union {NoCore}]
      /\ control' \in Workers \union {NoWorker} /\ dropped' \subseteq Workers
      /\ \A w \in Workers : /\ core'[w] \in {core[w], NoCore}
                            /\ worker'[w] # "alive" => core'[w] = NoCore
                            /\ worker'[w] = "alive" => w \in dropped'
  BY ShutdownFacts DEF Shutdown
<1>1. ConfigsOK'
  BY <1>a DEF IInv, TypeOK, ConfigsOK, FileInv, Shutdown, Goto, KeepCommand, command, history,
     cores
<1>2. CoresOK'
  BY <1>a DEF IInv, TypeOK, CoresOK, Shutdown, Goto, KeepCommand, command, history, cores
<1>3. CommandOK'
  BY <1>a DEF IInv, TypeOK, CommandOK, Changes, Places, Shutdown, Goto, KeepCommand, command,
     history, cores
<1>4. FileInv'
  BY <1>a DEF IInv, TypeOK, ConfigsOK, FileInv, Shutdown, Goto, KeepCommand, command, history,
     cores
<1>5. CoreInv'
  BY <1>a DEF IInv, TypeOK, CoresOK, CoreInv, Sound, Shutdown, Goto, KeepCommand, command,
     history, cores
<1>6. HolderInv'
  BY <1>a DEF IInv, TypeOK, CoresOK, HolderInv, Alive, Shutdown, Goto, KeepCommand, command,
     history, cores
<1>7. FlowInv'
  BY <1>a DEF IInv, FlowInv, requires_root, Shutdown, Goto, KeepCommand, command, history,
     cores
<1>8. RestoreInv'
  BY <1>a DEF IInv, TypeOK, ConfigsOK, FileInv, RestoreInv, Changes,
     Shutdown, Goto, KeepCommand, command, history, cores
<1>9. AppliedInv'
  BY <1>a DEF IInv, TypeOK, CoresOK, HolderInv, AppliedInv, Changing, NothingRuns, StartPlaces,
     Owned, UpToDate, Shutdown, Goto, KeepCommand, command, history, cores
<1>10. RunningInv'
  BY <1>a DEF IInv, RunningInv, SomethingRuns, Applying, RestoreInv, FlowInv,
     connections_enabled, Alive, TypeOK, CoresOK, HolderInv, Shutdown, Goto, KeepCommand,
     command, history, cores
<1> QED  BY <1>1, <1>2, <1>3, <1>4, <1>5, <1>6, <1>7, <1>8, <1>9, <1>10 DEF IInv, TypeOK

\* apply_change chooses between stop, start and apply.
LEMMA ChooseStep == ASSUME IInv, Choose PROVE IInv'
<1>a. /\ pc = "choose" /\ UNCHANGED <<file, local, elevated, worker, core, control, ok, dropped>>
      /\ UNCHANGED <<op, want, previous, retry_config, accepted, asked>>
  BY DEF Choose, KeepCommand, command, history
<1>e. file = want
  BY <1>a DEF IInv, RestoreInv, FlowInv, Changes
<1>b. /\ guard' \in Workers \union {NoWorker} /\ guard' \in {guard, NoWorker}
      /\ guard' # guard => ~Alive(guard) /\ elevated
      /\ misread' \in BOOLEAN /\ (~elevated => guard' = NoWorker)
      /\ \/ pc' = "stop" /\ flow' = "none" /\ ~connections_enabled(file)
         \/ /\ pc' = "apply" /\ flow' = "apply"
            /\ op \in {"save", "retry"} /\ ~misread' =>
                  SomethingRuns /\ (elevated => guard' # NoWorker)
         \/ pc' = "release" /\ flow' = "start" /\ op = "retry"
         \/ pc' = "release" /\ flow' = "start" /\ NothingRuns
  <2>0. /\ guard \in Workers \union {NoWorker} /\ misread \in BOOLEAN
        /\ ~elevated => guard = NoWorker
    BY <1>a DEF IInv, TypeOK, CoresOK, CommandOK, HolderInv
  <2>1. CASE ~connections_enabled(want)
    BY <1>e, <2>0, <2>1 DEF Choose, Goto
  <2>2. CASE connections_enabled(want) /\ op = "retry"
    BY <2>0, <2>2 DEF Choose, Goto
  <2>3. CASE connections_enabled(want) /\ op # "retry"
    <3>1. PICK status \in Answers :
            /\ Status(status) /\ flow' = IF status.running THEN "apply" ELSE "start"
            /\ pc' = IF status.running THEN "apply" ELSE "release"
      BY <2>3 DEF Choose, Goto
    <3>2. /\ guard' \in Workers \union {NoWorker} /\ guard' \in {guard, NoWorker}
          /\ guard' # guard => ~Alive(guard) /\ elevated
          /\ ~elevated => guard' = NoWorker
      BY <1>a, <3>1, ForgetFacts DEF Status
    <3>3. /\ status.running \in BOOLEAN /\ status.failed \in BOOLEAN
          /\ ~status.running => NothingRuns
          /\ status.running /\ ~status.failed =>
                 SomethingRuns /\ (elevated => guard # NoWorker /\ Alive(guard))
      BY <1>a, AnswerFacts
    <3>4. misread' \in BOOLEAN /\ (op \in {"save", "retry"} /\ ~misread' => ~status.failed)
      BY <3>1, <3>3, ReadFacts DEF Status
    <3> QED  BY <3>1, <3>2, <3>3, <3>4
  <2> QED  BY <2>1, <2>2, <2>3
<1>1. ConfigsOK'
  BY <1>a, <1>b DEF IInv, TypeOK, ConfigsOK, FileInv, Changes
<1>2. CoresOK'
  BY <1>a, <1>b DEF IInv, TypeOK, CoresOK, Changes
<1>3. CommandOK'
  BY <1>a, <1>b DEF IInv, TypeOK, CommandOK, Changes, Places, Changes
<1>4. FileInv'
  BY <1>a, <1>b DEF IInv, TypeOK, ConfigsOK, FileInv, Changes
<1>5. CoreInv'
  BY <1>a, <1>b DEF IInv, TypeOK, CoresOK, CoreInv, Sound, Changes
<1>6. HolderInv'
  BY <1>a, <1>b DEF IInv, TypeOK, CoresOK, HolderInv, Alive, Changes
<1>7. FlowInv'
  BY <1>a, <1>b DEF IInv, FlowInv, requires_root, Changes
<1>8. RestoreInv'
  BY <1>a, <1>b DEF IInv, TypeOK, ConfigsOK, FileInv, RestoreInv, Changes
<1>9. AppliedInv'
  BY <1>a, <1>b DEF IInv, TypeOK, CoresOK, HolderInv, AppliedInv, Changing, NothingRuns,
     StartPlaces, Owned, UpToDate, Changes
<1>10. RunningInv'
  BY <1>a, <1>b, WorkerAssumption DEF IInv, RunningInv, SomethingRuns, Applying, RestoreInv,
     FlowInv, connections_enabled, Alive, TypeOK, CoresOK, HolderInv, Changes
<1> QED  BY <1>1, <1>2, <1>3, <1>4, <1>5, <1>6, <1>7, <1>8, <1>9, <1>10 DEF IInv, TypeOK

\* sync_proxy_selection.
LEMMA SettleStep == ASSUME IInv, Settle PROVE IInv'
<1>a. /\ pc = "settle" /\ pc' = "finish"
      /\ UNCHANGED <<file, local, elevated, worker, core, control, flow, dropped>>
      /\ UNCHANGED <<op, want, previous, retry_config, accepted, asked>>
  BY DEF Settle, KeepCommand, command, history, Goto
<1>b. /\ guard' \in Workers \union {NoWorker} /\ guard' \in {guard, NoWorker}
      /\ guard' # guard => ~Alive(guard) /\ elevated
      /\ misread' \in BOOLEAN /\ (~elevated => guard' = NoWorker)
      /\ op \in {"save", "retry"} /\ ~misread' => ~misread
  <2>0. /\ guard \in Workers \union {NoWorker} /\ misread \in BOOLEAN
        /\ ~elevated => guard = NoWorker
    BY <1>a DEF IInv, TypeOK, CoresOK, CommandOK, HolderInv
  <2>1. CASE UNCHANGED <<guard, misread>>
    BY <2>0, <2>1
  <2>2. CASE \E status \in Answers : Status(status)
    <3>1. PICK status \in Answers : Status(status)
      BY <2>2
    <3>2. status.failed \in BOOLEAN
      BY <1>a, AnswerFacts
    <3> QED  BY <1>a, <3>1, <3>2, ForgetFacts, ReadFacts DEF Status
  <2> QED  BY <2>1, <2>2 DEF Settle
<1>c. ok' \in BOOLEAN
  <2>1. \A r : ProxyUp(r) \in BOOLEAN
    BY DEF ProxyUp
  <2> QED  BY <2>1 DEF Settle, sync_proxy_selection, IInv, TypeOK, CommandOK
<1>1. ConfigsOK'
  BY <1>a, <1>b, <1>c DEF IInv, TypeOK, ConfigsOK, FileInv, Changes
<1>2. CoresOK'
  BY <1>a, <1>b, <1>c DEF IInv, TypeOK, CoresOK, Changes
<1>3. CommandOK'
  BY <1>a, <1>b, <1>c DEF IInv, TypeOK, CommandOK, Changes, Places, Changes
<1>4. FileInv'
  BY <1>a, <1>b, <1>c DEF IInv, TypeOK, ConfigsOK, FileInv, Changes
<1>5. CoreInv'
  BY <1>a, <1>b, <1>c DEF IInv, TypeOK, CoresOK, CoreInv, Sound, Changes
<1>6. HolderInv'
  BY <1>a, <1>b, <1>c DEF IInv, TypeOK, CoresOK, HolderInv, Alive, Changes
<1>7. FlowInv'
  BY <1>a, <1>b, <1>c DEF IInv, FlowInv, requires_root, Changes
<1>8. RestoreInv'
  BY <1>a, <1>b, <1>c DEF IInv, TypeOK, ConfigsOK, FileInv, RestoreInv,
     Changes
<1>9. AppliedInv'
  BY <1>a, <1>b, <1>c DEF IInv, TypeOK, CoresOK, HolderInv, AppliedInv, Changing, NothingRuns,
     StartPlaces, Owned, UpToDate, Changes
<1>10. RunningInv'
  BY <1>a, <1>b, <1>c, WorkerAssumption DEF IInv, RunningInv, SomethingRuns, Applying,
     RestoreInv, FlowInv, connections_enabled, Alive, TypeOK, CoresOK, HolderInv, Changes
<1> QED  BY <1>1, <1>2, <1>3, <1>4, <1>5, <1>6, <1>7, <1>8, <1>9, <1>10 DEF IInv, TypeOK

\* A command ends.
LEMMA FinishStep == ASSUME IInv, finish_change \/ RestoreFails PROVE IInv'
<1>a. /\ pc = "finish" /\ pc' = "idle" /\ flow' = "none" /\ want' = NoConfig
      /\ previous' = NoConfig
      /\ UNCHANGED <<local, elevated, worker, core, control, op, ok>>
      /\ UNCHANGED <<dropped, asked, misread>>
  BY DEF finish_change, RestoreFails, Loop, CommandOver, Goto
<1>b. /\ \/ file' = file
         \/ ~ok /\ previous # NoConfig /\ op \in Changes /\ file' = previous
      /\ file' = accepted'
  BY <1>a DEF finish_change, RestoreFails, Rejected, IInv, RestoreInv
<1>c. retry_config' \in Config \union {NoConfig}
  <2>1. retry_config' \in {NoConfig, file, want, retry_config}
    BY DEF finish_change, RestoreFails, Loop, CommandOver
  <2> QED  BY <2>1 DEF IInv, TypeOK, ConfigsOK
<1>d. /\ guard' \in Workers \union {NoWorker} /\ guard' \in {guard, NoWorker}
      /\ guard' # guard => ~Alive(guard) /\ elevated
      /\ ~elevated => guard' = NoWorker
  BY <1>a, ForgetFacts DEF finish_change, RestoreFails, Loop
<1>1. ConfigsOK'
  BY <1>a, <1>b, <1>c, <1>d DEF IInv, TypeOK, ConfigsOK, FileInv, Changes
<1>2. CoresOK'
  BY <1>a, <1>b, <1>c, <1>d DEF IInv, TypeOK, CoresOK, Changes
<1>3. CommandOK'
  BY <1>a, <1>b, <1>c, <1>d DEF IInv, TypeOK, CommandOK, Changes, Places, Changes
<1>4. FileInv'
  BY <1>a, <1>b, <1>c, <1>d DEF IInv, TypeOK, ConfigsOK, FileInv, Changes
<1>5. CoreInv'
  BY <1>a, <1>b, <1>c, <1>d DEF IInv, TypeOK, CoresOK, CoreInv, Sound, Changes
<1>6. HolderInv'
  BY <1>a, <1>b, <1>c, <1>d DEF IInv, TypeOK, CoresOK, HolderInv, Alive, Changes
<1>7. FlowInv'
  BY <1>a, <1>b, <1>c, <1>d DEF IInv, FlowInv, requires_root, Changes
<1>8. RestoreInv'
  BY <1>a, <1>b, <1>c, <1>d, RequestAssumption DEF IInv, TypeOK, ConfigsOK, FileInv, RestoreInv,
     RejectedIsNotSaved, Changes
<1>9. AppliedInv'
  BY <1>a, <1>b, <1>c, <1>d DEF IInv, TypeOK, CoresOK, HolderInv, AppliedInv, Changing, NothingRuns,
     StartPlaces, Owned, UpToDate, Changes
<1>10. RunningInv'
  BY <1>a, <1>b, <1>c, <1>d, WorkerAssumption DEF IInv, RunningInv, SomethingRuns, Applying,
     RestoreInv, FlowInv, connections_enabled, Alive, TypeOK, CoresOK, HolderInv, Changes
<1> QED  BY <1>1, <1>2, <1>3, <1>4, <1>5, <1>6, <1>7, <1>8, <1>9, <1>10 DEF IInv, TypeOK

\* The loop reads the status.
LEMMA TickStep == ASSUME IInv, Tick PROVE IInv'
<1>a. /\ pc = "idle" /\ UNCHANGED <<file, pc, flow, ok, dropped, misread, local, elevated>>
      /\ UNCHANGED <<worker, core, control, op, want, previous, retry_config, accepted, asked>>
  BY DEF Tick, command, history
<1>b. /\ guard' \in Workers \union {NoWorker} /\ guard' \in {guard, NoWorker}
      /\ guard' # guard => ~Alive(guard) /\ elevated
      /\ ~elevated => guard' = NoWorker
  BY <1>a, ForgetFacts DEF Tick
<1>1. ConfigsOK'
  BY <1>a, <1>b DEF IInv, TypeOK, ConfigsOK, FileInv, Changes
<1>2. CoresOK'
  BY <1>a, <1>b DEF IInv, TypeOK, CoresOK, Changes
<1>3. CommandOK'
  BY <1>a, <1>b DEF IInv, TypeOK, CommandOK, Changes, Places, Changes
<1>4. FileInv'
  BY <1>a, <1>b DEF IInv, TypeOK, ConfigsOK, FileInv, Changes
<1>5. CoreInv'
  BY <1>a, <1>b DEF IInv, TypeOK, CoresOK, CoreInv, Sound, Changes
<1>6. HolderInv'
  BY <1>a, <1>b DEF IInv, TypeOK, CoresOK, HolderInv, Alive, Changes
<1>7. FlowInv'
  BY <1>a, <1>b DEF IInv, FlowInv, requires_root, Changes
<1>8. RestoreInv'
  BY <1>a, <1>b DEF IInv, TypeOK, ConfigsOK, FileInv, RestoreInv,
     RejectedIsNotSaved, Changes
<1>9. AppliedInv'
  BY <1>a, <1>b DEF IInv, TypeOK, CoresOK, HolderInv, AppliedInv, Changing, NothingRuns,
     StartPlaces, Owned, UpToDate, Changes
<1>10. RunningInv'
  BY <1>a, <1>b, WorkerAssumption DEF IInv, RunningInv, SomethingRuns, Applying, RestoreInv,
     FlowInv, connections_enabled, Alive, TypeOK, CoresOK, HolderInv, Changes
<1> QED  BY <1>1, <1>2, <1>3, <1>4, <1>5, <1>6, <1>7, <1>8, <1>9, <1>10 DEF IInv, TypeOK

\* The proxy of a core stops by itself.
LEMMA ProxyDiesStep == ASSUME IInv, ProxyDies PROVE IInv'
<1>a. /\ UNCHANGED <<file, pc, flow, ok, dropped, misread, elevated, guard>>
      /\ UNCHANGED <<worker, control, op, want, previous, retry_config, accepted, asked>>
  BY DEF ProxyDies, command, history
<1>b. ASSUME NEW r \in Core \union {NoCore}, Sound(r), ProxyUp(r)
      PROVE  /\ r # NoCore /\ Lost(r) \in Core /\ Lost(r) # NoCore /\ Sound(Lost(r))
             /\ UpToDate(r) => UpToDate(Lost(r))
  <2>1. /\ r \in Core /\ r # NoCore /\ r.cfg \in Config /\ r.mesh \in {"off", "node", "relay"}
        /\ r.pending \in BOOLEAN
    BY <1>b, CoreFacts DEF ProxyUp
  <2>2. /\ Lost(r) \in Core /\ Lost(r) # NoCore /\ Lost(r).cfg = r.cfg
        /\ Lost(r).stack = "dead" /\ Lost(r).pending = r.pending
    <3>1. Lost(r) \in Core
      BY <2>1 DEF Lost, Running, Core
    <3> QED  BY <3>1, WorkerAssumption DEF Lost, Running
  <2> QED  BY <2>1, <2>2 DEF Sound, UpToDate
<1>c. /\ local \in Core \union {NoCore} /\ Sound(local)
      /\ core \in [Workers -> Core \union {NoCore}]
      /\ \A w \in Workers : Sound(core[w]) /\ (worker[w] # "alive" => core[w] = NoCore)
  BY DEF IInv, TypeOK, CoresOK, CoreInv
<1>d. /\ local' \in Core \union {NoCore} /\ Sound(local')
      /\ (local' = NoCore) = (local = NoCore)
      /\ UpToDate(local) => UpToDate(local')
      /\ core' \in [Workers -> Core \union {NoCore}]
      /\ \A w \in Workers : /\ Sound(core'[w]) /\ (core'[w] = NoCore) = (core[w] = NoCore)
                            /\ UpToDate(core[w]) => UpToDate(core'[w])
  <2>1. CASE ProxyUp(local) /\ local' = Lost(local) /\ UNCHANGED core
    BY <1>b, <1>c, <2>1
  <2>2. CASE /\ \E w \in Workers : ProxyUp(core[w]) /\ core' = [core EXCEPT ![w] = Lost(core[w])]
             /\ UNCHANGED local
    <3>1. PICK w \in Workers : ProxyUp(core[w]) /\ core' = [core EXCEPT ![w] = Lost(core[w])]
      BY <2>2
    <3>2. /\ core[w] # NoCore /\ Lost(core[w]) \in Core /\ Lost(core[w]) # NoCore
          /\ Sound(Lost(core[w])) /\ (UpToDate(core[w]) => UpToDate(Lost(core[w])))
      BY <1>b, <1>c, <3>1
    <3>3. core'[w] = Lost(core[w]) /\ \A v \in Workers : v # w => core'[v] = core[v]
      BY <1>c, <3>1
    <3>4. core' \in [Workers -> Core \union {NoCore}]
      BY <1>c, <3>1, <3>2
    <3> QED  BY <1>c, <2>2, <3>2, <3>3, <3>4
  <2> QED  BY <2>1, <2>2 DEF ProxyDies
<1>1. ConfigsOK'
  BY <1>a, <1>c, <1>d DEF IInv, TypeOK, ConfigsOK, FileInv, Changes
<1>2. CoresOK'
  BY <1>a, <1>c, <1>d DEF IInv, TypeOK, CoresOK, Changes
<1>3. CommandOK'
  BY <1>a, <1>c, <1>d DEF IInv, TypeOK, CommandOK, Changes, Places, Changes
<1>4. FileInv'
  BY <1>a, <1>c, <1>d DEF IInv, TypeOK, ConfigsOK, FileInv, Changes
<1>5. CoreInv'
  BY <1>a, <1>c, <1>d DEF IInv, TypeOK, CoresOK, CoreInv, Sound, Changes
<1>6. HolderInv'
  BY <1>a, <1>c, <1>d DEF IInv, TypeOK, CoresOK, HolderInv, Alive, Changes
<1>7. FlowInv'
  BY <1>a, <1>c, <1>d DEF IInv, FlowInv, requires_root, Changes
<1>8. RestoreInv'
  BY <1>a, <1>c, <1>d DEF IInv, TypeOK, ConfigsOK, FileInv, RestoreInv,
     RejectedIsNotSaved, Changes
<1>9. AppliedInv'
  BY <1>a, <1>c, <1>d DEF IInv, TypeOK, CoresOK, HolderInv, AppliedInv, Changing, NothingRuns,
     StartPlaces, Owned, UpToDate, Changes
<1>10. RunningInv'
  BY <1>a, <1>c, <1>d DEF IInv, RunningInv, SomethingRuns, Applying, RestoreInv, FlowInv,
     connections_enabled, Alive, TypeOK, CoresOK, HolderInv, Changes
<1> QED  BY <1>1, <1>2, <1>3, <1>4, <1>5, <1>6, <1>7, <1>8, <1>9, <1>10 DEF IInv, TypeOK

\* Client::stop.
LEMMA StopStep == ASSUME IInv, Stop PROVE IInv'
<1>a. /\ pc = "stop"
      /\ UNCHANGED <<file, flow, misread>>
      /\ UNCHANGED <<op, want, previous, retry_config, accepted, asked>>
  BY DEF Stop, KeepCommand, command, history
<1>b. /\ local' = NoCore /\ guard' = NoWorker
      /\ worker' \in [Workers -> {"unborn", "alive", "dead"}]
      /\ core' \in [Workers -> Core \union {NoCore}]
      /\ control' \in Workers \union {NoWorker} /\ dropped' \subseteq Workers
      /\ \A w \in Workers : /\ core'[w] \in {core[w], NoCore}
                            /\ worker'[w] # "alive" => core'[w] = NoCore
                            /\ worker'[w] = "alive" => w \in dropped'
      /\ elevated' = FALSE
  <2>1. CASE elevated
    <3>1. shutdown /\ local' = local /\ local = NoCore
      BY <2>1 DEF Stop, IInv, HolderInv
    <3> QED  BY <3>1, ShutdownFacts
  <2>2. CASE ~elevated
    <3>1. local' = NoCore /\ UNCHANGED <<elevated, guard, worker, core, control, dropped>>
      BY <2>2 DEF Stop
    <3>2. guard = NoWorker /\ elevated = FALSE
      BY <1>a, <2>2 DEF IInv, HolderInv, TypeOK, CoresOK
    <3> QED  BY <3>1, <3>2, WorkerAssumption DEF IInv, TypeOK, CoresOK, CoreInv, HolderInv, Alive
  <2> QED  BY <2>1, <2>2
<1>c. (pc' = "settle" /\ ok' = TRUE) \/ (pc' = "finish" /\ ok' = FALSE)
  BY DEF Stop, Succeed, Fail, Goto
<1>1. ConfigsOK'
  BY <1>a, <1>b, <1>c DEF IInv, TypeOK, ConfigsOK, FileInv, Changes
<1>2. CoresOK'
  BY <1>a, <1>b, <1>c DEF IInv, TypeOK, CoresOK, Changes
<1>3. CommandOK'
  BY <1>a, <1>b, <1>c DEF IInv, TypeOK, CommandOK, Changes, Places, Changes
<1>4. FileInv'
  BY <1>a, <1>b, <1>c DEF IInv, TypeOK, ConfigsOK, FileInv, Changes
<1>5. CoreInv'
  BY <1>a, <1>b, <1>c DEF IInv, TypeOK, CoresOK, CoreInv, Sound, Changes
<1>6. HolderInv'
  BY <1>a, <1>b, <1>c DEF IInv, TypeOK, CoresOK, HolderInv, Alive, Changes
<1>7. FlowInv'
  BY <1>a, <1>b, <1>c DEF IInv, FlowInv, requires_root, Changes
<1>8. RestoreInv'
  BY <1>a, <1>b, <1>c DEF IInv, TypeOK, ConfigsOK, FileInv, RestoreInv,
     Changes
<1>9. AppliedInv'
  BY <1>a, <1>b, <1>c DEF IInv, TypeOK, CoresOK, HolderInv, AppliedInv, Changing, NothingRuns,
     StartPlaces, Owned, UpToDate, Changes
<1>10. RunningInv'
  BY <1>a, <1>b, <1>c DEF IInv, RunningInv, SomethingRuns, Applying, RestoreInv, FlowInv,
     connections_enabled, Alive, TypeOK, CoresOK, HolderInv, Changes
<1> QED  BY <1>1, <1>2, <1>3, <1>4, <1>5, <1>6, <1>7, <1>8, <1>9, <1>10 DEF IInv, TypeOK

\* release_unneeded_privileges, first step of Client::start.
LEMMA ReleaseStep == ASSUME IInv, Release PROVE IInv'
<1>a. /\ pc = "release"
      /\ UNCHANGED <<file, local, flow, ok, misread>>
      /\ UNCHANGED <<op, want, previous, retry_config, accepted, asked>>
  BY DEF Release, KeepCommand, command, history
<1>b. \/ shutdown /\ pc' = "authorize" /\ elevated
      \/ /\ pc' = IF elevated THEN "reauth" ELSE "authorize"
         /\ UNCHANGED <<elevated, guard, worker, core, control, dropped>>
  BY DEF Release, Goto
<1>c. CASE shutdown /\ pc' = "authorize" /\ elevated
  <2>a. /\ elevated' = FALSE /\ guard' = NoWorker
        /\ worker' \in [Workers -> {"unborn", "alive", "dead"}]
        /\ core' \in [Workers -> Core \union {NoCore}]
        /\ control' \in Workers \union {NoWorker} /\ dropped' \subseteq Workers
        /\ \A w \in Workers : /\ core'[w] \in {core[w], NoCore}
                              /\ worker'[w] # "alive" => core'[w] = NoCore
                              /\ worker'[w] = "alive" => w \in dropped'
    BY <1>c, ShutdownFacts
  <2>1. ConfigsOK'
    BY <1>a, <1>c, <2>a DEF IInv, TypeOK, ConfigsOK, FileInv, Changes
  <2>2. CoresOK'
    BY <1>a, <1>c, <2>a DEF IInv, TypeOK, CoresOK, Changes
  <2>3. CommandOK'
    BY <1>a, <1>c, <2>a DEF IInv, TypeOK, CommandOK, Changes, Places, Changes
  <2>4. FileInv'
    BY <1>a, <1>c, <2>a DEF IInv, TypeOK, ConfigsOK, FileInv, Changes
  <2>5. CoreInv'
    BY <1>a, <1>c, <2>a DEF IInv, TypeOK, CoresOK, CoreInv, Sound, Changes
  <2>6. HolderInv'
    BY <1>a, <1>c, <2>a DEF IInv, TypeOK, CoresOK, HolderInv, Alive, Changes
  <2>7. FlowInv'
    BY <1>a, <1>c, <2>a DEF IInv, FlowInv, requires_root, Changes
  <2>8. RestoreInv'
    BY <1>a, <1>c, <2>a DEF IInv, TypeOK, ConfigsOK, FileInv, RestoreInv,
       Changes
  <2>9. AppliedInv'
    BY <1>a, <1>c, <2>a DEF IInv, TypeOK, CoresOK, HolderInv, AppliedInv, Changing,
       NothingRuns, StartPlaces, Owned, UpToDate, Changes
  <2>10. RunningInv'
    BY <1>a, <1>c, <2>a DEF IInv, RunningInv, SomethingRuns, Applying, RestoreInv, FlowInv,
       connections_enabled, Alive, TypeOK, CoresOK, HolderInv, Changes
  <2> QED  BY <2>1, <2>2, <2>3, <2>4, <2>5, <2>6, <2>7, <2>8, <2>9, <2>10 DEF IInv, TypeOK
<1>d. CASE /\ pc' = IF elevated THEN "reauth" ELSE "authorize"
           /\ UNCHANGED <<elevated, guard, worker, core, control, dropped>>
  <2>1. ConfigsOK'
    BY <1>a, <1>d DEF IInv, TypeOK, ConfigsOK, FileInv, Changes
  <2>2. CoresOK'
    BY <1>a, <1>d DEF IInv, TypeOK, CoresOK, Changes
  <2>3. CommandOK'
    BY <1>a, <1>d DEF IInv, TypeOK, CommandOK, Changes, Places, Changes
  <2>4. FileInv'
    BY <1>a, <1>d DEF IInv, TypeOK, ConfigsOK, FileInv, Changes
  <2>5. CoreInv'
    BY <1>a, <1>d DEF IInv, TypeOK, CoresOK, CoreInv, Sound, Changes
  <2>6. HolderInv'
    BY <1>a, <1>d DEF IInv, TypeOK, CoresOK, HolderInv, Alive, Changes
  <2>7. FlowInv'
    BY <1>a, <1>d DEF IInv, FlowInv, requires_root, Changes
  <2>8. RestoreInv'
    BY <1>a, <1>d DEF IInv, TypeOK, ConfigsOK, FileInv, RestoreInv,
       Changes
  <2>9. AppliedInv'
    BY <1>a, <1>d DEF IInv, TypeOK, CoresOK, HolderInv, AppliedInv, Changing, NothingRuns,
       StartPlaces, Owned, UpToDate, Changes
  <2>10. RunningInv'
    BY <1>a, <1>d DEF IInv, RunningInv, SomethingRuns, Applying, RestoreInv, FlowInv,
       connections_enabled, Alive, TypeOK, CoresOK, HolderInv, Changes
  <2> QED  BY <2>1, <2>2, <2>3, <2>4, <2>5, <2>6, <2>7, <2>8, <2>9, <2>10 DEF IInv, TypeOK
<1> QED  BY <1>b, <1>c, <1>d

\* Client::start with a supervisor.
LEMMA ReauthorizeStep == ASSUME IInv, Reauthorize PROVE IInv'
<1>a. /\ pc = "reauth"
      /\ UNCHANGED <<file, local, elevated, flow, dropped, misread>>
      /\ UNCHANGED <<op, want, previous, retry_config, accepted, asked>>
  BY DEF Reauthorize, KeepCommand, command, history
<1>b. CASE Alive(guard)
  <2>a. pc' = "ask" /\ UNCHANGED <<guard, worker, core, control, ok>>
    BY <1>b DEF Reauthorize, Goto
  <2>1. ConfigsOK'
    BY <1>a, <2>a DEF IInv, TypeOK, ConfigsOK, FileInv, Changes
  <2>2. CoresOK'
    BY <1>a, <2>a DEF IInv, TypeOK, CoresOK, Changes
  <2>3. CommandOK'
    BY <1>a, <2>a DEF IInv, TypeOK, CommandOK, Changes, Places, Changes
  <2>4. FileInv'
    BY <1>a, <2>a DEF IInv, TypeOK, ConfigsOK, FileInv, Changes
  <2>5. CoreInv'
    BY <1>a, <2>a DEF IInv, TypeOK, CoresOK, CoreInv, Sound, Changes
  <2>6. HolderInv'
    BY <1>a, <2>a DEF IInv, TypeOK, CoresOK, HolderInv, Alive, Changes
  <2>7. FlowInv'
    BY <1>a, <2>a DEF IInv, FlowInv, requires_root, Changes
  <2>8. RestoreInv'
    BY <1>a, <2>a DEF IInv, TypeOK, ConfigsOK, FileInv, RestoreInv,
       Changes
  <2>9. AppliedInv'
    BY <1>a, <2>a DEF IInv, TypeOK, CoresOK, HolderInv, AppliedInv, Changing, NothingRuns,
       StartPlaces, Owned, UpToDate, Changes
  <2>10. RunningInv'
    BY <1>a, <2>a DEF IInv, RunningInv, SomethingRuns, Applying, RestoreInv, FlowInv,
       connections_enabled, Alive, TypeOK, CoresOK, HolderInv, Changes
  <2> QED  BY <2>1, <2>2, <2>3, <2>4, <2>5, <2>6, <2>7, <2>8, <2>9, <2>10 DEF IInv, TypeOK
<1>c. CASE ~Alive(guard)
  <2>a. /\ guard' \in Workers \union {NoWorker} /\ control' \in Workers \union {NoWorker}
        /\ core' = core /\ ok' \in BOOLEAN
        /\ worker' \in [Workers -> {"unborn", "alive", "dead"}]
        /\ \A w \in Workers : worker'[w] # "alive" => core[w] = NoCore
        /\ \A w \in Workers : worker'[w] = "alive" /\ w \notin dropped => w = guard'
        /\ guard' # NoWorker => core[guard'] = NoCore
        /\ \/ pc' = "finish" /\ ok' = FALSE /\ guard' = NoWorker
           \/ pc' = "ask" /\ ok' = ok /\ guard' \in Workers
    BY <1>c, InitializeFacts DEF Reauthorize, Places
  <2>b. elevated
    BY <1>a DEF IInv, FlowInv
  <2>1. ConfigsOK'
    BY <1>a, <2>a, <2>b DEF IInv, TypeOK, ConfigsOK, FileInv, Changes
  <2>2. CoresOK'
    BY <1>a, <2>a, <2>b DEF IInv, TypeOK, CoresOK, Changes
  <2>3. CommandOK'
    BY <1>a, <2>a, <2>b DEF IInv, TypeOK, CommandOK, Changes, Places, Changes
  <2>4. FileInv'
    BY <1>a, <2>a, <2>b DEF IInv, TypeOK, ConfigsOK, FileInv, Changes
  <2>5. CoreInv'
    BY <1>a, <2>a, <2>b DEF IInv, TypeOK, CoresOK, CoreInv, Sound, Changes
  <2>6. HolderInv'
    BY <1>a, <2>a, <2>b DEF IInv, TypeOK, CoresOK, HolderInv, Alive, Changes
  <2>7. FlowInv'
    BY <1>a, <2>a, <2>b DEF IInv, FlowInv, requires_root, Changes
  <2>8. RestoreInv'
    BY <1>a, <2>a, <2>b DEF IInv, TypeOK, ConfigsOK, FileInv, RestoreInv,
       Changes
  <2>9. AppliedInv'
    BY <1>a, <2>a, <2>b DEF IInv, TypeOK, CoresOK, HolderInv, AppliedInv, Changing,
       NothingRuns, StartPlaces, Owned, UpToDate, Changes
  <2>10. RunningInv'
    BY <1>a, <2>a, <2>b DEF IInv, RunningInv, SomethingRuns, Applying, RestoreInv, FlowInv,
       connections_enabled, Alive, TypeOK, CoresOK, HolderInv, Changes
  <2> QED  BY <2>1, <2>2, <2>3, <2>4, <2>5, <2>6, <2>7, <2>8, <2>9, <2>10 DEF IInv, TypeOK
<1> QED  BY <1>b, <1>c

\* authorize_if_needed.
LEMMA AuthorizeStep == ASSUME IInv, authorize_if_needed PROVE IInv'
<1>a. /\ pc = "authorize"
      /\ UNCHANGED <<file, local, elevated, flow, dropped, misread>>
      /\ UNCHANGED <<op, want, previous, retry_config, accepted, asked>>
  BY DEF authorize_if_needed, KeepCommand, command, history
<1>b. CASE requires_root(file) /\ ~elevated
  <2>a. ~Alive(guard)
    BY <1>a, <1>b, WorkerAssumption DEF IInv, HolderInv, Alive
  <2>b. /\ guard' \in Workers \union {NoWorker} /\ control' \in Workers \union {NoWorker}
        /\ core' = core /\ ok' \in BOOLEAN
        /\ worker' \in [Workers -> {"unborn", "alive", "dead"}]
        /\ \A w \in Workers : worker'[w] # "alive" => core[w] = NoCore
        /\ \A w \in Workers : worker'[w] = "alive" /\ w \notin dropped => w = guard'
        /\ guard' # NoWorker => core[guard'] = NoCore
        /\ \/ pc' = "finish" /\ ok' = FALSE /\ guard' = NoWorker
           \/ pc' = "handover" /\ ok' = ok /\ guard' \in Workers
    BY <1>b, <2>a, InitializeFacts DEF authorize_if_needed, Places
  <2>1. ConfigsOK'
    BY <1>a, <1>b, <2>b DEF IInv, TypeOK, ConfigsOK, FileInv, Changes
  <2>2. CoresOK'
    BY <1>a, <1>b, <2>b DEF IInv, TypeOK, CoresOK, Changes
  <2>3. CommandOK'
    BY <1>a, <1>b, <2>b DEF IInv, TypeOK, CommandOK, Changes, Places, Changes
  <2>4. FileInv'
    BY <1>a, <1>b, <2>b DEF IInv, TypeOK, ConfigsOK, FileInv, Changes
  <2>5. CoreInv'
    BY <1>a, <1>b, <2>b DEF IInv, TypeOK, CoresOK, CoreInv, Sound, Changes
  <2>6. HolderInv'
    BY <1>a, <1>b, <2>b DEF IInv, TypeOK, CoresOK, HolderInv, Alive, Changes
  <2>7. FlowInv'
    BY <1>a, <1>b, <2>b DEF IInv, FlowInv, requires_root, Changes
  <2>8. RestoreInv'
    BY <1>a, <1>b, <2>b DEF IInv, TypeOK, ConfigsOK, FileInv, RestoreInv,
       Changes
  <2>9. AppliedInv'
    BY <1>a, <1>b, <2>b DEF IInv, TypeOK, CoresOK, HolderInv, AppliedInv, Changing,
       NothingRuns, StartPlaces, Owned, UpToDate, Changes
  <2>10. RunningInv'
    BY <1>a, <1>b, <2>b DEF IInv, RunningInv, SomethingRuns, Applying, RestoreInv, FlowInv,
       connections_enabled, Alive, TypeOK, CoresOK, HolderInv, Changes
  <2> QED  BY <2>1, <2>2, <2>3, <2>4, <2>5, <2>6, <2>7, <2>8, <2>9, <2>10 DEF IInv, TypeOK
<1>c. CASE ~ (requires_root(file) /\ ~elevated)
  <2>a. /\ UNCHANGED <<guard, worker, core, control, ok>>
        /\ pc' = IF flow = "start" THEN "start_local" ELSE "apply_core"
    BY <1>c DEF authorize_if_needed, Goto, AfterAuthorize
  <2>1. ConfigsOK'
    BY <1>a, <1>c, <2>a DEF IInv, TypeOK, ConfigsOK, FileInv, Changes
  <2>2. CoresOK'
    BY <1>a, <1>c, <2>a DEF IInv, TypeOK, CoresOK, Changes
  <2>3. CommandOK'
    BY <1>a, <1>c, <2>a DEF IInv, TypeOK, CommandOK, Changes, Places, Changes
  <2>4. FileInv'
    BY <1>a, <1>c, <2>a DEF IInv, TypeOK, ConfigsOK, FileInv, Changes
  <2>5. CoreInv'
    BY <1>a, <1>c, <2>a DEF IInv, TypeOK, CoresOK, CoreInv, Sound, Changes
  <2>6. HolderInv'
    BY <1>a, <1>c, <2>a DEF IInv, TypeOK, CoresOK, HolderInv, Alive, Changes
  <2>7. FlowInv'
    BY <1>a, <1>c, <2>a DEF IInv, FlowInv, requires_root, Changes
  <2>8. RestoreInv'
    BY <1>a, <1>c, <2>a DEF IInv, TypeOK, ConfigsOK, FileInv, RestoreInv,
       Changes
  <2>9. AppliedInv'
    BY <1>a, <1>c, <2>a DEF IInv, TypeOK, CoresOK, HolderInv, AppliedInv, Changing,
       NothingRuns, StartPlaces, Owned, UpToDate, Changes
  <2>10. RunningInv'
    BY <1>a, <1>c, <2>a DEF IInv, RunningInv, SomethingRuns, Applying, RestoreInv, FlowInv,
       connections_enabled, Alive, TypeOK, CoresOK, HolderInv, Changes
  <2> QED  BY <2>1, <2>2, <2>3, <2>4, <2>5, <2>6, <2>7, <2>8, <2>9, <2>10 DEF IInv, TypeOK
<1> QED  BY <1>b, <1>c

\* The local core stops before the new worker takes over.
LEMMA HandoverStep == ASSUME IInv, Handover PROVE IInv'
<1>a. /\ pc = "handover"
      /\ UNCHANGED <<file, worker, core, control, misread>>
      /\ UNCHANGED <<op, want, previous, retry_config, accepted, asked>>
  BY DEF Handover, KeepCommand, command, history
<1>b. local' = NoCore /\ guard \in Workers /\ ~elevated /\ core[guard] = NoCore
  BY <1>a, WorkerAssumption DEF Handover, IInv, HolderInv
<1>c. \/ /\ elevated' = TRUE /\ flow' = "start" /\ UNCHANGED <<guard, dropped, ok>>
         /\ pc' \in {"ask", "release"}
      \/ /\ dropped' = dropped \union {guard} /\ guard' = NoWorker /\ pc' = "finish"
         /\ ok' = FALSE /\ UNCHANGED <<elevated, flow>>
  BY DEF Handover, Goto, Fail
<1>d. CASE /\ elevated' = TRUE /\ flow' = "start" /\ UNCHANGED <<guard, dropped, ok>>
           /\ pc' \in {"ask", "release"}
  <2>1. ConfigsOK'
    BY <1>a, <1>b, <1>d DEF IInv, TypeOK, ConfigsOK, FileInv, Changes
  <2>2. CoresOK'
    BY <1>a, <1>b, <1>d DEF IInv, TypeOK, CoresOK, Changes
  <2>3. CommandOK'
    BY <1>a, <1>b, <1>d DEF IInv, TypeOK, CommandOK, Changes, Places, Changes
  <2>4. FileInv'
    BY <1>a, <1>b, <1>d DEF IInv, TypeOK, ConfigsOK, FileInv, Changes
  <2>5. CoreInv'
    BY <1>a, <1>b, <1>d DEF IInv, TypeOK, CoresOK, CoreInv, Sound, Changes
  <2>6. HolderInv'
    BY <1>a, <1>b, <1>d DEF IInv, TypeOK, CoresOK, HolderInv, Alive, Changes
  <2>7. FlowInv'
    BY <1>a, <1>b, <1>d DEF IInv, FlowInv, requires_root, Changes
  <2>8. RestoreInv'
    BY <1>a, <1>b, <1>d DEF IInv, TypeOK, ConfigsOK, FileInv, RestoreInv,
       Changes
  <2>9. AppliedInv'
    BY <1>a, <1>b, <1>d DEF IInv, TypeOK, CoresOK, HolderInv, AppliedInv, Changing,
       NothingRuns, StartPlaces, Owned, UpToDate, Changes
  <2>10. RunningInv'
    BY <1>a, <1>b, <1>d DEF IInv, RunningInv, SomethingRuns, Applying, RestoreInv, FlowInv,
       connections_enabled, Alive, TypeOK, CoresOK, HolderInv, Changes
  <2> QED  BY <2>1, <2>2, <2>3, <2>4, <2>5, <2>6, <2>7, <2>8, <2>9, <2>10 DEF IInv, TypeOK
<1>e. CASE /\ dropped' = dropped \union {guard} /\ guard' = NoWorker /\ pc' = "finish"
           /\ ok' = FALSE /\ UNCHANGED <<elevated, flow>>
  <2>1. ConfigsOK'
    BY <1>a, <1>b, <1>e DEF IInv, TypeOK, ConfigsOK, FileInv, Changes
  <2>2. CoresOK'
    BY <1>a, <1>b, <1>e DEF IInv, TypeOK, CoresOK, Changes
  <2>3. CommandOK'
    BY <1>a, <1>b, <1>e DEF IInv, TypeOK, CommandOK, Changes, Places, Changes
  <2>4. FileInv'
    BY <1>a, <1>b, <1>e DEF IInv, TypeOK, ConfigsOK, FileInv, Changes
  <2>5. CoreInv'
    BY <1>a, <1>b, <1>e DEF IInv, TypeOK, CoresOK, CoreInv, Sound, Changes
  <2>6. HolderInv'
    BY <1>a, <1>b, <1>e DEF IInv, TypeOK, CoresOK, HolderInv, Alive, Changes
  <2>7. FlowInv'
    BY <1>a, <1>b, <1>e DEF IInv, FlowInv, requires_root, Changes
  <2>8. RestoreInv'
    BY <1>a, <1>b, <1>e DEF IInv, TypeOK, ConfigsOK, FileInv, RestoreInv,
       Changes
  <2>9. AppliedInv'
    BY <1>a, <1>b, <1>e DEF IInv, TypeOK, CoresOK, HolderInv, AppliedInv, Changing,
       NothingRuns, StartPlaces, Owned, UpToDate, Changes
  <2>10. RunningInv'
    BY <1>a, <1>b, <1>e DEF IInv, RunningInv, SomethingRuns, Applying, RestoreInv, FlowInv,
       connections_enabled, Alive, TypeOK, CoresOK, HolderInv, Changes
  <2> QED  BY <2>1, <2>2, <2>3, <2>4, <2>5, <2>6, <2>7, <2>8, <2>9, <2>10 DEF IInv, TypeOK
<1> QED  BY <1>c, <1>d, <1>e

\* CoreSupervisor::start.
LEMMA AskStep == ASSUME IInv, Ask PROVE IInv'
<1>a. /\ pc = "ask"
      /\ UNCHANGED <<file, local, elevated, flow, dropped, misread>>
      /\ UNCHANGED <<op, want, previous, retry_config, accepted, asked>>
  BY DEF Ask, KeepCommand, command, history
<1>b. elevated /\ local = NoCore /\ flow = "start" /\ file \in Config
  BY <1>a DEF IInv, FlowInv, HolderInv, FileInv
<1>c. CASE Alive(guard)
  <2>a. /\ guard \in Workers /\ core[guard] \in Core \union {NoCore} /\ Sound(core[guard])
        /\ worker[guard] = "alive"
    BY <1>c DEF Alive, IInv, TypeOK, CoresOK, CoreInv
  <2>b. PICK to \in Core \union {NoCore} :
          /\ core' = [core EXCEPT ![guard] = to] /\ Sound(to)
          /\ \/ pc' = "finish" /\ ok' = FALSE
             \/ /\ pc' = "settle" /\ ok' = TRUE /\ to # NoCore
                /\ core[guard] = NoCore => UpToDate(to)
    <3>1. CASE \E s \in StartResults(core[guard]) :
                 core' = [core EXCEPT ![guard] = s.to] /\ ((s.ok /\ Succeed) \/ Fail)
      <4>1. PICK s \in StartResults(core[guard]) :
              core' = [core EXCEPT ![guard] = s.to] /\ ((s.ok /\ Succeed) \/ Fail)
        BY <3>1
      <4>2. /\ s.to \in Core \union {NoCore} /\ Sound(s.to)
            /\ s.ok => s.to # NoCore
            /\ core[guard] = NoCore /\ s.ok => UpToDate(s.to)
        BY <1>b, <2>a, StartFacts
      <4> QED  BY <4>1, <4>2 DEF Succeed, Fail, Goto
    <3>2. CASE Fail /\ core' = core
      <4>1. core' = [core EXCEPT ![guard] = core[guard]]
        BY <2>a, <3>2 DEF IInv, TypeOK, CoresOK
      <4> QED  BY <2>a, <3>2, <4>1 DEF Fail, Goto
    <3> QED  BY <1>c, <3>1, <3>2 DEF Ask
  <2>c. UNCHANGED <<guard, worker, control>>
    BY <1>c DEF Ask
  <2>1. ConfigsOK'
    BY <1>a, <1>b, <2>a, <2>b, <2>c DEF IInv, TypeOK, ConfigsOK, FileInv, Changes
  <2>2. CoresOK'
    BY <1>a, <1>b, <2>a, <2>b, <2>c DEF IInv, TypeOK, CoresOK, Changes
  <2>3. CommandOK'
    BY <1>a, <1>b, <2>a, <2>b, <2>c DEF IInv, TypeOK, CommandOK, Changes, Places, Changes
  <2>4. FileInv'
    BY <1>a, <1>b, <2>a, <2>b, <2>c DEF IInv, TypeOK, ConfigsOK, FileInv, Changes
  <2>5. CoreInv'
    BY <1>a, <1>b, <2>a, <2>b, <2>c DEF IInv, TypeOK, CoresOK, CoreInv, Sound, Changes
  <2>6. HolderInv'
    BY <1>a, <1>b, <2>a, <2>b, <2>c DEF IInv, TypeOK, CoresOK, HolderInv, Alive, Changes
  <2>7. FlowInv'
    BY <1>a, <1>b, <2>a, <2>b, <2>c DEF IInv, FlowInv, requires_root, Changes
  <2>8. RestoreInv'
    BY <1>a, <1>b, <2>a, <2>b, <2>c DEF IInv, TypeOK, ConfigsOK, FileInv, RestoreInv,
       RejectedIsNotSaved, Changes
  <2>9. AppliedInv'
    BY <1>a, <1>b, <2>a, <2>b, <2>c DEF IInv, TypeOK, CoresOK, HolderInv, AppliedInv, Changing,
       NothingRuns, StartPlaces, Owned, UpToDate, Changes
  <2>10. RunningInv'
    BY <1>a, <1>b, <2>a, <2>b, <2>c DEF IInv, RunningInv, SomethingRuns, Applying, RestoreInv,
       FlowInv, connections_enabled, Alive, TypeOK, CoresOK, HolderInv, Changes
  <2> QED  BY <2>1, <2>2, <2>3, <2>4, <2>5, <2>6, <2>7, <2>8, <2>9, <2>10 DEF IInv, TypeOK
<1>d. CASE ~Alive(guard)
  <2>a. /\ core' = core /\ guard' \in Workers \union {NoWorker}
        /\ control' \in Workers \union {NoWorker}
        /\ worker' \in [Workers -> {"unborn", "alive", "dead"}]
        /\ \A w \in Workers : worker'[w] # "alive" => core[w] = NoCore
        /\ \A w \in Workers : worker'[w] = "alive" /\ w \notin dropped => w = guard'
        /\ guard' # NoWorker => core[guard'] = NoCore
        /\ (pc' = "finish" /\ ok' = FALSE) \/ (pc' = "ask" /\ ok' = ok)
    <3>0. /\ \A w \in Workers : worker[w] # "alive" => core[w] = NoCore
          /\ \A w \in Workers : worker[w] = "alive" => w \in dropped
          /\ control \in Workers \union {NoWorker}
          /\ worker \in [Workers -> {"unborn", "alive", "dead"}]
      BY <1>d DEF IInv, TypeOK, CoresOK, CoreInv, HolderInv, Alive
    <3>1. CASE guard' = NoWorker /\ Fail /\ UNCHANGED <<worker, core, control>>
      BY <3>0, <3>1 DEF Fail, Goto
    <3>2. CASE \E w \in Workers : Authorized(w) /\ UNCHANGED <<pc, ok>>
      <4>1. PICK w \in Workers : Authorized(w) /\ UNCHANGED <<pc, ok>>
        BY <3>2
      <4>2. /\ guard' = w /\ control' = w /\ core' = core /\ core[w] = NoCore
            /\ worker' \in [Workers -> {"unborn", "alive", "dead"}] /\ worker'[w] = "alive"
            /\ \A v \in Workers : v # w => worker'[v] = worker[v]
        BY <1>d, <4>1, AuthorizedFacts
      <4> QED  BY <1>a, <3>0, <4>1, <4>2
    <3> QED  BY <1>d, <3>1, <3>2 DEF Ask
  <2>1. ConfigsOK'
    BY <1>a, <1>b, <2>a DEF IInv, TypeOK, ConfigsOK, FileInv, Changes
  <2>2. CoresOK'
    BY <1>a, <1>b, <2>a DEF IInv, TypeOK, CoresOK, Changes
  <2>3. CommandOK'
    BY <1>a, <1>b, <2>a DEF IInv, TypeOK, CommandOK, Changes, Places, Changes
  <2>4. FileInv'
    BY <1>a, <1>b, <2>a DEF IInv, TypeOK, ConfigsOK, FileInv, Changes
  <2>5. CoreInv'
    BY <1>a, <1>b, <2>a DEF IInv, TypeOK, CoresOK, CoreInv, Sound, Changes
  <2>6. HolderInv'
    BY <1>a, <1>b, <2>a DEF IInv, TypeOK, CoresOK, HolderInv, Alive, Changes
  <2>7. FlowInv'
    BY <1>a, <1>b, <2>a DEF IInv, FlowInv, requires_root, Changes
  <2>8. RestoreInv'
    BY <1>a, <1>b, <2>a DEF IInv, TypeOK, ConfigsOK, FileInv, RestoreInv,
       Changes
  <2>9. AppliedInv'
    BY <1>a, <1>b, <2>a DEF IInv, TypeOK, CoresOK, HolderInv, AppliedInv, Changing,
       NothingRuns, StartPlaces, Owned, UpToDate, Changes
  <2>10. RunningInv'
    BY <1>a, <1>b, <2>a DEF IInv, RunningInv, SomethingRuns, Applying, RestoreInv, FlowInv,
       connections_enabled, Alive, TypeOK, CoresOK, HolderInv, Changes
  <2> QED  BY <2>1, <2>2, <2>3, <2>4, <2>5, <2>6, <2>7, <2>8, <2>9, <2>10 DEF IInv, TypeOK
<1> QED  BY <1>c, <1>d

\* CoreRuntime::start in this process.
LEMMA StartLocalStep == ASSUME IInv, StartLocal PROVE IInv'
<1>a. /\ pc = "start_local"
      /\ UNCHANGED <<file, elevated, guard, worker, core, control, flow, dropped, misread>>
      /\ UNCHANGED <<op, want, previous, retry_config, accepted, asked>>
  BY DEF StartLocal, KeepCommand, command, history
<1>b. /\ ~elevated /\ guard = NoWorker /\ file \in Config
      /\ local \in Core \union {NoCore} /\ Sound(local)
  BY <1>a DEF IInv, TypeOK, CoresOK, FlowInv, HolderInv, FileInv, CoreInv
<1>c. /\ local' \in Core \union {NoCore} /\ Sound(local')
      /\ \/ pc' = "finish" /\ ok' = FALSE
         \/ /\ pc' = "settle" /\ ok' = TRUE /\ local' # NoCore
            /\ local = NoCore => UpToDate(local')
  <2>1. PICK s \in StartResults(local) : local' = s.to /\ IF s.ok THEN Succeed ELSE Fail
    BY DEF StartLocal
  <2>2. /\ s.to \in Core \union {NoCore} /\ Sound(s.to)
        /\ s.ok => s.to # NoCore
        /\ local = NoCore /\ s.ok => UpToDate(s.to)
    BY <1>b, StartFacts
  <2> QED  BY <2>1, <2>2 DEF Succeed, Fail, Goto
<1>1. ConfigsOK'
  BY <1>a, <1>b, <1>c DEF IInv, TypeOK, ConfigsOK, FileInv, Changes
<1>2. CoresOK'
  BY <1>a, <1>b, <1>c DEF IInv, TypeOK, CoresOK, Changes
<1>3. CommandOK'
  BY <1>a, <1>b, <1>c DEF IInv, TypeOK, CommandOK, Changes, Places, Changes
<1>4. FileInv'
  BY <1>a, <1>b, <1>c DEF IInv, TypeOK, ConfigsOK, FileInv, Changes
<1>5. CoreInv'
  BY <1>a, <1>b, <1>c DEF IInv, TypeOK, CoresOK, CoreInv, Sound, Changes
<1>6. HolderInv'
  BY <1>a, <1>b, <1>c DEF IInv, TypeOK, CoresOK, HolderInv, Alive, Changes
<1>7. FlowInv'
  BY <1>a, <1>b, <1>c DEF IInv, FlowInv, requires_root, Changes
<1>8. RestoreInv'
  BY <1>a, <1>b, <1>c DEF IInv, TypeOK, ConfigsOK, FileInv, RestoreInv,
     Changes
<1>9. AppliedInv'
  BY <1>a, <1>b, <1>c DEF IInv, TypeOK, CoresOK, HolderInv, AppliedInv, Changing, NothingRuns,
     StartPlaces, Owned, UpToDate, Changes
<1>10. RunningInv'
  BY <1>a, <1>b, <1>c DEF IInv, RunningInv, SomethingRuns, Applying, RestoreInv, FlowInv,
     connections_enabled, Alive, TypeOK, CoresOK, HolderInv, Changes
<1> QED  BY <1>1, <1>2, <1>3, <1>4, <1>5, <1>6, <1>7, <1>8, <1>9, <1>10 DEF IInv, TypeOK

\* Client::apply up to its call of the core.
LEMMA ApplyStep == ASSUME IInv, Apply PROVE IInv'
<1>a. /\ pc = "apply"
      /\ UNCHANGED <<file, local, flow, ok>>
      /\ UNCHANGED <<op, want, previous, retry_config, accepted, asked>>
  BY DEF Apply, KeepCommand, command, history
<1>b. CASE elevated /\ ~requires_root(file)
  <2>c. /\ shutdown /\ misread' \in BOOLEAN
        /\ \/ pc' = "start_local"
           \/ pc' = "apply_core" /\ (op \in {"save", "retry"} => misread')
    <3>1. PICK status \in Answers :
            /\ Read(status) /\ shutdown
            /\ pc' = IF status.running THEN "start_local" ELSE "apply_core"
      BY <1>b DEF Apply, Goto
    <3>2. /\ status.running \in BOOLEAN /\ status.failed \in BOOLEAN
          /\ ~status.failed /\ guard # NoWorker =>
                Alive(guard) /\ status.running = (core[guard] # NoCore)
      BY <1>a, <1>b, AnswerFacts
    <3>3. misread' \in BOOLEAN /\ (op \in {"save", "retry"} /\ ~misread' =>
                                        ~misread /\ ~status.failed)
      BY <3>1, <3>2, ReadFacts
    <3>4. op \in {"save", "retry"} /\ ~misread => SomethingRuns /\ guard # NoWorker
      BY <1>a, <1>b DEF IInv, RunningInv, Applying
    <3>5. local = NoCore
      BY <1>b DEF IInv, HolderInv
    <3> QED  BY <3>1, <3>2, <3>3, <3>4, <3>5 DEF SomethingRuns
  <2>a. /\ elevated' = FALSE /\ guard' = NoWorker
        /\ worker' \in [Workers -> {"unborn", "alive", "dead"}]
        /\ core' \in [Workers -> Core \union {NoCore}]
        /\ control' \in Workers \union {NoWorker} /\ dropped' \subseteq Workers
        /\ \A w \in Workers : /\ core'[w] \in {core[w], NoCore}
                              /\ worker'[w] # "alive" => core'[w] = NoCore
                              /\ worker'[w] = "alive" => w \in dropped'
    BY <2>c, ShutdownFacts
  <2>b. local = NoCore
    BY <1>b DEF IInv, HolderInv
  <2>1. ConfigsOK'
    BY <1>a, <1>b, <2>a, <2>b, <2>c DEF IInv, TypeOK, ConfigsOK, FileInv, Changes
  <2>2. CoresOK'
    BY <1>a, <1>b, <2>a, <2>b, <2>c DEF IInv, TypeOK, CoresOK, Changes
  <2>3. CommandOK'
    BY <1>a, <1>b, <2>a, <2>b, <2>c DEF IInv, TypeOK, CommandOK, Changes, Places, Changes
  <2>4. FileInv'
    BY <1>a, <1>b, <2>a, <2>b, <2>c DEF IInv, TypeOK, ConfigsOK, FileInv, Changes
  <2>5. CoreInv'
    BY <1>a, <1>b, <2>a, <2>b, <2>c DEF IInv, TypeOK, CoresOK, CoreInv, Sound, Changes
  <2>6. HolderInv'
    BY <1>a, <1>b, <2>a, <2>b, <2>c DEF IInv, TypeOK, CoresOK, HolderInv, Alive, Changes
  <2>7. FlowInv'
    BY <1>a, <1>b, <2>a, <2>b, <2>c DEF IInv, FlowInv, requires_root, Changes
  <2>8. RestoreInv'
    BY <1>a, <1>b, <2>a, <2>b, <2>c DEF IInv, TypeOK, ConfigsOK, FileInv, RestoreInv,
       RejectedIsNotSaved, Changes
  <2>9. AppliedInv'
    BY <1>a, <1>b, <2>a, <2>b, <2>c DEF IInv, TypeOK, CoresOK, HolderInv, AppliedInv, Changing,
       NothingRuns, StartPlaces, Owned, UpToDate, Changes
  <2>10. RunningInv'
    BY <1>a, <1>b, <2>a, <2>b, <2>c, WorkerAssumption DEF IInv, RunningInv, SomethingRuns,
       Applying, RestoreInv, FlowInv, connections_enabled, Alive, TypeOK, CoresOK, HolderInv,
       Changes <2> QED  BY <2>1, <2>2, <2>3, <2>4, <2>5, <2>6, <2>7, <2>8, <2>9, <2>10 DEF
       IInv, TypeOK
<1>c. CASE ~ (elevated /\ ~requires_root(file))
  <2>d. PICK status \in Answers :
          /\ Status(status) /\ pc' = IF status.running THEN "authorize" ELSE "apply_core"
          /\ UNCHANGED <<elevated, worker, core, control, dropped>>
    BY <1>c DEF Apply, Goto
  <2>e. /\ status.running \in BOOLEAN /\ status.failed \in BOOLEAN
        /\ ~status.running => NothingRuns
        /\ status.running /\ ~status.failed =>
               SomethingRuns /\ (elevated => guard # NoWorker /\ Alive(guard))
        /\ ~status.failed /\ elevated /\ guard # NoWorker =>
               Alive(guard) /\ status.running = (core[guard] # NoCore)
        /\ ~elevated => status.failed = FALSE /\ status.running = (local # NoCore)
    BY <1>a, AnswerFacts
  <2>f. /\ misread' \in BOOLEAN
        /\ op \in {"save", "retry"} /\ ~misread' => ~misread /\ ~status.failed
    BY <2>d, <2>e, ReadFacts DEF Status
  <2>a. /\ UNCHANGED <<elevated, worker, core, control, dropped>> /\ misread' \in BOOLEAN
        /\ \/ pc' = "authorize"
           \/ pc' = "apply_core" /\ (~elevated => local = NoCore)
        /\ op \in {"save", "retry"} /\ ~misread' =>
               SomethingRuns /\ (elevated => guard # NoWorker /\ Alive(guard))
    <3>1. op \in {"save", "retry"} /\ ~misread => SomethingRuns /\ (elevated => guard # NoWorker)
      BY <1>a DEF IInv, RunningInv, Applying
    <3> QED  BY <2>d, <2>e, <2>f, <3>1
  <2>b. /\ guard' \in Workers \union {NoWorker} /\ guard' \in {guard, NoWorker}
        /\ guard' # guard => ~Alive(guard) /\ elevated
        /\ ~elevated => guard' = NoWorker
    BY <1>a, <2>d, ForgetFacts DEF Status
  <2>c. flow = "apply"
    BY <1>a DEF IInv, FlowInv
  <2>1. ConfigsOK'
    BY <1>a, <1>c, <2>a, <2>b, <2>c DEF IInv, TypeOK, ConfigsOK, FileInv, Changes
  <2>2. CoresOK'
    BY <1>a, <1>c, <2>a, <2>b, <2>c DEF IInv, TypeOK, CoresOK, Changes
  <2>3. CommandOK'
    BY <1>a, <1>c, <2>a, <2>b, <2>c DEF IInv, TypeOK, CommandOK, Changes, Places, Changes
  <2>4. FileInv'
    BY <1>a, <1>c, <2>a, <2>b, <2>c DEF IInv, TypeOK, ConfigsOK, FileInv, Changes
  <2>5. CoreInv'
    BY <1>a, <1>c, <2>a, <2>b, <2>c DEF IInv, TypeOK, CoresOK, CoreInv, Sound, Changes
  <2>6. HolderInv'
    BY <1>a, <1>c, <2>a, <2>b, <2>c DEF IInv, TypeOK, CoresOK, HolderInv, Alive, Changes
  <2>7. FlowInv'
    BY <1>a, <1>c, <2>a, <2>b, <2>c DEF IInv, FlowInv, requires_root, Changes
  <2>8. RestoreInv'
    BY <1>a, <1>c, <2>a, <2>b, <2>c DEF IInv, TypeOK, ConfigsOK, FileInv, RestoreInv,
       RejectedIsNotSaved, Changes
  <2>9. AppliedInv'
    BY <1>a, <1>c, <2>a, <2>b, <2>c DEF IInv, TypeOK, CoresOK, HolderInv, AppliedInv, Changing,
       NothingRuns, StartPlaces, Owned, UpToDate, Changes
  <2>10. RunningInv'
    BY <1>a, <1>c, <2>a, <2>b, <2>c, WorkerAssumption DEF IInv, RunningInv, SomethingRuns,
       Applying, RestoreInv, FlowInv, connections_enabled, Alive, TypeOK, CoresOK, HolderInv,
       Changes <2> QED  BY <2>1, <2>2, <2>3, <2>4, <2>5, <2>6, <2>7, <2>8, <2>9, <2>10 DEF
       IInv, TypeOK
<1> QED  BY <1>b, <1>c

\* CoreRuntime::apply here or in the worker.
LEMMA ApplyCoreStep == ASSUME IInv, ApplyCore PROVE IInv'
<1>a. /\ pc = "apply_core"
      /\ UNCHANGED <<file, elevated, guard, worker, control, flow, dropped, misread>>
      /\ UNCHANGED <<op, want, previous, retry_config, accepted, asked>>
  BY DEF ApplyCore, KeepCommand, command, history
<1>b. file \in Config /\ (op = "refresh") \in BOOLEAN
  BY <1>a DEF IInv, FileInv
<1>c. CASE elevated
  <2>a. local' = NoCore /\ local = NoCore /\ guard \in Workers \union {NoWorker}
    BY <1>c DEF ApplyCore, IInv, HolderInv, TypeOK, CoresOK
  <2>b. /\ core' \in [Workers -> Core \union {NoCore}]
        /\ \A w \in Workers : /\ Sound(core'[w])
                              /\ worker[w] # "alive" => core'[w] = NoCore
        /\ \/ pc' = "finish" /\ ok' = FALSE
           \/ /\ pc' = "settle" /\ ok' = TRUE
              /\ guard = NoWorker \/ core'[guard] = NoCore \/ UpToDate(core'[guard])
              /\ guard # NoWorker => Alive(guard) /\ (core[guard] # NoCore => core'[guard] # NoCore)
    <3>0. /\ core \in [Workers -> Core \union {NoCore}]
          /\ \A w \in Workers : Sound(core[w]) /\ (worker[w] # "alive" => core[w] = NoCore)
      BY DEF IInv, TypeOK, CoresOK, CoreInv
    <3>1. CASE Alive(guard) /\ \E s \in ApplyResults(core[guard], op = "refresh") :
                 core' = [core EXCEPT ![guard] = s.to] /\ ((s.ok /\ Succeed) \/ Fail)
      <4>1. PICK s \in ApplyResults(core[guard], op = "refresh") :
              core' = [core EXCEPT ![guard] = s.to] /\ ((s.ok /\ Succeed) \/ Fail)
        BY <3>1
      <4>2. /\ guard \in Workers /\ worker[guard] = "alive" /\ Sound(core[guard])
            /\ core[guard] \in Core \union {NoCore}
        BY <3>0, <3>1 DEF Alive
      <4>3. /\ s.to \in Core \union {NoCore} /\ Sound(s.to)
            /\ (core[guard] = NoCore) = (s.to = NoCore)
            /\ s.to # NoCore /\ s.ok => UpToDate(s.to)
        BY <1>b, <4>2, ApplyFacts
      <4>4. core'[guard] = s.to /\ \A w \in Workers : w # guard => core'[w] = core[w]
        BY <3>0, <4>1, <4>2
      <4>5. core' \in [Workers -> Core \union {NoCore}]
        BY <3>0, <4>1, <4>3
      <4>6. (pc' = "settle" /\ ok' = TRUE /\ s.ok) \/ (pc' = "finish" /\ ok' = FALSE)
        BY <4>1 DEF Succeed, Fail, Goto
      <4>7. \A w \in Workers : Sound(core'[w]) /\ (worker[w] # "alive" => core'[w] = NoCore)
        BY <3>0, <4>2, <4>3, <4>4
      <4> QED  BY <3>1, <4>3, <4>4, <4>5, <4>6, <4>7
    <3>2. CASE guard # NoWorker /\ Fail /\ core' = core
      BY <3>0, <3>2 DEF Fail, Goto
    <3>3. CASE guard = NoWorker /\ Succeed /\ core' = core
      BY <3>0, <3>3 DEF Succeed, Goto
    <3> QED  BY <1>c, <3>1, <3>2, <3>3 DEF ApplyCore
  <2>1. ConfigsOK'
    BY <1>a, <1>b, <1>c, <2>a, <2>b DEF IInv, TypeOK, ConfigsOK, FileInv, Changes
  <2>2. CoresOK'
    BY <1>a, <1>b, <1>c, <2>a, <2>b DEF IInv, TypeOK, CoresOK, Changes
  <2>3. CommandOK'
    BY <1>a, <1>b, <1>c, <2>a, <2>b DEF IInv, TypeOK, CommandOK, Changes, Places, Changes
  <2>4. FileInv'
    BY <1>a, <1>b, <1>c, <2>a, <2>b DEF IInv, TypeOK, ConfigsOK, FileInv, Changes
  <2>5. CoreInv'
    BY <1>a, <1>b, <1>c, <2>a, <2>b DEF IInv, TypeOK, CoresOK, CoreInv, Sound, Changes
  <2>6. HolderInv'
    BY <1>a, <1>b, <1>c, <2>a, <2>b DEF IInv, TypeOK, CoresOK, HolderInv, Alive, Changes
  <2>7. FlowInv'
    BY <1>a, <1>b, <1>c, <2>a, <2>b DEF IInv, FlowInv, requires_root, Changes
  <2>8. RestoreInv'
    BY <1>a, <1>b, <1>c, <2>a, <2>b DEF IInv, TypeOK, ConfigsOK, FileInv, RestoreInv,
       RejectedIsNotSaved, Changes
  <2>9. AppliedInv'
    BY <1>a, <1>b, <1>c, <2>a, <2>b DEF IInv, TypeOK, CoresOK, HolderInv, AppliedInv, Changing,
       NothingRuns, StartPlaces, Owned, UpToDate, Changes
  <2>10. RunningInv'
    BY <1>a, <1>b, <1>c, <2>a, <2>b DEF IInv, RunningInv, SomethingRuns, Applying, RestoreInv,
       FlowInv, connections_enabled, Alive, TypeOK, CoresOK, HolderInv, Changes
  <2> QED  BY <2>1, <2>2, <2>3, <2>4, <2>5, <2>6, <2>7, <2>8, <2>9, <2>10 DEF IInv, TypeOK
<1>d. CASE ~elevated
  <2>a. guard = NoWorker /\ core' = core
    BY <1>a, <1>d DEF ApplyCore, IInv, HolderInv
  <2>b. /\ local' \in Core \union {NoCore} /\ Sound(local')
        /\ \/ pc' = "finish" /\ ok' = FALSE
           \/ /\ pc' = "settle" /\ ok' = TRUE /\ (local' = NoCore) = (local = NoCore)
              /\ local' = NoCore \/ UpToDate(local')
    <3>1. PICK s \in ApplyResults(local, op = "refresh") :
            local' = s.to /\ IF s.ok THEN Succeed ELSE Fail
      BY <1>d DEF ApplyCore
    <3>2. local \in Core \union {NoCore} /\ Sound(local)
      BY DEF IInv, TypeOK, CoresOK, CoreInv
    <3>3. /\ s.to \in Core \union {NoCore} /\ Sound(s.to)
          /\ (local = NoCore) = (s.to = NoCore)
          /\ s.to # NoCore /\ s.ok => UpToDate(s.to)
      BY <1>b, <3>2, ApplyFacts
    <3> QED  BY <3>1, <3>3 DEF Succeed, Fail, Goto
  <2>1. ConfigsOK'
    BY <1>a, <1>b, <1>d, <2>a, <2>b DEF IInv, TypeOK, ConfigsOK, FileInv, Changes
  <2>2. CoresOK'
    BY <1>a, <1>b, <1>d, <2>a, <2>b DEF IInv, TypeOK, CoresOK, Changes
  <2>3. CommandOK'
    BY <1>a, <1>b, <1>d, <2>a, <2>b DEF IInv, TypeOK, CommandOK, Changes, Places, Changes
  <2>4. FileInv'
    BY <1>a, <1>b, <1>d, <2>a, <2>b DEF IInv, TypeOK, ConfigsOK, FileInv, Changes
  <2>5. CoreInv'
    BY <1>a, <1>b, <1>d, <2>a, <2>b DEF IInv, TypeOK, CoresOK, CoreInv, Sound, Changes
  <2>6. HolderInv'
    BY <1>a, <1>b, <1>d, <2>a, <2>b DEF IInv, TypeOK, CoresOK, HolderInv, Alive, Changes
  <2>7. FlowInv'
    BY <1>a, <1>b, <1>d, <2>a, <2>b DEF IInv, FlowInv, requires_root, Changes
  <2>8. RestoreInv'
    BY <1>a, <1>b, <1>d, <2>a, <2>b DEF IInv, TypeOK, ConfigsOK, FileInv, RestoreInv,
       RejectedIsNotSaved, Changes
  <2>9. AppliedInv'
    BY <1>a, <1>b, <1>d, <2>a, <2>b DEF IInv, TypeOK, CoresOK, HolderInv, AppliedInv, Changing,
       NothingRuns, StartPlaces, Owned, UpToDate, Changes
  <2>10. RunningInv'
    BY <1>a, <1>b, <1>d, <2>a, <2>b DEF IInv, RunningInv, SomethingRuns, Applying, RestoreInv,
       FlowInv, connections_enabled, Alive, TypeOK, CoresOK, HolderInv, Changes
  <2> QED  BY <2>1, <2>2, <2>3, <2>4, <2>5, <2>6, <2>7, <2>8, <2>9, <2>10 DEF IInv, TypeOK
<1> QED  BY <1>c, <1>d

-----------------------------------------------------------------------------
(* The theorems.                                                             *)

LEMMA Start == Init => IInv
<1> SUFFICES ASSUME Init PROVE IInv
  OBVIOUS
<1>1. ConfigsOK /\ CoresOK
  BY RequestAssumption DEF Init, ConfigsOK, CoresOK
<1>a. asked \in BOOLEAN
  BY DEF Init
<1>b. /\ op = "none" /\ pc = "off" /\ flow = "none" /\ ok = TRUE /\ misread = FALSE
  BY Zenon DEF Init
<1>c. CommandOK
  <2>1. /\ op \in Changes \union {"none", "launch", "refresh"} /\ pc \in Places
        /\ flow \in {"none", "start", "apply"}
    BY <1>b DEF Places
  <2> QED  BY <1>a, <1>b, <2>1, Zenon DEF CommandOK
<1>2. FileInv /\ FlowInv /\ RestoreInv /\ AppliedInv /\ RunningInv
  BY DEF Init, FileInv, FlowInv, RestoreInv, AppliedInv, RunningInv, Changes, Changing
<1>3. CoreInv /\ HolderInv
  BY DEF Init, CoreInv, Sound, HolderInv, Alive
<1> QED  BY <1>1, <1>c, <1>2, <1>3 DEF IInv, TypeOK

LEMMA Step == IInv /\ [Next]_vars => IInv'
<1> SUFFICES ASSUME IInv, [Next]_vars PROVE IInv'
  OBVIOUS
<1>1. CASE UNCHANGED vars
  <2>1. /\ UNCHANGED <<file, pc, flow, ok, dropped, misread>>
        /\ UNCHANGED <<local, elevated, guard, worker, core, control>>
        /\ UNCHANGED <<op, want, previous, retry_config, accepted, asked>>
    BY <1>1 DEF vars, cores, command, history
  <2>2. TypeOK'
    BY <2>1 DEF IInv, TypeOK, ConfigsOK, CoresOK, CommandOK
  <2>3. (FileInv /\ CoreInv /\ HolderInv)'
    BY <2>1 DEF IInv, FileInv, CoreInv, Sound, HolderInv, Alive
  <2>4. (FlowInv /\ RestoreInv)'
    BY <2>1 DEF IInv, FlowInv, requires_root, RestoreInv
  <2>5. AppliedInv'
    BY <2>1 DEF IInv, AppliedInv, Changing, NothingRuns, Owned, UpToDate
  <2>6. RunningInv'
    BY <2>1 DEF IInv, RunningInv, Applying, SomethingRuns, Alive, connections_enabled
  <2> QED  BY <2>2, <2>3, <2>4, <2>5, <2>6 DEF IInv
<1>2. CASE \E c \in Requests : Request("save", c)
  BY <1>2, RequestStep, RequestAssumption
<1>3. CASE retry_config # NoConfig /\ Request("retry", retry_config)
  <2>1. retry_config \in Config
    BY <1>3 DEF IInv, TypeOK, ConfigsOK
  <2> QED  BY <1>3, <2>1, RequestStep
<1>4. CASE pc = "idle" /\ \E c \in {WithoutProxy(file), WithoutMesh(file)} : ControlService(c)
  <2>1. file \in Config
    BY <1>4 DEF IInv, FileInv
  <2>2. WithoutProxy(file) \in Config /\ WithoutMesh(file) \in Config
    BY <2>1, ConfigFacts
  <2> QED  BY <1>4, <2>2, ControlServiceStep
<1>5. CASE \/ New \/ RefreshProxies \/ Shutdown \/ Crash \/ Tick \/ ProxyDies
           \/ \E w \in Workers : WorkerDies(w)
  BY <1>5, NewStep, RefreshStep, ShutdownStep, CrashStep, TickStep, ProxyDiesStep, WorkerDiesStep
<1>6. CASE ClientStep
  BY <1>6, StartupStep, SaveStep, ChooseStep, SettleStep, FinishStep, StopStep, ReleaseStep,
     ReauthorizeStep, AuthorizeStep, HandoverStep, AskStep, StartLocalStep, ApplyStep,
     ApplyCoreStep DEF ClientStep
<1> QED  BY <1>1, <1>2, <1>3, <1>4, <1>5, <1>6 DEF Next

\* The inductive invariant of the command loop, Client::start, apply and stop.
THEOREM InvCorrect == Spec => []IInv
  BY Start, Step, PTL DEF Spec

\* OneCore follows: an elevated client has no local core, one that is not holds at
\* most a worker without a core.
LEMMA CoresAreOne == IInv => OneCore
<1> SUFFICES ASSUME IInv PROVE Cardinality({r \in Owned : r # NoCore}) <= 1
  BY DEF IInv, HolderInv, OneCore
<1>1. PICK r : {q \in Owned : q # NoCore} \subseteq {r}
  <2>1. CASE elevated
    <3>1. \A q \in {q \in Owned : q # NoCore} : q = core[guard]
      BY <2>1 DEF IInv, HolderInv, Owned
    <3> QED  BY <3>1
  <2>2. CASE ~elevated
    <3>1. \A q \in {q \in Owned : q # NoCore} : q = local
      BY <2>2 DEF IInv, HolderInv, Owned
    <3> QED  BY <3>1
  <2> QED  BY <2>1, <2>2
<1>2. IsFiniteSet({r}) /\ Cardinality({r}) = 1
  BY FS_Singleton
<1>3. /\ IsFiniteSet({q \in Owned : q # NoCore})
      /\ Cardinality({q \in Owned : q # NoCore}) <= Cardinality({r})
  BY <1>1, <1>2, FS_Subset
<1> QED  BY <1>2, <1>3, FS_CardinalityType

\* The handover between the local core and the helper's worker never leaves two
\* cores, and apply_change and finish_change never leave a rejected change in the
\* file, whatever fails, dies or is killed in between.
THEOREM SafetyCorrect == Spec => []SafetyInv
<1>1. IInv => SafetyInv
  BY CoresAreOne DEF IInv, RestoreInv, SafetyInv, RejectedIsNotSaved
<1> QED  BY <1>1, InvCorrect, PTL

\* A change or a pause that finish_change reports as done is what the cores of the
\* client have applied; and a save or a retry that enables a connection left a core
\* running, unless a status it read was CoreStatus::failed.
THEOREM AppliedCorrect == Spec => []AppliedIsSaved
<1>1. IInv => AppliedIsSaved
  BY DEF IInv, AppliedInv, RunningInv, AppliedIsSaved, Changing
<1> QED  BY <1>1, InvCorrect, PTL

\* Only the refresh of subscriptions, which skips authorize_if_needed, can bring up
\* in this process what needs root.
LEMMA LocalStep ==
    ASSUME IInv, Next, ~LocalNeedsRoot, LocalNeedsRoot'
    PROVE  op = "refresh"
<1>1. local' # NoCore /\ local' # local
  <2>1. local' # NoCore /\ NeedsRoot(local')
    BY DEF LocalNeedsRoot, NeedsRoot
  <2> QED  BY <2>1 DEF LocalNeedsRoot
<1>2. StartLocal \/ ApplyCore \/ ProxyDies
  BY <1>1 DEF Next, New, Request, ControlService, RefreshProxies, Shutdown, ClientStep, Startup,
     SaveChange, Choose, Settle, finish_change, RestoreFails, Loop, Tick, Stop, Release,
     Reauthorize, authorize_if_needed, Handover, Ask, Apply, WorkerDies, Crash, cores
<1>3. local \in Core \union {NoCore} /\ Sound(local) /\ (local # NoCore => ~NeedsRoot(local))
  BY DEF IInv, TypeOK, CoresOK, CoreInv, LocalNeedsRoot
<1>4. NeedsRoot(local') /\ file' = file
  BY <1>2 DEF LocalNeedsRoot, NeedsRoot, StartLocal, ApplyCore, ProxyDies
<1>5. CASE StartLocal
  <2>1. file \in Config /\ ~requires_root(file)
    BY <1>5 DEF StartLocal, IInv, FileInv, FlowInv
  <2>2. PICK s \in StartResults(local) : local' = s.to
    BY <1>5 DEF StartLocal
  <2>3. /\ local # NoCore => s.to = local
        /\ local = NoCore /\ s.to # NoCore /\ NeedsRoot(s.to) => requires_root(file)
    BY <1>3, <2>1, StartFacts
  <2> QED  BY <1>1, <1>4, <2>1, <2>2, <2>3
<1>6. CASE ApplyCore
  <2>1. /\ file \in Config /\ ~elevated
        /\ op # "refresh" => local = NoCore \/ ~requires_root(file)
    BY <1>1, <1>6 DEF ApplyCore, IInv, FileInv, FlowInv
  <2>2. PICK s \in ApplyResults(local, op = "refresh") : local' = s.to
    BY <1>6, <2>1 DEF ApplyCore
  <2>3. (op = "refresh") \in BOOLEAN
    OBVIOUS
  <2>4. /\ (local = NoCore) = (s.to = NoCore)
        /\ local # NoCore /\ ~requires_root(file) /\ NeedsRoot(s.to) => NeedsRoot(local)
    BY <1>3, <2>1, <2>3, ApplyFacts
  <2> QED  BY <1>1, <1>3, <1>4, <2>1, <2>2, <2>4
<1>7. CASE ProxyDies
  <2>1. ProxyUp(local) /\ local' = Lost(local)
    BY <1>1, <1>7 DEF ProxyDies
  <2>2. local \in Core /\ local # NoCore
    BY <1>3, <2>1 DEF ProxyUp
  <2>3. local'.stack = "dead" /\ local'.mesh = local.mesh
    BY <2>1 DEF Lost, Running
  <2> QED  BY <1>3, <1>4, <2>2, <2>3 DEF NeedsRoot
<1> QED  BY <1>2, <1>5, <1>6, <1>7

\* No start, change, retry or pause makes the unprivileged core run what needs root:
\* authorize_if_needed and release_unneeded_privileges stand before it.
THEOREM LocalUnprivileged == Spec => ChangesKeepLocalUnprivileged
<1>1. IInv /\ [Next]_vars => [~LocalNeedsRoot /\ LocalNeedsRoot' => op = "refresh"]_vars
  BY LocalStep
<1> QED  BY <1>1, InvCorrect, PTL DEF Spec, ChangesKeepLocalUnprivileged

=============================================================================
