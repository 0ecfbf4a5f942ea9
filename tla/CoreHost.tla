------------------------------ MODULE CoreHost ------------------------------
(* The privileged core host and its supervisors (src/runtime.rs run_inner    *)
(* and CoreSupervisor, src/daemon.rs). An unprivileged WebUI or desktop      *)
(* process spawns a host process through sudo and controls it over a         *)
(* loopback endpoint that a control file in the data directory names. The    *)
(* file, the processes and the request queue are shared by every supervisor  *)
(* of that directory. What a command does to the components is CoreRuntime;  *)
(* here a host's components are up or not.                                   *)
EXTENDS Naturals, Sequences, SequencesExt

CONSTANTS
    Procs,          \* supervisor processes; each lives once
    Desktop,        \* those that are desktop clients, the others are WebUIs
    Hosts,          \* host processes that can be spawned
    NoProc, NoHost,
    Commands,       \* the component commands the supervisors send
    MaxQueue,       \* bound on the connections waiting at one host
    Overlap         \* may two supervisors be alive at the same time

ASSUME ProcAssumption == Desktop \subseteq Procs /\ NoProc \notin Procs
ASSUME HostAssumption == NoHost \notin Hosts
ASSUME CommandAssumption ==
    Commands \subseteq {"components-start", "components-stop", "components-restart",
                       "components-apply", "proxy-apply"}
ASSUME BoundAssumption == MaxQueue \in Nat \ {0} /\ Overlap \in BOOLEAN

VARIABLES
    control,        \* the host the control file names
    sup,            \* where each supervisor stands
    guard,          \* CoreSupervisor.running: its PrivilegedChild
    child,          \* the child it is spawning or shutting down
    host,           \* where each host process stands
    parent,         \* --core-parent-pid
    queue,          \* connections waiting at its control listener, in order
    busy,           \* the request being executed under the core's mutex
    told,           \* the shutdown channel was used or dropped
    up,             \* its components run
    issued, done    \* history: the last command sent to it, and executed

supVars == <<sup, guard, child>>
hostVars == <<host, parent, queue, busy, told, up, done>>
vars == <<control, supVars, hostVars, issued>>

NoCommand == "none"
Request == [cmd: Commands \union {"stop"}, from: Procs \union {NoProc}]
NoRequest == [cmd |-> NoCommand, from |-> NoProc]

Dead == {"exited", "killed"}
Alive(p) == sup[p] \notin {"off", "gone"}

\* The listener is there until the stop command or a failing accept() ended its
\* loop, or the main task aborted it.
Listening(h) == host[h] \in {"serving", "locking"} /\ ~told[h]

SupervisorsOK ==
    /\ sup \in [Procs -> {"off", "idle", "probe", "unlink", "spawn", "await",
                          "ask", "shut_ask", "shut_poll", "shut_unlink", "gone"}]
    /\ guard \in [Procs -> Hosts \union {NoHost}]
    /\ child \in [Procs -> Hosts \union {NoHost}]
    /\ \A p \in Procs : sup[p] \in {"await", "shut_ask", "shut_poll"} => child[p] \in Hosts
HostsOK ==
    /\ control \in Hosts \union {NoHost}
    /\ host \in [Hosts -> {"unborn", "boot", "serving", "locking", "closing",
                          "stopping"} \union Dead]
    /\ parent \in [Hosts -> Procs \union {NoProc}]
    /\ told \in [Hosts -> BOOLEAN] /\ up \in [Hosts -> BOOLEAN]
QueuesOK ==
    /\ queue \in [Hosts -> Seq(Request)]
    /\ busy \in [Hosts -> {r \in Request : r.cmd # "stop"} \union {NoRequest}]
    /\ issued \in [Hosts -> Commands \union {NoCommand}]
    /\ done \in [Hosts -> Commands \union {NoCommand}]
    /\ \A h \in Hosts : /\ Len(queue[h]) <= MaxQueue
                        /\ queue[h] # <<>> => Listening(h)

\* Every variable is in its range, a supervisor that waits for a child has one,
\* and a listener that is gone holds no connection.
TypeOK == SupervisorsOK /\ HostsOK /\ QueuesOK

Init ==
    /\ control = NoHost
    /\ sup = [p \in Procs |-> "off"]
    /\ guard = [p \in Procs |-> NoHost] /\ child = [p \in Procs |-> NoHost]
    /\ host = [h \in Hosts |-> "unborn"] /\ parent = [h \in Hosts |-> NoProc]
    /\ queue = [h \in Hosts |-> <<>>] /\ busy = [h \in Hosts |-> NoRequest]
    /\ told = [h \in Hosts |-> FALSE] /\ up = [h \in Hosts |-> FALSE]
    /\ issued = [h \in Hosts |-> NoCommand] /\ done = [h \in Hosts |-> NoCommand]

SupAt(p, place) == sup' = [sup EXCEPT ![p] = place]
HostAt(h, place) == host' = [host EXCEPT ![h] = place]

-----------------------------------------------------------------------------
(* CoreSupervisor::initialize and spawn_privileged_child.                    *)

Launch(p) ==
    /\ sup[p] = "off"
    /\ Overlap \/ \A q \in Procs : ~Alive(q)
    /\ SupAt(p, "idle")
    /\ UNCHANGED <<control, guard, child, hostVars, issued>>

\* A handle is reused without a look at the process behind it, except by the
\* desktop client.
initialize(p) ==
    /\ sup[p] = "idle"
    /\ \/ guard[p] = NoHost
       \/ p \in Desktop /\ guard[p] # NoHost /\ host[guard[p]] \in Dead
    /\ guard' = [guard EXCEPT ![p] = NoHost]
    /\ SupAt(p, "probe")
    /\ UNCHANGED <<control, child, hostVars, issued>>

\* Is there a control file, and does a host answer "status" behind it. A host
\* that executes a command does not answer within the 120 s.
Probe(p) ==
    /\ sup[p] = "probe"
    /\ \/ /\ control \in Hosts /\ Listening(control)
          /\ SupAt(p, "idle")
       \/ /\ control \in Hosts => (~Listening(control) \/ busy[control] # NoRequest)
          /\ SupAt(p, "unlink")
    /\ UNCHANGED <<control, guard, child, hostVars, issued>>

\* remove_control removes whatever file is there.
remove_control == control' = NoHost

ProbeUnlink(p) ==
    /\ sup[p] = "unlink"
    /\ remove_control
    /\ SupAt(p, "spawn")
    /\ UNCHANGED <<guard, child, hostVars, issued>>

Spawn(p) ==
    /\ sup[p] = "spawn"
    /\ \/ \E h \in Hosts :
            /\ host[h] = "unborn"
            /\ HostAt(h, "boot")
            /\ parent' = [parent EXCEPT ![h] = p]
            /\ child' = [child EXCEPT ![p] = h]
            /\ SupAt(p, "await")
       \/ SupAt(p, "idle") /\ UNCHANGED <<host, parent, child>>
    /\ UNCHANGED <<control, guard, queue, busy, told, up, issued, done>>

\* What a command leaves of the components, by CoreRuntime.
Outcomes(cmd, u) ==
    CASE cmd = "components-start" -> IF u THEN {TRUE} ELSE BOOLEAN
      [] cmd = "components-stop" -> {FALSE}
      [] cmd = "components-restart" -> BOOLEAN
      [] OTHER -> {u}

\* SIGKILL to the child: sudo refuses it to an unprivileged sender, so the
\* host may well live on.
Kill(h) ==
    \/ UNCHANGED hostVars
    \/ /\ host[h] \notin Dead
       /\ HostAt(h, "killed")
       /\ queue' = [queue EXCEPT ![h] = <<>>]
       /\ busy' = [busy EXCEPT ![h] = NoRequest]
       /\ \E u \in {up[h]} \union Outcomes(busy[h].cmd, up[h]) :
             up' = [up EXCEPT ![h] = u]
       /\ UNCHANGED <<parent, told, done>>

\* The loop of 45 s: any control file ends it, then the child's exit, then the
\* time.
Await(p) ==
    /\ sup[p] = "await"
    /\ SupAt(p, "idle")
    /\ child' = [child EXCEPT ![p] = NoHost]
    /\ \/ /\ control # NoHost
          /\ guard' = [guard EXCEPT ![p] = child[p]] /\ UNCHANGED hostVars
       \/ /\ control = NoHost /\ host[child[p]] \in Dead
          /\ UNCHANGED <<guard, hostVars>>
       \/ control = NoHost /\ Kill(child[p]) /\ UNCHANGED guard
    /\ UNCHANGED <<control, issued>>

-----------------------------------------------------------------------------
(* Requests: CoreSupervisor::remote and daemon::request.                     *)

\* The endpoint is whatever the control file names now, not the own child.
Send(p, cmd) ==
    /\ control \in Hosts /\ Listening(control) /\ Len(queue[control]) < MaxQueue
    /\ queue' = [queue EXCEPT ![control] = Append(@, [cmd |-> cmd, from |-> p])]

\* start, stop, restart, apply. Without a file or a listener they fail at once.
remote(p, cmd) ==
    /\ sup[p] = "idle" /\ guard[p] # NoHost
    /\ Send(p, cmd)
    /\ issued' = [issued EXCEPT ![control] = cmd]
    /\ SupAt(p, "ask")
    /\ UNCHANGED <<control, guard, child, host, parent, busy, told, up, done>>

\* The answer, a reset connection or the 120 s timeout. A request nobody waits
\* for any more stays queued at the host.
request(p) ==
    /\ sup[p] = "ask"
    /\ SupAt(p, "idle")
    /\ UNCHANGED <<control, guard, child, hostVars, issued>>

\* status() notices a child that exited.
status(p) ==
    /\ sup[p] = "idle" /\ guard[p] # NoHost /\ host[guard[p]] \in Dead
    /\ guard' = [guard EXCEPT ![p] = NoHost]
    /\ UNCHANGED <<control, sup, child, hostVars, issued>>

-----------------------------------------------------------------------------
(* CoreSupervisor::shutdown, and the end of a supervisor.                    *)

\* The "stop" request; its own failure is ignored.
shutdown(p) ==
    /\ sup[p] = "idle" /\ guard[p] # NoHost
    /\ child' = [child EXCEPT ![p] = guard[p]]
    /\ guard' = [guard EXCEPT ![p] = NoHost]
    /\ \/ Send(p, "stop") /\ SupAt(p, "shut_ask")
       \/ /\ control \in Hosts => ~Listening(control)
          /\ SupAt(p, "shut_poll") /\ UNCHANGED queue
    /\ UNCHANGED <<control, host, parent, busy, told, up, issued, done>>

ShutAsk(p) ==
    /\ sup[p] = "shut_ask"
    /\ SupAt(p, "shut_poll")
    /\ UNCHANGED <<control, guard, child, hostVars, issued>>

\* 100 polls of 100 ms.
PollExpired(p) == host[child[p]] \notin Dead

ShutPoll(p) ==
    /\ sup[p] = "shut_poll"
    /\ \/ /\ host[child[p]] \in Dead
          /\ SupAt(p, "shut_unlink") /\ UNCHANGED hostVars
       \/ /\ PollExpired(p) /\ Kill(child[p])
          /\ SupAt(p, IF host'[child[p]] \in Dead THEN "shut_unlink" ELSE "gone")
    /\ UNCHANGED <<control, guard, child, issued>>

ShutUnlink(p) ==
    /\ sup[p] = "shut_unlink"
    /\ remove_control
    /\ SupAt(p, "gone")
    /\ UNCHANGED <<guard, child, hostVars, issued>>

\* The process exits without a host, or dies at any point.
Exit(p) ==
    /\ Alive(p)
    /\ SupAt(p, "gone")
    /\ guard' = [guard EXCEPT ![p] = NoHost]
    /\ child' = [child EXCEPT ![p] = NoHost]
    /\ UNCHANGED <<control, hostVars, issued>>

\* `zay stop` on the command line, which does not wait for the host to exit.
\* Without a control file it falls back on SIGTERM: Signal below.
run_stop ==
    /\ Send(NoProc, "stop")
    /\ UNCHANGED <<control, supVars, host, parent, busy, told, up, issued, done>>

-----------------------------------------------------------------------------
(* The host: run_inner and the accept loop of start_control.                 *)

\* The control file is renamed into place over any other.
start_control(h) ==
    /\ host[h] = "boot"
    /\ \/ HostAt(h, "serving") /\ control' = h
       \/ HostAt(h, "exited") /\ UNCHANGED control
    /\ UNCHANGED <<supVars, parent, queue, busy, told, up, issued, done>>

\* Mutant: the last connection is accepted first.
Newest(q) == Len(q)

\* Which of the waiting connections is accepted.
Oldest(q) == 1
NextRequest(q) == q[Oldest(q)]

\* One connection at a time; "stop" ends the loop and resets the others. A
\* command needs the core's mutex, which the main task asked for first when it
\* is locking.
Accept(h) ==
    /\ Listening(h) /\ busy[h] = NoRequest /\ queue[h] # <<>>
    /\ LET r == NextRequest(queue[h]) IN
       \/ /\ r.cmd = "stop"
          /\ told' = [told EXCEPT ![h] = TRUE]
          /\ queue' = [queue EXCEPT ![h] = <<>>]
          /\ UNCHANGED busy
       \/ /\ r.cmd # "stop" /\ host[h] = "serving"
          /\ busy' = [busy EXCEPT ![h] = r]
          /\ queue' = [queue EXCEPT ![h] = RemoveAt(@, Oldest(@))]
          /\ UNCHANGED told
    /\ UNCHANGED <<control, supVars, host, parent, up, issued, done>>

\* accept() fails: the loop ends too and drops the shutdown channel, which the
\* main task takes for a shutdown.
AcceptFails(h) ==
    /\ Listening(h) /\ busy[h] = NoRequest
    /\ told' = [told EXCEPT ![h] = TRUE]
    /\ queue' = [queue EXCEPT ![h] = <<>>]
    /\ UNCHANGED <<control, supVars, host, parent, busy, up, issued, done>>

Executed(h) ==
    /\ busy[h] # NoRequest
    /\ up' \in {[up EXCEPT ![h] = u] : u \in Outcomes(busy[h].cmd, up[h])}
    /\ done' = [done EXCEPT ![h] = busy[h].cmd]
    /\ busy' = [busy EXCEPT ![h] = NoRequest]
    /\ UNCHANGED <<control, supVars, host, parent, queue, told, issued>>

\* Mutant: the parent is not looked at.
OnlyTold(h) == told[h]

\* The main task waits for the shutdown channel or the exit of the parent, which
\* it polls, or for a signal.
MustEnd(h) == told[h] \/ ~Alive(parent[h])

Wake(h) ==
    /\ host[h] = "serving" /\ MustEnd(h)
    /\ HostAt(h, "locking")
    /\ UNCHANGED <<control, supVars, parent, queue, busy, told, up, issued, done>>

Signal(h) ==
    /\ host[h] = "serving"
    /\ HostAt(h, "locking")
    /\ UNCHANGED <<control, supVars, parent, queue, busy, told, up, issued, done>>

\* Mutant: the mutex is not taken.
MutexIgnored(h) == TRUE

\* The core's mutex is taken before the control task is aborted.
CoreUnlocked(h) == busy[h] = NoRequest

\* What becomes of the connections the aborted listener held.
BacklogReset(h) == <<>>

Close(h) ==
    /\ host[h] = "locking" /\ CoreUnlocked(h)
    /\ HostAt(h, "closing")
    /\ queue' = [queue EXCEPT ![h] = BacklogReset(h)]
    /\ UNCHANGED <<control, supVars, parent, busy, told, up, issued, done>>

CloseUnlink(h) ==
    /\ host[h] = "closing"
    /\ remove_control
    /\ HostAt(h, "stopping")
    /\ UNCHANGED <<supVars, parent, queue, busy, told, up, issued, done>>

CloseStop(h) ==
    /\ host[h] = "stopping"
    /\ up' = [up EXCEPT ![h] = FALSE]
    /\ HostAt(h, "exited")
    /\ UNCHANGED <<control, supVars, parent, queue, busy, told, issued, done>>

-----------------------------------------------------------------------------
SpawnStep(p) ==
    Launch(p) \/ initialize(p) \/ Probe(p) \/ ProbeUnlink(p) \/ Spawn(p) \/ Await(p)
RequestStep(p) == (\E cmd \in Commands : remote(p, cmd)) \/ request(p) \/ status(p)
ShutStep(p) == ShutAsk(p) \/ ShutPoll(p) \/ ShutUnlink(p)
EndStep(h) == start_control(h) \/ Wake(h) \/ Close(h) \/ CloseUnlink(h) \/ CloseStop(h)

Next ==
    \/ \E p \in Procs : \/ SpawnStep(p) \/ RequestStep(p) \/ shutdown(p)
                        \/ ShutStep(p) \/ Exit(p)
    \/ run_stop
    \/ \E h \in Hosts : EndStep(h) \/ Accept(h) \/ AcceptFails(h) \/ Executed(h) \/ Signal(h)

\* Timers fire and unblocked tasks run. Nothing makes a command end, a user
\* act or a process die.
Fairness ==
    /\ \A p \in Procs : WF_vars(ShutStep(p))
    /\ \A h \in Hosts : WF_vars(EndStep(h))

Spec == Init /\ [][Next]_vars /\ Fairness

-----------------------------------------------------------------------------
(* Properties.                                                               *)

\* A host exits with its components stopped and no command half executed: the
\* mutex it takes before it aborts the control task lets the command finish.
ExitIsClean ==
    \A h \in Hosts : host[h] = "exited" => ~up[h] /\ busy[h] = NoRequest

\* Commands take effect in the order they were sent, those included whose sender
\* gave up waiting: an idle host is in the state the last one asked for.
LastWordWins ==
    \A h \in Hosts :
        host[h] = "serving" /\ ~told[h] /\ queue[h] = <<>> /\ busy[h] = NoRequest
            => done[h] = issued[h]

\* No host outlives its supervisor, however that ended, unless a command it
\* executes never ends.
OrphanExits ==
    \A h \in Hosts :
        []<>(busy[h] = NoRequest) =>
            ((host[h] \in {"boot", "serving"} /\ ~Alive(parent[h]))
                ~> (host[h] \in Dead))

\* shutdown() returns, even when the host never answers and never exits.
ShutdownReturns ==
    \A p \in Procs : (sup[p] = "shut_ask") ~> (sup[p] = "gone")

\* Nobody is left behind: neither the host nor the one who waits for it.
EveryoneEnds == OrphanExits /\ ShutdownReturns

-----------------------------------------------------------------------------
(* The inductive invariant behind the safety properties.                     *)

\* A command executes only in a host that serves or waits for the mutex, and a
\* host has components only between its start and its exit.
LifeInv ==
    \A h \in Hosts :
        /\ busy[h] # NoRequest => host[h] \in {"serving", "locking"} /\ ~told[h]
        /\ host[h] \in {"unborn", "boot", "exited"} => ~up[h]
        /\ host[h] \in {"unborn", "boot"} =>
              issued[h] = NoCommand /\ done[h] = NoCommand

\* Entry i is the last command among the waiting requests.
LastWaiting(q, i) ==
    i \in 1..Len(q) /\ q[i].cmd # "stop"
        /\ \A j \in (i + 1)..Len(q) : q[j].cmd = "stop"

\* The last command on its way to a host that listens - waiting, executing or
\* executed - is the last one that was sent to it.
Ordered(h) ==
    Listening(h) =>
        /\ \A i \in 1..Len(queue[h]) :
              LastWaiting(queue[h], i) => queue[h][i].cmd = issued[h]
        /\ (\A i \in 1..Len(queue[h]) : queue[h][i].cmd = "stop") =>
              issued[h] = IF busy[h] # NoRequest THEN busy[h].cmd ELSE done[h]
OrderInv == \A h \in Hosts : Ordered(h)

\* A command runs only under a listener that still holds the core, and what is
\* queued, executing and executed lines up with what was sent.
SafetyInv == LifeInv /\ OrderInv

-----------------------------------------------------------------------------
(* What a comment or a message of the code says and the code does not keep.  *)

\* "another Zay core already manages this data directory": the check before a
\* spawn misses no live host whose components run. A host that ends aborts its
\* listener and removes its control file before it stops its components, and a
\* host that executes a long command does not answer.
CheckFindsCore ==
    [][\A p \in Procs : sup[p] = "probe" /\ sup'[p] = "unlink" =>
          \A h \in Hosts : up[h] => host[h] \in Dead]_vars

\* "Exit the authorized host only when the owning WebUI is shutting down": the
\* stop command a host obeys comes from its parent or from the command line.
OwnerStopsHost ==
    [][\A h \in Hosts :
          Accept(h) /\ NextRequest(queue[h]).cmd = "stop" =>
              NextRequest(queue[h]).from \in {parent[h], NoProc}]_vars
=============================================================================
