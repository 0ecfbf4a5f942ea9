--------------------------- MODULE CoreHost_proofs ---------------------------
(* Proofs about the core host and its supervisors, for any number of         *)
(* supervisors and hosts and any length of the queue.                        *)
EXTENDS CoreHost, SequenceTheorems, TLAPS

USE DEF Dead, Listening, SupAt, HostAt, remove_control, supVars, hostVars

\* Accepting the oldest connection leaves the others in their order.
LEMMA OldestRemoved ==
    ASSUME NEW S, NEW q \in Seq(S), q # <<>>
    PROVE  /\ RemoveAt(q, 1) \in Seq(S)
           /\ Len(RemoveAt(q, 1)) = Len(q) - 1
           /\ \A i \in 1..(Len(q) - 1) : RemoveAt(q, 1)[i] = q[i + 1]
           /\ q[1] \in S
<1>1. /\ SubSeq(q, 1, 1 - 1) = <<>>
      /\ SubSeq(q, 2, Len(q)) = Tail(q)
  BY SubSeqEmpty, TailIsSubSeq
<1>2. /\ Tail(q) \in Seq(S) /\ Len(Tail(q)) = Len(q) - 1
      /\ \A i \in 1..Len(Tail(q)) : Tail(q)[i] = q[i + 1]
  BY HeadTailProperties
<1>3. RemoveAt(q, 1) = SubSeq(q, 1, 1 - 1) \o SubSeq(q, 2, Len(q))
  BY DEF RemoveAt
<1>4. RemoveAt(q, 1) = Tail(q)
  BY <1>1, <1>2, <1>3, ConcatEmptySeq
<1>5. 1 \in 1..Len(q)
  BY EmptySeq
<1>6. q[1] \in S
  BY <1>5, ElementOfSeq
<1> QED  BY <1>2, <1>4, <1>6

\* The queue of a listener that is gone.
LEMMA EmptyQueue == <<>> \in Seq(Request) /\ Len(<<>>) = 0
  BY EmptySeq

\* A value that no request is stands for "no request".
LEMMA NoRequestApart == NoRequest \notin Request
  BY CommandAssumption DEF NoRequest, Request, NoCommand

\* A kill that is refused changes nothing; one that succeeds ends the host.
LEMMA KillFacts ==
    ASSUME TypeOK, NEW h \in Hosts, Kill(h)
    PROVE  \/ UNCHANGED hostVars
           \/ /\ host' = [host EXCEPT ![h] = "killed"]
              /\ queue' = [queue EXCEPT ![h] = <<>>]
              /\ busy' = [busy EXCEPT ![h] = NoRequest]
              /\ up' \in [Hosts -> BOOLEAN]
              /\ \A g \in Hosts : g # h => up'[g] = up[g]
              /\ UNCHANGED <<parent, told, done>>
  BY DEF Kill, TypeOK, HostsOK, Outcomes

LEMMA TypeInit == Init => TypeOK
  BY BoundAssumption DEF Init, TypeOK, SupervisorsOK, HostsOK, QueuesOK, NoCommand

LEMMA TypeStep == TypeOK /\ [Next]_vars => TypeOK'
<1> SUFFICES ASSUME TypeOK, [Next]_vars
             PROVE  TypeOK'
  OBVIOUS
<1> USE DEF TypeOK
<1>1. ASSUME NEW p \in Procs, Launch(p)
      PROVE  TypeOK'
  <2>1. SupervisorsOK'
    BY <1>1 DEF Launch, Alive, SupervisorsOK
  <2>2. HostsOK'
    BY <1>1 DEF Launch, Alive, HostsOK
  <2>3. QueuesOK'
    BY <1>1 DEF Launch, Alive, QueuesOK, HostsOK
  <2> QED  BY <2>1, <2>2, <2>3 DEF TypeOK
<1>2. ASSUME NEW p \in Procs, initialize(p)
      PROVE  TypeOK'
  <2>1. SupervisorsOK'
    BY <1>2 DEF initialize, SupervisorsOK
  <2>2. HostsOK'
    BY <1>2 DEF initialize, HostsOK
  <2>3. QueuesOK'
    BY <1>2 DEF initialize, QueuesOK, HostsOK
  <2> QED  BY <2>1, <2>2, <2>3 DEF TypeOK
<1>3. ASSUME NEW p \in Procs, Probe(p)
      PROVE  TypeOK'
  <2>1. SupervisorsOK'
    BY <1>3 DEF Probe, SupervisorsOK
  <2>2. HostsOK'
    BY <1>3 DEF Probe, HostsOK
  <2>3. QueuesOK'
    BY <1>3 DEF Probe, QueuesOK, HostsOK
  <2> QED  BY <2>1, <2>2, <2>3 DEF TypeOK
<1>4. ASSUME NEW p \in Procs, ProbeUnlink(p)
      PROVE  TypeOK'
  <2>1. SupervisorsOK'
    BY <1>4 DEF ProbeUnlink, SupervisorsOK
  <2>2. HostsOK'
    BY <1>4 DEF ProbeUnlink, HostsOK
  <2>3. QueuesOK'
    BY <1>4 DEF ProbeUnlink, QueuesOK, HostsOK
  <2> QED  BY <2>1, <2>2, <2>3 DEF TypeOK
<1>5. ASSUME NEW p \in Procs, Spawn(p)
      PROVE  TypeOK'
  <2>1. SupervisorsOK'
    BY <1>5 DEF Spawn, SupervisorsOK
  <2>2. HostsOK'
    BY <1>5 DEF Spawn, HostsOK
  <2>3. QueuesOK'
    BY <1>5 DEF Spawn, QueuesOK, HostsOK
  <2> QED  BY <2>1, <2>2, <2>3 DEF TypeOK
<1>6. ASSUME NEW p \in Procs, Await(p)
      PROVE  TypeOK'
  <2>1. SupervisorsOK'
    BY <1>6, KillFacts DEF Await, SupervisorsOK
  <2>2. HostsOK'
    <3>1. child[p] \in Hosts
      BY <1>6 DEF Await, SupervisorsOK
    <3> QED  BY <1>6, <3>1, KillFacts DEF Await, HostsOK
  <2>3. QueuesOK'
    <3>1. PICK c \in Hosts : c = child[p]
      BY <1>6 DEF Await, SupervisorsOK
    <3>2. \/ UNCHANGED <<hostVars, issued>>
          \/ /\ host' = [host EXCEPT ![c] = "killed"] /\ queue' = [queue EXCEPT ![c] = <<>>]
             /\ busy' = [busy EXCEPT ![c] = NoRequest]
             /\ UNCHANGED <<told, done, issued>>
      BY <1>6, <3>1, KillFacts DEF Await
    <3>3. queue' \in [Hosts -> Seq(Request)] /\ \A g \in Hosts : Len(queue'[g]) <= MaxQueue
      <4>1. CASE queue' = queue
        BY <4>1 DEF QueuesOK
      <4>2. CASE queue' = [queue EXCEPT ![c] = <<>>]
        <5>1. queue' \in [Hosts -> Seq(Request)]
          BY <4>2, EmptyQueue DEF QueuesOK
        <5>2. \A g \in Hosts : queue'[g] = queue[g] \/ queue'[g] = <<>>
          BY <4>2 DEF QueuesOK
        <5>3. 0 <= MaxQueue
          BY BoundAssumption
        <5> QED  BY <5>1, <5>2, <5>3, EmptyQueue DEF QueuesOK
      <4> QED  BY <3>2, <4>1, <4>2
    <3>4. /\ busy' \in [Hosts -> {r \in Request : r.cmd # "stop"} \union {NoRequest}]
          /\ UNCHANGED <<issued, done>>
      BY <3>1, <3>2 DEF QueuesOK
    <3>5. \A g \in Hosts : queue'[g] # <<>> => Listening(g)'
      BY <3>1, <3>2 DEF QueuesOK, HostsOK
    <3> QED  BY <3>3, <3>4, <3>5 DEF QueuesOK
  <2> QED  BY <2>1, <2>2, <2>3 DEF TypeOK
<1>7. ASSUME NEW p \in Procs, request(p)
      PROVE  TypeOK'
  <2>1. SupervisorsOK'
    BY <1>7 DEF request, SupervisorsOK
  <2>2. HostsOK'
    BY <1>7 DEF request, HostsOK
  <2>3. QueuesOK'
    BY <1>7 DEF request, QueuesOK, HostsOK
  <2> QED  BY <2>1, <2>2, <2>3 DEF TypeOK
<1>8. ASSUME NEW p \in Procs, status(p)
      PROVE  TypeOK'
  <2>1. SupervisorsOK'
    BY <1>8 DEF status, SupervisorsOK
  <2>2. HostsOK'
    BY <1>8 DEF status, HostsOK
  <2>3. QueuesOK'
    BY <1>8 DEF status, QueuesOK, HostsOK
  <2> QED  BY <2>1, <2>2, <2>3 DEF TypeOK
<1>9. ASSUME NEW p \in Procs, shutdown(p)
      PROVE  TypeOK'
  <2>1. SupervisorsOK'
    BY <1>9 DEF shutdown, Send, SupervisorsOK
  <2>2. HostsOK'
    BY <1>9 DEF shutdown, Send, HostsOK
  <2>3. QueuesOK'
    <3>1. CASE UNCHANGED queue
      BY <1>9, <3>1 DEF shutdown, QueuesOK
    <3>2. CASE Send(p, "stop")
      <4>1. control \in Hosts /\ Listening(control)
            /\ queue[control] \in Seq(Request) /\ [cmd |-> "stop", from |-> p] \in Request
        BY <1>9, <3>2 DEF shutdown, Send, QueuesOK, Request
      <4>2. queue' \in [Hosts -> Seq(Request)] /\ \A g \in Hosts : Len(queue'[g]) <= MaxQueue
        BY <1>9, <3>2, <4>1, BoundAssumption DEF shutdown, Send, QueuesOK
      <4>3. \A g \in Hosts : queue'[g] # <<>> => Listening(g)
        BY <1>9, <3>2, <4>1 DEF shutdown, Send, QueuesOK
      <4> QED  BY <1>9, <3>2, <4>2, <4>3 DEF shutdown, QueuesOK
    <3> QED  BY <1>9, <3>1, <3>2 DEF shutdown
  <2> QED  BY <2>1, <2>2, <2>3 DEF TypeOK
<1>10. ASSUME NEW p \in Procs, ShutAsk(p)
      PROVE  TypeOK'
  <2>1. SupervisorsOK'
    BY <1>10 DEF ShutAsk, SupervisorsOK
  <2>2. HostsOK'
    BY <1>10 DEF ShutAsk, HostsOK
  <2>3. QueuesOK'
    BY <1>10 DEF ShutAsk, QueuesOK, HostsOK
  <2> QED  BY <2>1, <2>2, <2>3 DEF TypeOK
<1>11. ASSUME NEW p \in Procs, ShutPoll(p)
      PROVE  TypeOK'
  <2>1. SupervisorsOK'
    BY <1>11, KillFacts DEF ShutPoll, PollExpired, SupervisorsOK
  <2>2. HostsOK'
    <3>1. child[p] \in Hosts
      BY <1>11 DEF ShutPoll, SupervisorsOK
    <3> QED  BY <1>11, <3>1, KillFacts DEF ShutPoll, PollExpired, HostsOK
  <2>3. QueuesOK'
    <3>1. PICK c \in Hosts : c = child[p]
      BY <1>11 DEF ShutPoll, SupervisorsOK
    <3>2. \/ UNCHANGED <<hostVars, issued>>
          \/ /\ host' = [host EXCEPT ![c] = "killed"] /\ queue' = [queue EXCEPT ![c] = <<>>]
             /\ busy' = [busy EXCEPT ![c] = NoRequest]
             /\ UNCHANGED <<told, done, issued>>
      BY <1>11, <3>1, KillFacts DEF ShutPoll, PollExpired
    <3>3. queue' \in [Hosts -> Seq(Request)] /\ \A g \in Hosts : Len(queue'[g]) <= MaxQueue
      <4>1. CASE queue' = queue
        BY <4>1 DEF QueuesOK
      <4>2. CASE queue' = [queue EXCEPT ![c] = <<>>]
        <5>1. queue' \in [Hosts -> Seq(Request)]
          BY <4>2, EmptyQueue DEF QueuesOK
        <5>2. \A g \in Hosts : queue'[g] = queue[g] \/ queue'[g] = <<>>
          BY <4>2 DEF QueuesOK
        <5>3. 0 <= MaxQueue
          BY BoundAssumption
        <5> QED  BY <5>1, <5>2, <5>3, EmptyQueue DEF QueuesOK
      <4> QED  BY <3>2, <4>1, <4>2
    <3>4. /\ busy' \in [Hosts -> {r \in Request : r.cmd # "stop"} \union {NoRequest}]
          /\ UNCHANGED <<issued, done>>
      BY <3>1, <3>2 DEF QueuesOK
    <3>5. \A g \in Hosts : queue'[g] # <<>> => Listening(g)'
      BY <3>1, <3>2 DEF QueuesOK, HostsOK
    <3> QED  BY <3>3, <3>4, <3>5 DEF QueuesOK
  <2> QED  BY <2>1, <2>2, <2>3 DEF TypeOK
<1>12. ASSUME NEW p \in Procs, ShutUnlink(p)
      PROVE  TypeOK'
  <2>1. SupervisorsOK'
    BY <1>12 DEF ShutUnlink, SupervisorsOK
  <2>2. HostsOK'
    BY <1>12 DEF ShutUnlink, HostsOK
  <2>3. QueuesOK'
    BY <1>12 DEF ShutUnlink, QueuesOK, HostsOK
  <2> QED  BY <2>1, <2>2, <2>3 DEF TypeOK
<1>13. ASSUME NEW p \in Procs, Exit(p)
      PROVE  TypeOK'
  <2>1. SupervisorsOK'
    BY <1>13 DEF Exit, Alive, SupervisorsOK
  <2>2. HostsOK'
    BY <1>13 DEF Exit, Alive, HostsOK
  <2>3. QueuesOK'
    BY <1>13 DEF Exit, Alive, QueuesOK, HostsOK
  <2> QED  BY <2>1, <2>2, <2>3 DEF TypeOK
<1>14. ASSUME NEW p \in Procs, NEW cmd \in Commands, remote(p, cmd)
      PROVE  TypeOK'
  <2>1. SupervisorsOK'
    BY <1>14 DEF remote, Send, SupervisorsOK
  <2>2. HostsOK'
    BY <1>14 DEF remote, Send, HostsOK
  <2>3. QueuesOK'
    <3>1. control \in Hosts /\ Listening(control)
          /\ queue[control] \in Seq(Request) /\ [cmd |-> cmd, from |-> p] \in Request
      BY <1>14 DEF remote, Send, QueuesOK, Request
    <3>2. queue' \in [Hosts -> Seq(Request)] /\ \A g \in Hosts : Len(queue'[g]) <= MaxQueue
      BY <1>14, <3>1, BoundAssumption DEF remote, Send, QueuesOK
    <3>3. \A g \in Hosts : queue'[g] # <<>> => Listening(g)
      BY <1>14, <3>1 DEF remote, Send, QueuesOK
    <3> QED  BY <1>14, <3>2, <3>3 DEF remote, QueuesOK
  <2> QED  BY <2>1, <2>2, <2>3 DEF TypeOK
<1>15. ASSUME run_stop
      PROVE  TypeOK'
  <2>1. SupervisorsOK'
    BY <1>15 DEF run_stop, Send, SupervisorsOK
  <2>2. HostsOK'
    BY <1>15 DEF run_stop, Send, HostsOK
  <2>3. QueuesOK'
    <3>1. control \in Hosts /\ Listening(control)
          /\ queue[control] \in Seq(Request) /\ [cmd |-> "stop", from |-> NoProc] \in Request
      BY <1>15 DEF run_stop, Send, QueuesOK, Request
    <3>2. queue' \in [Hosts -> Seq(Request)] /\ \A g \in Hosts : Len(queue'[g]) <= MaxQueue
      BY <1>15, <3>1, BoundAssumption DEF run_stop, Send, QueuesOK
    <3>3. \A g \in Hosts : queue'[g] # <<>> => Listening(g)
      BY <1>15, <3>1 DEF run_stop, Send, QueuesOK
    <3> QED  BY <1>15, <3>2, <3>3 DEF run_stop, QueuesOK
  <2> QED  BY <2>1, <2>2, <2>3 DEF TypeOK
<1>16. ASSUME NEW h \in Hosts, start_control(h)
      PROVE  TypeOK'
  <2>1. SupervisorsOK'
    BY <1>16 DEF start_control, SupervisorsOK
  <2>2. HostsOK'
    BY <1>16 DEF start_control, HostsOK
  <2>3. QueuesOK'
    BY <1>16 DEF start_control, QueuesOK, HostsOK
  <2> QED  BY <2>1, <2>2, <2>3 DEF TypeOK
<1>17. ASSUME NEW h \in Hosts, Wake(h)
      PROVE  TypeOK'
  <2>1. SupervisorsOK'
    BY <1>17 DEF Wake, MustEnd, SupervisorsOK
  <2>2. HostsOK'
    BY <1>17 DEF Wake, MustEnd, HostsOK
  <2>3. QueuesOK'
    BY <1>17 DEF Wake, MustEnd, QueuesOK, HostsOK
  <2> QED  BY <2>1, <2>2, <2>3 DEF TypeOK
<1>18. ASSUME NEW h \in Hosts, Close(h)
      PROVE  TypeOK'
  <2>1. SupervisorsOK'
    BY <1>18 DEF Close, CoreUnlocked, BacklogReset, SupervisorsOK
  <2>2. HostsOK'
    BY <1>18 DEF Close, CoreUnlocked, BacklogReset, HostsOK
  <2>3. QueuesOK'
    <3>1. queue' \in [Hosts -> Seq(Request)] /\ \A g \in Hosts : Len(queue'[g]) <= MaxQueue
      BY <1>18, BoundAssumption DEF Close, BacklogReset, QueuesOK
    <3> QED  BY <1>18, <3>1 DEF Close, BacklogReset, QueuesOK, HostsOK
  <2> QED  BY <2>1, <2>2, <2>3 DEF TypeOK
<1>19. ASSUME NEW h \in Hosts, CloseUnlink(h)
      PROVE  TypeOK'
  <2>1. SupervisorsOK'
    BY <1>19 DEF CloseUnlink, SupervisorsOK
  <2>2. HostsOK'
    BY <1>19 DEF CloseUnlink, HostsOK
  <2>3. QueuesOK'
    BY <1>19 DEF CloseUnlink, QueuesOK, HostsOK
  <2> QED  BY <2>1, <2>2, <2>3 DEF TypeOK
<1>20. ASSUME NEW h \in Hosts, CloseStop(h)
      PROVE  TypeOK'
  <2>1. SupervisorsOK'
    BY <1>20 DEF CloseStop, SupervisorsOK
  <2>2. HostsOK'
    BY <1>20 DEF CloseStop, HostsOK
  <2>3. QueuesOK'
    BY <1>20 DEF CloseStop, QueuesOK, HostsOK
  <2> QED  BY <2>1, <2>2, <2>3 DEF TypeOK
<1>21. ASSUME NEW h \in Hosts, Accept(h)
      PROVE  TypeOK'
  <2>1. SupervisorsOK'
    BY <1>21 DEF Accept, NextRequest, Oldest, SupervisorsOK
  <2>2. HostsOK'
    BY <1>21 DEF Accept, NextRequest, Oldest, HostsOK
  <2>3. QueuesOK'
    <3>1. queue[h] \in Seq(Request) /\ queue[h] # <<>>
      BY <1>21 DEF Accept, QueuesOK
    <3>2. /\ RemoveAt(queue[h], 1) \in Seq(Request)
          /\ Len(RemoveAt(queue[h], 1)) <= MaxQueue /\ queue[h][1] \in Request
      BY <3>1, OldestRemoved, LenProperties, BoundAssumption DEF QueuesOK
    <3>3. queue' \in [Hosts -> Seq(Request)]
      BY <1>21, <3>2, EmptyQueue DEF Accept, NextRequest, Oldest, QueuesOK
    <3>4. busy' \in [Hosts -> {r \in Request : r.cmd # "stop"} \union {NoRequest}]
      BY <1>21, <3>2 DEF Accept, NextRequest, Oldest, QueuesOK
    <3>5. \A g \in Hosts : Len(queue'[g]) <= MaxQueue
      BY <1>21, <3>2, EmptyQueue, BoundAssumption DEF Accept, NextRequest, Oldest, QueuesOK
    <3>6. \A g \in Hosts : queue'[g] # <<>> => Listening(g)'
      BY <1>21 DEF Accept, NextRequest, Oldest, QueuesOK, HostsOK
    <3> QED  BY <1>21, <3>3, <3>4, <3>5, <3>6 DEF Accept, QueuesOK
  <2> QED  BY <2>1, <2>2, <2>3 DEF TypeOK
<1>22. ASSUME NEW h \in Hosts, Executed(h)
      PROVE  TypeOK'
  <2>1. SupervisorsOK'
    BY <1>22 DEF Executed, Outcomes, SupervisorsOK
  <2>2. HostsOK'
    BY <1>22 DEF Executed, Outcomes, HostsOK
  <2>3. QueuesOK'
    <3>1. busy[h].cmd \in Commands \union {NoCommand}
      BY <1>22 DEF Executed, QueuesOK, Request, NoRequest
    <3> QED  BY <1>22, <3>1 DEF Executed, QueuesOK
  <2> QED  BY <2>1, <2>2, <2>3 DEF TypeOK
<1>23. ASSUME NEW h \in Hosts, Signal(h)
      PROVE  TypeOK'
  <2>1. SupervisorsOK'
    BY <1>23 DEF Signal, SupervisorsOK
  <2>2. HostsOK'
    BY <1>23 DEF Signal, HostsOK
  <2>3. QueuesOK'
    BY <1>23 DEF Signal, QueuesOK, HostsOK
  <2> QED  BY <2>1, <2>2, <2>3 DEF TypeOK
<1>24. ASSUME NEW h \in Hosts, AcceptFails(h)
      PROVE  TypeOK'
  <2>1. SupervisorsOK'
    BY <1>24 DEF AcceptFails, SupervisorsOK
  <2>2. HostsOK'
    BY <1>24 DEF AcceptFails, HostsOK
  <2>3. QueuesOK'
    BY <1>24, EmptyQueue, BoundAssumption DEF AcceptFails, QueuesOK, HostsOK
  <2> QED  BY <2>1, <2>2, <2>3 DEF TypeOK
<1>25. CASE UNCHANGED vars
  BY <1>25 DEF vars, supVars, hostVars, TypeOK, SupervisorsOK, HostsOK, QueuesOK
<1> QED
  BY <1>1, <1>2, <1>3, <1>4, <1>5, <1>6, <1>7, <1>8, <1>9, <1>10, <1>11, <1>12, <1>13, <1>14, <1>15, <1>16, <1>17, <1>18, <1>19, <1>20, <1>21, <1>22, <1>23, <1>24, <1>25
  DEF Next, SpawnStep, RequestStep, ShutStep, EndStep

\* Every variable of supervisors and hosts stays in its range.
THEOREM TypeCorrect == Spec => []TypeOK
  BY TypeInit, TypeStep, PTL DEF Spec

LEMMA SafetyInit == Init => SafetyInv
  BY DEF Init, SafetyInv, LifeInv, OrderInv, Ordered

\* A host that a step leaves alone keeps its order.
LEMMA OrderKept ==
    ASSUME NEW h \in Hosts, Ordered(h),
           host'[h] = host[h], told'[h] = told[h], queue'[h] = queue[h],
           busy'[h] = busy[h], done'[h] = done[h], issued'[h] = issued[h]
    PROVE  Ordered(h)'
  BY DEF Ordered, LastWaiting

\* A stop request that joins the queue changes nothing about its commands.
LEMMA StopQueued ==
    ASSUME TypeOK, NEW p \in Procs \union {NoProc}, NEW h \in Hosts, Ordered(h),
           UNCHANGED <<host, told, busy, done, issued>>,
           queue'[h] = Append(queue[h], [cmd |-> "stop", from |-> p])
    PROVE  Ordered(h)'
<1> DEFINE q == queue[h]
           r == queue'[h]
<1>1. q \in Seq(Request) /\ Len(q) \in Nat
  BY LenProperties DEF TypeOK, QueuesOK
<1>2. /\ Len(r) = Len(q) + 1
      /\ \A i \in 1..Len(q) : r[i] = q[i]
      /\ r[Len(q) + 1] = [cmd |-> "stop", from |-> p]
  <2>1. [cmd |-> "stop", from |-> p] \in Request
    BY DEF Request
  <2> QED  BY <1>1, <2>1, AppendProperties
<1>3. \A i \in 1..Len(r) : LastWaiting(r, i) => i \in 1..Len(q) /\ LastWaiting(q, i)
  BY <1>1, <1>2 DEF LastWaiting
<1>4. (\A i \in 1..Len(q) : q[i].cmd = "stop") <=> \A i \in 1..Len(r) : r[i].cmd = "stop"
  BY <1>1, <1>2
<1>5. CASE Listening(h)
  <2>1. \A i \in 1..Len(r) : LastWaiting(r, i) => r[i].cmd = issued[h]
    BY <1>2, <1>3, <1>5 DEF Ordered
  <2>2. (\A i \in 1..Len(r) : r[i].cmd = "stop") =>
           issued[h] = IF busy[h] # NoRequest THEN busy[h].cmd ELSE done[h]
    BY <1>4, <1>5 DEF Ordered
  <2> QED  BY <2>1, <2>2 DEF Ordered
<1>6. CASE ~Listening(h)
  BY <1>6 DEF Ordered
<1> QED  BY <1>5, <1>6

LEMMA SafetyStep == TypeOK /\ TypeOK' /\ SafetyInv /\ [Next]_vars => SafetyInv'
<1> SUFFICES ASSUME TypeOK, TypeOK', SafetyInv, [Next]_vars
             PROVE  SafetyInv'
  OBVIOUS
<1> USE DEF TypeOK, SupervisorsOK, HostsOK, QueuesOK, SafetyInv
<1>1. ASSUME NEW p \in Procs, Launch(p)
      PROVE  SafetyInv'
  <2>1. LifeInv'
    BY <1>1 DEF Launch, Alive, LifeInv
  <2>2. OrderInv'
    BY <1>1, OrderKept DEF Launch, Alive, OrderInv
  <2> QED  BY <2>1, <2>2 DEF SafetyInv
<1>2. ASSUME NEW p \in Procs, initialize(p)
      PROVE  SafetyInv'
  <2>1. LifeInv'
    BY <1>2 DEF initialize, LifeInv
  <2>2. OrderInv'
    BY <1>2, OrderKept DEF initialize, OrderInv
  <2> QED  BY <2>1, <2>2 DEF SafetyInv
<1>3. ASSUME NEW p \in Procs, Probe(p)
      PROVE  SafetyInv'
  <2>1. LifeInv'
    BY <1>3 DEF Probe, LifeInv
  <2>2. OrderInv'
    BY <1>3, OrderKept DEF Probe, OrderInv
  <2> QED  BY <2>1, <2>2 DEF SafetyInv
<1>4. ASSUME NEW p \in Procs, ProbeUnlink(p)
      PROVE  SafetyInv'
  <2>1. LifeInv'
    BY <1>4 DEF ProbeUnlink, LifeInv
  <2>2. OrderInv'
    BY <1>4, OrderKept DEF ProbeUnlink, OrderInv
  <2> QED  BY <2>1, <2>2 DEF SafetyInv
<1>5. ASSUME NEW p \in Procs, Spawn(p)
      PROVE  SafetyInv'
  <2>1. LifeInv'
    BY <1>5 DEF Spawn, LifeInv
  <2>2. OrderInv'
    BY <1>5, OrderKept DEF Spawn, OrderInv, Ordered
  <2> QED  BY <2>1, <2>2 DEF SafetyInv
<1>6. ASSUME NEW p \in Procs, Await(p)
      PROVE  SafetyInv'
  <2>1. LifeInv'
    BY <1>6, KillFacts DEF Await, LifeInv
  <2>2. OrderInv'
    <3>1. PICK c \in Hosts : c = child[p]
      BY <1>6 DEF Await
    <3>2. \/ UNCHANGED hostVars /\ issued' = issued
          \/ /\ host' = [host EXCEPT ![c] = "killed"] /\ queue' = [queue EXCEPT ![c] = <<>>]
             /\ busy' = [busy EXCEPT ![c] = NoRequest]
             /\ UNCHANGED <<told, done, issued>>
      BY <1>6, <3>1, KillFacts DEF Await
    <3>3. ASSUME NEW g \in Hosts, g # c
          PROVE  Ordered(g)'
      BY <3>1, <3>2, <3>3, OrderKept DEF OrderInv
    <3>4. Ordered(c)'
      BY <3>1, <3>2, OrderKept, ZenonT(60) DEF OrderInv, Ordered
    <3> QED  BY <3>3, <3>4 DEF OrderInv
  <2> QED  BY <2>1, <2>2 DEF SafetyInv
<1>7. ASSUME NEW p \in Procs, request(p)
      PROVE  SafetyInv'
  <2>1. LifeInv'
    BY <1>7 DEF request, LifeInv
  <2>2. OrderInv'
    BY <1>7, OrderKept DEF request, OrderInv
  <2> QED  BY <2>1, <2>2 DEF SafetyInv
<1>8. ASSUME NEW p \in Procs, status(p)
      PROVE  SafetyInv'
  <2>1. LifeInv'
    BY <1>8 DEF status, LifeInv
  <2>2. OrderInv'
    BY <1>8, OrderKept DEF status, OrderInv
  <2> QED  BY <2>1, <2>2 DEF SafetyInv
<1>9. ASSUME NEW p \in Procs, shutdown(p)
      PROVE  SafetyInv'
  <2>1. LifeInv'
    BY <1>9 DEF shutdown, Send, LifeInv
  <2>2. OrderInv'
    <3>1. ASSUME NEW g \in Hosts, queue'[g] = queue[g]
          PROVE  Ordered(g)'
      BY <1>9, <3>1, OrderKept DEF OrderInv, shutdown, Send
    <3>2. ASSUME NEW g \in Hosts, queue'[g] # queue[g]
          PROVE  Ordered(g)'
      <4>1. queue'[g] = Append(queue[g], [cmd |-> "stop", from |-> p])
        BY <1>9, <3>2 DEF shutdown, Send
      <4> QED  BY <1>9, <4>1, StopQueued DEF OrderInv, shutdown, Send
    <3> QED  BY <3>1, <3>2 DEF OrderInv
  <2> QED  BY <2>1, <2>2 DEF SafetyInv
<1>10. ASSUME NEW p \in Procs, ShutAsk(p)
      PROVE  SafetyInv'
  <2>1. LifeInv'
    BY <1>10 DEF ShutAsk, LifeInv
  <2>2. OrderInv'
    BY <1>10, OrderKept DEF ShutAsk, OrderInv
  <2> QED  BY <2>1, <2>2 DEF SafetyInv
<1>11. ASSUME NEW p \in Procs, ShutPoll(p)
      PROVE  SafetyInv'
  <2>1. LifeInv'
    BY <1>11, KillFacts DEF ShutPoll, PollExpired, LifeInv
  <2>2. OrderInv'
    <3>1. PICK c \in Hosts : c = child[p]
      BY <1>11 DEF ShutPoll
    <3>2. \/ UNCHANGED hostVars /\ issued' = issued
          \/ /\ host' = [host EXCEPT ![c] = "killed"] /\ queue' = [queue EXCEPT ![c] = <<>>]
             /\ busy' = [busy EXCEPT ![c] = NoRequest]
             /\ UNCHANGED <<told, done, issued>>
      BY <1>11, <3>1, KillFacts DEF ShutPoll, PollExpired
    <3>3. ASSUME NEW g \in Hosts, g # c
          PROVE  Ordered(g)'
      BY <3>1, <3>2, <3>3, OrderKept DEF OrderInv
    <3>4. Ordered(c)'
      BY <3>1, <3>2, OrderKept, ZenonT(60) DEF OrderInv, Ordered
    <3> QED  BY <3>3, <3>4 DEF OrderInv
  <2> QED  BY <2>1, <2>2 DEF SafetyInv
<1>12. ASSUME NEW p \in Procs, ShutUnlink(p)
      PROVE  SafetyInv'
  <2>1. LifeInv'
    BY <1>12 DEF ShutUnlink, LifeInv
  <2>2. OrderInv'
    BY <1>12, OrderKept DEF ShutUnlink, OrderInv
  <2> QED  BY <2>1, <2>2 DEF SafetyInv
<1>13. ASSUME NEW p \in Procs, Exit(p)
      PROVE  SafetyInv'
  <2>1. LifeInv'
    BY <1>13 DEF Exit, Alive, LifeInv
  <2>2. OrderInv'
    BY <1>13, OrderKept DEF Exit, Alive, OrderInv
  <2> QED  BY <2>1, <2>2 DEF SafetyInv
<1>14. ASSUME NEW p \in Procs, NEW cmd \in Commands, remote(p, cmd)
      PROVE  SafetyInv'
  <2>1. LifeInv'
    BY <1>14 DEF remote, Send, LifeInv
  <2>2. OrderInv'
    <3>1. PICK h \in Hosts : h = control
      BY <1>14 DEF remote, Send
    <3> DEFINE q == queue[h]
                r == queue'[h]
    <3>2. q \in Seq(Request) /\ Len(q) \in Nat
      BY LenProperties
    <3>3. /\ Len(r) = Len(q) + 1 /\ r[Len(q) + 1].cmd = cmd
          /\ issued'[h] = cmd /\ cmd # "stop"
      <4>1. [cmd |-> cmd, from |-> p] \in Request
        BY DEF Request
      <4>2. r = Append(q, [cmd |-> cmd, from |-> p]) /\ issued'[h] = cmd
        BY <1>14, <3>1 DEF remote, Send
      <4>3. Len(r) = Len(q) + 1 /\ r[Len(q) + 1] = [cmd |-> cmd, from |-> p]
        BY <3>2, <4>1, <4>2, AppendProperties
      <4> QED  BY <4>2, <4>3, CommandAssumption
    <3>4. ASSUME NEW g \in Hosts, g # h
          PROVE  Ordered(g)'
      BY <1>14, <3>1, <3>4, OrderKept DEF OrderInv, remote, Send
    <3>5. Ordered(h)'
      <4>1. \A i \in 1..Len(r) : LastWaiting(r, i) => i = Len(q) + 1
        BY <3>2, <3>3 DEF LastWaiting
      <4>2. ~ \A i \in 1..Len(r) : r[i].cmd = "stop"
        BY <3>2, <3>3
      <4> QED  BY <3>3, <4>1, <4>2 DEF Ordered
    <3> QED  BY <3>4, <3>5 DEF OrderInv
  <2> QED  BY <2>1, <2>2 DEF SafetyInv
<1>15. ASSUME run_stop
      PROVE  SafetyInv'
  <2>1. LifeInv'
    BY <1>15 DEF run_stop, Send, LifeInv
  <2>2. OrderInv'
    <3>1. ASSUME NEW g \in Hosts, queue'[g] = queue[g]
          PROVE  Ordered(g)'
      BY <1>15, <3>1, OrderKept DEF OrderInv, run_stop, Send
    <3>2. ASSUME NEW g \in Hosts, queue'[g] # queue[g]
          PROVE  Ordered(g)'
      <4>1. queue'[g] = Append(queue[g], [cmd |-> "stop", from |-> NoProc])
        BY <1>15, <3>2 DEF run_stop, Send
      <4> QED  BY <1>15, <4>1, StopQueued DEF OrderInv, run_stop, Send
    <3> QED  BY <3>1, <3>2 DEF OrderInv
  <2> QED  BY <2>1, <2>2 DEF SafetyInv
<1>16. ASSUME NEW h \in Hosts, start_control(h)
      PROVE  SafetyInv'
  <2>1. LifeInv'
    <3>1. host[h] = "boot" /\ ~up[h] /\ busy[h] = NoRequest
      BY <1>16 DEF start_control, LifeInv
    <3> QED  BY <1>16, <3>1 DEF start_control, LifeInv
  <2>2. OrderInv'
    <3>1. ASSUME NEW g \in Hosts, g # h
          PROVE  Ordered(g)'
      BY <1>16, <3>1, OrderKept DEF OrderInv, start_control
    <3>2. Ordered(h)'
      <4>1. queue[h] = <<>> /\ busy[h] = NoRequest /\ issued[h] = done[h]
        BY <1>16 DEF start_control, LifeInv
      <4> QED  BY <1>16, <4>1 DEF start_control, Ordered, LastWaiting
    <3> QED  BY <3>1, <3>2 DEF OrderInv
  <2> QED  BY <2>1, <2>2 DEF SafetyInv
<1>17. ASSUME NEW h \in Hosts, Wake(h)
      PROVE  SafetyInv'
  <2>1. LifeInv'
    BY <1>17 DEF Wake, MustEnd, LifeInv
  <2>2. OrderInv'
    BY <1>17 DEF Wake, MustEnd, OrderInv, Ordered, LastWaiting, LifeInv
  <2> QED  BY <2>1, <2>2 DEF SafetyInv
<1>18. ASSUME NEW h \in Hosts, Close(h)
      PROVE  SafetyInv'
  <2>1. LifeInv'
    BY <1>18 DEF Close, CoreUnlocked, BacklogReset, LifeInv
  <2>2. OrderInv'
    <3>1. ASSUME NEW g \in Hosts, g # h
          PROVE  Ordered(g)'
      BY <1>18, <3>1, OrderKept DEF OrderInv, Close
    <3>2. ~Listening(h)'
      BY <1>18 DEF Close
    <3>3. Ordered(h)'
      BY <3>2 DEF Ordered
    <3> QED  BY <3>1, <3>3 DEF OrderInv
  <2> QED  BY <2>1, <2>2 DEF SafetyInv
<1>19. ASSUME NEW h \in Hosts, CloseUnlink(h)
      PROVE  SafetyInv'
  <2>1. LifeInv'
    BY <1>19 DEF CloseUnlink, LifeInv
  <2>2. OrderInv'
    BY <1>19 DEF CloseUnlink, OrderInv, Ordered, LastWaiting, LifeInv
  <2> QED  BY <2>1, <2>2 DEF SafetyInv
<1>20. ASSUME NEW h \in Hosts, CloseStop(h)
      PROVE  SafetyInv'
  <2>1. LifeInv'
    BY <1>20 DEF CloseStop, LifeInv
  <2>2. OrderInv'
    BY <1>20 DEF CloseStop, OrderInv, Ordered, LastWaiting, LifeInv
  <2> QED  BY <2>1, <2>2 DEF SafetyInv
<1>21. ASSUME NEW h \in Hosts, Accept(h)
      PROVE  SafetyInv'
  <2>1. LifeInv'
    BY <1>21 DEF Accept, NextRequest, Oldest, LifeInv
  <2>2. OrderInv'
    <3>1. ASSUME NEW g \in Hosts, g # h
          PROVE  Ordered(g)'
      BY <1>21, <3>1, OrderKept DEF OrderInv, Accept, NextRequest, Oldest
    <3>2. Ordered(h)'
      <4> DEFINE q == queue[h]
      <4>1. CASE told'[h]
        BY <4>1 DEF Ordered
      <4>2. CASE ~told'[h]
        <5>1. /\ q \in Seq(Request) /\ q # <<>> /\ Listening(h) /\ Len(q) \in Nat
              /\ queue'[h] = RemoveAt(q, 1) /\ busy'[h] = q[1] /\ q[1].cmd # "stop"
              /\ UNCHANGED <<issued, done>>
          BY <1>21, <4>2, LenProperties DEF Accept, NextRequest, Oldest
        <5> DEFINE r == queue'[h]
        <5>2. /\ Len(r) = Len(q) - 1 /\ q[1] \in Request
              /\ \A i \in 1..Len(r) : r[i] = q[i + 1]
          <6> HIDE DEF q
          <6>1. /\ Len(RemoveAt(q, 1)) = Len(q) - 1 /\ q[1] \in Request
                /\ \A i \in 1..(Len(q) - 1) : RemoveAt(q, 1)[i] = q[i + 1]
            BY <5>1, OldestRemoved
          <6> QED  BY <5>1, <6>1
        <5>3. Len(q) \in Nat \ {0}
          BY <5>1, EmptySeq
        <5>4. q[1] # NoRequest
          BY <5>2, NoRequestApart
        <5>5. \A i \in 1..Len(r) : LastWaiting(r, i) => LastWaiting(q, i + 1) /\ i + 1 \in 1..Len(q)
          <6> SUFFICES ASSUME NEW i \in 1..Len(r), LastWaiting(r, i)
                       PROVE  LastWaiting(q, i + 1) /\ i + 1 \in 1..Len(q)
            OBVIOUS
          <6>1. i + 1 \in 1..Len(q) /\ q[i + 1].cmd # "stop"
            BY <5>2, <5>3 DEF LastWaiting
          <6>2. ASSUME NEW j \in (i + 2)..Len(q)
                PROVE  q[j].cmd = "stop"
            <7>1. j - 1 \in 1..Len(r) /\ j - 1 \in (i + 1)..Len(r) /\ (j - 1) + 1 = j
              BY <5>2, <5>3
            <7>2. q[j] = r[j - 1]
              BY <5>2, <7>1
            <7> QED  BY <7>1, <7>2 DEF LastWaiting
          <6>3. (i + 1) + 1 = i + 2
            OBVIOUS
          <6> QED  BY <6>1, <6>2, <6>3 DEF LastWaiting
        <5>6. (\A i \in 1..Len(r) : r[i].cmd = "stop") => LastWaiting(q, 1) /\ 1 \in 1..Len(q)
          <6> SUFFICES ASSUME \A i \in 1..Len(r) : r[i].cmd = "stop"
                       PROVE  LastWaiting(q, 1) /\ 1 \in 1..Len(q)
            OBVIOUS
          <6>1. ASSUME NEW j \in 2..Len(q)
                PROVE  q[j].cmd = "stop"
            <7>1. j - 1 \in 1..Len(r) /\ (j - 1) + 1 = j
              BY <5>2, <5>3
            <7>2. r[j - 1] = q[j]
              BY <5>2, <7>1
            <7>3. r[j - 1].cmd = "stop"
              BY <7>1
            <7> QED  BY <7>2, <7>3
          <6>2. 1 \in 1..Len(q) /\ 1 + 1 = 2
            BY <5>3
          <6> QED  BY <5>1, <6>1, <6>2 DEF LastWaiting
        <5> QED  BY <5>1, <5>2, <5>4, <5>5, <5>6 DEF Ordered, OrderInv
      <4> QED  BY <4>1, <4>2
    <3> QED  BY <3>1, <3>2 DEF OrderInv
  <2> QED  BY <2>1, <2>2 DEF SafetyInv
<1>22. ASSUME NEW h \in Hosts, Executed(h)
      PROVE  SafetyInv'
  <2>1. LifeInv'
    <3>1. host[h] \in {"serving", "locking"}
      BY <1>22 DEF Executed, LifeInv
    <3>2. \A g \in Hosts : g # h => up'[g] = up[g] /\ busy'[g] = busy[g] /\ done'[g] = done[g]
      BY <1>22 DEF Executed
    <3>3. busy'[h] = NoRequest /\ UNCHANGED <<host, told, issued>>
      BY <1>22 DEF Executed
    <3> QED  BY <3>1, <3>2, <3>3 DEF LifeInv
  <2>2. OrderInv'
    <3>1. ASSUME NEW g \in Hosts, g # h
          PROVE  Ordered(g)'
      BY <1>22, <3>1, OrderKept DEF OrderInv, Executed, Outcomes
    <3>2. Ordered(h)'
      BY <1>22 DEF Executed, OrderInv, Ordered, LastWaiting
    <3> QED  BY <3>1, <3>2 DEF OrderInv
  <2> QED  BY <2>1, <2>2 DEF SafetyInv
<1>23. ASSUME NEW h \in Hosts, Signal(h)
      PROVE  SafetyInv'
  <2>1. LifeInv'
    BY <1>23 DEF Signal, LifeInv
  <2>2. OrderInv'
    BY <1>23 DEF Signal, OrderInv, Ordered, LastWaiting, LifeInv
  <2> QED  BY <2>1, <2>2 DEF SafetyInv
<1>24. ASSUME NEW h \in Hosts, AcceptFails(h)
      PROVE  SafetyInv'
  <2>1. LifeInv'
    BY <1>24 DEF AcceptFails, LifeInv
  <2>2. OrderInv'
    <3>1. ASSUME NEW g \in Hosts, g # h
          PROVE  Ordered(g)'
      <4>1. /\ host'[g] = host[g] /\ told'[g] = told[g] /\ queue'[g] = queue[g]
            /\ busy'[g] = busy[g] /\ issued'[g] = issued[g] /\ done'[g] = done[g]
        BY <1>24, <3>1 DEF AcceptFails
      <4> QED  BY <4>1, OrderKept DEF OrderInv
    <3>2. Ordered(h)'
      BY <1>24 DEF AcceptFails, Ordered, Listening
    <3> QED  BY <3>1, <3>2 DEF OrderInv
  <2> QED  BY <2>1, <2>2 DEF SafetyInv
<1>25. CASE UNCHANGED vars
  BY <1>25 DEF vars, supVars, hostVars, SafetyInv, LifeInv, OrderInv, Ordered, LastWaiting
<1> QED
  BY <1>1, <1>2, <1>3, <1>4, <1>5, <1>6, <1>7, <1>8, <1>9, <1>10, <1>11, <1>12, <1>13, <1>14, <1>15, <1>16, <1>17, <1>18, <1>19, <1>20, <1>21, <1>22, <1>23, <1>24, <1>25
  DEF Next, SpawnStep, RequestStep, ShutStep, EndStep

\* What the safety properties rest on: who has components and commands when,
\* and that the last command on its way to a host is the last one sent to it.
THEOREM SafetyCorrect == Spec => []SafetyInv
  BY TypeCorrect, TypeInit, TypeStep, SafetyInit, SafetyStep, PTL DEF Spec

\* run_inner lets a command finish and stops the components before it returns.
THEOREM HostExitsClean == Spec => []ExitIsClean
<1>1. SafetyInv => ExitIsClean
  BY DEF SafetyInv, LifeInv, ExitIsClean
<1> QED  BY <1>1, SafetyCorrect, PTL

\* The accept loop of start_control executes commands in the order they came,
\* whether or not their senders still wait.
THEOREM CommandsInOrder == Spec => []LastWordWins
<1>1. SafetyInv => LastWordWins
  BY DEF SafetyInv, OrderInv, Ordered, LastWordWins
<1> QED  BY <1>1, SafetyCorrect, PTL
=============================================================================
