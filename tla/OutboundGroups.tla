--------------------------- MODULE OutboundGroups ---------------------------
(* Outbound groups of the proxy engine: selectors, which the user switches,  *)
(* and URL-test groups, which probe their members and keep the fastest one.  *)
(* Groups may contain groups. A refresh of a URL-test group, a switch of a   *)
(* selector and the dials that pass through them run on different tasks and  *)
(* meet at the state lock and the async check lock of each group.            *)
EXTENDS Naturals, Sequences, Functions

CONSTANTS
    Leaves,         \* outbounds that are not groups
    UrlTests,
    Selectors,
    Setups,         \* the configurations considered
    ForcedCallers,  \* callers of refresh(true): interface updates and the API
    Delays,         \* delays a probe may measure
    Tolerance,
    Dialers,        \* bound: dials and connections at the same time
    Absent,           \* no tag, no delay, no caller
    Pending         \* a probe that has not ended

Groups == UrlTests \union Selectors
Tags == Leaves \union Groups
Callers == {"background"} \union ForcedCallers \union UrlTests

\* An outbound is of one kind, and the members of a group exist.
ASSUME KindsAssumption ==
    /\ Leaves \intersect Groups = {} /\ UrlTests \intersect Selectors = {}
    /\ Absent \notin Tags \union Callers
ASSUME GroupsAssumption ==
    \A s \in Setups :
        /\ DOMAIN s.members \subseteq Groups
        /\ \A g \in DOMAIN s.members :
               s.members[g] \in Seq(Leaves \union DOMAIN s.members) /\ s.members[g] # <<>>
        /\ s.root \in DOMAIN s.members /\ s.interrupt \in BOOLEAN
        /\ s.flaky \subseteq Leaves /\ s.forced \subseteq ForcedCallers
        /\ s.dialers \subseteq Dialers /\ s.delays \subseteq Delays
ASSUME DelaysAssumption ==
    /\ Delays \subseteq Nat /\ {Absent, Pending} \intersect Delays = {} /\ Absent # Pending
    /\ Tolerance \in Nat

VARIABLES
    setup,          \* the configuration of this behaviour, fixed from the start
    delay,          \* what a probe through each leaf would measure now
    chosen,         \* selected of a selector, State.selected of a URL test
    history,        \* State.history
    fresh,          \* State.last_checked is younger than the interval
    active,         \* State.last_active is younger than the idle timeout
    check,          \* the caller that holds the check lock
    call,           \* the refresh under way for each caller
    conn            \* dials and connections

groupVars == <<chosen, history, fresh, active>>
vars == <<setup, delay, groupVars, check, call, conn>>

Members == setup.members                \* the configured order of each group
Root == setup.root                      \* the group that dials enter
InterruptExist == setup.interrupt       \* interrupt_exist_connections
Forced == setup.forced
Active == setup.dialers                 \* bound: those that dial
Flaky == setup.flaky                    \* bound: the leaves whose reachability changes
Urls == UrlTests \intersect DOMAIN Members
Picks == Selectors \intersect DOMAIN Members

Call(pc, force, got) == [pc |-> pc, force |-> force, got |-> got]
Conn(pc, ext, read, hops) == [pc |-> pc, ext |-> ext, read |-> read, hops |-> hops]
NoDelays == [l \in Leaves |-> Absent]
NoCall == Call("idle", FALSE, NoDelays)
NoConn == Conn("idle", FALSE, Absent, <<>>)
Calls == [pc: {"idle", "locking", "testing", "nesting", "returned"}, force: BOOLEAN,
          got: [Leaves -> Delays \union {Absent, Pending}]]
Hop == [group: Groups, tag: Tags, live: BOOLEAN]
Conns == [pc: {"idle", "entering", "open", "failing"}, ext: BOOLEAN,
          read: Tags \union {Absent}, hops: Seq(Hop)]

TypeOK ==
    /\ setup \in Setups
    /\ delay \in [Leaves -> Delays \union {Absent}]
    /\ chosen \in [Groups -> Tags \union {Absent}] /\ \A s \in Picks : chosen[s] # Absent
    /\ history \in [UrlTests -> [Leaves -> Delays \union {Absent}]]
    /\ fresh \in [UrlTests -> BOOLEAN] /\ active \in [UrlTests -> BOOLEAN]
    /\ check \in [UrlTests -> Callers \union {Absent}]
    /\ call \in [UrlTests -> [Callers -> Calls]]
    /\ conn \in [Dialers -> Conns]
    /\ \A g \in DOMAIN Members : chosen[g] \in Range(Members[g]) \union {Absent}

selected_or_first(g) == IF chosen[g] = Absent THEN Members[g][1] ELSE chosen[g]

\* The leaf a tag stands for, following the choices of nested groups.
real_tag(tag) ==
    LET leaf[t \in Tags] == IF t \in Leaves THEN t ELSE leaf[selected_or_first(t)]
    IN  leaf[tag]

\* Selectors are replaced by their choices, URL tests refresh on their own.
collect_work(g) ==
    LET work[t \in Tags] ==
            IF t \in Selectors THEN UNION {work[m] : m \in Range(Members[t])} ELSE {t}
    IN  UNION {work[m] : m \in Range(Members[g])}
Targets(g) == collect_work(g) \intersect Leaves
Nested(g) == collect_work(g) \intersect UrlTests

Init ==
    /\ setup \in Setups
    /\ delay \in [Leaves -> setup.delays]
    /\ chosen = [g \in Groups |-> IF g \in Picks THEN Members[g][1] ELSE Absent]
    /\ history = [g \in UrlTests |-> NoDelays]
    /\ fresh = [g \in UrlTests |-> FALSE]
    /\ active = [g \in UrlTests |-> TRUE]
    /\ check = [g \in UrlTests |-> Absent]
    /\ call = [g \in UrlTests |-> [c \in Callers |-> NoCall]]
    /\ conn = [d \in Dialers |-> NoConn]

-----------------------------------------------------------------------------
(* InterruptGenerations *)

\* Connection c with its tokens of group g cancelled, if they are to be.
Cut(c, g, cancelled) ==
    Conn(c.pc, c.ext, c.read,
         [i \in DOMAIN c.hops |->
             [group |-> c.hops[i].group, tag |-> c.hops[i].tag,
              live |-> c.hops[i].live /\ ~(c.hops[i].group = g /\ cancelled)]])

\* Mutant: the tokens of internal connections are forgotten.
OnlyExternal(g) ==
    [d \in Dialers |-> Cut(conn[d], g, conn[d].ext /\ InterruptExist)]

\* The connections after group g moved its generations: the tokens taken for
\* internal connections are cancelled, external ones only if so configured.
interrupt(g) ==
    [d \in Dialers |-> Cut(conn[d], g, ~conn[d].ext \/ InterruptExist)]

-----------------------------------------------------------------------------
(* UrlTestOutbound::refresh *)

\* Mutant: the parent of a nested refresh is not told.
NothingReturned(g, c, result) == NoCall

\* The caller of a refresh that is over: a parent group waits for the result.
Return(g, c, result) ==
    IF c \in UrlTests THEN Call("returned", FALSE, result) ELSE NoCall

\* A refresh looks at the time of the last check before it queues for the lock.
Begin(g, c, force) ==
    IF ~force /\ fresh[g] THEN Return(g, c, history[g])
    ELSE Call("locking", force, NoDelays)

\* The ticker of the background task refreshes a group that is in use.
Tick(g) ==
    /\ call[g]["background"].pc = "idle" /\ active[g] /\ ~fresh[g]
    /\ call' = [call EXCEPT ![g]["background"] = Begin(g, "background", FALSE)]
    /\ UNCHANGED <<setup, delay, groupVars, check, conn>>

\* The network monitor, or the user through the API, asks for a refresh.
interface_updated(g, c) ==
    /\ call[g][c].pc = "idle"
    /\ call' = [call EXCEPT ![g][c] = Begin(g, c, TRUE)]
    /\ UNCHANGED <<setup, delay, groupVars, check, conn>>

ToProbe(g) == [l \in Leaves |-> IF l \in Targets(g) THEN Pending ELSE Absent]

\* Mutant: the time of the last check is not read again under the lock.
LockOnce(g, c) ==
    /\ call[g][c].pc = "locking" /\ check[g] = Absent
    /\ call' = [call EXCEPT ![g][c] = Call("testing", @.force, ToProbe(g))]
    /\ check' = [check EXCEPT ![g] = c]
    /\ UNCHANGED <<setup, delay, groupVars, conn>>

\* With the lock the refresh looks again; the one before may have done the work.
Lock(g, c) ==
    /\ call[g][c].pc = "locking" /\ check[g] = Absent
    /\ IF ~call[g][c].force /\ fresh[g]
       THEN /\ call' = [call EXCEPT ![g][c] = Return(g, c, history[g])]
            /\ UNCHANGED check
       ELSE /\ call' = [call EXCEPT ![g][c] = Call("testing", @.force, ToProbe(g))]
            /\ check' = [check EXCEPT ![g] = c]
    /\ UNCHANGED <<setup, delay, groupVars, conn>>

\* One of the concurrent probes ends: with a delay, an error or its timeout.
Probe(g, c, l) ==
    /\ call[g][c].pc = "testing" /\ call[g][c].got[l] = Pending
    /\ call' = [call EXCEPT ![g][c] = Call("testing", @.force, [@.got EXCEPT ![l] = delay[l]])]
    /\ UNCHANGED <<setup, delay, groupVars, check, conn>>

Tested(g, c) == call[g][c].pc = "testing" /\ \A l \in Leaves : call[g][c].got[l] # Pending

\* All probes joined, the nested URL tests are refreshed.
Nest(g, c) ==
    /\ Tested(g, c) /\ Nested(g) # {}
    /\ call' = [h \in UrlTests |-> [k \in Callers |->
           IF h = g /\ k = c THEN Call("nesting", call[g][c].force, call[g][c].got)
           ELSE IF h \in Nested(g) /\ k = g THEN Begin(h, g, call[g][c].force)
           ELSE call[h][k]]]
    /\ UNCHANGED <<setup, delay, groupVars, check, conn>>

Joined(g, c) ==
    \/ Tested(g, c) /\ Nested(g) = {}
    \/ call[g][c].pc = "nesting" /\ \A n \in Nested(g) : call[n][g].pc = "returned"

\* Mutant: a failed probe leaves the entry of an earlier one.
KeepsFailed(g, c) ==
    [l \in Leaves |-> IF call[g][c].got[l] = Absent THEN history[g][l] ELSE call[g][c].got[l]]

\* The history of g with the results of the probes and of the nested refreshes:
\* a failed probe removes its entry, what a nested refresh returns is inserted.
Merged(g, c) ==
    [l \in Leaves |->
        LET returned == {n \in Nested(g) : call[n][g].got[l] # Absent}
        IN  CASE returned # {} -> call[CHOOSE n \in returned : TRUE][g].got[l]
              [] returned = {} /\ l \in Targets(g) -> call[g][c].got[l]
              [] OTHER -> history[g][l]]

\* The first member of the order with the least delay, if any has one.
Lookup(h, tag) == IF real_tag(tag) \in Leaves THEN h[real_tag(tag)] ELSE Absent
Measured(g, h) == {i \in DOMAIN Members[g] : Lookup(h, Members[g][i]) # Absent}
Fastest(g, h) ==
    LET of(i) == Lookup(h, Members[g][i])
    IN  Members[g][CHOOSE i \in Measured(g, h) : \A j \in Measured(g, h) :
                       of(i) < of(j) \/ (of(i) = of(j) /\ i <= j)]

keep_current(g, h) ==
    /\ chosen[g] # Absent /\ Lookup(h, chosen[g]) # Absent
    /\ Lookup(h, chosen[g]) <= Lookup(h, Fastest(g, h)) + Tolerance

Best(g, h) ==
    IF Measured(g, h) = {} THEN selected_or_first(g)
    ELSE IF keep_current(g, h) THEN chosen[g] ELSE Fastest(g, h)

\* Under the state lock the results are applied, the choice is made, and a
\* change of the choice moves the generations; then the check lock is released.
Apply(g, c) ==
    /\ Joined(g, c)
    /\ LET h == Merged(g, c) IN
       /\ history' = [history EXCEPT ![g] = h]
       /\ chosen' = [chosen EXCEPT ![g] = Best(g, h)]
       /\ conn' = IF Best(g, h) # chosen[g] THEN interrupt(g) ELSE conn
       /\ call' = [n \in UrlTests |-> [k \in Callers |->
              IF n = g /\ k = c THEN Return(g, c, h)
              ELSE IF n \in Nested(g) /\ k = g THEN NoCall
              ELSE call[n][k]]]
    /\ fresh' = [fresh EXCEPT ![g] = TRUE]
    /\ check' = [check EXCEPT ![g] = Absent]
    /\ UNCHANGED <<setup, delay, active>>

\* The interval passes since the last check, or the idle timeout since a dial.
Expire(g) ==
    /\ fresh[g] /\ fresh' = [fresh EXCEPT ![g] = FALSE]
    /\ UNCHANGED <<setup, delay, chosen, history, active, check, call, conn>>
IdleOut(g) ==
    /\ active[g] /\ active' = [active EXCEPT ![g] = FALSE]
    /\ UNCHANGED <<setup, delay, chosen, history, fresh, check, call, conn>>

-----------------------------------------------------------------------------
(* SelectorOutbound::select *)

\* Readers of the choice wait for the write lock, which is held until the
\* generations have moved.
select(s, tag) ==
    /\ tag \in Range(Members[s]) /\ tag # chosen[s]
    /\ chosen' = [chosen EXCEPT ![s] = tag]
    /\ conn' = interrupt(s)
    /\ UNCHANGED <<setup, delay, history, fresh, active, check, call>>

-----------------------------------------------------------------------------
(* Dials *)

At(d) == IF conn[d].hops = <<>> THEN Root ELSE conn[d].hops[Len(conn[d].hops)].tag
Entered(d, tag) ==
    [conn EXCEPT ![d] = Conn("entering", @.ext, Absent,
                             Append(@.hops, [group |-> At(d), tag |-> tag, live |-> TRUE]))]

\* A routed user connection (external) or one of a protocol (internal).
Dial(d, ext) ==
    /\ conn[d].pc = "idle"
    /\ conn' = [conn EXCEPT ![d] = Conn("entering", ext, Absent, <<>>)]
    /\ UNCHANGED <<setup, delay, groupVars, check, call>>

\* UrlTestOutbound::current takes the choice and the token under one lock.
take_current(d) ==
    /\ conn[d].pc = "entering" /\ At(d) \in UrlTests
    /\ conn' = Entered(d, selected_or_first(At(d)))
    /\ active' = [active EXCEPT ![At(d)] = TRUE]
    /\ UNCHANGED <<setup, delay, chosen, history, fresh, check, call>>

\* SelectorOutbound::current reads the choice, then takes the token.
selected(d) ==
    /\ conn[d].pc = "entering" /\ At(d) \in Selectors /\ conn[d].read = Absent
    /\ conn' = [conn EXCEPT ![d] = Conn("entering", @.ext, chosen[At(d)], @.hops)]
    /\ UNCHANGED <<setup, delay, groupVars, check, call>>
token(d) ==
    /\ conn[d].pc = "entering" /\ conn[d].read # Absent
    /\ conn' = Entered(d, conn[d].read)
    /\ UNCHANGED <<setup, delay, groupVars, check, call>>

\* The dial of the leaf ends; its destination is not the one that is probed.
Connect(d) ==
    /\ conn[d].pc = "entering" /\ At(d) \in Leaves
    /\ \E pc \in {"open", "failing"} : conn' = [conn EXCEPT ![d] = Conn(pc, @.ext, Absent, @.hops)]
    /\ UNCHANGED <<setup, delay, groupVars, check, call>>

\* The error passes the groups from the inside out, and URL tests forget.
invalidate(d) ==
    /\ conn[d].pc = "failing" /\ conn[d].hops # <<>>
    /\ LET hop == conn[d].hops[Len(conn[d].hops)] IN
       IF hop.group \in UrlTests
       THEN /\ history' = [history EXCEPT ![hop.group][real_tag(hop.tag)] = Absent]
            /\ fresh' = [fresh EXCEPT ![hop.group] = FALSE]
       ELSE UNCHANGED <<history, fresh>>
    /\ conn' = [conn EXCEPT ![d] = IF Len(@.hops) = 1 THEN NoConn
                                   ELSE Conn("failing", @.ext, Absent, SubSeq(@.hops, 1, Len(@.hops) - 1))]
    /\ UNCHANGED <<setup, delay, chosen, active, check, call>>

\* The connection ends, by itself or because a token of it was cancelled.
Close(d) ==
    /\ conn[d].pc = "open"
    /\ conn' = [conn EXCEPT ![d] = NoConn]
    /\ UNCHANGED <<setup, delay, groupVars, check, call>>

\* A leaf becomes reachable, slower, faster or unreachable.
Reachability(l) ==
    /\ \E x \in setup.delays \union {Absent} : x # delay[l] /\ delay' = [delay EXCEPT ![l] = x]
    /\ UNCHANGED <<setup, groupVars, check, call, conn>>

-----------------------------------------------------------------------------
Refresh(g, c) ==
    \/ Lock(g, c) \/ Nest(g, c) \/ Apply(g, c)
    \/ \E l \in Leaves : Probe(g, c, l)

Next ==
    \/ \E g \in Urls : Tick(g) \/ Expire(g) \/ IdleOut(g)
    \/ \E g \in Urls, c \in Forced : interface_updated(g, c)
    \/ \E g \in Urls, c \in Callers : Refresh(g, c)
    \/ \E s \in Picks, tag \in Tags : select(s, tag)
    \/ \E d \in Active, ext \in BOOLEAN : Dial(d, ext)
    \/ \E d \in Active : \/ take_current(d) \/ selected(d) \/ token(d) \/ Connect(d)
                         \/ invalidate(d) \/ Close(d)
    \/ \E l \in Flaky : Reachability(l)

\* Probes end by their timeout, tasks are polled, time passes, and the check
\* lock is a fair queue.
Ticks(g) == g \in Urls /\ Tick(g)
Expires(g) == g \in Urls /\ Expire(g)
Locks(g, c) == g \in Urls /\ Lock(g, c)
Works(g, c) ==
    g \in Urls /\ (Nest(g, c) \/ Apply(g, c) \/ \E l \in Leaves : Probe(g, c, l))
Fairness ==
    \A g \in UrlTests :
        /\ WF_vars(Ticks(g)) /\ WF_vars(Expires(g))
        /\ \A c \in Callers \ {g} : SF_vars(Locks(g, c)) /\ WF_vars(Works(g, c))

Spec == Init /\ [][Next]_vars
FairSpec == Spec /\ Fairness

-----------------------------------------------------------------------------
(* Properties *)

\* When the selection of a group changes, the connections made through the old
\* choice are replaced (NetworkDialOptions::external_connection): while its token
\* is good, a connection goes through the present choice of the group. External
\* ones are exempt unless interrupt_exist_connections is set.
ThroughSelected(groups) ==
    \A d \in Dialers : \A i \in DOMAIN conn[d].hops :
        LET hop == conn[d].hops[i] IN
        /\ hop.group \in groups /\ hop.live /\ conn[d].pc # "failing"
        /\ ~conn[d].ext \/ InterruptExist
        => hop.tag = selected_or_first(hop.group)

\* So it is for URL tests, whose current() and refresh() use one lock.
UrlTestReplaces == ThroughSelected(UrlTests)

\* The interval holds between tasks: no refresh that was not forced is testing
\* a group whose last check is younger than the interval, whoever made it.
TestingIsDue ==
    \A g \in UrlTests, c \in Callers :
        call[g][c].pc \in {"testing", "nesting"} /\ ~call[g][c].force => ~fresh[g]

\* What holds at every step.
SafetyInv == TypeOK /\ TestingIsDue

\* A refresh always ends, those of nested groups included: the probes have a
\* timeout and the check locks are taken from the outside in.
RefreshEnds == \A g \in UrlTests : check[g] # Absent ~> check[g] = Absent

\* A URL test in use does not stay for ever with a leaf of its own that is
\* unreachable while another one answers: a failed probe drops out of the history
\* and the choice moves.
StuckOnDead(g) ==
    /\ g \in Urls /\ active[g] /\ chosen[g] \in Leaves /\ delay[chosen[g]] = Absent
    /\ \E b \in Leaves \intersect Range(Members[g]) : delay[b] # Absent
DeadIsLeft == \A g \in UrlTests : []<>~StuckOnDead(g)

-----------------------------------------------------------------------------
(* The inductive invariant. *)

\* The choice of a group is one of its members, and a selector always has one.
ChoicesOK ==
    /\ chosen \in [Groups -> Tags \union {Absent}]
    /\ \A g \in DOMAIN Members : chosen[g] \in Range(Members[g]) \union {Absent}
    /\ \A s \in Picks : chosen[s] # Absent

\* A refresh that is testing holds the check lock, and until then the group was
\* not checked by another one; no probe is left behind when testing is over.
CallOK(g, c) ==
    /\ call[g][c] \in Calls
    /\ call[g][c].pc \in {"testing", "nesting"} => check[g] = c
    /\ call[g][c].pc \in {"testing", "nesting"} /\ ~call[g][c].force => ~fresh[g]
    /\ call[g][c].pc # "testing" => \A l \in Leaves : call[g][c].got[l] # Pending

\* A dial only passes groups and leaves that are configured, and has read a
\* choice only in a selector.
Configured == Leaves \union DOMAIN Members
Place(hops) == IF hops = <<>> THEN Root ELSE hops[Len(hops)].tag
ConnOK(c) ==
    /\ c \in Conns
    /\ c.pc = "idle" => c.hops = <<>>
    /\ c.read # Absent => Place(c.hops) \in Selectors
    /\ c.read \in Configured \union {Absent}
    /\ \A i \in DOMAIN c.hops : c.hops[i].group \in Groups /\ c.hops[i].tag \in Configured

\* The hops of a connection through a URL test lead to its choice.
Through(c) ==
    \A i \in DOMAIN c.hops :
        c.hops[i].group \in UrlTests /\ c.hops[i].live /\ c.pc # "failing"
        /\ (~c.ext \/ InterruptExist) => c.hops[i].tag = selected_or_first(c.hops[i].group)

GroupsInv ==
    /\ setup \in Setups /\ delay \in [Leaves -> Delays \union {Absent}]
    /\ history \in [UrlTests -> [Leaves -> Delays \union {Absent}]]
    /\ fresh \in [UrlTests -> BOOLEAN] /\ active \in [UrlTests -> BOOLEAN]
    /\ check \in [UrlTests -> Callers \union {Absent}]
    /\ ChoicesOK
    /\ call \in [UrlTests -> [Callers -> Calls]] /\ \A g \in UrlTests, c \in Callers : CallOK(g, c)
    /\ conn \in [Dialers -> Conns] /\ \A d \in Dialers : ConnOK(conn[d]) /\ Through(conn[d])

-----------------------------------------------------------------------------
(* What the code does not keep. *)

\* UrlTestReplaces for selectors, whose current() takes two locks.
SelectorReplaces == ThroughSelected(Selectors)

\* A connection is interrupted by a group only when the group no longer sends
\* new connections the same way (InterruptibleStream: "outbound group selection
\* changed").
CutMeansMoved ==
    [][\A d \in Dialers : \A i \in DOMAIN conn[d].hops \intersect DOMAIN conn'[d].hops :
          LET hop == conn[d].hops[i] IN
          hop.live /\ ~conn'[d].hops[i].live => selected_or_first(hop.group)' # hop.tag]_vars

\* DeadIsLeft for the groups above: a leaf that stays unreachable is not where
\* dials end up. The history of a group keeps what a nested refresh returned.
NestedDeadIsLeft ==
    \A a, b \in Leaves :
        a # b /\ <>[](delay[a] = Absent /\ delay[b] # Absent /\ \A g \in Urls : active[g])
            => <>[](real_tag(Root) # a)

=============================================================================
