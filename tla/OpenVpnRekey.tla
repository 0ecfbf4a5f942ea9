---------------------------- MODULE OpenVpnRekey ----------------------------
(* Soft resets of an OpenVPN session: two peers, each with a supervisor that *)
(* renegotiates the data key one reset at a time (client_connector.rs and    *)
(* server_connector.rs), the SoftResetCoordinator that numbers resets, the   *)
(* ring of data keys, the mux of control channels and the sessions kept for  *)
(* their keys. Every await of a renegotiation ends a step; a renegotiation   *)
(* that the peer started runs inside a select! branch and is dropped when    *)
(* the budget poll ticks first. The link is reduced to soft resets, their    *)
(* acknowledgments and whether the TLS handshake and the key-method exchange *)
(* of two registered channels end. Repeated resets that wait for a           *)
(* supervisor count once: the limit of their queue is left out.              *)
EXTENDS OpenVpnPeers, Naturals, Sequences, FiniteSets

CONSTANTS
    KeyMax,         \* KEY_ID_MAX_VALUE
    Scan,           \* OPENVPN_TLS_KEY_SCAN_SIZE
    Rekeys          \* bound: the rekeys each peer asks for, by the kind of link

ASSUME ScanAssumption == Scan \in Nat /\ KeyMax \in Nat /\ 1 < Scan /\ Scan + 1 < KeyMax
ASSUME RekeysAssumption == Rekeys \in [{"calm", "rough"} -> SUBSET [Peers -> Nat]]

VARIABLES
    link,           \* "rough": handshakes outlast the 100 ms of the budget poll or
                    \* time out although the peer takes part, acknowledgments of
                    \* soft resets are lost. "calm": none of it, and a rekey starts
                    \* only when the one before is settled
    cut,            \* history: the peers that dropped a renegotiation
    outlived,       \* history: those with whose old key the peer still sent when the
                    \* transition window was over
    up,             \* the session lives: no supervisor returned an error
    task,           \* the renegotiation a supervisor is in
    coord,          \* SoftResetCoordinator
    ring,           \* OpenVpnDataKeyRing
    mux,            \* TlsControlChannelMuxCore, and the channels being dropped
    sessions,       \* OpenVpnActiveDataSession.renegotiations, oldest first
    requests,       \* rekeys that interval or budget will still ask for
    unacked,        \* keys whose soft reset a peer keeps retransmitting
    replies,        \* keys whose soft reset a peer has an acknowledgment under way for
    resets          \* keys of the SoftReset events queued for a supervisor

rekeyVars ==
    <<link, outlived, cut, up, task, coord, ring, mux, sessions, requests, unacked, replies,
      resets>>

Calm == link = "calm"
Rough == link = "rough"

Keys == 1 .. KeyMax
Steps == {"register", "handshake", "exchange", "install", "retire"}
Renegotiation(k, n, local, step) == [key |-> k, seq |-> n, local |-> local, step |-> step]
Idle == Renegotiation(0, 0, FALSE, "idle")
Task == [key: Keys, seq: Nat, local: BOOLEAN, step: Steps] \union {Idle}
Reset(k, n, status) == [key |-> k, seq |-> n, status |-> status]
ResetState == [key: Keys, seq: Nat, status: {"negotiating", "active", "lameduck"}]
Coordinator(states, active, n, promoted) ==
    [states |-> states, active |-> active, sequence |-> n, promoted |-> promoted]
DataKey == [key: Keys \union {0}, seq: Nat]
KeyOf(k, n) == [key |-> k, seq |-> n]
KeyRing(receive, send) == [receive |-> receive, send |-> send]
Mux(channels, primary, leaving) ==
    [channels |-> channels, primary |-> primary, leaving |-> leaving]

SupervisorsOK ==
    /\ link \in {"calm", "rough"} /\ cut \subseteq Peers /\ outlived \subseteq Peers
    /\ up \in [Peers -> BOOLEAN] /\ task \in [Peers -> Task]
    /\ coord \in [Peers -> [states: SUBSET ResetState, active: Keys \union {0},
                            sequence: Nat, promoted: Nat]]
    /\ requests \in [Peers -> Nat]
    /\ unacked \in [Peers -> SUBSET Keys] /\ replies \in [Peers -> SUBSET Keys]
    /\ resets \in [Peers -> SUBSET Keys]
ChannelsOK ==
    /\ ring \in [Peers -> [receive: SUBSET DataKey, send: DataKey]]
    /\ mux \in [Peers -> [channels: SUBSET (Keys \union {0}), primary: Keys \union {0},
                          leaving: SUBSET Keys]]
    /\ sessions \in [Peers -> Seq(Keys)]
Bounded(p) == Cardinality(ring[p].receive) <= Scan /\ Len(sessions[p]) <= Scan + 1
\* Every variable is in its range, the key ring and the kept sessions are bounded.
RekeyTypeOK == SupervisorsOK /\ ChannelsOK /\ \A p \in Peers : Bounded(p)

RekeyInit ==
    /\ link \in {"calm", "rough"} /\ cut = {} /\ outlived = {}
    /\ up = [p \in Peers |-> TRUE] /\ task = [p \in Peers |-> Idle]
    /\ coord = [p \in Peers |-> Coordinator({}, 0, 0, 0)]
    /\ ring = [p \in Peers |-> KeyRing({KeyOf(0, 0)}, KeyOf(0, 0))]
    /\ mux = [p \in Peers |-> Mux({0}, 0, {})]
    /\ sessions = [p \in Peers |-> <<>>] /\ requests \in Rekeys[link]
    /\ unacked = [p \in Peers |-> {}] /\ replies = [p \in Peers |-> {}]
    /\ resets = [p \in Peers |-> {}]

-----------------------------------------------------------------------------
(* Beginning: SoftResetCoordinator::begin_local and begin_remote.            *)

next_key_id(k) == IF k >= KeyMax THEN 1 ELSE k + 1

Negotiating(p) == {s \in coord[p].states : s.status = "negotiating"}
WithoutKey(states, k) == {s \in states : s.key # k}

begin(p, k, local) ==
    LET n == coord[p].sequence + 1
        states == WithoutKey(coord[p].states, k) \union {Reset(k, n, "negotiating")}
    IN /\ coord' = [coord EXCEPT ![p] = Coordinator(states, coord[p].active, n, coord[p].promoted)]
       /\ task' = [task EXCEPT ![p] = Renegotiation(k, n, local, "register")]

Waiting(p) == up[p] /\ task[p] = Idle
Quiet == \A p \in Peers : task[p] = Idle /\ unacked[p] = {} /\ resets[p] = {}

\* renegotiate, on an interval or on a budget that is used up.
renegotiate(p) ==
    /\ Waiting(p) /\ requests[p] > 0
    /\ Calm => Quiet
    /\ requests' = [requests EXCEPT ![p] = @ - 1]
    /\ IF Negotiating(p) = {} THEN begin(p, next_key_id(coord[p].active), TRUE)
       ELSE UNCHANGED <<task, coord>>
    /\ UNCHANGED <<link, outlived, cut, up, ring, mux, sessions, unacked, replies, resets>>

AlreadyBegun(p, k) ==
    \E s \in coord[p].states : s.key = k /\ (s.status = "negotiating" \/ coord[p].active = k)

\* handle_next_remote_reset and accept_remote_renegotiation.
accept_remote_renegotiation(p, k) ==
    /\ Waiting(p) /\ k \in resets[p]
    /\ resets' = [resets EXCEPT ![p] = @ \ {k}]
    /\ IF AlreadyBegun(p, k) THEN UNCHANGED <<task, coord>> ELSE begin(p, k, FALSE)
    /\ UNCHANGED <<link, outlived, cut, up, ring, mux, sessions, requests, unacked, replies>>

-----------------------------------------------------------------------------
(* The steps of a renegotiation.                                             *)

At(p, step) == up[p] /\ task[p].step = step
Goto(p, step) ==
    task' = [task EXCEPT ![p] = Renegotiation(task[p].key, task[p].seq, task[p].local, step)]
KeyOfTask(p) == KeyOf(task[p].key, task[p].seq)

\* An error: finish_failed, and the supervisor returns it, which ends the session.
Over(p) ==
    /\ up' = [up EXCEPT ![p] = FALSE]
    /\ task' = [task EXCEPT ![p] = Idle]
    /\ coord' = [coord EXCEPT ![p] =
           Coordinator(WithoutKey(coord[p].states, task[p].key),
                       coord[p].active, coord[p].sequence, coord[p].promoted)]

Duplicate(p) == At(p, "register") /\ task[p].key \in mux[p].channels

\* register_renegotiation_channel, and the soft reset of one that begins locally.
register_renegotiation_channel(p) ==
    LET k == task[p].key IN
    /\ At(p, "register") /\ ~Duplicate(p)
    /\ mux' = [mux EXCEPT ![p] = Mux(mux[p].channels \union {k}, mux[p].primary, mux[p].leaving)]
    /\ IF task[p].local
       THEN unacked' = [unacked EXCEPT ![p] = @ \union {k}] /\ UNCHANGED replies
       ELSE replies' = [replies EXCEPT ![p] = @ \union {k}] /\ UNCHANGED unacked
    /\ Goto(p, "handshake")
    /\ UNCHANGED <<link, outlived, cut, up, coord, ring, sessions, requests, resets>>

DuplicateKeyId(p) ==
    /\ Duplicate(p) /\ Over(p)
    /\ UNCHANGED <<link, outlived, cut, ring, mux, sessions, requests, unacked, replies, resets>>

\* sort_and_limit keeps the newest keys.
sort_and_limit(receive) ==
    {e \in receive : Cardinality({f \in receive : f.seq > e.seq}) < Scan}
stage(p, e) == sort_and_limit({f \in ring[p].receive : f.key # e.key} \union {e})

\* The peer has come so far with the key state, or has finished with it; or it
\* answered before it dropped the renegotiation or ended.
TakesPart(q, k, steps) ==
    \/ task[q].key = k /\ task[q].step \in steps
    \/ ring[q].send.key = k
Answers(q, k, steps) == TakesPart(q, k, steps) \/ q \in cut \/ ~up[q]
PastHandshake == {"exchange", "install", "retire"}

\* connect or accept: the TLS handshake of the new channel, within handshake_window.
handshake(p) ==
    /\ At(p, "handshake")
    /\ Answers(Other(p), task[p].key, Steps \ {"register"})
    /\ Goto(p, "exchange")
    /\ UNCHANGED <<link, outlived, cut, up, coord, ring, mux, sessions, requests, unacked,
                   replies, resets>>

\* The peer has this reset on its books but nobody works on it, or it is gone.
Abandoned(q, k) ==
    \/ ~up[q]
    \/ task[q].key # k /\ \E s \in Negotiating(q) : s.key = k

HandshakeTimeout(p) ==
    /\ At(p, "handshake")
    /\ Rough \/ Abandoned(Other(p), task[p].key)
    /\ Over(p)
    /\ UNCHANGED <<link, outlived, cut, ring, mux, sessions, requests, unacked, replies, resets>>

\* The key-method messages are exchanged, for which there is no timeout, and the
\* new key can be received. A peer writes its message when its handshake is over.
negotiate(p) ==
    LET e == KeyOfTask(p) IN
    /\ At(p, "exchange")
    /\ Answers(Other(p), e.key, PastHandshake)
    /\ ring' = [ring EXCEPT ![p] = KeyRing(stage(p, e), ring[p].send)]
    /\ Goto(p, "install")
    /\ UNCHANGED <<link, outlived, cut, up, coord, mux, sessions, requests, unacked, replies,
                   resets>>

\* A message that cannot be read, or whose credentials or certificate are refused.
ExchangeFails(p) ==
    /\ Rough /\ At(p, "exchange") /\ Over(p)
    /\ UNCHANGED <<link, outlived, cut, ring, mux, sessions, requests, unacked, replies, resets>>

\* Mutant: the ring forgets the old keys at once.
ForgetsOldKey(p) ==
    LET e == KeyOfTask(p) IN
    /\ At(p, "install")
    /\ mux' = [mux EXCEPT ![p] = Mux(mux[p].channels, e.key, mux[p].leaving)]
    /\ ring' = [ring EXCEPT ![p] = KeyRing({e}, e)]
    /\ sessions' = [sessions EXCEPT ![p] = Append(@, e.key)]
    /\ Goto(p, "retire")
    /\ UNCHANGED <<link, outlived, cut, up, coord, requests, unacked, replies, resets>>

\* install_renegotiation: the mux and then the ring promote the key.
install_renegotiation(p) ==
    LET e == KeyOfTask(p) IN
    /\ At(p, "install")
    /\ e.key \in mux[p].channels /\ e \in ring[p].receive /\ e.seq > ring[p].send.seq
    /\ mux' = [mux EXCEPT ![p] = Mux(mux[p].channels, e.key, mux[p].leaving)]
    /\ ring' = [ring EXCEPT ![p] = KeyRing(ring[p].receive, e)]
    /\ sessions' = [sessions EXCEPT ![p] = Append(@, e.key)]
    /\ Goto(p, "retire")
    /\ UNCHANGED <<link, outlived, cut, up, coord, requests, unacked, replies, resets>>

Crowded(p) == Len(sessions[p]) > Scan

\* Mutant: the channel of an old session stays registered.
RetiresNothing(p) == {}

Retired(p) == IF Crowded(p) THEN {Head(sessions[p])} ELSE {}
KeptSessions(p) == IF Crowded(p) THEN Tail(sessions[p]) ELSE sessions[p]

\* The channels once those of keys are unregistered: the primary one stays.
Closed(p, keys) == mux[p].channels \ (keys \ {mux[p].primary})

NewestStates(states) ==
    {s \in states : \/ s.status = "negotiating"
                    \/ Scan > Cardinality({t \in states : t.status # "negotiating"
                                                           /\ t.seq > s.seq})}

\* Mutant: the old key stays the active one.
StaysBehind(p, expired) ==
    Coordinator(WithoutKey(coord[p].states, task[p].key), coord[p].active,
                coord[p].sequence, task[p].seq)

\* finish_success: the newest sequence becomes active, the old one a lame duck; a
\* late one stays receive-only. Lame ducks past the transition window are pruned.
Promoted(p, expired) ==
    LET t == task[p]
        wins == t.seq > coord[p].promoted
        mine == Reset(t.key, t.seq, IF wins THEN "active" ELSE "lameduck")
        aged == {IF wins /\ s.status = "active" THEN Reset(s.key, s.seq, "lameduck") ELSE s :
                 s \in WithoutKey(coord[p].states, t.key)}
    IN Coordinator(NewestStates((aged \ expired) \union {mine}),
                   IF wins THEN t.key ELSE coord[p].active,
                   coord[p].sequence,
                   IF wins THEN t.seq ELSE coord[p].promoted)

\* The oldest session is shut down and its channel unregistered; then the
\* coordinator hears of the success.
finish_success(p) ==
    /\ At(p, "retire")
    /\ mux' = [mux EXCEPT ![p] = Mux(Closed(p, Retired(p)), mux[p].primary, mux[p].leaving)]
    /\ unacked' = [unacked EXCEPT ![p] = @ \ Retired(p)]
    /\ sessions' = [sessions EXCEPT ![p] = KeptSessions(p)]
    /\ \E expired \in SUBSET {s \in coord[p].states : s.status = "lameduck"} :
         coord' = [coord EXCEPT ![p] = Promoted(p, expired)]
    /\ task' = [task EXCEPT ![p] = Idle]
    /\ UNCHANGED <<link, outlived, cut, up, ring, requests, replies, resets>>

\* The channel a renegotiation has of its own, or the session it has just taken.
Dropped(p) ==
    IF task[p].step = "register" THEN {}
    ELSE IF task[p].step = "retire" THEN Retired(p) ELSE {task[p].key}

\* The budget poll ticks during a renegotiation the peer began: select! drops it
\* where it stands, with its TLS stream, and its channel will find it closed.
Cancel(p) ==
    /\ Rough /\ up[p] /\ task[p] # Idle /\ ~task[p].local
    /\ task[p].step = "retire" => Crowded(p)
    /\ task' = [task EXCEPT ![p] = Idle] /\ cut' = cut \union {p}
    /\ mux' = [mux EXCEPT ![p] =
           Mux(mux[p].channels, mux[p].primary, mux[p].leaving \union Dropped(p))]
    /\ sessions' = [sessions EXCEPT ![p] =
           IF task[p].step = "retire" THEN KeptSessions(p) ELSE sessions[p]]
    /\ UNCHANGED <<link, outlived, up, coord, ring, requests, unacked, replies, resets>>

unregister(p, k) ==
    /\ up[p] /\ k \in mux[p].leaving
    /\ mux' = [mux EXCEPT ![p] = Mux(Closed(p, {k}), mux[p].primary, mux[p].leaving \ {k})]
    /\ unacked' = [unacked EXCEPT ![p] = @ \ {k}]
    /\ UNCHANGED <<link, outlived, cut, up, task, coord, ring, sessions, requests, replies, resets>>

-----------------------------------------------------------------------------
(* Time and the link.                                                        *)

\* prune: a receive-only key leaves an hour after another one was promoted, also
\* when the peer, whose exchange may take as long as it likes, still sends with it.
\* The key just staged is promoted at once.
prune(p, e) ==
    /\ e \in ring[p].receive \ {ring[p].send}
    /\ task[p].step = "install" => e # KeyOfTask(p)
    /\ ring' = [ring EXCEPT ![p] = KeyRing(ring[p].receive \ {e}, ring[p].send)]
    /\ outlived' = IF e.key = ring[Other(p)].send.key THEN outlived \union {p} ELSE outlived
    /\ UNCHANGED <<link, cut, up, task, coord, mux, sessions, requests, unacked, replies, resets>>

\* A soft reset arrives, the first one or one of its retransmissions: whatever
\* the state of its key, it is an event for the supervisor.
ResetArrives(p, k) ==
    LET q == Other(p) IN
    /\ up[p] /\ up[q] /\ k \in unacked[q] \ resets[p]
    /\ resets' = [resets EXCEPT ![p] = @ \union {k}]
    /\ UNCHANGED <<link, outlived, cut, up, task, coord, ring, mux, sessions, requests, unacked,
                   replies>>

ResetAcked(p, k) ==
    LET q == Other(p) IN
    /\ up[p] /\ up[q] /\ k \in replies[q]
    /\ replies' = [replies EXCEPT ![q] = @ \ {k}]
    /\ unacked' = [unacked EXCEPT ![p] = @ \ {k}]
    /\ UNCHANGED <<link, outlived, cut, up, task, coord, ring, mux, sessions, requests, resets>>

AckIsLost(p, k) ==
    /\ Rough /\ k \in replies[p]
    /\ replies' = [replies EXCEPT ![p] = @ \ {k}]
    /\ UNCHANGED <<link, outlived, cut, up, task, coord, ring, mux, sessions, requests, unacked,
                   resets>>

Work(p) ==
    \/ register_renegotiation_channel(p) \/ DuplicateKeyId(p) \/ handshake(p) \/ negotiate(p)
    \/ install_renegotiation(p) \/ finish_success(p)

RekeyNext ==
    \E p \in Peers :
        \/ renegotiate(p) \/ Work(p) \/ HandshakeTimeout(p) \/ ExchangeFails(p) \/ Cancel(p)
        \/ \E k \in Keys : \/ accept_remote_renegotiation(p, k) \/ unregister(p, k)
                           \/ ResetArrives(p, k) \/ ResetAcked(p, k) \/ AckIsLost(p, k)
        \/ \E e \in ring[p].receive : prune(p, e)

\* The tasks run, resets are sent again until they are acknowledged, and a
\* handshake nobody answers runs into its window.
Supervise(p) == Work(p) \/ \E k \in Keys : accept_remote_renegotiation(p, k)
Unregister(p) == \E k \in Keys : unregister(p, k)
Deliver(p) == \E k \in Keys : ResetArrives(p, k) \/ ResetAcked(p, k)
RekeyFairness ==
    \A p \in Peers : /\ WF_rekeyVars(Supervise(p)) /\ WF_rekeyVars(HandshakeTimeout(p))
                     /\ WF_rekeyVars(Unregister(p)) /\ WF_rekeyVars(Deliver(p))

RekeySpec == RekeyInit /\ [][RekeyNext]_rekeyVars
FairRekeySpec == RekeySpec /\ RekeyFairness

-----------------------------------------------------------------------------
(* Properties.                                                               *)

\* The ring holds the key outbound packets use, at a peer that dropped no
\* renegotiation: the expect() of data_plane does not fail there.
SendKeyExists == \A p \in Peers \ cut : ring[p].send \in ring[p].receive

\* A negotiated key can be installed: its channel is registered, its entry in the
\* ring was not pushed out, and nothing newer was promoted.
InstallSucceeds ==
    \A p \in Peers : At(p, "install") =>
        /\ task[p].key \in mux[p].channels
        /\ KeyOfTask(p) \in ring[p].receive
        /\ task[p].seq > ring[p].send.seq

\* Between renegotiations coordinator, key ring and mux name the same key, and
\* its control channel is registered.
KeysAgree ==
    \A p \in Peers : Waiting(p) /\ Negotiating(p) = {} =>
        /\ coord[p].active = ring[p].send.key
        /\ coord[p].promoted = ring[p].send.seq
        /\ mux[p].primary = ring[p].send.key
        /\ mux[p].primary \in mux[p].channels

\* What holds at every step of a rekey.
RekeySafetyInv == RekeyTypeOK /\ SendKeyExists /\ InstallSucceeds /\ KeysAgree

\* What a peer sends the other can decrypt: it has the key, or its own exchange of
\* that very key is about to end. As long as no renegotiation is dropped and no
\* rekey outlasts the transition window, that is (RekeyNeverSilences is without
\* these exceptions).
Reads(p, k) ==
    \/ \E e \in ring[p].receive : e.key = k
    \/ task[p].step = "exchange" /\ task[p].key = k
PeerReads ==
    (\A p \in Peers : up[p]) /\ cut = {} /\ outlived = {} =>
        \A p \in Peers : Reads(p, ring[Other(p)].send.key)

\* Over a calm link a rekey that one peer begins ends with both peers sending with
\* the newest key state and the same key id, also when key ids wrap and sessions
\* and channels are retired.
Rekeyed ==
    \A p \in Peers : /\ ring[p].send.seq = coord[p].sequence
                     /\ ring[p].send.key = ring[Other(p)].send.key
RekeyCompletes == Calm => \A p \in Peers : task[p].local ~> Rekeyed

-----------------------------------------------------------------------------
(* The inductive invariant. *)

Negotiates(p) == task[p].step \in {"register", "handshake", "exchange", "install"}
HasChannel(p) == task[p].step \in {"handshake", "exchange", "install"}
LastSession(s) == IF s = <<>> THEN 0 ELSE s[Len(s)]

\* The numbers of the ring are distinct and none is newer than the newest reset,
\* which is the one the supervisor works on. Its key becomes the newest one, is
\* in the ring from the exchange on and sends last.
RingInv(p) ==
    /\ IsFiniteSet(ring[p].receive)
    /\ \A e, f \in ring[p].receive : e.seq = f.seq => e = f
    /\ \A e \in ring[p].receive : e.seq <= coord[p].sequence
    /\ ring[p].send.seq <= coord[p].sequence
    /\ task[p] # Idle => /\ task[p].seq = coord[p].sequence
                         /\ Reset(task[p].key, task[p].seq, "negotiating") \in coord[p].states
    /\ task[p].step \in {"register", "handshake", "exchange"} =>
           \A e \in ring[p].receive : e.seq < task[p].seq
    /\ task[p].step = "install" => KeyOfTask(p) \in ring[p].receive
    /\ Negotiates(p) => ring[p].send.seq < task[p].seq

\* The kept sessions and the renegotiation under way have channels of their own,
\* which nobody is dropping; the last session is the primary one, and its key sends.
MuxInv(p) ==
    /\ mux[p].leaving \subseteq mux[p].channels
    /\ \A i \in DOMAIN sessions[p] : sessions[p][i] \in mux[p].channels \ mux[p].leaving
    /\ \A i, j \in DOMAIN sessions[p] : sessions[p][i] = sessions[p][j] => i = j
    /\ HasChannel(p) => /\ task[p].key \in mux[p].channels \ mux[p].leaving
                        /\ \A i \in DOMAIN sessions[p] : sessions[p][i] # task[p].key
    /\ task[p].step # "retire" => Len(sessions[p]) <= Scan
    /\ mux[p].primary \in mux[p].channels
    /\ mux[p].primary = ring[p].send.key /\ ring[p].send.key = LastSession(sessions[p])

\* A supervisor that dropped a renegotiation has its reset on the books for good;
\* at any other the sending key is the newest but for the one being installed, and
\* the coordinator follows it.
CoordInv(p) ==
    IF p \in cut THEN \E s \in Negotiating(p) : s.key # task[p].key
    ELSE /\ ring[p].send \in ring[p].receive
         /\ \A e \in ring[p].receive :
                e.seq <= ring[p].send.seq \/ (task[p].step = "install" /\ e = KeyOfTask(p))
         /\ task[p].step # "retire" => /\ coord[p].active = ring[p].send.key
                                       /\ coord[p].promoted = ring[p].send.seq
         /\ task[p].step = "retire" => /\ ring[p].send = KeyOfTask(p)
                                       /\ coord[p].promoted < task[p].seq

\* p already sends with the key its peer has not installed yet, and keeps the one
\* its peer sends with: that of the session before.
Ahead(p) ==
    LET q == Other(p)
        k == ring[q].send.key
        n == Len(sessions[p])
    IN /\ task[q].step \in {"exchange", "install"} /\ task[q].key = ring[p].send.key
       /\ \E e \in ring[p].receive : e.key = k
       /\ \/ n = 1 /\ k = 0
          \/ n > 1 /\ sessions[p][n - 1] = k

\* While nothing is dropped the peers send with the same key or one is a step
\* ahead, and what is being installed was negotiated with the peer.
Joint(p) == Ahead(p) \/ Ahead(Other(p)) \/ ring[p].send.key = ring[Other(p)].send.key
Backed(p) ==
    task[p].step = "install" => TakesPart(Other(p), task[p].key, PastHandshake)
Together ==
    (\A p \in Peers : up[p]) /\ cut = {} /\ outlived = {} =>
        \A p \in Peers : Joint(p) /\ Backed(p)

RekeyInv ==
    /\ RekeyTypeOK
    /\ \A p \in Peers : RingInv(p) /\ MuxInv(p) /\ CoordInv(p)
    /\ Together

-----------------------------------------------------------------------------
(* What the code does not keep, over a rough link. *)

\* data_plane expects that "an active OpenVPN data key always exists".
ActiveKeyExists == \A p \in Peers : ring[p].send \in ring[p].receive

\* A soft reset that arrives late or again never ends the session.
RepeatedResetIsHarmless == \A p \in Peers : ~Duplicate(p)

\* A peer can always decrypt what the other sends.
RekeyNeverSilences ==
    (\A p \in Peers : up[p]) => \A p \in Peers : Reads(p, ring[Other(p)].send.key)

=============================================================================
