-------------------------- MODULE OpenVpnReliable --------------------------
(* The reliability layer of the OpenVPN control channel (protocol/openvpn    *)
(* reliable.rs, control_channel.rs and the tasks of control_io.rs): two      *)
(* peers of one key state exchange TLS bytes in numbered packets over a      *)
(* datagram link that loses, repeats and reorders them. A packet stays in a  *)
(* bounded send window until it is acknowledged; acknowledgments ride on     *)
(* packets or travel alone; the receiver restores the order. Retransmission  *)
(* timers and fast retransmission are abstracted to any subset of the        *)
(* window; what a packet carries is a chunk number.                          *)
EXTENDS OpenVpnPeers, Naturals, Sequences, FiniteSets, FiniteSetsExt

CONSTANTS
    Setups,         \* the configurations and key states considered, with a bound on
                    \* the chunks each peer writes
    SendBuf,        \* RELIABLE_SEND_BUFFER_SIZE
    RecvBuf,        \* RELIABLE_RECEIVE_BUFFER_SIZE
    MaxAcks,        \* MAXIMUM_ACKNOWLEDGMENTS_PER_PACKET
    AckCap,         \* ACKNOWLEDGMENT_SET_CAPACITY
    MaxNet          \* bound on the datagrams on the link

ASSUME RoleAssumption ==
    /\ Setups \subseteq [wkc: SUBSET Peers, resets: SUBSET Peers, protected: BOOLEAN,
                    total: [Peers -> Nat]]
    /\ \A s \in Setups : s.wkc # {} => s.protected /\ s.resets = {}
ASSUME SizeAssumption ==
    /\ SendBuf \in Nat \ {0} /\ RecvBuf \in Nat \ {0}
    /\ MaxAcks \in Nat \ {0} /\ AckCap \in Nat \ {0}
ASSUME BoundAssumption == MaxNet \in Nat \ {0}

VARIABLES
    setup,          \* the one of this behaviour, fixed from the start
    log,            \* the payloads of the numbered packets a peer created, by id
    inFlight,       \* OutgoingInner.in_flight
    toAck,          \* OutgoingInner.pending_acknowledgments
    pending,        \* IncomingInner.pending
    got,            \* the payloads next_ordered_sequence returned to a peer, by id
    refused,        \* history: the ids a peer acknowledged and could not keep
    open,           \* the task of spawn_tls_control_channel still runs
    net             \* the datagrams on the link

vars == <<setup, log, inFlight, toAck, pending, got, refused, open, net>>

Wkc == setup.wkc                \* the peers that hold a tls-crypt-v2 wrapped client key
Resets == setup.resets          \* those that opened this key state with a soft reset
Protected == setup.protected    \* tls-auth or tls-crypt: a repeated datagram fails to decode

Total == setup.total

Empty == 0                              \* the payload of an ACK-carrying packet
Payload == Nat
ResetId == 0                            \* a soft reset is packet 0
Packet == [from: Peers, kind: {"control", "reset", "ack"}, id: Nat,
           payload: Payload, acks: SUBSET Nat]

local_control_packet_id(p) == Len(log[p]) + 1
last_consumed_id(p) == Len(got[p])
Ids(packets) == {m.id : m \in packets}

LogsOK ==
    /\ log \in [Peers -> Seq(Payload)] /\ got \in [Peers -> Seq(Payload)]
    /\ toAck \in [Peers -> SUBSET Nat] /\ open \in [Peers -> BOOLEAN]
    /\ refused \in [Peers -> SUBSET Nat]
    /\ \A p \in Peers : Cardinality(toAck[p]) <= AckCap
PacketsOK ==
    /\ inFlight \in [Peers -> SUBSET Packet]
    /\ pending \in [Peers -> SUBSET Packet] /\ net \subseteq Packet
    /\ \A p \in Peers : /\ Cardinality(inFlight[p]) <= SendBuf
                        /\ Cardinality(pending[p]) <= RecvBuf
\* Every variable is in its range, and no buffer grows past its bound.
TypeOK == setup \in Setups /\ LogsOK /\ PacketsOK

SoftReset(p) == [from |-> p, kind |-> "reset", id |-> ResetId, payload |-> Empty, acks |-> {}]

\* The first key state: the hard resets are over and each side has seeded the
\* other's. A later one: send_initial_soft_reset by one side, seeded by the other,
\* or by both at once.
Init ==
    /\ setup \in Setups
    /\ log = [p \in Peers |-> <<>>] /\ got = [p \in Peers |-> <<>>]
    /\ inFlight = [p \in Peers |-> {SoftReset(q) : q \in {p} \intersect Resets}]
    /\ toAck = [p \in Peers |-> IF p \in Resets THEN {} ELSE {ResetId}]
    /\ open = [p \in Peers |-> TRUE]
    /\ pending = [p \in Peers |-> {}] /\ refused = [p \in Peers |-> {}]
    /\ net = {}

-----------------------------------------------------------------------------
(* Sending.                                                                  *)

\* take_acknowledgments takes the lowest ids first.
take_acknowledgments(p, maximum) ==
    {i \in toAck[p] : Cardinality({j \in toAck[p] : j < i}) < maximum}

WindowOpen(p) == Cardinality(inFlight[p]) < SendBuf

\* insert_outgoing_packet: the packet takes the next id and the acknowledgments.
insert_outgoing_packet(p, payload, maximum) ==
    LET acks == take_acknowledgments(p, maximum)
        packet == [from |-> p, kind |-> "control", id |-> local_control_packet_id(p),
                   payload |-> payload, acks |-> acks]
    IN /\ WindowOpen(p) /\ open[p]
       /\ log' = [log EXCEPT ![p] = Append(@, payload)]
       /\ inFlight' = [inFlight EXCEPT ![p] = @ \union {packet}]
       /\ toAck' = [toAck EXCEPT ![p] = @ \ acks]
       /\ net' = net \union {packet}

Room == Cardinality(net') <= MaxNet

\* The TLS bytes of the packets created or passed on: an empty packet, which only
\* packet 1 can be, adds none.
Stream(payloads) ==
    IF payloads # <<>> /\ payloads[1] = Empty THEN Tail(payloads) ELSE payloads

Chunk(p) == Len(Stream(log[p])) + 1

\* packetize_tls_ciphertext, called by the outgoing task until the window is full.
packetize_tls_ciphertext(p) ==
    /\ Chunk(p) <= Total[p]
    /\ insert_outgoing_packet(p, Chunk(p), MaxAcks)
    /\ Room
    /\ UNCHANGED <<setup, pending, got, refused, open>>

\* packets_ready_to_send: the window's packets whose time has come are sent again.
\* A soft reset is too, and changes nothing at a peer that has the key state.
Numbered(p) == {m \in inFlight[p] : m.kind = "control"}
Retransmit(p, due) ==
    /\ open[p]
    /\ due # {} /\ due \subseteq Numbered(p)
    /\ net' = net \union due /\ Room
    /\ UNCHANGED <<setup, log, inFlight, toAck, pending, got, refused, open>>

next_packet_carries_wrapped_client_key(p) ==
    p \in Wkc /\ local_control_packet_id(p) = 1

\* new_acknowledgment_packet: alone, or, before packet 1 exists, on an empty
\* packet with the wrapped key that has to be acknowledged itself.
new_acknowledgment_packet(p) ==
    /\ toAck[p] # {} /\ open[p]
    /\ IF next_packet_carries_wrapped_client_key(p)
       THEN insert_outgoing_packet(p, Empty, AckCap)
       ELSE LET acks == take_acknowledgments(p, AckCap) IN
            /\ net' = net \union {[from |-> p, kind |-> "ack", id |-> 0,
                                   payload |-> Empty, acks |-> acks]}
            /\ toAck' = [toAck EXCEPT ![p] = @ \ acks]
            /\ UNCHANGED <<log, inFlight>>
    /\ Room
    /\ UNCHANGED <<setup, pending, got, refused, open>>

-----------------------------------------------------------------------------
(* Receiving: ingest_link_packet.                                            *)

\* Mutant: a repeated packet is not acknowledged again.
AckOnce(p, m) ==
    IF m.kind = "control" /\ Cardinality(toAck[p]) < AckCap
       /\ m.id > last_consumed_id(p) /\ m.id \notin Ids(pending[p]) THEN {m.id} ELSE {}

AckQueued(p, m) ==
    IF m.kind = "control" /\ Cardinality(toAck[p]) < AckCap THEN {m.id} ELSE {}

\* Mutant: an acknowledgment releases everything before it too.
ReleasedUpTo(p, m) ==
    /\ toAck' = [toAck EXCEPT ![p] = @ \union AckQueued(p, m)]
    /\ inFlight' = [inFlight EXCEPT ![p] = {k \in @ : \A i \in m.acks : k.id > i}]

\* on_incoming_packet: queue the acknowledgment, release what is acknowledged.
on_incoming_packet(p, m) ==
    /\ toAck' = [toAck EXCEPT ![p] = @ \union AckQueued(p, m)]
    /\ inFlight' = [inFlight EXCEPT ![p] = {k \in @ : k.id \notin m.acks}]

\* try_insert_incoming_packet: neither stale nor a duplicate, and in the window.
Accepted(p, m) ==
    /\ m.id > last_consumed_id(p) /\ m.id \notin Ids(pending[p])
    /\ m.id - (last_consumed_id(p) + 1) < RecvBuf
    /\ Cardinality(pending[p]) < RecvBuf

\* next_ordered_sequence: the packets that follow the last one without a gap.
InOrder(p, held) ==
    {i \in Ids(held) : i > last_consumed_id(p)
                       /\ \A j \in last_consumed_id(p) + 1 .. i : j \in Ids(held)}

\* Mutant: packets are passed on in any order.
AsItArrives(p, held) ==
    \E m \in held : /\ got' = [got EXCEPT ![p] = Append(@, m.payload)]
                    /\ pending' = [pending EXCEPT ![p] = held \ {m}]

next_ordered_sequence(p, held) ==
    LET ready == InOrder(p, held)
        payload(i) == (CHOOSE m \in held : m.id = i).payload
    IN /\ got' = [got EXCEPT ![p] = @ \o
                    [k \in 1 .. Cardinality(ready) |-> payload(last_consumed_id(p) + k)]]
       /\ pending' = [pending EXCEPT ![p] = {m \in held : m.id \notin ready}]

\* The packet is new, and on_incoming_packet acknowledges it, but it lies beyond
\* the window, or the window is full.
Refused(p, m) ==
    /\ AckQueued(p, m) # {} /\ ~Accepted(p, m)
    /\ m.id > last_consumed_id(p) /\ m.id \notin Ids(pending[p])

Ingested(p, m) ==
    /\ m \in net /\ open[p]
    /\ on_incoming_packet(p, m)
    /\ IF m.kind = "control" /\ Accepted(p, m)
       THEN /\ next_ordered_sequence(p, pending[p] \union {m})
            /\ refused' = [refused EXCEPT ![p] = @ \ {m.id}]
       ELSE /\ refused' = IF Refused(p, m) THEN [refused EXCEPT ![p] = @ \union {m.id}]
                                          ELSE refused
            /\ UNCHANGED <<got, pending>>
    /\ UNCHANGED <<setup, log>>

\* One datagram arrives; a link without protection may deliver it again.
ingest_link_packet(m) ==
    /\ Ingested(Other(m.from), m)
    /\ \/ net' = net \ {m}
       \/ ~Protected /\ net' = net
    /\ UNCHANGED open

\* A datagram arrives twice: the replay window of the protection refuses the
\* second copy, and that error ends the incoming loop and the whole task.
Replayed(m) ==
    /\ Protected
    /\ Ingested(Other(m.from), m)
    /\ net' = net \ {m}
    /\ open' = [open EXCEPT ![Other(m.from)] = FALSE]

\* A datagram that is overtaken until the replay window has moved past it is
\* refused the first time, with the same end. A window's packets are sent again
\* without limit, each time under a new packet id of the protection, so any
\* datagram can be this late.
TooLate(m) ==
    /\ Protected /\ m \in net /\ open[Other(m.from)]
    /\ net' = net \ {m}
    /\ open' = [open EXCEPT ![Other(m.from)] = FALSE]
    /\ UNCHANGED <<setup, log, inFlight, toAck, pending, got, refused>>

Lose(m) ==
    /\ m \in net
    /\ net' = net \ {m}
    /\ UNCHANGED <<setup, log, inFlight, toAck, pending, got, refused, open>>

Next ==
    \/ \E p \in Peers : \/ packetize_tls_ciphertext(p)
                        \/ new_acknowledgment_packet(p)
                        \/ \E due \in SUBSET inFlight[p] : Retransmit(p, due)
    \/ \E m \in net : ingest_link_packet(m) \/ Lose(m) \/ Replayed(m) \/ TooLate(m)

\* The tasks run, every timer fires again, and of the datagrams that are sent again
\* and again, the oldest packet of a window and its acknowledgment, some get through.
Oldest(p) ==
    {i \in Ids(Numbered(p)) : \A j \in Ids(Numbered(p)) : i <= j}
Arrives(p) ==
    \E m \in net : /\ m.from = p /\ m.kind = "control" /\ m.id \in Oldest(p)
                  /\ ingest_link_packet(m)
AckArrives(p) ==
    \E m \in net : /\ m.from = p /\ m.acks \intersect Oldest(Other(p)) # {}
                  /\ ingest_link_packet(m)
Fairness ==
    \A p \in Peers : /\ WF_vars(packetize_tls_ciphertext(p))
                     /\ WF_vars(new_acknowledgment_packet(p))
                     /\ WF_vars(Retransmit(p, Numbered(p)))
                     /\ SF_vars(Arrives(p)) /\ SF_vars(AckArrives(p))

Safe == Init /\ [][Next]_vars
Spec == Safe /\ Fairness

-----------------------------------------------------------------------------
(* Properties.                                                               *)

Written == [p \in Peers |-> Stream(log[p])]
Read == [p \in Peers |-> Stream(got[Other(p)])]
Chunks == UNION {1 .. s.total[p] : s \in Setups, p \in Peers}

Fifo == INSTANCE FifoChannel WITH sent <- Written, got <- Read

\* The channel implements a FIFO in both directions: TLS never sees a gap, a
\* repetition or a reordering, whatever the link does.
ImplementsFifo == Fifo!Spec

\* An id that left the send window is at the receiver, in order or waiting for the
\* ones before it, or it lay beyond the receive window when it arrived: nothing
\* else that on_incoming_packet releases is lost, although acknowledgments are
\* repeated, ride on retransmitted packets and overflow the set.
AckedIsKept ==
    \A p \in Peers : \A i \in 1 .. Len(log[p]) :
        \/ i \in Ids(inFlight[p])
        \/ i <= last_consumed_id(Other(p))
        \/ i \in Ids(pending[Other(p)])
        \/ i \in refused[Other(p)]

\* Only packet 1 may be empty, on either side.
EmptyFirst ==
    \A p \in Peers : /\ \A i \in DOMAIN log[p] : log[p][i] = Empty => i = 1
                     /\ \A i \in DOMAIN got[p] : got[p][i] = Empty => i = 1

\* What holds at every step.
SafetyInv == TypeOK /\ EmptyFirst /\ AckedIsKept

\* A packet of p is gone: nobody holds it and it will not be sent again.
Gone(p) ==
    \E i \in 1 .. Len(log[p]) : /\ i \notin Ids(inFlight[p]) \union Ids(pending[Other(p)])
                               /\ i > last_consumed_id(Other(p))

\* Every chunk is delivered in the end, although packets and acknowledgments are
\* lost, the acknowledgment set overflows, and the slot of an unacknowledged
\* soft reset is never freed; unless the protection refused a repeated or late
\* datagram, which ends the task, or a packet was acknowledged and refused by the
\* receive window and stays gone (AlwaysDelivered is without this exception).
AllDelivered ==
    \A p \in Peers : \/ <>(Len(Read[p]) = Total[p] \/ \E q \in Peers : ~open[q])
                     \/ <>[]Gone(p)

-----------------------------------------------------------------------------
(* The inductive invariant behind the proofs.                                *)

\* A numbered packet carries what its sender's log has under its id.
Genuine(m) ==
    m.kind = "control" => m.id \in 1 .. Len(log[m.from]) /\ m.payload = log[m.from][m.id]

\* Wherever a packet is, it is genuine; a window holds its own packets.
GenuineInv ==
    /\ \A m \in net : Genuine(m)
    /\ \A p \in Peers : \A m \in inFlight[p] : m.from = p /\ Genuine(m)

\* What waits at a receiver is numbered, comes from the other peer, lies beyond
\* what was passed on, and no id waits twice.
PendingInv ==
    \A p \in Peers :
        /\ \A m \in pending[p] : /\ m.from = Other(p) /\ m.kind = "control"
                                 /\ Genuine(m) /\ m.id > last_consumed_id(p)
        /\ \A m, k \in pending[p] : m.id = k.id => m = k

\* What was passed on is a prefix of what was created.
PrefixInv ==
    \A p \in Peers :
        /\ Len(got[p]) <= Len(log[Other(p)])
        /\ \A i \in 1 .. Len(got[p]) : got[p][i] = log[Other(p)][i]

FiniteInv ==
    \A p \in Peers : /\ IsFiniteSet(toAck[p])
                     /\ IsFiniteSet(inFlight[p]) /\ IsFiniteSet(pending[p])

IInv == TypeOK /\ EmptyFirst /\ GenuineInv /\ PendingInv /\ PrefixInv /\ FiniteInv

\* An id that a peer acknowledges, or will, is one it has or refused.
Kept(p, i) ==
    \/ i = ResetId \/ i <= last_consumed_id(p)
    \/ i \in Ids(pending[p]) \/ i \in refused[p]
AckInv ==
    /\ \A p \in Peers : \A i \in toAck[p] : Kept(p, i)
    /\ \A m \in net : \A i \in m.acks : Kept(m.from, i)
    /\ \A p \in Peers : \A m \in inFlight[p] : \A i \in m.acks : Kept(p, i)
KInv == AckInv /\ AckedIsKept

-----------------------------------------------------------------------------
(* What the code does not keep: under replay protection a repeated          *)
(* datagram ends the task of its receiver, and the receive window refuses    *)
(* packets that on_incoming_packet has acknowledged before.                  *)

\* reliable.rs has a duplicate dropped and acknowledged again: it does no harm.
DuplicatesSuppressed ==
    \A p \in Peers : <>(Len(Read[p]) = Total[p]) \/ <>[]Gone(p)

\* What was acknowledged is at the receiver, and arrives while the tasks run.
AlwaysKept == \A p \in Peers : ~Gone(p)
AlwaysDelivered ==
    \A p \in Peers : <>(Len(Read[p]) = Total[p] \/ \E q \in Peers : ~open[q])

=============================================================================
