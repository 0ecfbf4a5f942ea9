--------------------------- MODULE OpenVpn_proofs ---------------------------
(* Proofs about OpenVpnReliable, for any window and acknowledgment sizes and *)
(* any number of chunks: whatever the link does, each direction of the       *)
(* control channel is a FIFO. IInv says that a packet, wherever it is,       *)
(* carries what its sender's log has under its id, and that what was passed  *)
(* on is a prefix of that log; it is inductive.                              *)
(*                                                                           *)
(* And about OpenVpnRekey, for any number of key ids, any size of the key    *)
(* ring and any number of rekeys: key ring, mux and coordinator agree, and   *)
(* the peers read each other. RekeyInv follows a renegotiation through its   *)
(* steps at one peer (RingInv, MuxInv, CoordInv) and says how far apart the  *)
(* two peers can be (Together); it is inductive.                             *)
EXTENDS OpenVpnReliable, OpenVpnRekey, FiniteSetTheorems, SequenceTheorems,
        WellFoundedInduction, TLAPS

\* There are two peers, each the other one's other.
LEMMA TwoPeers ==
    ASSUME NEW p \in Peers
    PROVE  Other(p) \in Peers /\ Other(p) # p /\ Other(Other(p)) = p
<1>1. PICK a, b \in Peers : a # b /\ Peers = {a, b}
  BY PeersAssumption
<1>2. \E q \in Peers : q # p
  BY <1>1
<1>3. Other(p) \in Peers /\ Other(p) # p
  BY <1>2 DEF Other
<1>4. \E q \in Peers : q # Other(p)
  BY <1>3
<1>5. Other(Other(p)) \in Peers /\ Other(Other(p)) # Other(p)
  BY <1>4 DEF Other
<1> QED  BY <1>1, <1>3, <1>5

\* A set of naturals that is not empty has a least element.
LEMMA LeastNatural ==
    ASSUME NEW T \in SUBSET Nat, T # {}
    PROVE  \E n \in T : \A m \in T : n <= m
<1>1. PICK x \in T : \A y \in T : ~ (<<y, x>> \in OpToRel(<, Nat))
  BY NatLessThanWellFounded, WFMin
<1>2. \A y \in T : ~ (y < x)
  BY <1>1 DEF OpToRel
<1> QED  BY <1>2

\* A bounded set of ids above n that has every id from n + 1 up to each of its own
\* is an interval: InOrder is what follows the last id without a gap.
LEMMA GapFree ==
    ASSUME NEW n \in Nat, NEW top \in Nat, NEW S \in SUBSET Nat,
           \A i \in S : n < i /\ i <= top /\ \A j \in n + 1 .. i : j \in S
    PROVE  IsFiniteSet(S) /\ Cardinality(S) \in Nat /\ S = n + 1 .. n + Cardinality(S)
<1> DEFINE T == {i \in Nat : n < i /\ i \notin S}
<1>1. T \in SUBSET Nat /\ T # {}
  <2>1. CASE n < top + 1
    <3>1. top + 1 \in T
      BY <2>1
    <3> QED  BY <3>1
  <2>2. CASE ~ (n < top + 1)
    <3>1. n + 1 \in T
      BY <2>2
    <3> QED  BY <3>1
  <2> QED  BY <2>1, <2>2
<1>2. PICK k \in T : \A m \in T : k <= m
  BY <1>1, LeastNatural
<1>3. S = n + 1 .. k - 1
  <2>1. ASSUME NEW i \in S PROVE i \in n + 1 .. k - 1
    <3>1. i < k
      <4>1. ASSUME k <= i PROVE FALSE
        BY <4>1, <2>1
      <4> QED  BY <4>1
    <3> QED  BY <3>1
  <2>2. ASSUME NEW i \in n + 1 .. k - 1 PROVE i \in S
    <3>1. i \notin T
      BY <1>2
    <3> QED  BY <3>1
  <2> QED  BY <2>1, <2>2
<1>4. IsFiniteSet(S) /\ Cardinality(S) = k - 1 - n
  BY <1>3, FS_Interval
<1> QED  BY <1>3, <1>4

\* The sizes of sets that gain or lose elements.
LEMMA SizeOfMore ==
    ASSUME NEW S, NEW x, IsFiniteSet(S)
    PROVE  /\ IsFiniteSet(S \union {x}) /\ Cardinality(S \union {x}) \in Nat
           /\ Cardinality(S) \in Nat /\ Cardinality(S \union {x}) <= Cardinality(S) + 1
<1>1. Cardinality(S) \in Nat
  BY FS_CardinalityType
<1>2. /\ IsFiniteSet(S \union {x})
      /\ Cardinality(S \union {x}) = IF x \in S THEN Cardinality(S) ELSE Cardinality(S) + 1
  BY FS_AddElement
<1> QED  BY <1>1, <1>2

LEMMA SizeOfLess ==
    ASSUME NEW S, NEW T, IsFiniteSet(S), T \subseteq S
    PROVE  /\ IsFiniteSet(T) /\ Cardinality(T) \in Nat
           /\ Cardinality(S) \in Nat /\ Cardinality(T) <= Cardinality(S)
<1>1. IsFiniteSet(T) /\ Cardinality(T) <= Cardinality(S)
  BY FS_Subset
<1> QED  BY <1>1, FS_CardinalityType

LEMMA SizeOfOne ==
    ASSUME NEW S, NEW x, S \subseteq {x}
    PROVE  IsFiniteSet(S) /\ Cardinality(S) \in Nat /\ Cardinality(S) <= 1
<1>1. IsFiniteSet({x}) /\ Cardinality({x}) = 1
  BY FS_Singleton
<1> QED  BY <1>1, SizeOfLess

-----------------------------------------------------------------------------
(* Streams: what remains of a log without its empty first packet.            *)

LEMMA StreamType ==
    ASSUME NEW s \in Seq(Nat)
    PROVE  Stream(s) \in Seq(Nat)
  BY HeadTailProperties DEF Stream

LEMMA StreamAppend ==
    ASSUME NEW s \in Seq(Nat), NEW c \in Nat, c = Empty => s = <<>>
    PROVE  Stream(Append(s, c)) = IF c = Empty THEN Stream(s) ELSE Append(Stream(s), c)
<1>1. CASE s = <<>>
  <2>1. Append(s, c) = <<c>> /\ Stream(s) = <<>>
    BY <1>1 DEF Stream
  <2>2. <<c>> # <<>> /\ <<c>>[1] = c /\ Tail(<<c>>) = <<>>
    OBVIOUS
  <2> QED  BY <1>1, <2>1, <2>2 DEF Stream, Empty
<1>2. CASE s # <<>>
  <2>1. c # Empty
    BY <1>2
  <2>2. /\ Append(s, c) # <<>> /\ Append(s, c)[1] = s[1] /\ Len(s) > 0
    BY <1>2, AppendProperties, EmptySeq
  <2>3. CASE s[1] = Empty
    <3>1. Tail(Append(s, c)) = Append(Tail(s), c)
      BY <1>2
    <3> QED  BY <2>1, <2>2, <2>3, <1>2, <3>1 DEF Stream
  <2>4. CASE s[1] # Empty
    BY <2>1, <2>2, <2>4 DEF Stream
  <2> QED  BY <2>3, <2>4
<1> QED  BY <1>1, <1>2

\* The stream of a prefix is a prefix of the stream.
LEMMA StreamPrefix ==
    ASSUME NEW s \in Seq(Nat), NEW t \in Seq(Nat), Len(s) <= Len(t),
           \A i \in 1 .. Len(s) : s[i] = t[i]
    PROVE  /\ Len(Stream(s)) <= Len(Stream(t))
           /\ Stream(s) = SubSeq(Stream(t), 1, Len(Stream(s)))
<1>0. /\ Stream(s) \in Seq(Nat) /\ Stream(t) \in Seq(Nat)
      /\ Len(s) \in Nat /\ Len(t) \in Nat
      /\ Len(Stream(s)) \in Nat /\ Len(Stream(t)) \in Nat
  BY StreamType, LenProperties
<1>1. /\ Len(Stream(s)) <= Len(Stream(t))
      /\ \A i \in 1 .. Len(Stream(s)) : Stream(s)[i] = Stream(t)[i]
  <2>1. CASE s = <<>>
    BY <1>0, <2>1 DEF Stream
  <2>2. CASE s # <<>>
    <3>1. Len(s) > 0 /\ Len(t) > 0 /\ t # <<>> /\ s[1] = t[1]
      BY <1>0, <2>2, EmptySeq
    <3>2. CASE s[1] = Empty
      <4>1. Stream(s) = Tail(s) /\ Stream(t) = Tail(t)
        BY <2>2, <3>1, <3>2 DEF Stream
      <4>2. /\ Len(Tail(s)) = Len(s) - 1 /\ Len(Tail(t)) = Len(t) - 1
            /\ \A i \in 1 .. Len(Tail(s)) : Tail(s)[i] = s[i + 1]
            /\ \A i \in 1 .. Len(Tail(t)) : Tail(t)[i] = t[i + 1]
        BY <2>2, <3>1, HeadTailProperties
      <4> QED  BY <1>0, <4>1, <4>2
    <3>3. CASE s[1] # Empty
      BY <3>1, <3>3 DEF Stream
    <3> QED  BY <3>2, <3>3
  <2> QED  BY <2>1, <2>2
<1> DEFINE n == Len(Stream(s))
<1>2. \A i \in 1 .. n : Stream(t)[i] \in Nat
  BY <1>0, <1>1, ElementOfSeq
<1>3. /\ SubSeq(Stream(t), 1, n) \in Seq(Nat)
      /\ Len(SubSeq(Stream(t), 1, n)) = n
      /\ \A i \in 1 .. n : SubSeq(Stream(t), 1, n)[i] = Stream(t)[i]
  <2>1. n \in Int /\ 1 \in Int
    BY <1>0
  <2>2. /\ SubSeq(Stream(t), 1, n) \in Seq(Nat)
        /\ Len(SubSeq(Stream(t), 1, n)) = (IF 1 <= n THEN n - 1 + 1 ELSE 0)
        /\ \A i \in 1 .. n - 1 + 1 : SubSeq(Stream(t), 1, n)[i] = Stream(t)[1 + i - 1]
    BY <1>2, <2>1, SubSeqProperties
  <2> QED  BY <1>0, <2>2
<1> QED  BY <1>0, <1>1, <1>3, SeqEqual

-----------------------------------------------------------------------------
(* The inductive invariant.                                                  *)

\* The empty sequence has no positions.
LEMMA NothingIn == DOMAIN <<>> = {} /\ Len(<<>>) = 0
OBVIOUS

LEMMA Start == Init => IInv
<1> SUFFICES ASSUME Init PROVE IInv
  OBVIOUS
<1>1. ASSUME NEW p \in Peers
      PROVE  /\ inFlight[p] \in SUBSET Packet /\ \A m \in inFlight[p] : m = SoftReset(p)
             /\ IsFiniteSet(inFlight[p]) /\ Cardinality(inFlight[p]) <= SendBuf
             /\ IsFiniteSet(toAck[p]) /\ Cardinality(toAck[p]) <= AckCap
  <2>1. inFlight[p] \in {{}, {SoftReset(p)}} /\ toAck[p] \in {{}, {ResetId}}
    BY DEF Init
  <2>2. SoftReset(p) \in Packet
    BY DEF SoftReset, Packet, ResetId, Empty, Payload
  <2>3. /\ IsFiniteSet(inFlight[p]) /\ Cardinality(inFlight[p]) <= 1
        /\ Cardinality(inFlight[p]) \in Nat
    <3>1. inFlight[p] \subseteq {SoftReset(p)}
      BY <2>1
    <3> QED  BY <3>1, SizeOfOne
  <2>4. /\ IsFiniteSet(toAck[p]) /\ Cardinality(toAck[p]) <= 1
        /\ Cardinality(toAck[p]) \in Nat
    <3>1. toAck[p] \subseteq {ResetId}
      BY <2>1
    <3> QED  BY <3>1, SizeOfOne
  <2> QED  BY <2>1, <2>2, <2>3, <2>4, SizeAssumption
<1>2. \A p \in Peers : log[p] = <<>> /\ got[p] = <<>> /\ pending[p] = {}
  BY DEF Init
<1>3. LogsOK
  <2>1. refused \in [Peers -> SUBSET Nat] /\ toAck \in [Peers -> SUBSET Nat]
    BY DEF Init, ResetId
  <2>2. /\ log \in [Peers -> Seq(Payload)] /\ got \in [Peers -> Seq(Payload)]
        /\ open \in [Peers -> BOOLEAN]
    BY DEF Init
  <2> QED  BY <1>1, <2>1, <2>2 DEF LogsOK
<1>4. PacketsOK
  <2>1. inFlight \in [Peers -> SUBSET Packet] /\ pending \in [Peers -> SUBSET Packet]
    BY <1>1 DEF Init
  <2>2. \A p \in Peers : Cardinality(pending[p]) <= RecvBuf
    <3> SUFFICES ASSUME NEW p \in Peers PROVE Cardinality(pending[p]) <= RecvBuf
      OBVIOUS
    <3>1. Cardinality({}) = 0 /\ pending[p] = {}
      BY <1>2, FS_EmptySet
    <3>2. Cardinality(pending[p]) = 0
      BY <3>1
    <3> QED  BY <3>2, SizeAssumption
  <2> QED  BY <1>1, <2>1, <2>2 DEF Init, PacketsOK
<1>5. TypeOK
  BY <1>3, <1>4 DEF Init, TypeOK
<1>6. EmptyFirst
  <2>1. \A p \in Peers : DOMAIN log[p] = {} /\ DOMAIN got[p] = {}
    BY <1>2, NothingIn
  <2> QED  BY <2>1 DEF EmptyFirst
<1>7. GenuineInv
  BY <1>1 DEF Init, GenuineInv, Genuine, SoftReset
<1>8. PendingInv /\ FiniteInv
  BY <1>1, <1>2, FS_EmptySet DEF PendingInv, FiniteInv
<1>9. PrefixInv
  <2>1. \A p \in Peers : Len(log[p]) = 0 /\ Len(got[p]) = 0
    BY <1>2, NothingIn
  <2>2. ASSUME NEW p \in Peers
        PROVE  /\ Len(got[p]) <= Len(log[Other(p)])
               /\ \A i \in 1 .. Len(got[p]) : got[p][i] = log[Other(p)][i]
    <3>1. Len(got[p]) = 0 /\ Len(log[Other(p)]) = 0
      BY <2>1, TwoPeers
    <3> QED  BY <3>1
  <2> QED  BY Zenon, <2>2 DEF PrefixInv
<1> QED  BY <1>5, <1>6, <1>7, <1>8, <1>9 DEF IInv

\* The facts of TypeOK about one peer.
LEMMA PeerFacts ==
    ASSUME IInv, NEW p \in Peers
    PROVE  /\ log[p] \in Seq(Nat) /\ Len(log[p]) \in Nat /\ DOMAIN log[p] = 1 .. Len(log[p])
           /\ got[p] \in Seq(Nat) /\ Len(got[p]) \in Nat /\ DOMAIN got[p] = 1 .. Len(got[p])
           /\ toAck[p] \in SUBSET Nat /\ inFlight[p] \in SUBSET Packet
           /\ pending[p] \in SUBSET Packet
           /\ IsFiniteSet(toAck[p]) /\ IsFiniteSet(inFlight[p]) /\ IsFiniteSet(pending[p])
           /\ Cardinality(toAck[p]) \in Nat /\ Cardinality(inFlight[p]) \in Nat
           /\ Cardinality(pending[p]) \in Nat
<1>1. /\ log[p] \in Seq(Nat) /\ got[p] \in Seq(Nat) /\ toAck[p] \in SUBSET Nat
      /\ inFlight[p] \in SUBSET Packet /\ pending[p] \in SUBSET Packet
      /\ IsFiniteSet(toAck[p]) /\ IsFiniteSet(inFlight[p]) /\ IsFiniteSet(pending[p])
  BY DEF IInv, TypeOK, LogsOK, PacketsOK, FiniteInv, Payload
<1> QED  BY <1>1, LenProperties, FS_CardinalityType

LEMMA PacketFacts ==
    ASSUME NEW m \in Packet
    PROVE  m.from \in Peers /\ m.id \in Nat /\ m.payload \in Nat /\ m.acks \in SUBSET Nat
  BY DEF Packet, Payload

\* A log only grows: what was genuine, or a prefix, stays so.
LEMMA InsertStep ==
    ASSUME IInv, NEW p \in Peers, NEW payload \in Nat, NEW maximum \in Nat,
           payload = Empty => log[p] = <<>>,
           insert_outgoing_packet(p, payload, maximum),
           UNCHANGED <<setup, pending, got, refused, open>>
    PROVE  IInv'
<1>1. PICK acks \in SUBSET toAck[p], packet \in Packet :
        /\ packet = [from |-> p, kind |-> "control", id |-> Len(log[p]) + 1,
                     payload |-> payload, acks |-> acks]
        /\ WindowOpen(p)
        /\ log' = [log EXCEPT ![p] = Append(log[p], payload)]
        /\ inFlight' = [inFlight EXCEPT ![p] = inFlight[p] \union {packet}]
        /\ toAck' = [toAck EXCEPT ![p] = toAck[p] \ acks]
        /\ net' = net \union {packet}
  <2> DEFINE a == take_acknowledgments(p, maximum)
  <2>1. a \in SUBSET toAck[p]
    BY DEF take_acknowledgments
  <2> HIDE DEF a
  <2>2. [from |-> p, kind |-> "control", id |-> Len(log[p]) + 1,
         payload |-> payload, acks |-> a] \in Packet
    BY PeerFacts, <2>1 DEF Packet, Payload
  <2> QED  BY <2>1, <2>2 DEF a, insert_outgoing_packet, local_control_packet_id
<1>2. /\ log \in [Peers -> Seq(Nat)] /\ toAck \in [Peers -> SUBSET Nat]
      /\ inFlight \in [Peers -> SUBSET Packet] /\ net \subseteq Packet
  BY DEF IInv, TypeOK, LogsOK, PacketsOK, Payload
<1>3. /\ Append(log[p], payload) \in Seq(Nat)
      /\ Len(Append(log[p], payload)) = Len(log[p]) + 1
      /\ Append(log[p], payload)[Len(log[p]) + 1] = payload
      /\ \A i \in 1 .. Len(log[p]) : Append(log[p], payload)[i] = log[p][i]
      /\ DOMAIN Append(log[p], payload) = 1 .. Len(log[p]) + 1
  BY PeerFacts, AppendProperties, LenProperties
<1>4. packet.from = p /\ packet.id = Len(log[p]) + 1 /\ packet.payload = payload
  BY <1>1
<1>5. IsFiniteSet(inFlight'[p]) /\ Cardinality(inFlight'[p]) <= SendBuf
  <2>1. inFlight'[p] = inFlight[p] \union {packet} /\ IsFiniteSet(inFlight[p])
    BY <1>1, <1>2, PeerFacts
  <2>2. /\ IsFiniteSet(inFlight'[p]) /\ Cardinality(inFlight'[p]) \in Nat
        /\ Cardinality(inFlight[p]) \in Nat
        /\ Cardinality(inFlight'[p]) <= Cardinality(inFlight[p]) + 1
    BY <2>1, SizeOfMore
  <2> QED  BY <1>1, <2>2, SizeAssumption DEF WindowOpen
<1>6. IsFiniteSet(toAck'[p]) /\ Cardinality(toAck'[p]) <= AckCap
  <2>1. toAck'[p] \subseteq toAck[p] /\ IsFiniteSet(toAck[p])
    BY <1>1, <1>2, PeerFacts
  <2>2. /\ IsFiniteSet(toAck'[p]) /\ Cardinality(toAck'[p]) \in Nat
        /\ Cardinality(toAck[p]) \in Nat /\ Cardinality(toAck'[p]) <= Cardinality(toAck[p])
    BY <2>1, SizeOfLess
  <2>3. Cardinality(toAck[p]) <= AckCap
    BY DEF IInv, TypeOK, LogsOK
  <2> QED  BY <2>2, <2>3, SizeAssumption
<1>7. \A q \in Peers : q # p => /\ log'[q] = log[q] /\ toAck'[q] = toAck[q]
                                /\ inFlight'[q] = inFlight[q]
  BY <1>1, <1>2
<1>8. log'[p] = Append(log[p], payload) /\ inFlight'[p] = inFlight[p] \union {packet}
  BY <1>1, <1>2
<1>9. TypeOK'
  <2>1. LogsOK'
    <3>1. \A q \in Peers : Cardinality(toAck'[q]) <= AckCap
      BY <1>6, <1>7 DEF IInv, TypeOK, LogsOK
    <3>2. log' \in [Peers -> Seq(Nat)] /\ toAck' \in [Peers -> SUBSET Nat]
      BY <1>1, <1>2, <1>3
    <3> QED  BY <3>1, <3>2 DEF IInv, TypeOK, LogsOK, Payload
  <2>2. PacketsOK'
    <3>1. \A q \in Peers : Cardinality(inFlight'[q]) <= SendBuf
      BY <1>5, <1>7 DEF IInv, TypeOK, PacketsOK
    <3>2. inFlight' \in [Peers -> SUBSET Packet] /\ net' \subseteq Packet
      BY <1>1, <1>2, <1>4
    <3> QED  BY <3>1, <3>2 DEF IInv, TypeOK, PacketsOK
  <2> QED  BY <2>1, <2>2 DEF IInv, TypeOK
<1>10. EmptyFirst'
  <2>1. ASSUME NEW q \in Peers, NEW i \in DOMAIN log'[q], log'[q][i] = Empty PROVE i = 1
    <3>1. CASE q # p
      BY <1>7, <2>1, <3>1 DEF IInv, EmptyFirst
    <3>2. CASE q = p /\ i \in 1 .. Len(log[p])
      BY <1>3, <1>8, <2>1, <3>2, PeerFacts DEF IInv, EmptyFirst
    <3>3. CASE q = p /\ i = Len(log[p]) + 1
      <4>1. log[p] = <<>>
        BY <1>3, <1>8, <2>1, <3>3
      <4> QED  BY <3>3, <4>1
    <3>4. q = p => i \in 1 .. Len(log[p]) \/ i = Len(log[p]) + 1
      <4>1. CASE q = p
        <5>1. i \in 1 .. Len(log[p]) + 1
          BY <1>3, <1>8, <4>1
        <5>2. Len(log[p]) \in Nat
          BY PeerFacts
        <5> QED  BY <5>1, <5>2
      <4> QED  BY <4>1
    <3> QED  BY <3>1, <3>2, <3>3, <3>4
  <2> QED  BY <2>1 DEF IInv, EmptyFirst
<1>11. \A m \in Packet : Genuine(m) => Genuine(m)'
  <2> SUFFICES ASSUME NEW m \in Packet, Genuine(m), m.kind = "control"
               PROVE  m.id \in 1 .. Len(log'[m.from]) /\ m.payload = log'[m.from][m.id]
    BY DEF Genuine
  <2>1. m.id \in 1 .. Len(log[m.from]) /\ m.payload = log[m.from][m.id] /\ m.from \in Peers
    BY PacketFacts DEF Genuine
  <2>2. CASE m.from # p
    BY <1>7, <2>1, <2>2
  <2>3. CASE m.from = p
    <3>1. Len(log[p]) \in Nat
      BY PeerFacts
    <3> QED  BY <1>3, <1>8, <2>1, <2>3, <3>1
  <2> QED  BY <2>2, <2>3
<1>12. Genuine(packet)'
  <2>1. Len(log[p]) \in Nat
    BY PeerFacts
  <2> QED  BY <1>3, <1>4, <1>8, <2>1 DEF Genuine
<1>13. GenuineInv'
  <2>1. \A m \in net' : Genuine(m)'
    BY <1>1, <1>2, <1>11, <1>12 DEF IInv, GenuineInv
  <2>2. ASSUME NEW q \in Peers, NEW m \in inFlight'[q] PROVE m.from = q /\ Genuine(m)'
    <3>1. CASE m \in inFlight[q]
      BY <1>2, <1>11, <3>1 DEF IInv, GenuineInv
    <3>2. CASE m \notin inFlight[q]
      <4>1. q = p /\ m = packet
        BY <1>7, <1>8, <3>2
      <4> QED  BY <1>4, <1>12, <4>1
    <3> QED  BY <3>1, <3>2
  <2> QED  BY <2>1, <2>2 DEF GenuineInv
<1>14. PendingInv'
  <2>1. \A q \in Peers : pending[q] \in SUBSET Packet /\ last_consumed_id(q)' = last_consumed_id(q)
    BY PeerFacts DEF last_consumed_id
  <2> QED  BY <1>11, <2>1 DEF IInv, PendingInv
<1>15. PrefixInv'
  <2>1. ASSUME NEW q \in Peers
        PROVE  /\ Len(got[q]) <= Len(log'[Other(q)])
               /\ \A i \in 1 .. Len(got[q]) : got[q][i] = log'[Other(q)][i]
    <3>1. /\ Len(got[q]) <= Len(log[Other(q)])
          /\ \A i \in 1 .. Len(got[q]) : got[q][i] = log[Other(q)][i]
      BY DEF IInv, PrefixInv
    <3>2. CASE Other(q) # p
      BY <1>7, <3>1, <3>2, TwoPeers
    <3>3. CASE Other(q) = p
      <4>1. Len(log[p]) \in Nat /\ Len(got[q]) \in Nat
        BY PeerFacts
      <4> QED  BY <1>3, <1>8, <3>1, <3>3, <4>1
    <3> QED  BY <3>2, <3>3
  <2> QED  BY <2>1 DEF PrefixInv
<1>16. FiniteInv'
  <2>1. \A q \in Peers : IsFiniteSet(toAck'[q]) /\ IsFiniteSet(inFlight'[q])
    BY <1>5, <1>6, <1>7 DEF IInv, FiniteInv
  <2> QED  BY <2>1 DEF IInv, FiniteInv
<1> QED  BY <1>9, <1>10, <1>13, <1>14, <1>15, <1>16 DEF IInv

\* A step that leaves the logs and the receivers alone, and only puts packets that
\* a window holds, or acknowledgments alone, on the link.
LEMMA QuietStep ==
    ASSUME IInv, UNCHANGED <<setup, log, inFlight, pending, got, refused>>,
           open' \in [Peers -> BOOLEAN], net' \subseteq Packet,
           \A m \in net' : m \in net \/ m.kind = "ack" \/ \E p \in Peers : m \in inFlight[p],
           toAck' \in [Peers -> SUBSET Nat],
           \A p \in Peers : toAck'[p] \subseteq toAck[p]
    PROVE  IInv'
<1>1. ASSUME NEW p \in Peers
      PROVE  IsFiniteSet(toAck'[p]) /\ Cardinality(toAck'[p]) <= AckCap
  <2>1. toAck'[p] \subseteq toAck[p] /\ IsFiniteSet(toAck[p])
    BY PeerFacts
  <2>2. /\ IsFiniteSet(toAck'[p]) /\ Cardinality(toAck'[p]) \in Nat
        /\ Cardinality(toAck[p]) \in Nat /\ Cardinality(toAck'[p]) <= Cardinality(toAck[p])
    BY <2>1, SizeOfLess
  <2>3. Cardinality(toAck[p]) <= AckCap
    BY DEF IInv, TypeOK, LogsOK
  <2> QED  BY <2>2, <2>3, SizeAssumption
<1>2. TypeOK'
  BY <1>1 DEF IInv, TypeOK, LogsOK, PacketsOK
<1>3. EmptyFirst' /\ PrefixInv'
  BY DEF IInv, EmptyFirst, PrefixInv
<1>4. \A m : Genuine(m)' = Genuine(m)
  BY DEF Genuine
<1>5. GenuineInv'
  <2>1. \A m \in net' : m.kind = "ack" => Genuine(m)
    BY DEF Genuine
  <2> QED  BY <1>4, <2>1 DEF IInv, GenuineInv
<1>6. PendingInv'
  BY <1>4 DEF IInv, PendingInv, last_consumed_id
<1>7. FiniteInv'
  BY <1>1 DEF IInv, FiniteInv
<1> QED  BY <1>2, <1>3, <1>5, <1>6, <1>7 DEF IInv

\* What next_ordered_sequence adds is what the other peer's log continues with, and
\* what stays behind lies beyond it.
LEMMA OrderedStep ==
    ASSUME IInv, NEW p \in Peers, NEW m \in Packet, m.from = Other(p), m.kind = "control",
           Genuine(m), Accepted(p, m), next_ordered_sequence(p, pending[p] \union {m})
    PROVE  /\ got' \in [Peers -> Seq(Nat)] /\ pending' \in [Peers -> SUBSET Packet]
           /\ \A q \in Peers : q # p => got'[q] = got[q] /\ pending'[q] = pending[q]
           /\ Len(got[p]) <= Len(got'[p]) /\ Len(got'[p]) <= Len(log[Other(p)])
           /\ \A i \in 1 .. Len(got'[p]) : got'[p][i] = log[Other(p)][i]
           /\ pending'[p] \subseteq pending[p] \union {m}
           /\ \A k \in pending'[p] : k.id > Len(got'[p])
           /\ \A i \in Ids(pending[p] \union {m}) : i <= Len(got'[p]) \/ i \in Ids(pending'[p])
<1> DEFINE held == pending[p] \union {m}
           ready == InOrder(p, held)
           n == Len(got[p])
           payload(i) == (CHOOSE k \in held : k.id = i).payload
           more == [k \in 1 .. Cardinality(ready) |-> payload(n + k)]
<1>1. /\ Other(p) \in Peers /\ n \in Nat /\ got[p] \in Seq(Nat)
      /\ log[Other(p)] \in Seq(Nat) /\ Len(log[Other(p)]) \in Nat
      /\ held \in SUBSET Packet
      /\ got \in [Peers -> Seq(Nat)] /\ pending \in [Peers -> SUBSET Packet]
  BY TwoPeers, PeerFacts DEF IInv, TypeOK, LogsOK, PacketsOK, Payload
<1>2. \A k \in held : /\ k.id \in 1 .. Len(log[Other(p)]) /\ k.payload = log[Other(p)][k.id]
                      /\ k.id > n
  BY DEF IInv, PendingInv, Genuine, Accepted, last_consumed_id
<1>3. /\ got' = [got EXCEPT ![p] = got[p] \o more]
      /\ pending' = [pending EXCEPT ![p] = {k \in held : k.id \notin ready}]
  BY DEF next_ordered_sequence, last_consumed_id
<1>4. /\ IsFiniteSet(ready) /\ Cardinality(ready) \in Nat
      /\ ready = n + 1 .. n + Cardinality(ready) /\ ready \subseteq Ids(held)
  <2>1. ready \in SUBSET Ids(held)
    BY DEF InOrder
  <2>2. \A i \in Ids(held) : i \in Nat /\ i <= Len(log[Other(p)])
    BY <1>1, <1>2 DEF Ids
  <2>3. \A i \in ready : n < i /\ \A j \in n + 1 .. i : j \in Ids(held)
    BY <1>1, <2>2 DEF InOrder, last_consumed_id
  <2>4. ASSUME NEW i \in ready, NEW j \in n + 1 .. i PROVE j \in ready
    <3> HIDE DEF ready, held
    <3>1. i \in Nat /\ j \in Nat /\ n < j /\ j <= i
      BY <1>1, <2>1, <2>2, <2>4
    <3>2. \A k \in n + 1 .. i : k \in Ids(held)
      BY <2>3
    <3>3. j \in Ids(held) /\ j > n /\ \A k \in n + 1 .. j : k \in Ids(held)
      BY <1>1, <3>1, <3>2
    <3> QED  BY <3>3 DEF ready, InOrder, last_consumed_id
  <2> HIDE DEF ready, held
  <2>5. \A i \in ready : n < i /\ i <= Len(log[Other(p)]) /\ \A j \in n + 1 .. i : j \in ready
    BY <2>1, <2>2, <2>3, <2>4
  <2>6. ready \in SUBSET Nat
    BY <2>1, <2>2
  <2> QED  BY <1>1, <2>1, <2>5, <2>6, GapFree
<1> DEFINE c == Cardinality(ready)
<1>5. \A i \in ready : payload(i) = log[Other(p)][i] /\ i \in 1 .. Len(log[Other(p)])
  <2> SUFFICES ASSUME NEW i \in ready
               PROVE  payload(i) = log[Other(p)][i] /\ i \in 1 .. Len(log[Other(p)])
    OBVIOUS
  <2>1. \E k \in held : k.id = i
    BY <1>4 DEF Ids
  <2> DEFINE x == CHOOSE k \in held : k.id = i
  <2>2. x \in held /\ x.id = i
    BY <2>1
  <2> QED  BY <1>2, <2>2
<1> HIDE DEF held, ready, payload
<1>6. /\ more \in Seq(Nat) /\ Len(more) = c
      /\ \A k \in 1 .. c : more[k] = log[Other(p)][n + k] /\ n + k \in 1 .. Len(log[Other(p)])
  <2>1. \A k \in 1 .. c : n + k \in ready
    BY <1>1, <1>4
  <2>2. \A k \in 1 .. c : /\ payload(n + k) = log[Other(p)][n + k]
                          /\ n + k \in 1 .. Len(log[Other(p)])
    BY <1>5, <2>1
  <2>3. \A k \in 1 .. c : payload(n + k) \in Nat
    BY <1>1, <2>2, ElementOfSeq
  <2> QED  BY <1>4, <2>2, <2>3
<1> HIDE DEF more
<1>7. /\ got[p] \o more \in Seq(Nat) /\ Len(got[p] \o more) = n + c
      /\ \A i \in 1 .. n + c : (got[p] \o more)[i] = IF i <= n THEN got[p][i] ELSE more[i - n]
  <2>1. /\ got[p] \o more \in Seq(Nat) /\ Len(got[p] \o more) = Len(got[p]) + Len(more)
        /\ \A i \in 1 .. Len(got[p]) + Len(more) :
              (got[p] \o more)[i] = IF i <= Len(got[p]) THEN got[p][i] ELSE more[i - Len(got[p])]
    <3>1. got[p] \in Seq(Nat) /\ more \in Seq(Nat)
      BY <1>1, <1>6
    <3> QED  BY <3>1, ConcatProperties
  <2> QED  BY <1>6, <2>1
<1>8. /\ got' \in [Peers -> Seq(Nat)] /\ pending' \in [Peers -> SUBSET Packet]
      /\ \A q \in Peers : q # p => got'[q] = got[q] /\ pending'[q] = pending[q]
      /\ got'[p] = got[p] \o more /\ pending'[p] = {k \in held : k.id \notin ready}
  BY <1>1, <1>3, <1>7
<1>9. n + c <= Len(log[Other(p)])
  <2>1. n <= Len(log[Other(p)])
    BY DEF IInv, PrefixInv
  <2> QED  BY <1>1, <1>4, <1>6, <2>1
<1>10. \A i \in 1 .. n + c : got'[p][i] = log[Other(p)][i]
  <2> SUFFICES ASSUME NEW i \in 1 .. n + c PROVE got'[p][i] = log[Other(p)][i]
    OBVIOUS
  <2>1. CASE i <= n
    <3>1. \A j \in 1 .. n : got[p][j] = log[Other(p)][j]
      BY DEF IInv, PrefixInv
    <3> QED  BY <1>1, <1>7, <1>8, <2>1, <3>1
  <2>2. CASE ~ (i <= n)
    <3>1. i - n \in 1 .. c /\ n + (i - n) = i
      BY <1>1, <1>4, <2>2
    <3> QED  BY <1>6, <1>7, <1>8, <2>2, <3>1
  <2> QED  BY <2>1, <2>2
<1>11. \A k \in pending'[p] : k.id > n + c
  <2>1. \A k \in held : k.id \in Nat /\ k.id > n
    BY <1>1, <1>2
  <2> QED  BY <1>1, <1>4, <1>8, <2>1
<1>12. \A i \in Ids(held) : i <= n + c \/ i \in Ids(pending'[p])
  <2> SUFFICES ASSUME NEW k \in held PROVE k.id <= n + c \/ k \in pending'[p]
    BY DEF Ids
  <2> QED  BY <1>1, <1>4, <1>8
<1>13. Len(got'[p]) = n + c /\ n <= n + c
  BY <1>1, <1>4, <1>7, <1>8
<1>14. pending'[p] \subseteq held
  BY <1>8
<1> QED  BY <1>8, <1>9, <1>10, <1>11, <1>12, <1>13, <1>14 DEF held

\* What a packet does at its receiver, whether its copy stays on the link or not.
LEMMA ReceiverFacts ==
    ASSUME IInv, NEW m \in net, Ingested(Other(m.from), m)
    PROVE  LET p == Other(m.from) IN
           /\ p \in Peers /\ m.from = Other(p) /\ m \in Packet
           /\ got' \in [Peers -> Seq(Nat)] /\ pending' \in [Peers -> SUBSET Packet]
           /\ \A q \in Peers : q # p => got'[q] = got[q] /\ pending'[q] = pending[q]
           /\ Len(got[p]) <= Len(got'[p]) /\ Len(got'[p]) <= Len(log[Other(p)])
           /\ \A i \in 1 .. Len(got'[p]) : got'[p][i] = log[Other(p)][i]
           /\ \A k \in pending'[p] : k \in pending[p] \/ (k = m /\ m.kind = "control")
           /\ m \in pending'[p] => m \in pending[p] \/ (m.kind = "control" /\ Accepted(p, m))
           /\ \A k \in pending'[p] : k.id > Len(got'[p])
           /\ \A i \in Ids(pending[p]) : i <= Len(got'[p]) \/ i \in Ids(pending'[p])
           /\ m.kind = "control" /\ Accepted(p, m) =>
                m.id <= Len(got'[p]) \/ m.id \in Ids(pending'[p])
<1> DEFINE p == Other(m.from)
<1>1. m \in Packet /\ m.from \in Peers /\ p \in Peers /\ m.from = Other(p)
  BY TwoPeers, PacketFacts DEF IInv, TypeOK, PacketsOK
<1>2. Genuine(m)
  BY DEF IInv, GenuineInv
<1> HIDE DEF p
<1>3. Ingested(p, m)
  BY DEF p
<1>4. CASE m.kind = "control" /\ Accepted(p, m)
  <2>1. next_ordered_sequence(p, pending[p] \union {m})
    BY <1>3, <1>4 DEF Ingested
  <2>2. \A i \in Ids(pending[p]) : i \in Ids(pending[p] \union {m})
    BY DEF Ids
  <2>3. m.id \in Ids(pending[p] \union {m})
    BY DEF Ids
  <2>4. /\ got' \in [Peers -> Seq(Nat)] /\ pending' \in [Peers -> SUBSET Packet]
        /\ \A q \in Peers : q # p => got'[q] = got[q] /\ pending'[q] = pending[q]
        /\ Len(got[p]) <= Len(got'[p]) /\ Len(got'[p]) <= Len(log[Other(p)])
        /\ \A i \in 1 .. Len(got'[p]) : got'[p][i] = log[Other(p)][i]
        /\ pending'[p] \subseteq pending[p] \union {m}
        /\ \A k \in pending'[p] : k.id > Len(got'[p])
        /\ \A i \in Ids(pending[p] \union {m}) : i <= Len(got'[p]) \/ i \in Ids(pending'[p])
    BY <1>1, <1>2, <1>4, <2>1, OrderedStep
  <2>5. \A k \in pending'[p] : k \in pending[p] \/ k = m
    BY <2>4
  <2> QED  BY <1>1, <1>4, <2>2, <2>3, <2>4, <2>5 DEF p
<1>5. CASE ~ (m.kind = "control" /\ Accepted(p, m))
  <2>1. got' = got /\ pending' = pending
    BY <1>3, <1>5 DEF Ingested
  <2>2. /\ got \in [Peers -> Seq(Nat)] /\ pending \in [Peers -> SUBSET Packet]
        /\ Len(got[p]) \in Nat /\ Len(got[p]) <= Len(log[Other(p)])
        /\ \A i \in 1 .. Len(got[p]) : got[p][i] = log[Other(p)][i]
        /\ \A k \in pending[p] : k.id > Len(got[p])
    BY <1>1, PeerFacts
       DEF IInv, TypeOK, LogsOK, PacketsOK, Payload, PrefixInv, PendingInv, last_consumed_id
  <2>3. Len(got[p]) <= Len(got[p])
    BY <2>2
  <2>4. got'[p] = got[p] /\ pending'[p] = pending[p]
    BY <2>1
  <2>5. \A i \in Ids(pending[p]) : i <= Len(got'[p]) \/ i \in Ids(pending'[p])
    BY <2>4
  <2>6. /\ \A q \in Peers : q # p => got'[q] = got[q] /\ pending'[q] = pending[q]
        /\ \A k \in pending'[p] : k \in pending[p] \/ (k = m /\ m.kind = "control")
        /\ m \in pending'[p] => m \in pending[p]
    BY <2>1
  <2>7. Len(got[p]) <= Len(got'[p])
    BY <2>3, <2>4
  <2> QED  BY <1>1, <1>5, <2>1, <2>2, <2>4, <2>5, <2>6, <2>7 DEF p
<1> QED  BY <1>4, <1>5

LEMMA IngestStep ==
    ASSUME IInv, NEW m \in net, Ingested(Other(m.from), m), net' \subseteq net,
           open' \in [Peers -> BOOLEAN]
    PROVE  IInv'
<1> DEFINE p == Other(m.from)
<1>1. /\ p \in Peers /\ m.from = Other(p) /\ m \in Packet
      /\ got' \in [Peers -> Seq(Nat)] /\ pending' \in [Peers -> SUBSET Packet]
      /\ \A q \in Peers : q # p => got'[q] = got[q] /\ pending'[q] = pending[q]
      /\ Len(got[p]) <= Len(got'[p]) /\ Len(got'[p]) <= Len(log[Other(p)])
      /\ \A i \in 1 .. Len(got'[p]) : got'[p][i] = log[Other(p)][i]
      /\ \A k \in pending'[p] : k \in pending[p] \/ (k = m /\ m.kind = "control")
      /\ m \in pending'[p] => m \in pending[p] \/ (m.kind = "control" /\ Accepted(p, m))
      /\ \A k \in pending'[p] : k.id > Len(got'[p])
  BY ReceiverFacts
<1>2. Ingested(p, m)
  OBVIOUS
<1> HIDE DEF p
<1>3. /\ toAck' = [toAck EXCEPT ![p] = toAck[p] \union AckQueued(p, m)]
      /\ inFlight' = [inFlight EXCEPT ![p] = {k \in inFlight[p] : k.id \notin m.acks}]
      /\ UNCHANGED <<setup, log>>
  BY <1>2 DEF Ingested, on_incoming_packet
<1>31. refused' \in [Peers -> SUBSET Nat]
  <2>1. refused \in [Peers -> SUBSET Nat] /\ m.id \in Nat
    BY <1>1, PacketFacts DEF IInv, TypeOK, LogsOK
  <2>2. \/ refused' = [refused EXCEPT ![p] = refused[p] \ {m.id}]
        \/ refused' = [refused EXCEPT ![p] = refused[p] \union {m.id}]
        \/ refused' = refused
    BY <1>2 DEF Ingested
  <2> QED  BY <2>1, <2>2
<1>4. /\ toAck \in [Peers -> SUBSET Nat] /\ inFlight \in [Peers -> SUBSET Packet]
      /\ net \subseteq Packet /\ AckQueued(p, m) \in SUBSET Nat
  BY <1>1, PacketFacts DEF IInv, TypeOK, LogsOK, PacketsOK, AckQueued
<1>5. ASSUME NEW q \in Peers
      PROVE  IsFiniteSet(toAck'[q]) /\ Cardinality(toAck'[q]) <= AckCap
  <2>1. IsFiniteSet(toAck[q]) /\ Cardinality(toAck[q]) <= AckCap /\ Cardinality(toAck[q]) \in Nat
    BY PeerFacts DEF IInv, TypeOK, LogsOK
  <2>2. CASE toAck'[q] = toAck[q]
    BY <2>1, <2>2
  <2>3. CASE toAck'[q] # toAck[q]
    <3>1. q = p /\ toAck'[q] = toAck[q] \union {m.id} /\ Cardinality(toAck[q]) < AckCap
      BY <1>3, <1>4, <2>3 DEF AckQueued
    <3>2. /\ IsFiniteSet(toAck'[q]) /\ Cardinality(toAck'[q]) \in Nat
          /\ Cardinality(toAck'[q]) <= Cardinality(toAck[q]) + 1
      <4>1. /\ IsFiniteSet(toAck[q] \union {m.id})
            /\ Cardinality(toAck[q] \union {m.id}) \in Nat
            /\ Cardinality(toAck[q] \union {m.id}) <= Cardinality(toAck[q]) + 1
        BY <2>1, SizeOfMore
      <4> QED  BY <3>1, <4>1
    <3> QED  BY <2>1, <3>1, <3>2, SizeAssumption
  <2> QED  BY <2>2, <2>3
<1>6. ASSUME NEW q \in Peers
      PROVE  /\ inFlight'[q] \subseteq inFlight[q]
             /\ IsFiniteSet(inFlight'[q]) /\ Cardinality(inFlight'[q]) <= SendBuf
  <2>1. inFlight'[q] \subseteq inFlight[q] /\ IsFiniteSet(inFlight[q])
    BY <1>3, <1>4, PeerFacts
  <2>2. /\ IsFiniteSet(inFlight'[q]) /\ Cardinality(inFlight'[q]) \in Nat
        /\ Cardinality(inFlight[q]) \in Nat
        /\ Cardinality(inFlight'[q]) <= Cardinality(inFlight[q])
    BY <2>1, SizeOfLess
  <2>3. Cardinality(inFlight[q]) <= SendBuf
    BY DEF IInv, TypeOK, PacketsOK
  <2> QED  BY <2>1, <2>2, <2>3, SizeAssumption
<1>7. ASSUME NEW q \in Peers
      PROVE  IsFiniteSet(pending'[q]) /\ Cardinality(pending'[q]) <= RecvBuf
  <2>1. /\ IsFiniteSet(pending[q]) /\ Cardinality(pending[q]) <= RecvBuf
        /\ Cardinality(pending[q]) \in Nat
    BY PeerFacts DEF IInv, TypeOK, PacketsOK
  <2>2. CASE pending'[q] \subseteq pending[q]
    <3>1. /\ IsFiniteSet(pending'[q]) /\ Cardinality(pending'[q]) \in Nat
          /\ Cardinality(pending'[q]) <= Cardinality(pending[q])
      BY <2>1, <2>2, SizeOfLess
    <3> QED  BY <2>1, <3>1, SizeAssumption
  <2>3. CASE ~ (pending'[q] \subseteq pending[q])
    <3>1. q = p
      BY <1>1, <2>3
    <3>2. m \in pending'[p] /\ m \notin pending[p] /\ pending'[p] \subseteq pending[p] \union {m}
      BY <1>1, <2>3, <3>1
    <3>3. Cardinality(pending[q]) < RecvBuf
      BY <1>1, <3>1, <3>2 DEF Accepted
    <3>4. /\ IsFiniteSet(pending[q] \union {m}) /\ Cardinality(pending[q] \union {m}) \in Nat
          /\ Cardinality(pending[q] \union {m}) <= Cardinality(pending[q]) + 1
      BY <2>1, SizeOfMore
    <3>5. /\ IsFiniteSet(pending'[q]) /\ Cardinality(pending'[q]) \in Nat
          /\ Cardinality(pending'[q]) <= Cardinality(pending[q] \union {m})
      BY <3>1, <3>2, <3>4, SizeOfLess
    <3> QED  BY <2>1, <3>3, <3>4, <3>5, SizeAssumption
  <2> QED  BY <2>2, <2>3
<1>8. TypeOK'
  <2>1. toAck' \in [Peers -> SUBSET Nat] /\ inFlight' \in [Peers -> SUBSET Packet]
    BY <1>3, <1>4
  <2> QED  BY <1>1, <1>3, <1>31, <1>4, <1>5, <1>6, <1>7, <2>1
           DEF IInv, TypeOK, LogsOK, PacketsOK, Payload
<1>9. PrefixInv'
  <2>1. ASSUME NEW q \in Peers
        PROVE  /\ Len(got'[q]) <= Len(log[Other(q)])
               /\ \A i \in 1 .. Len(got'[q]) : got'[q][i] = log[Other(q)][i]
    BY <1>1 DEF IInv, PrefixInv
  <2> QED  BY <1>3, <2>1 DEF PrefixInv
<1>10. EmptyFirst'
  <2>1. ASSUME NEW q \in Peers, NEW i \in DOMAIN got'[q], got'[q][i] = Empty PROVE i = 1
    <3>1. /\ Other(q) \in Peers /\ DOMAIN got'[q] = 1 .. Len(got'[q])
          /\ Len(got'[q]) \in Nat /\ Len(log[Other(q)]) \in Nat
          /\ DOMAIN log[Other(q)] = 1 .. Len(log[Other(q)])
      BY <1>1, TwoPeers, PeerFacts, LenProperties
    <3>2. Len(got'[q]) <= Len(log[Other(q)]) /\ got'[q][i] = log[Other(q)][i]
      BY <1>3, <1>9, <3>1 DEF PrefixInv
    <3>3. i \in DOMAIN log[Other(q)] /\ log[Other(q)][i] = Empty
      BY <2>1, <3>1, <3>2
    <3> QED  BY <3>1, <3>3 DEF IInv, EmptyFirst
  <2> QED  BY <1>3, <2>1 DEF IInv, EmptyFirst
<1>11. \A k : Genuine(k)' = Genuine(k)
  BY <1>3 DEF Genuine
<1>12. GenuineInv'
  BY <1>6, <1>11 DEF IInv, GenuineInv
<1>13. PendingInv'
  <2>1. ASSUME NEW q \in Peers, NEW k \in pending'[q]
        PROVE  /\ k.from = Other(q) /\ k.kind = "control"
               /\ Genuine(k) /\ k.id > Len(got'[q])
    <3>1. CASE q = p
      <4>1. CASE k \in pending[p]
        BY <1>1, <3>1, <4>1 DEF IInv, PendingInv
      <4>2. CASE k = m /\ m.kind = "control"
        BY <1>1, <3>1, <4>2 DEF IInv, GenuineInv
      <4> QED  BY <1>1, <3>1, <4>1, <4>2
    <3>2. CASE q # p
      BY <1>1, <3>2 DEF IInv, PendingInv, last_consumed_id
    <3> QED  BY <3>1, <3>2
  <2>2. ASSUME NEW q \in Peers, NEW j \in pending'[q], NEW k \in pending'[q], j.id = k.id
        PROVE  j = k
    <3>1. CASE j \in pending[q] /\ k \in pending[q]
      BY <2>2, <3>1 DEF IInv, PendingInv
    <3>2. CASE ~ (j \in pending[q] /\ k \in pending[q])
      <4>1. q = p /\ (j \in pending[p] \/ j = m) /\ (k \in pending[p] \/ k = m)
        BY <1>1, <3>2
      <4>2. CASE m \in pending[p]
        BY <3>2, <4>1, <4>2
      <4>3. CASE m \notin pending[p]
        <5>1. m \in pending'[p]
          BY <3>2, <4>1
        <5>2. m.id \notin Ids(pending[p])
          BY <1>1, <4>3, <5>1 DEF Accepted
        <5>3. \A x \in pending[p] : x.id # m.id
          BY <5>2 DEF Ids
        <5> QED  BY <2>2, <3>2, <4>1, <5>3
      <4> QED  BY <4>2, <4>3
    <3> QED  BY <3>1, <3>2
  <2> QED  BY <1>11, <2>1, <2>2 DEF PendingInv, last_consumed_id
<1>14. FiniteInv'
  BY <1>5, <1>6, <1>7 DEF FiniteInv
<1> QED  BY <1>8, <1>9, <1>10, <1>12, <1>13, <1>14 DEF IInv

LEMMA Step == IInv /\ [Next]_vars => IInv'
<1> SUFFICES ASSUME IInv, [Next]_vars PROVE IInv'
  OBVIOUS
<1>1. ASSUME NEW p \in Peers, packetize_tls_ciphertext(p) PROVE IInv'
  <2>1. Chunk(p) \in Nat /\ Chunk(p) # Empty
    BY PeerFacts, StreamType, LenProperties DEF Chunk, Empty
  <2>2. /\ insert_outgoing_packet(p, Chunk(p), MaxAcks)
        /\ UNCHANGED <<setup, pending, got, refused, open>>
    BY <1>1 DEF packetize_tls_ciphertext
  <2> QED  BY <2>1, <2>2, InsertStep, SizeAssumption
<1>2. ASSUME NEW p \in Peers, new_acknowledgment_packet(p) PROVE IInv'
  <2>1. CASE next_packet_carries_wrapped_client_key(p)
    <3>1. /\ insert_outgoing_packet(p, Empty, AckCap)
          /\ UNCHANGED <<setup, pending, got, refused, open>>
      BY <1>2, <2>1 DEF new_acknowledgment_packet
    <3>2. log[p] = <<>>
      <4>1. Len(log[p]) = 0 /\ log[p] \in Seq(Nat)
        BY <2>1, PeerFacts DEF next_packet_carries_wrapped_client_key, local_control_packet_id
      <4> QED  BY <4>1, EmptySeq
    <3>3. Empty \in Nat /\ AckCap \in Nat
      BY SizeAssumption DEF Empty
    <3> QED  BY <3>1, <3>2, <3>3, InsertStep
  <2>2. CASE ~ next_packet_carries_wrapped_client_key(p)
    <3> DEFINE acks == take_acknowledgments(p, AckCap)
               alone == [from |-> p, kind |-> "ack", id |-> 0, payload |-> Empty, acks |-> acks]
    <3>1. /\ net' = net \union {alone} /\ toAck' = [toAck EXCEPT ![p] = toAck[p] \ acks]
          /\ UNCHANGED <<setup, log, inFlight, pending, got, refused, open>>
      BY <1>2, <2>2 DEF new_acknowledgment_packet
    <3>2. acks \in SUBSET Nat
      BY PeerFacts DEF take_acknowledgments
    <3> HIDE DEF acks
    <3>3. alone \in Packet /\ alone.kind = "ack"
      BY <3>2 DEF Packet, Payload, Empty
    <3> HIDE DEF alone
    <3>4. /\ net \subseteq Packet /\ toAck \in [Peers -> SUBSET Nat]
          /\ open \in [Peers -> BOOLEAN]
      BY DEF IInv, TypeOK, LogsOK, PacketsOK
    <3> QED  BY <3>1, <3>3, <3>4, QuietStep
  <2> QED  BY <2>1, <2>2
<1>3. ASSUME NEW p \in Peers, NEW due, Retransmit(p, due) PROVE IInv'
  <2>1. /\ net' = net \union due /\ due \subseteq inFlight[p]
        /\ UNCHANGED <<setup, log, inFlight, toAck, pending, got, refused, open>>
    BY <1>3 DEF Retransmit, Numbered
  <2>2. /\ net \subseteq Packet /\ inFlight[p] \subseteq Packet
        /\ toAck \in [Peers -> SUBSET Nat] /\ open \in [Peers -> BOOLEAN]
    BY DEF IInv, TypeOK, LogsOK, PacketsOK
  <2> QED  BY <2>1, <2>2, QuietStep
<1>4. ASSUME NEW m \in net, ingest_link_packet(m) PROVE IInv'
  <2>1. Ingested(Other(m.from), m) /\ net' \subseteq net /\ open' \in [Peers -> BOOLEAN]
    BY <1>4 DEF ingest_link_packet, IInv, TypeOK, LogsOK
  <2> QED  BY <2>1, IngestStep
<1>5. ASSUME NEW m \in net, Replayed(m) PROVE IInv'
  <2>1. Ingested(Other(m.from), m) /\ net' \subseteq net /\ open' \in [Peers -> BOOLEAN]
    BY <1>5 DEF Replayed, IInv, TypeOK, LogsOK
  <2> QED  BY <2>1, IngestStep
<1>6. ASSUME NEW m \in net, Lose(m) \/ TooLate(m) PROVE IInv'
  <2>1. net' \subseteq net /\ UNCHANGED <<setup, log, inFlight, toAck, pending, got, refused>>
    BY <1>6 DEF Lose, TooLate
  <2>2. /\ net \subseteq Packet /\ toAck \in [Peers -> SUBSET Nat]
        /\ open \in [Peers -> BOOLEAN] /\ open' \in [Peers -> BOOLEAN]
    BY <1>6 DEF IInv, TypeOK, LogsOK, PacketsOK, Lose, TooLate
  <2> QED  BY <2>1, <2>2, QuietStep
<1>7. CASE UNCHANGED vars
  <2>1. /\ net \subseteq Packet /\ toAck \in [Peers -> SUBSET Nat]
        /\ open \in [Peers -> BOOLEAN]
    BY DEF IInv, TypeOK, LogsOK, PacketsOK
  <2> QED  BY <1>7, <2>1, QuietStep DEF vars
<1> QED  BY <1>1, <1>2, <1>3, <1>4, <1>5, <1>6, <1>7 DEF Next

\* The invariant holds in every behaviour: no buffer outgrows its bound and no
\* packet is ever taken for another.
THEOREM InvCorrect == Spec => []IInv
<1>1. Safe => []IInv
  BY Start, Step, PTL DEF Safe
<1> QED  BY <1>1, PTL DEF Spec

-----------------------------------------------------------------------------
(* Each direction is a FIFO.                                                 *)

LEMMA SetupFacts ==
    ASSUME IInv, NEW p \in Peers
    PROVE  setup \in Setups /\ Total[p] \in Nat /\ Total[p] = setup.total[p]
  BY RoleAssumption DEF IInv, TypeOK, Total

\* A new packet appends a chunk to what its sender wrote, unless it is empty.
LEMMA WriteStep ==
    ASSUME IInv, NEW p \in Peers, NEW payload \in Nat, NEW maximum,
           payload = Empty => log[p] = <<>>,
           payload # Empty => payload \in Chunks,
           insert_outgoing_packet(p, payload, maximum), UNCHANGED got
    PROVE  [Fifo!Next]_<<Written, Read>>
<1>1. log' = [log EXCEPT ![p] = Append(log[p], payload)] /\ log \in [Peers -> Seq(Nat)]
  BY DEF insert_outgoing_packet, IInv, TypeOK, LogsOK, Payload
<1>2. Read' = Read
  BY DEF Read
<1>3. Stream(log'[p]) = IF payload = Empty THEN Stream(log[p]) ELSE Append(Stream(log[p]), payload)
  BY <1>1, StreamAppend
<1>4. \A q \in Peers : q # p => Stream(log'[q]) = Stream(log[q])
  BY <1>1
<1>5. CASE payload = Empty
  <2>1. Written' = Written
    BY <1>3, <1>4, <1>5 DEF Written
  <2> QED  BY <1>2, <2>1
<1>6. CASE payload # Empty
  <2>1. Written' = [Written EXCEPT ![p] = Append(Written[p], payload)]
    BY <1>3, <1>4, <1>6 DEF Written
  <2>2. Fifo!Write(p)
    BY <1>2, <1>6, <2>1 DEF Fifo!Write
  <2> QED  BY <2>2 DEF Fifo!Next
<1> QED  BY <1>5, <1>6

\* What ingest_link_packet passes on extends what was read to a longer prefix of
\* what was written, or leaves it.
LEMMA ReadStep ==
    ASSUME IInv, IInv', NEW m \in net, Ingested(Other(m.from), m)
    PROVE  [Fifo!Next]_<<Written, Read>>
<1> DEFINE p == Other(m.from)
<1>1. /\ p \in Peers /\ m.from = Other(p) /\ m \in Packet
      /\ got' \in [Peers -> Seq(Nat)]
      /\ \A q \in Peers : q # p => got'[q] = got[q]
      /\ Len(got[p]) <= Len(got'[p]) /\ Len(got'[p]) <= Len(log[Other(p)])
      /\ \A i \in 1 .. Len(got'[p]) : got'[p][i] = log[Other(p)][i]
  BY ReceiverFacts
<1>2. log' = log
  BY DEF Ingested
<1> HIDE DEF p
<1> DEFINE w == m.from
<1>3. w \in Peers /\ Other(w) = p /\ log[w] \in Seq(Nat) /\ got[p] \in Seq(Nat)
  BY <1>1, TwoPeers, PeerFacts DEF p
<1>4. Written' = Written
  BY <1>2 DEF Written
<1>5. /\ Len(Stream(got'[p])) <= Len(Stream(log[w]))
      /\ Stream(got'[p]) = SubSeq(Stream(log[w]), 1, Len(Stream(got'[p])))
  BY <1>1, <1>3, StreamPrefix
<1>6. /\ Len(got[p]) <= Len(got'[p])
      /\ \A i \in 1 .. Len(got[p]) : got[p][i] = got'[p][i]
  <2>1. \A i \in 1 .. Len(got[p]) : got[p][i] = log[Other(p)][i]
    BY <1>1 DEF IInv, PrefixInv
  <2>2. Len(got[p]) \in Nat /\ Len(got'[p]) \in Nat
    BY <1>1, <1>3, LenProperties
  <2> QED  BY <1>1, <2>1, <2>2
<1>7. /\ Len(Stream(got[p])) <= Len(Stream(got'[p]))
      /\ Stream(got[p]) = SubSeq(Stream(got'[p]), 1, Len(Stream(got[p])))
  BY <1>1, <1>3, <1>6, StreamPrefix
<1>8. /\ Len(Stream(got[p])) \in Nat /\ Len(Stream(got'[p])) \in Nat
      /\ Len(Stream(log[w])) \in Nat /\ Stream(got'[p]) \in Seq(Nat)
  BY <1>1, <1>3, StreamType, LenProperties
<1>9. \A q \in Peers : q # w => got'[Other(q)] = got[Other(q)]
  <2> SUFFICES ASSUME NEW q \in Peers, q # w PROVE Other(q) \in Peers /\ Other(q) # p
    BY <1>1
  <2> QED  BY <1>3, TwoPeers
<1>10. /\ Read[w] = Stream(got[p]) /\ Read'[w] = Stream(got'[p]) /\ Written[w] = Stream(log[w])
  BY <1>3 DEF Read, Written
<1>11. Read' = [Read EXCEPT ![w] = Stream(got'[p])]
  BY <1>3, <1>9 DEF Read
<1>12. CASE Len(Stream(got[p])) = Len(Stream(got'[p]))
  <2>1. Stream(got[p]) = Stream(got'[p])
    BY <1>7, <1>8, <1>12, SubSeqFull
  <2>2. Read' = Read
    BY <1>3, <1>9, <2>1 DEF Read
  <2> QED  BY <1>4, <2>2
<1>13. CASE Len(Stream(got[p])) < Len(Stream(got'[p]))
  <2> DEFINE n == Len(Stream(got'[p]))
  <2>1. n \in Len(Read[w]) + 1 .. Len(Written[w])
    BY <1>5, <1>8, <1>10, <1>13
  <2>2. Read' = [Read EXCEPT ![w] = SubSeq(Written[w], 1, n)]
    BY <1>5, <1>10, <1>11
  <2> HIDE DEF n
  <2>3. Fifo!Read(w)
    BY <1>4, <2>1, <2>2 DEF Fifo!Read
  <2> QED  BY <1>3, <2>3 DEF Fifo!Next
<1> QED  BY <1>7, <1>8, <1>12, <1>13

LEMMA FifoStep == IInv /\ IInv' /\ [Next]_vars => [Fifo!Next]_<<Written, Read>>
<1> SUFFICES ASSUME IInv, IInv', [Next]_vars PROVE [Fifo!Next]_<<Written, Read>>
  OBVIOUS
<1>1. ASSUME NEW p \in Peers, packetize_tls_ciphertext(p) PROVE [Fifo!Next]_<<Written, Read>>
  <2>1. Chunk(p) \in Nat /\ Chunk(p) >= 1 /\ Chunk(p) <= setup.total[p] /\ setup.total[p] \in Nat
    BY <1>1, PeerFacts, SetupFacts, StreamType, LenProperties DEF Chunk, packetize_tls_ciphertext
  <2>2. Chunk(p) \in Chunks /\ Chunk(p) # Empty
    BY <2>1, SetupFacts DEF Empty, Chunks
  <2>3. insert_outgoing_packet(p, Chunk(p), MaxAcks) /\ UNCHANGED got
    BY <1>1 DEF packetize_tls_ciphertext
  <2> QED  BY <2>1, <2>2, <2>3, WriteStep
<1>2. ASSUME NEW p \in Peers, new_acknowledgment_packet(p) PROVE [Fifo!Next]_<<Written, Read>>
  <2>1. CASE next_packet_carries_wrapped_client_key(p)
    <3>1. insert_outgoing_packet(p, Empty, AckCap) /\ UNCHANGED got
      BY <1>2, <2>1 DEF new_acknowledgment_packet
    <3>2. log[p] = <<>>
      <4>1. Len(log[p]) = 0 /\ log[p] \in Seq(Nat)
        BY <2>1, PeerFacts DEF next_packet_carries_wrapped_client_key, local_control_packet_id
      <4> QED  BY <4>1, EmptySeq
    <3>3. Empty \in Nat
      BY DEF Empty
    <3> QED  BY <3>1, <3>2, <3>3, WriteStep
  <2>2. CASE ~ next_packet_carries_wrapped_client_key(p)
    <3>1. UNCHANGED <<log, got>>
      BY <1>2, <2>2 DEF new_acknowledgment_packet
    <3> QED  BY <3>1 DEF Written, Read
  <2> QED  BY <2>1, <2>2
<1>3. ASSUME NEW m \in net, ingest_link_packet(m) \/ Replayed(m)
      PROVE  [Fifo!Next]_<<Written, Read>>
  <2>1. Ingested(Other(m.from), m)
    BY <1>3 DEF ingest_link_packet, Replayed
  <2> QED  BY <2>1, ReadStep
<1>4. CASE \/ \E p \in Peers : \E due \in SUBSET inFlight[p] : Retransmit(p, due)
           \/ \E m \in net : Lose(m) \/ TooLate(m)
           \/ UNCHANGED vars
  <2>1. UNCHANGED <<log, got>>
    BY <1>4 DEF Retransmit, Lose, TooLate, vars
  <2> QED  BY <2>1 DEF Written, Read
<1> QED  BY <1>1, <1>2, <1>3, <1>4 DEF Next

\* Loss, duplication and reordering on the link, retransmission, lost
\* acknowledgments and tasks that end: none of them makes next_ordered_sequence
\* pass on anything but the next bytes the other peer wrote. For every buffer size
\* and every number of chunks the channel implements a FIFO in each direction.
THEOREM FifoCorrect == Spec => ImplementsFifo
<1>1. Init => Fifo!Init
  <2> SUFFICES ASSUME Init PROVE Fifo!Init
    OBVIOUS
  <2>1. Stream(<<>>) = <<>>
    BY DEF Stream
  <2>2. \A p \in Peers : log[p] = <<>> /\ got[Other(p)] = <<>>
    BY TwoPeers DEF Init
  <2> QED  BY <2>1, <2>2 DEF Fifo!Init, Written, Read
<1>2. Safe => []IInv
  BY Start, Step, PTL DEF Safe
<1>3. Safe => Fifo!Spec
  BY <1>1, <1>2, FifoStep, PTL DEF Safe, Fifo!Spec
<1> QED  BY <1>3, PTL DEF Spec, ImplementsFifo

-----------------------------------------------------------------------------
(* An acknowledgment stands for a packet that is kept, or that the receive   *)
(* window refused.                                                           *)

LEMMA KeptInsert ==
    ASSUME IInv, KInv, NEW p \in Peers, NEW payload \in Nat, NEW maximum,
           payload = Empty => log[p] = <<>>,
           insert_outgoing_packet(p, payload, maximum),
           UNCHANGED <<setup, pending, got, refused, open>>
    PROVE  KInv'
<1>1. PICK acks, packet :
        /\ acks \in SUBSET toAck[p] /\ packet.id = Len(log[p]) + 1 /\ packet.acks = acks
        /\ log' = [log EXCEPT ![p] = Append(log[p], payload)]
        /\ inFlight' = [inFlight EXCEPT ![p] = inFlight[p] \union {packet}]
        /\ toAck' = [toAck EXCEPT ![p] = toAck[p] \ acks]
        /\ net' = net \union {packet}
        /\ packet.from = p
  <2> DEFINE a == take_acknowledgments(p, maximum)
             k == [from |-> p, kind |-> "control", id |-> Len(log[p]) + 1,
                   payload |-> payload, acks |-> a]
  <2>1. a \in SUBSET toAck[p]
    BY DEF take_acknowledgments
  <2> HIDE DEF a
  <2>2. k.id = Len(log[p]) + 1 /\ k.acks = a /\ k.from = p
    OBVIOUS
  <2> QED  BY <2>1, <2>2 DEF a, insert_outgoing_packet, local_control_packet_id
<1>2. /\ log \in [Peers -> Seq(Nat)] /\ toAck \in [Peers -> SUBSET Nat]
      /\ inFlight \in [Peers -> SUBSET Packet]
  BY DEF IInv, TypeOK, LogsOK, PacketsOK, Payload
<1>3. \A q, i : Kept(q, i)' = Kept(q, i)
  BY DEF Kept, last_consumed_id
<1>4. \A q \in Peers : q # p => /\ log'[q] = log[q] /\ toAck'[q] = toAck[q]
                                /\ inFlight'[q] = inFlight[q]
  BY <1>1, <1>2
<1>5. /\ log'[p] = Append(log[p], payload) /\ inFlight'[p] = inFlight[p] \union {packet}
      /\ toAck'[p] = toAck[p] \ acks
  BY <1>1, <1>2
<1>7. AckInv'
  <2>1. ASSUME NEW q \in Peers, NEW i \in toAck'[q] PROVE Kept(q, i)
    <3>1. i \in toAck[q]
      BY <1>4, <1>5
    <3> QED  BY <3>1 DEF KInv, AckInv
  <2>2. \A i \in packet.acks : Kept(p, i)
    BY <1>1 DEF KInv, AckInv
  <2>3. \A m \in net' : \A i \in m.acks : Kept(m.from, i)
    BY <1>1, <2>2 DEF KInv, AckInv
  <2>4. ASSUME NEW q \in Peers, NEW m \in inFlight'[q], NEW i \in m.acks PROVE Kept(q, i)
    <3>1. m \in inFlight[q] \/ (q = p /\ m = packet)
      BY <1>4, <1>5
    <3> QED  BY <2>2, <3>1 DEF KInv, AckInv
  <2> QED  BY <1>3, <2>1, <2>3, <2>4 DEF AckInv
<1>8. AckedIsKept'
  <2> SUFFICES ASSUME NEW q \in Peers, NEW i \in 1 .. Len(log'[q])
               PROVE  \/ i \in Ids(inFlight'[q])
                      \/ i <= last_consumed_id(Other(q))
                      \/ i \in Ids(pending[Other(q)]) \/ i \in refused[Other(q)]
    BY DEF AckedIsKept, last_consumed_id
  <2>1. CASE i \in 1 .. Len(log[q])
    <3>1. Ids(inFlight[q]) \subseteq Ids(inFlight'[q])
      BY <1>4, <1>5 DEF Ids
    <3> QED  BY <2>1, <3>1 DEF KInv, AckedIsKept
  <2>2. CASE i \notin 1 .. Len(log[q])
    <3>1. q = p
      BY <1>4, <2>2
    <3>2. Len(log[p]) \in Nat /\ Len(log'[p]) = Len(log[p]) + 1
      BY <1>2, <1>5, LenProperties, AppendProperties
    <3>3. i = packet.id /\ packet \in inFlight'[q]
      BY <1>1, <1>5, <2>2, <3>1, <3>2
    <3> QED  BY <3>3 DEF Ids
  <2> QED  BY <2>1, <2>2
<1> QED  BY <1>7, <1>8 DEF KInv

LEMMA KeptQuiet ==
    ASSUME IInv, KInv, UNCHANGED <<setup, log, inFlight, pending, got, refused>>,
           \A m \in net' : \/ m \in net \/ \E p \in Peers : m \in inFlight[p]
                           \/ m.from \in Peers /\ m.acks \subseteq toAck[m.from],
           \A p \in Peers : toAck'[p] \subseteq toAck[p]
    PROVE  KInv'
<1>1. AckedIsKept'
  BY DEF KInv, AckedIsKept, last_consumed_id
<1>2. \A q, i : Kept(q, i)' = Kept(q, i)
  BY DEF Kept, last_consumed_id
<1>3. ASSUME NEW m \in net', NEW i \in m.acks PROVE Kept(m.from, i)
  <2>1. CASE m \in net
    BY <2>1 DEF KInv, AckInv
  <2>2. CASE \E p \in Peers : m \in inFlight[p]
    BY <2>2 DEF KInv, AckInv, IInv, GenuineInv
  <2>3. CASE m.from \in Peers /\ m.acks \subseteq toAck[m.from]
    BY <2>3 DEF KInv, AckInv
  <2> QED  BY <2>1, <2>2, <2>3
<1>4. AckInv'
  BY <1>2, <1>3 DEF KInv, AckInv
<1> QED  BY <1>1, <1>4 DEF KInv

LEMMA KeptIngest ==
    ASSUME IInv, KInv, NEW m \in net, Ingested(Other(m.from), m), net' \subseteq net
    PROVE  KInv'
<1> DEFINE p == Other(m.from)
<1>1. /\ p \in Peers /\ m.from = Other(p) /\ m \in Packet
      /\ \A q \in Peers : q # p => got'[q] = got[q] /\ pending'[q] = pending[q]
      /\ Len(got[p]) <= Len(got'[p]) /\ got' \in [Peers -> Seq(Nat)]
      /\ \A i \in Ids(pending[p]) : i <= Len(got'[p]) \/ i \in Ids(pending'[p])
      /\ m.kind = "control" /\ Accepted(p, m) =>
                m.id <= Len(got'[p]) \/ m.id \in Ids(pending'[p])
  BY ReceiverFacts
<1>2. Ingested(p, m) /\ Genuine(m)
  BY DEF IInv, GenuineInv
<1> HIDE DEF p
<1>3. /\ toAck' = [toAck EXCEPT ![p] = toAck[p] \union AckQueued(p, m)]
      /\ inFlight' = [inFlight EXCEPT ![p] = {k \in inFlight[p] : k.id \notin m.acks}]
      /\ log' = log /\ setup' = setup
  BY <1>2 DEF Ingested, on_incoming_packet
<1>4. toAck \in [Peers -> SUBSET Nat] /\ inFlight \in [Peers -> SUBSET Packet]
  BY DEF IInv, TypeOK, LogsOK, PacketsOK
<1>5. Len(got[p]) \in Nat /\ Len(got'[p]) \in Nat /\ m.id \in Nat /\ m.from \in Peers
  BY <1>1, PeerFacts, PacketFacts, LenProperties
<1>50. /\ \A q \in Peers : q # p => refused'[q] = refused[q]
       /\ m.kind = "control" /\ Accepted(p, m) => refused'[p] = refused[p] \ {m.id}
       /\ ~(m.kind = "control" /\ Accepted(p, m)) =>
             refused[p] \subseteq refused'[p] /\ (Refused(p, m) => m.id \in refused'[p])
  <2>1. refused \in [Peers -> SUBSET Nat] /\ p \in Peers
    BY <1>1 DEF IInv, TypeOK, LogsOK
  <2>2. CASE m.kind = "control" /\ Accepted(p, m)
    <3>1. refused' = [refused EXCEPT ![p] = refused[p] \ {m.id}]
      BY <1>2, <2>2 DEF Ingested
    <3> QED  BY <2>1, <2>2, <3>1
  <2>3. CASE ~(m.kind = "control" /\ Accepted(p, m))
    <3>1. refused' = IF Refused(p, m) THEN [refused EXCEPT ![p] = refused[p] \union {m.id}]
                                      ELSE refused
      BY <1>2, <2>3 DEF Ingested
    <3> HIDE DEF Refused
    <3> QED  BY <2>1, <2>3, <3>1
  <2> QED  BY <2>2, <2>3
<1>6. ASSUME NEW q \in Peers, NEW i \in Nat, Kept(q, i) PROVE Kept(q, i)'
  <2>1. CASE q # p
    BY <1>1, <1>50, <1>6, <2>1 DEF Kept, last_consumed_id
  <2>2. CASE q = p /\ m.kind = "control" /\ Accepted(p, m)
    BY <1>1, <1>5, <1>50, <1>6, <2>2 DEF Kept, last_consumed_id
  <2>3. CASE q = p /\ ~(m.kind = "control" /\ Accepted(p, m))
    BY <1>1, <1>5, <1>50, <1>6, <2>3 DEF Kept, last_consumed_id
  <2> QED  BY <2>1, <2>2, <2>3
<1>7. ASSUME AckQueued(p, m) # {} PROVE m.kind = "control" /\ Kept(p, m.id)'
  <2>0. m.kind = "control"
    BY <1>7 DEF AckQueued
  <2>1. CASE Accepted(p, m)
    BY <1>1, <2>0, <2>1 DEF Kept, last_consumed_id
  <2>2. CASE m.id <= Len(got[p]) \/ m.id \in Ids(pending[p])
    <3>1. Kept(p, m.id)
      BY <2>2 DEF Kept, last_consumed_id
    <3> QED  BY <1>1, <1>5, <1>6, <2>0, <3>1
  <2>3. CASE m.id > Len(got[p]) /\ m.id \notin Ids(pending[p]) /\ ~Accepted(p, m)
    <3>1. Refused(p, m)
      BY <1>7, <2>3 DEF Refused, last_consumed_id
    <3> QED  BY <1>50, <2>0, <2>3, <3>1 DEF Kept
  <2> QED  BY <1>5, <2>0, <2>1, <2>2, <2>3
<1>9. AckInv'
  <2>1. ASSUME NEW q \in Peers, NEW i \in toAck'[q] PROVE Kept(q, i)'
    <3>1. CASE i \in toAck[q]
      BY <1>4, <1>6, <3>1 DEF KInv, AckInv
    <3>2. CASE i \notin toAck[q]
      <4>1. q = p /\ i \in AckQueued(p, m) /\ i = m.id
        BY <1>3, <1>4, <3>2 DEF AckQueued
      <4> QED  BY <1>7, <4>1
    <3> QED  BY <3>1, <3>2
  <2>2. ASSUME NEW k \in net', NEW i \in k.acks PROVE Kept(k.from, i)'
    <3>1. k \in net /\ k.from \in Peers /\ i \in Nat
      BY PacketFacts DEF IInv, TypeOK, PacketsOK
    <3> QED  BY <1>6, <3>1 DEF KInv, AckInv
  <2>3. ASSUME NEW q \in Peers, NEW k \in inFlight'[q], NEW i \in k.acks PROVE Kept(q, i)'
    <3>1. k \in inFlight[q] /\ i \in Nat
      BY <1>3, <1>4, PacketFacts
    <3> QED  BY <1>6, <3>1 DEF KInv, AckInv
  <2> QED  BY <2>1, <2>2, <2>3 DEF AckInv
<1>10. AckedIsKept'
  <2>0. ASSUME NEW q \in Peers, NEW i \in 1 .. Len(log[q]), Kept(Other(q), i)'
        PROVE  \/ i <= last_consumed_id(Other(q))' \/ i \in Ids(pending'[Other(q)])
               \/ i \in refused'[Other(q)]
    BY <2>0 DEF Kept, ResetId
  <2> SUFFICES ASSUME NEW q \in Peers, NEW i \in 1 .. Len(log[q]), i \notin Ids(inFlight'[q])
               PROVE  Kept(Other(q), i)'
    BY <1>3, <2>0 DEF AckedIsKept
  <2>1. Other(q) \in Peers /\ i \in Nat /\ i # ResetId
    BY TwoPeers, PeerFacts DEF ResetId
  <2>2. CASE i \notin Ids(inFlight[q])
    <3>1. Kept(Other(q), i)
      BY <2>2 DEF KInv, AckedIsKept, Kept
    <3> QED  BY <1>6, <2>1, <3>1
  <2>3. CASE i \in Ids(inFlight[q])
    <3>1. PICK k \in inFlight[q] : k.id = i
      BY <2>3 DEF Ids
    <3>2. q = p /\ i \in m.acks
      BY <1>3, <1>4, <3>1 DEF Ids
    <3>3. Kept(m.from, i)
      BY <3>2 DEF KInv, AckInv
    <3> QED  BY <1>1, <1>6, <2>1, <3>2, <3>3
  <2> QED  BY <2>2, <2>3
<1> QED  BY <1>9, <1>10 DEF KInv

LEMMA KeptStep == IInv /\ KInv /\ [Next]_vars => KInv'
<1> SUFFICES ASSUME IInv, KInv, [Next]_vars PROVE KInv'
  OBVIOUS
<1>1. ASSUME NEW p \in Peers, packetize_tls_ciphertext(p) PROVE KInv'
  <2>1. Chunk(p) \in Nat /\ Chunk(p) # Empty
    BY PeerFacts, StreamType, LenProperties DEF Chunk, Empty
  <2>2. /\ insert_outgoing_packet(p, Chunk(p), MaxAcks)
        /\ UNCHANGED <<setup, pending, got, refused, open>>
    BY <1>1 DEF packetize_tls_ciphertext
  <2> QED  BY <2>1, <2>2, KeptInsert
<1>2. ASSUME NEW p \in Peers, new_acknowledgment_packet(p) PROVE KInv'
  <2>1. CASE next_packet_carries_wrapped_client_key(p)
    <3>1. /\ insert_outgoing_packet(p, Empty, AckCap)
          /\ UNCHANGED <<setup, pending, got, refused, open>>
      BY <1>2, <2>1 DEF new_acknowledgment_packet
    <3>2. log[p] = <<>>
      <4>1. Len(log[p]) = 0 /\ log[p] \in Seq(Nat)
        BY <2>1, PeerFacts DEF next_packet_carries_wrapped_client_key, local_control_packet_id
      <4> QED  BY <4>1, EmptySeq
    <3>3. Empty \in Nat
      BY DEF Empty
    <3> QED  BY <3>1, <3>2, <3>3, KeptInsert
  <2>2. CASE ~ next_packet_carries_wrapped_client_key(p)
    <3> DEFINE acks == take_acknowledgments(p, AckCap)
               alone == [from |-> p, kind |-> "ack", id |-> 0, payload |-> Empty, acks |-> acks]
    <3>1. /\ net' = net \union {alone} /\ toAck' = [toAck EXCEPT ![p] = toAck[p] \ acks]
          /\ UNCHANGED <<setup, log, inFlight, pending, got, refused, open>>
      BY <1>2, <2>2 DEF new_acknowledgment_packet
    <3>2. acks \subseteq toAck[p]
      BY DEF take_acknowledgments
    <3> HIDE DEF acks
    <3>3. alone.from \in Peers /\ alone.acks \subseteq toAck[alone.from]
      BY <3>2
    <3> HIDE DEF alone
    <3>4. toAck \in [Peers -> SUBSET Nat]
      BY DEF IInv, TypeOK, LogsOK
    <3> QED  BY <3>1, <3>3, <3>4, KeptQuiet
  <2> QED  BY <2>1, <2>2
<1>3. ASSUME NEW p \in Peers, NEW due, Retransmit(p, due) PROVE KInv'
  <2>1. /\ net' = net \union due /\ due \subseteq inFlight[p]
        /\ UNCHANGED <<setup, log, inFlight, toAck, pending, got, refused, open>>
    BY <1>3 DEF Retransmit, Numbered
  <2> QED  BY <2>1, KeptQuiet
<1>4. ASSUME NEW m \in net, ingest_link_packet(m) \/ Replayed(m) PROVE KInv'
  <2>1. Ingested(Other(m.from), m) /\ net' \subseteq net
    BY <1>4 DEF ingest_link_packet, Replayed
  <2> QED  BY <2>1, KeptIngest
<1>5. CASE (\E m \in net : Lose(m) \/ TooLate(m)) \/ UNCHANGED vars
  <2>1. net' \subseteq net /\ UNCHANGED <<setup, log, inFlight, toAck, pending, got, refused>>
    BY <1>5 DEF Lose, TooLate, vars
  <2> QED  BY <2>1, KeptQuiet
<1> QED  BY <1>1, <1>2, <1>3, <1>4, <1>5 DEF Next

LEMMA KeptStart == Init => KInv
<1> SUFFICES ASSUME Init PROVE KInv
  OBVIOUS
<1>1. \A p \in Peers : log[p] = <<>> /\ toAck[p] \in SUBSET {ResetId}
  BY DEF Init
<1>2. Stream(<<>>) = <<>> /\ Len(<<>>) = 0
  BY DEF Stream
<1>4. \A p \in Peers : \A m \in inFlight[p] : m.acks = {}
  BY DEF Init, SoftReset
<1>5. AckInv
  BY <1>1, <1>4 DEF Init, AckInv, Kept
<1>6. AckedIsKept
  BY <1>1, <1>2 DEF AckedIsKept
<1> QED  BY <1>5, <1>6 DEF KInv

\* No buffer outgrows its bound, only packet 1 may be empty, and what
\* on_incoming_packet releases from the send window is at the receiver, or
\* ingest_link_packet acknowledged it there and the receive window refused it:
\* for any sizes of the windows and any length of the streams.
THEOREM SafetyCorrect == Spec => []SafetyInv
<1>1. Init => IInv /\ KInv
  BY Start, KeptStart
<1>2. IInv /\ KInv /\ [Next]_vars => IInv' /\ KInv'
  BY Step, KeptStep
<1>3. IInv /\ KInv => SafetyInv
  BY DEF IInv, KInv, SafetyInv
<1>4. Safe => []SafetyInv
  BY <1>1, <1>2, <1>3, PTL DEF Safe
<1> QED  BY <1>4, PTL DEF Spec

-----------------------------------------------------------------------------
(* OpenVpnRekey: the operators. *)

\* What sort_and_limit keeps of a finite set of keys with distinct numbers.
LEMMA LimitKeeps ==
    ASSUME NEW X \in SUBSET DataKey, IsFiniteSet(X),
           \A e, f \in X : e.seq = f.seq => e = f
    PROVE  /\ sort_and_limit(X) \subseteq X
           /\ IsFiniteSet(sort_and_limit(X)) /\ Cardinality(sort_and_limit(X)) <= Scan
<1> DEFINE L == sort_and_limit(X)
<1>1. L \subseteq X
  BY DEF sort_and_limit
<1>2. IsFiniteSet(L) /\ Scan \in Nat /\ 1 < Scan
  BY <1>1, FS_Subset, ScanAssumption
<1>3. CASE L = {}
  BY <1>1, <1>2, <1>3, FS_EmptySet
<1>4. CASE L # {}
  <2> DEFINE T == {e.seq : e \in L}
  <2>1. T \in SUBSET Nat /\ T # {}
    BY <1>1, <1>4 DEF DataKey
  <2>2. PICK n \in T : \A m \in T : n <= m
    <3> HIDE DEF T
    <3> QED  BY <2>1, LeastNatural
  <2>3. PICK x \in L : x.seq = n
    BY <2>2
  <2> DEFINE N == {f \in X : f.seq > x.seq}
  <2>4. L \ {x} \subseteq N
    <3>1. ASSUME NEW f \in L \ {x} PROVE f.seq > x.seq
      <4>1. f.seq \in T /\ f.seq \in Nat /\ x.seq \in Nat
        BY <1>1, <2>3 DEF DataKey
      <4>2. x.seq <= f.seq
        BY <2>2, <2>3, <4>1
      <4>3. x.seq # f.seq
        BY <1>1, <2>3
      <4> QED  BY <4>1, <4>2, <4>3
    <3> QED  BY <1>1, <3>1
  <2>5. Cardinality(N) < Scan
    BY <2>3 DEF sort_and_limit
  <2>6. IsFiniteSet(N) /\ Cardinality(N) \in Nat
    BY FS_Subset, FS_CardinalityType
  <2>7. Cardinality(L \ {x}) <= Cardinality(N)
    BY <2>4, <2>6, FS_Subset
  <2>8. Cardinality(L \ {x}) = Cardinality(L) - 1 /\ Cardinality(L) \in Nat
    BY <1>2, <2>3, FS_RemoveElement, FS_CardinalityType
  <2> QED  BY <1>1, <1>2, <2>5, <2>6, <2>7, <2>8
<1> QED  BY <1>3, <1>4

\* A key with at most one newer one is kept.
LEMMA LimitHolds ==
    ASSUME NEW X \in SUBSET DataKey, NEW e \in X, NEW x,
           \A f \in X : f.seq > e.seq => f = x
    PROVE  e \in sort_and_limit(X)
<1> DEFINE N == {f \in X : f.seq > e.seq}
<1>1. N \subseteq {x}
  OBVIOUS
<1>2. IsFiniteSet({x}) /\ Cardinality({x}) = 1
  BY FS_Singleton
<1>3. Cardinality(N) <= 1
  BY <1>1, <1>2, FS_Subset
<1>4. Cardinality(N) \in Nat /\ Scan \in Nat /\ 1 < Scan
  BY <1>1, <1>2, FS_Subset, FS_CardinalityType, ScanAssumption
<1> QED  BY <1>3, <1>4 DEF sort_and_limit

\* The types of the state of one peer.
LEMMA PeerTypes ==
    ASSUME RekeyTypeOK, NEW p \in Peers
    PROVE  /\ coord[p].states \in SUBSET ResetState /\ coord[p].active \in Keys \union {0}
           /\ coord[p].sequence \in Nat /\ coord[p].promoted \in Nat
           /\ ring[p].receive \in SUBSET DataKey /\ ring[p].send \in DataKey
           /\ ring[p].send.key \in Keys \union {0} /\ ring[p].send.seq \in Nat
           /\ mux[p].channels \in SUBSET (Keys \union {0}) /\ mux[p].primary \in Keys \union {0}
           /\ mux[p].leaving \in SUBSET Keys
           /\ sessions[p] \in Seq(Keys) /\ Len(sessions[p]) \in Nat
           /\ task[p].seq \in Nat
           /\ task[p] = Idle \/ (task[p] # Idle /\ task[p].key \in Keys
                                 /\ task[p].step \in Steps /\ task[p].local \in BOOLEAN)
<1>1. coord[p].states \in SUBSET ResetState /\ coord[p].active \in Keys \union {0}
      /\ coord[p].sequence \in Nat /\ coord[p].promoted \in Nat
  BY DEF RekeyTypeOK, SupervisorsOK
<1>2. ring[p].receive \in SUBSET DataKey /\ ring[p].send \in DataKey
  BY DEF RekeyTypeOK, ChannelsOK
<1>3. mux[p].channels \in SUBSET (Keys \union {0}) /\ mux[p].primary \in Keys \union {0}
      /\ mux[p].leaving \in SUBSET Keys
  BY DEF RekeyTypeOK, ChannelsOK
<1>4. sessions[p] \in Seq(Keys) /\ Len(sessions[p]) \in Nat
  BY DEF RekeyTypeOK, ChannelsOK
<1>5. task[p] \in Task
  BY DEF RekeyTypeOK, SupervisorsOK
<1>6. task[p].seq \in Nat
  BY <1>5 DEF Task, Idle, Renegotiation
<1>7. task[p] = Idle \/ (task[p] # Idle /\ task[p].key \in Keys
                         /\ task[p].step \in Steps /\ task[p].local \in BOOLEAN)
  BY <1>5 DEF Task, Idle, Renegotiation, Steps
<1>8. ring[p].send.key \in Keys \union {0} /\ ring[p].send.seq \in Nat
  BY <1>2 DEF DataKey
<1> QED  BY <1>1, <1>2, <1>3, <1>4, <1>6, <1>7, <1>8


-----------------------------------------------------------------------------

\* The state of peer q that a step of the other one leaves alone.
Untouched(q) ==
    /\ task'[q] = task[q] /\ coord'[q] = coord[q] /\ ring'[q] = ring[q]
    /\ mux'[q] = mux[q] /\ sessions'[q] = sessions[q] /\ (q \in cut' <=> q \in cut)

Local(p) == Bounded(p) /\ RingInv(p) /\ MuxInv(p) /\ CoordInv(p)

LEMMA UntouchedStays ==
    ASSUME NEW q \in Peers, Local(q), Untouched(q)
    PROVE  Local(q)'
<1>1. Bounded(q)' /\ RingInv(q)'
  BY DEF Local, Untouched, Bounded, RingInv, KeyOfTask, Negotiates
<1>2. MuxInv(q)'
  BY DEF Local, Untouched, MuxInv, HasChannel
<1>3. CoordInv(q)'
  <2>1. Negotiating(q)' = Negotiating(q) /\ KeyOfTask(q)' = KeyOfTask(q)
    BY DEF Untouched, Negotiating, KeyOfTask
  <2> QED  BY <2>1 DEF Local, Untouched, CoordInv
<1> QED  BY <1>1, <1>2, <1>3 DEF Local

LEMMA Assembled ==
    ASSUME RekeyInv, NEW p \in Peers, SupervisorsOK', ChannelsOK', Local(p)', Together',
           \A q \in Peers \ {p} : Untouched(q)
    PROVE  RekeyInv'
<1>1. ASSUME NEW q \in Peers PROVE Local(q)'
  <2>1. Local(q)
    BY DEF RekeyInv, RekeyTypeOK, Local
  <2> QED  BY <2>1, UntouchedStays
<1> QED  BY <1>1 DEF RekeyInv, RekeyTypeOK, Local

\* Two facts about the peers, whichever of them is looked at.
LEMMA JointlyTrue ==
    ASSUME NEW p \in Peers,
           (\A q \in Peers : up'[q]) /\ cut' = {} /\ outlived' = {} =>
               Joint(p)' /\ Backed(p)' /\ Backed(Other(p))'
    PROVE  Together'
<1>1. \A q \in Peers : q = p \/ q = Other(p)
  BY TwoPeers, PeersAssumption
<1>2. Joint(p)' => Joint(Other(p))'
  BY TwoPeers DEF Joint
<1> QED  BY <1>1, <1>2 DEF Together

\* Only what is sent, received, kept and negotiated matters to both peers.
LEMMA TogetherStays ==
    ASSUME Together, UNCHANGED <<up, outlived, cut, task, ring, sessions>>
    PROVE  Together'
BY DEF Together, Joint, Ahead, Backed, TakesPart, PastHandshake

\* Steps of messages and acknowledgments.
LEMMA BooksStay ==
    ASSUME RekeyInv, SupervisorsOK',
           UNCHANGED <<outlived, cut, up, task, coord, ring, mux, sessions>>
    PROVE  RekeyInv'
<1>1. ChannelsOK'
  BY DEF RekeyInv, RekeyTypeOK, ChannelsOK
<1>2. ASSUME NEW q \in Peers PROVE Local(q)'
  <2>1. Local(q) /\ Untouched(q)
    BY DEF RekeyInv, RekeyTypeOK, Local, Untouched
  <2> QED  BY <2>1, UntouchedStays
<1>3. Together'
  BY TogetherStays DEF RekeyInv
<1> QED  BY <1>1, <1>2, <1>3 DEF RekeyInv, RekeyTypeOK, Local

\* A renegotiation that begins, or gets its channel, changes nothing between them.
LEMMA TogetherStarts ==
    ASSUME RekeyInv, NEW p \in Peers, UNCHANGED <<up, outlived, cut, ring, sessions>>,
           task[p] = Idle \/ task[p].step \in {"register", "handshake"},
           task'[p].step \in {"register", "handshake", "exchange"},
           \A q \in Peers \ {p} : task'[q] = task[q]
    PROVE  Together'
<1> DEFINE q == Other(p)
<1>1. q \in Peers /\ q # p /\ Other(q) = p /\ task'[q] = task[q]
  BY TwoPeers
<1> HIDE DEF q
<1>2. SUFFICES ASSUME \A r \in Peers : up'[r], cut' = {}, outlived' = {}
               PROVE  Joint(p)' /\ Backed(p)' /\ Backed(q)'
  BY JointlyTrue DEF q
<1>3. Joint(p) /\ Backed(p) /\ Backed(q)
  BY <1>1, <1>2 DEF RekeyInv, Together
<1>4. Other(p) = q
  BY DEF q
<1>5. task[p].step \notin {"exchange", "install"}
  BY DEF Idle, Renegotiation
<1>6. Joint(p)'
  BY <1>1, <1>3, <1>4, <1>5 DEF Joint, Ahead
<1>7. Backed(p)'
  BY DEF Backed
<1>8. Backed(q)'
  <2>1. CASE task[q].step = "install"
    <3>1. task[q].key # 0
      BY <1>1, <2>1, PeerTypes DEF RekeyInv, Idle, Renegotiation, Keys
    <3> QED  BY <1>1, <1>3, <2>1, <3>1 DEF Backed, TakesPart, PastHandshake, Idle, Renegotiation
  <2> QED  BY <1>1, <2>1 DEF Backed
<1> QED  BY <1>6, <1>7, <1>8

-----------------------------------------------------------------------------
(* The steps of one peer. *)

LEMMA BeginKeeps ==
    ASSUME RekeyInv, NEW p \in Peers, NEW k \in Keys, NEW local \in BOOLEAN,
           task[p] = Idle, begin(p, k, local),
           \A s \in Negotiating(p) : s.key # k,
           UNCHANGED <<link, outlived, cut, up, ring, mux, sessions, unacked, replies>>,
           requests' \in [Peers -> Nat], resets' \in [Peers -> SUBSET Keys]
    PROVE  RekeyInv'
<1> DEFINE n == coord[p].sequence + 1
           states == WithoutKey(coord[p].states, k) \union {Reset(k, n, "negotiating")}
<1>1. /\ coord' = [coord EXCEPT ![p] = Coordinator(states, coord[p].active, n, coord[p].promoted)]
      /\ task' = [task EXCEPT ![p] = Renegotiation(k, n, local, "register")]
  BY DEF begin
<1>2. n \in Nat /\ n > coord[p].sequence /\ states \in SUBSET ResetState
  BY PeerTypes DEF RekeyInv, WithoutKey, Reset, ResetState
<1> HIDE DEF n, states
<1>3. Renegotiation(k, n, local, "register") \in Task
  BY <1>2 DEF Renegotiation, Task, Steps
<1>4. Coordinator(states, coord[p].active, n, coord[p].promoted) \in
         [states: SUBSET ResetState, active: Keys \union {0}, sequence: Nat, promoted: Nat]
  BY <1>2, PeerTypes DEF RekeyInv, Coordinator
<1>5. SupervisorsOK' /\ ChannelsOK'
  BY <1>1, <1>3, <1>4 DEF RekeyInv, RekeyTypeOK, SupervisorsOK, ChannelsOK
<1>6. task \in [Peers -> Task] /\ coord \in [Peers ->
         [states: SUBSET ResetState, active: Keys \union {0}, sequence: Nat, promoted: Nat]]
  BY DEF RekeyInv, RekeyTypeOK, SupervisorsOK
<1>7. /\ task'[p].key = k /\ task'[p].seq = n /\ task'[p].step = "register"
      /\ coord'[p].states = states /\ coord'[p].active = coord[p].active
      /\ coord'[p].sequence = n /\ coord'[p].promoted = coord[p].promoted
  BY <1>1, <1>6 DEF Renegotiation, Coordinator
<1>8. \A q \in Peers \ {p} : Untouched(q)
  BY <1>1, <1>6 DEF Untouched
<1>9. Bounded(p) /\ RingInv(p) /\ MuxInv(p) /\ CoordInv(p)
  BY DEF RekeyInv, RekeyTypeOK
<1>10. RingInv(p)'
  <2>1. Reset(k, n, "negotiating") \in states
    BY DEF states
  <2>2. \A e \in ring[p].receive : e.seq \in Nat
    BY PeerTypes DEF RekeyInv, DataKey
  <2>3. ring[p].send.seq \in Nat /\ coord[p].sequence \in Nat
    BY PeerTypes DEF RekeyInv
  <2> QED  BY <1>2, <1>7, <1>9, <2>1, <2>2, <2>3 DEF RingInv, Negotiates
<1>11. MuxInv(p)'
  BY <1>7, <1>9 DEF MuxInv, HasChannel, Idle, Renegotiation
<1>12. CoordInv(p)'
  <2>1. CASE p \in cut
    <3>1. PICK s \in Negotiating(p) : s.key # k
      BY <1>9, <2>1 DEF CoordInv
    <3>2. s \in Negotiating(p)'
      BY <1>7, <3>1 DEF Negotiating, states, WithoutKey
    <3> QED  BY <1>7, <2>1, <3>1, <3>2 DEF CoordInv
  <2>2. CASE p \notin cut
    BY <1>7, <1>9, <2>2 DEF CoordInv, Idle, Renegotiation
  <2> QED  BY <2>1, <2>2
<1>13. Together'
  BY <1>1, <1>6, <1>7, TogetherStarts
<1> QED  BY <1>5, <1>8, <1>9, <1>10, <1>11, <1>12, <1>13, Assembled DEF Local, Bounded

LEMMA RegisterKeeps ==
    ASSUME RekeyInv, NEW p \in Peers, register_renegotiation_channel(p)
    PROVE  RekeyInv'
<1> DEFINE k == task[p].key
           t == Renegotiation(k, task[p].seq, task[p].local, "handshake")
           m == Mux(mux[p].channels \union {k}, mux[p].primary, mux[p].leaving)
<1>1. /\ task[p].step = "register" /\ k \notin mux[p].channels
      /\ mux' = [mux EXCEPT ![p] = m] /\ task' = [task EXCEPT ![p] = t]
      /\ UNCHANGED <<link, outlived, cut, up, coord, ring, sessions, requests, resets>>
  BY DEF register_renegotiation_channel, At, Duplicate, Goto
<1>2. task[p] # Idle /\ k \in Keys /\ task[p].local \in BOOLEAN /\ task[p].seq \in Nat
  BY <1>1, PeerTypes DEF RekeyInv, Idle, Renegotiation
<1>3. unacked' \in [Peers -> SUBSET Keys] /\ replies' \in [Peers -> SUBSET Keys]
  BY <1>2 DEF register_renegotiation_channel, RekeyInv, RekeyTypeOK, SupervisorsOK
<1>4. t \in Task
  BY <1>2 DEF Renegotiation, Task, Steps
<1>5. m \in [channels: SUBSET (Keys \union {0}), primary: Keys \union {0}, leaving: SUBSET Keys]
  BY <1>2, PeerTypes DEF RekeyInv, Mux
<1>6. t.key = k /\ t.seq = task[p].seq /\ t.step = "handshake"
      /\ m.channels = mux[p].channels \union {k} /\ m.primary = mux[p].primary
      /\ m.leaving = mux[p].leaving
  BY DEF Renegotiation, Mux
<1> HIDE DEF k, t, m
<1>7. SupervisorsOK' /\ ChannelsOK'
  BY <1>1, <1>3, <1>4, <1>5 DEF RekeyInv, RekeyTypeOK, SupervisorsOK, ChannelsOK
<1>8. task'[p] = t /\ mux'[p] = m /\ \A q \in Peers \ {p} : Untouched(q)
  BY <1>1 DEF RekeyInv, RekeyTypeOK, SupervisorsOK, ChannelsOK, Untouched
<1>9. Bounded(p) /\ RingInv(p) /\ MuxInv(p) /\ CoordInv(p)
  BY DEF RekeyInv, RekeyTypeOK
<1>10. RingInv(p)'
  BY <1>1, <1>2, <1>6, <1>8, <1>9 DEF RingInv, Negotiates, k
<1>11. MuxInv(p)'
  <2>1. \A i \in DOMAIN sessions[p] : sessions[p][i] # k
    BY <1>1, <1>9 DEF MuxInv
  <2> QED  BY <1>1, <1>6, <1>8, <1>9, <2>1 DEF MuxInv, HasChannel
<1>12. CoordInv(p)'
  <2>1. Negotiating(p)' = Negotiating(p)
    BY <1>1 DEF Negotiating
  <2> QED  BY <1>1, <1>6, <1>8, <1>9, <2>1 DEF CoordInv, k
<1>13. Together'
  BY <1>1, <1>6, <1>8, TogetherStarts DEF Untouched
<1> QED  BY <1>1, <1>7, <1>8, <1>9, <1>10, <1>11, <1>12, <1>13, Assembled DEF Local, Bounded

\* The TLS handshake changes no book.
LEMMA HandshakeKeeps ==
    ASSUME RekeyInv, NEW p \in Peers, handshake(p)
    PROVE  RekeyInv'
<1> DEFINE t == Renegotiation(task[p].key, task[p].seq, task[p].local, "exchange")
<1>1. /\ task[p].step = "handshake" /\ task' = [task EXCEPT ![p] = t]
      /\ UNCHANGED <<link, outlived, cut, up, coord, ring, mux, sessions, requests, unacked,
                     replies, resets>>
  BY DEF handshake, At, Goto
<1>2. task[p] # Idle /\ task[p].key \in Keys /\ task[p].local \in BOOLEAN /\ task[p].seq \in Nat
  BY <1>1, PeerTypes DEF RekeyInv, Idle, Renegotiation
<1>3. t \in Task /\ t.key = task[p].key /\ t.seq = task[p].seq /\ t.step = "exchange"
  BY <1>2 DEF Renegotiation, Task, Steps
<1> HIDE DEF t
<1>4. SupervisorsOK' /\ ChannelsOK'
  BY <1>1, <1>3 DEF RekeyInv, RekeyTypeOK, SupervisorsOK, ChannelsOK
<1>5. task'[p] = t /\ \A q \in Peers \ {p} : Untouched(q)
  BY <1>1 DEF RekeyInv, RekeyTypeOK, SupervisorsOK, Untouched
<1>6. Bounded(p) /\ RingInv(p) /\ MuxInv(p) /\ CoordInv(p)
  BY DEF RekeyInv, RekeyTypeOK
<1>7. RingInv(p)'
  BY <1>1, <1>2, <1>3, <1>5, <1>6 DEF RingInv, Negotiates
<1>8. MuxInv(p)'
  BY <1>1, <1>3, <1>5, <1>6 DEF MuxInv, HasChannel
<1>9. CoordInv(p)'
  <2>1. Negotiating(p)' = Negotiating(p)
    BY <1>1 DEF Negotiating
  <2> QED  BY <1>1, <1>3, <1>5, <1>6, <2>1 DEF CoordInv
<1>10. Together'
  BY <1>1, <1>3, <1>5, TogetherStarts DEF Untouched
<1> QED  BY <1>1, <1>4, <1>5, <1>6, <1>7, <1>8, <1>9, <1>10, Assembled DEF Local, Bounded

\* The session of a peer that fails is over: only the books of its own stay.
LEMMA OverKeeps ==
    ASSUME RekeyInv, NEW p \in Peers, Over(p), task[p] # Idle,
           task[p].step \in {"register", "handshake", "exchange"},
           UNCHANGED <<link, outlived, cut, ring, mux, sessions, requests, unacked, replies,
                       resets>>
    PROVE  RekeyInv'
<1> DEFINE states == WithoutKey(coord[p].states, task[p].key)
           c == Coordinator(states, coord[p].active, coord[p].sequence, coord[p].promoted)
<1>1. /\ up' = [up EXCEPT ![p] = FALSE] /\ task' = [task EXCEPT ![p] = Idle]
      /\ coord' = [coord EXCEPT ![p] = c]
  BY DEF Over
<1>2. states \in SUBSET ResetState
  BY PeerTypes DEF RekeyInv, WithoutKey
<1>3. c \in [states: SUBSET ResetState, active: Keys \union {0}, sequence: Nat, promoted: Nat]
  BY <1>2, PeerTypes DEF RekeyInv, Coordinator
<1>4. c.states = states /\ c.active = coord[p].active /\ c.sequence = coord[p].sequence
      /\ c.promoted = coord[p].promoted
  BY DEF Coordinator
<1>5. Idle \in Task
  BY DEF Task
<1> HIDE DEF c, states
<1>6. SupervisorsOK' /\ ChannelsOK'
  BY <1>1, <1>3, <1>5 DEF RekeyInv, RekeyTypeOK, SupervisorsOK, ChannelsOK
<1>7. task'[p] = Idle /\ coord'[p] = c /\ up'[p] = FALSE /\ \A q \in Peers \ {p} : Untouched(q)
  BY <1>1 DEF RekeyInv, RekeyTypeOK, SupervisorsOK, Untouched
<1>8. Bounded(p) /\ RingInv(p) /\ MuxInv(p) /\ CoordInv(p)
  BY DEF RekeyInv, RekeyTypeOK
<1>9. Idle.step = "idle" /\ Idle.key = 0
  BY DEF Idle, Renegotiation
<1>10. RingInv(p)'
  BY <1>4, <1>7, <1>8, <1>9 DEF RingInv, Negotiates
<1>11. MuxInv(p)'
  BY <1>7, <1>8, <1>9 DEF MuxInv, HasChannel
<1>12. CoordInv(p)'
  <2>1. CASE p \in cut
    <3>1. PICK s \in Negotiating(p) : s.key # task[p].key
      BY <1>8, <2>1 DEF CoordInv
    <3>2. s \in Negotiating(p)'
      BY <1>4, <1>7, <3>1 DEF Negotiating, states, WithoutKey
    <3>3. s.key # 0
      BY <3>1, PeerTypes DEF RekeyInv, Negotiating, ResetState, Keys
    <3> QED  BY <1>7, <1>9, <2>1, <3>2, <3>3 DEF CoordInv
  <2>2. CASE p \notin cut
    BY <1>4, <1>7, <1>8, <1>9, <2>2 DEF CoordInv
  <2> QED  BY <2>1, <2>2
<1>13. Together'
  BY <1>7 DEF Together
<1> QED  BY <1>6, <1>7, <1>8, <1>10, <1>11, <1>12, <1>13, Assembled DEF Local, Bounded

\* The last session of a peer is the one it sends with, and the key it negotiates
\* is none of its sessions'.
LEMMA NewKey ==
    ASSUME RekeyInv, NEW p \in Peers, HasChannel(p)
    PROVE  /\ task[p].key # 0 /\ task[p].key # ring[p].send.key
           /\ \A i \in DOMAIN sessions[p] : sessions[p][i] # task[p].key
<1>1. task[p].key \in Keys /\ task[p].key # 0
  BY PeerTypes DEF RekeyInv, HasChannel, Idle, Renegotiation, Keys
<1>2. MuxInv(p)
  BY DEF RekeyInv
<1>3. CASE sessions[p] = <<>>
  BY <1>1, <1>2, <1>3 DEF MuxInv, LastSession
<1>4. CASE sessions[p] # <<>>
  <2>1. Len(sessions[p]) \in DOMAIN sessions[p]
    BY <1>4, PeerTypes DEF RekeyInv
  <2> QED  BY <1>1, <1>2, <1>4, <2>1 DEF MuxInv, LastSession
<1> QED  BY <1>1, <1>2, <1>3, <1>4 DEF MuxInv

\* A peer that is ahead has nothing to negotiate: what its peer takes part in is
\* the key it sends with, or the one before.
LEMMA AheadIsDone ==
    ASSUME RekeyInv, NEW p \in Peers, HasChannel(p),
           TakesPart(Other(p), task[p].key, PastHandshake)
    PROVE  ~Ahead(p)
<1> DEFINE q == Other(p)
<1>1. SUFFICES ASSUME Ahead(p) PROVE FALSE
  OBVIOUS
<1>2. /\ task[q].key = ring[p].send.key
      /\ \/ Len(sessions[p]) = 1 /\ ring[q].send.key = 0
         \/ Len(sessions[p]) > 1 /\ sessions[p][Len(sessions[p]) - 1] = ring[q].send.key
  BY <1>1 DEF Ahead
<1>3. task[q].key = task[p].key \/ ring[q].send.key = task[p].key
  BY DEF TakesPart, PastHandshake
<1>4. Len(sessions[p]) > 1 => Len(sessions[p]) - 1 \in DOMAIN sessions[p]
  BY PeerTypes DEF RekeyInv
<1> QED  BY <1>2, <1>3, <1>4, NewKey

\* What the ring holds once the key-method messages are exchanged.
LEMMA StageKeeps ==
    ASSUME RekeyInv, NEW p \in Peers, task[p].step = "exchange"
    PROVE  LET e == KeyOfTask(p)
               S == stage(p, e)
           IN /\ e \in S /\ e \in DataKey /\ S \in SUBSET DataKey
              /\ IsFiniteSet(S) /\ Cardinality(S) <= Scan
              /\ \A f \in S : f \in ring[p].receive \/ f = e
              /\ \A f, g \in S : f.seq = g.seq => f = g
              /\ p \notin cut => ring[p].send \in S
<1> DEFINE e == KeyOfTask(p)
           R == ring[p].receive
           X == {f \in R : f.key # e.key} \union {e}
<1>1. task[p] # Idle /\ task[p].key \in Keys /\ task[p].seq \in Nat
  BY PeerTypes DEF RekeyInv, Idle, Renegotiation
<1>2. e.key = task[p].key /\ e.seq = task[p].seq /\ e \in DataKey
  BY <1>1 DEF KeyOfTask, KeyOf, DataKey
<1>3. R \in SUBSET DataKey /\ X \in SUBSET DataKey
  BY <1>2, PeerTypes DEF RekeyInv
<1>4. RingInv(p) /\ MuxInv(p) /\ CoordInv(p)
  BY DEF RekeyInv
<1>5. IsFiniteSet(X)
  <2>1. IsFiniteSet({f \in R : f.key # e.key})
    BY <1>4, FS_Subset DEF RingInv
  <2> QED  BY <2>1, FS_AddElement
<1>6. \A f \in R : f.seq < e.seq /\ f.seq \in Nat
  BY <1>2, <1>3, <1>4 DEF RingInv, DataKey
<1>7. \A f, g \in X : f.seq = g.seq => f = g
  <2>1. ASSUME NEW f \in X, NEW g \in X, f.seq = g.seq, f # g PROVE FALSE
    <3>1. CASE f \in R /\ g \in R
      BY <1>4, <2>1, <3>1 DEF RingInv
    <3>2. CASE f = e \/ g = e
      BY <1>1, <1>2, <1>6, <2>1, <3>2
    <3> QED  BY <3>1, <3>2
  <2> QED  BY <2>1
<1>8. stage(p, e) = sort_and_limit(X)
  BY DEF stage
<1>9. sort_and_limit(X) \subseteq X /\ IsFiniteSet(sort_and_limit(X))
      /\ Cardinality(sort_and_limit(X)) <= Scan
  <2> HIDE DEF X
  <2> QED  BY <1>3, <1>5, <1>7, LimitKeeps
<1>10. e \in sort_and_limit(X)
  <2>1. \A f \in X : f.seq > e.seq => f = e
    BY <1>1, <1>2, <1>6
  <2>2. e \in X
    OBVIOUS
  <2> HIDE DEF X, e
  <2> QED  BY <1>3, <2>1, <2>2, LimitHolds
<1>11. ASSUME p \notin cut PROVE ring[p].send \in sort_and_limit(X)
  <2>1. ring[p].send \in R /\ \A f \in R : f.seq <= ring[p].send.seq
    BY <1>4, <1>11 DEF CoordInv
  <2>2. ring[p].send.key # e.key
    <3>1. CASE sessions[p] = <<>>
      BY <1>1, <1>2, <1>4, <3>1 DEF MuxInv, LastSession, Keys
    <3>2. CASE sessions[p] # <<>>
      <4>1. Len(sessions[p]) \in DOMAIN sessions[p]
        BY <3>2, PeerTypes DEF RekeyInv
      <4> QED  BY <1>2, <1>4, <3>2, <4>1 DEF MuxInv, LastSession, HasChannel
    <3> QED  BY <3>1, <3>2
  <2>3. ring[p].send \in X
    BY <2>1, <2>2
  <2>4. \A f \in X : f.seq > ring[p].send.seq => f = e
    BY <1>6, <2>1
  <2> HIDE DEF X, e
  <2> QED  BY <1>3, <2>3, <2>4, LimitHolds
<1>12. \A f \in X : f \in R \/ f = e
  OBVIOUS
<1> HIDE DEF X, e
<1> SUFFICES /\ e \in stage(p, e) /\ e \in DataKey /\ stage(p, e) \in SUBSET DataKey
             /\ IsFiniteSet(stage(p, e)) /\ Cardinality(stage(p, e)) <= Scan
             /\ \A f \in stage(p, e) : f \in ring[p].receive \/ f = e
             /\ \A f, g \in stage(p, e) : f.seq = g.seq => f = g
             /\ p \notin cut => ring[p].send \in stage(p, e)
  BY DEF e
<1> QED  BY <1>2, <1>3, <1>7, <1>8, <1>9, <1>10, <1>11, <1>12

LEMMA NegotiateKeeps ==
    ASSUME RekeyInv, NEW p \in Peers, negotiate(p)
    PROVE  RekeyInv'
<1> DEFINE e == KeyOfTask(p)
           S == stage(p, e)
           q == Other(p)
           t == Renegotiation(task[p].key, task[p].seq, task[p].local, "install")
<1>1. /\ task[p].step = "exchange" /\ Answers(q, e.key, PastHandshake)
      /\ ring' = [ring EXCEPT ![p] = KeyRing(S, ring[p].send)]
      /\ task' = [task EXCEPT ![p] = t]
      /\ UNCHANGED <<link, outlived, cut, up, coord, mux, sessions, requests, unacked, replies,
                     resets>>
  BY DEF negotiate, At, Goto
<1>2. /\ e \in S /\ S \in SUBSET DataKey /\ IsFiniteSet(S) /\ Cardinality(S) <= Scan
      /\ \A f \in S : f \in ring[p].receive \/ f = e
      /\ \A f, g \in S : f.seq = g.seq => f = g
      /\ p \notin cut => ring[p].send \in S
  BY <1>1, StageKeeps
<1>3. task[p] # Idle /\ task[p].key \in Keys /\ task[p].seq \in Nat /\ task[p].local \in BOOLEAN
  BY <1>1, PeerTypes DEF RekeyInv, Idle, Renegotiation
<1>4. e.key = task[p].key /\ e.seq = task[p].seq
  BY DEF KeyOfTask, KeyOf
<1>5. t \in Task /\ t.key = task[p].key /\ t.seq = task[p].seq /\ t.step = "install"
  BY <1>3 DEF Renegotiation, Task, Steps
<1>6. KeyRing(S, ring[p].send) \in [receive: SUBSET DataKey, send: DataKey]
  BY <1>2, PeerTypes DEF RekeyInv, KeyRing
<1>7. KeyRing(S, ring[p].send).receive = S /\ KeyRing(S, ring[p].send).send = ring[p].send
  BY DEF KeyRing
<1> HIDE DEF t, S
<1>8. SupervisorsOK' /\ ChannelsOK'
  BY <1>1, <1>5, <1>6 DEF RekeyInv, RekeyTypeOK, SupervisorsOK, ChannelsOK
<1>9. /\ task'[p] = t /\ ring'[p].receive = S /\ ring'[p].send = ring[p].send
      /\ \A r \in Peers \ {p} : Untouched(r)
  BY <1>1, <1>7 DEF RekeyInv, RekeyTypeOK, SupervisorsOK, ChannelsOK, Untouched
<1>10. Bounded(p) /\ RingInv(p) /\ MuxInv(p) /\ CoordInv(p)
  BY DEF RekeyInv, RekeyTypeOK
<1>11. KeyOfTask(p)' = e
  BY <1>5, <1>9 DEF KeyOfTask
<1> HIDE DEF e
<1>12. RingInv(p)'
  <2>1. \A f \in S : f.seq <= coord[p].sequence
    BY <1>2, <1>3, <1>4, <1>10 DEF RingInv
  <2>2. ring[p].send.seq < task[p].seq
    BY <1>1, <1>10 DEF RingInv, Negotiates
  <2> QED  BY <1>1, <1>2, <1>3, <1>5, <1>9, <1>10, <1>11, <2>1, <2>2 DEF RingInv
<1>13. MuxInv(p)'
  BY <1>1, <1>5, <1>9, <1>10 DEF MuxInv, HasChannel
<1>14. CoordInv(p)'
  <2>1. Negotiating(p)' = Negotiating(p)
    BY <1>1 DEF Negotiating
  <2>2. CASE p \in cut
    BY <1>1, <1>5, <1>9, <1>10, <2>1, <2>2 DEF CoordInv
  <2>3. CASE p \notin cut
    BY <1>1, <1>2, <1>5, <1>9, <1>10, <1>11, <2>3 DEF CoordInv
  <2> QED  BY <2>2, <2>3
<1>15. Bounded(p)'
  BY <1>1, <1>2, <1>9, <1>10 DEF Bounded
<1>16. Together'
  <2>1. q \in Peers /\ q # p /\ Other(q) = p /\ task'[q] = task[q] /\ ring'[q] = ring[q]
    BY <1>9, TwoPeers DEF Untouched
  <2>2. Other(p) = q
    OBVIOUS
  <2> HIDE DEF q
  <2>3. SUFFICES ASSUME \A r \in Peers : up'[r], cut' = {}, outlived' = {}
                 PROVE  Joint(p)' /\ Backed(p)' /\ Backed(q)'
    BY <2>2, JointlyTrue
  <2>4. Joint(p) /\ Backed(p) /\ Backed(q)
    BY <1>1, <2>1, <2>3 DEF RekeyInv, Together
  <2>5. TakesPart(q, task[p].key, PastHandshake)
    BY <1>1, <1>4, <2>1, <2>3 DEF Answers
  <2>6. Backed(p)'
    BY <1>1, <1>5, <1>9, <2>1, <2>2, <2>5 DEF Backed, TakesPart, PastHandshake
  <2>7. Backed(q)'
    BY <1>1, <1>5, <1>9, <2>1, <2>4 DEF Backed, TakesPart, PastHandshake
  <2>8. ~Ahead(p)
    BY <1>1, <2>2, <2>5, AheadIsDone DEF HasChannel
  <2>9. Joint(p)'
    BY <1>1, <1>5, <1>9, <2>1, <2>2, <2>4, <2>8 DEF Joint, Ahead
  <2> QED  BY <2>6, <2>7, <2>9
<1> QED  BY <1>8, <1>9, <1>12, <1>13, <1>14, <1>15, <1>16, Assembled DEF Local

LEMMA InstallKeeps ==
    ASSUME RekeyInv, NEW p \in Peers, install_renegotiation(p)
    PROVE  RekeyInv'
<1> DEFINE e == KeyOfTask(p)
           q == Other(p)
           t == Renegotiation(task[p].key, task[p].seq, task[p].local, "retire")
           m == Mux(mux[p].channels, e.key, mux[p].leaving)
           s == Append(sessions[p], e.key)
<1>1. /\ task[p].step = "install" /\ e.key \in mux[p].channels
      /\ e \in ring[p].receive /\ e.seq > ring[p].send.seq
      /\ mux' = [mux EXCEPT ![p] = m]
      /\ ring' = [ring EXCEPT ![p] = KeyRing(ring[p].receive, e)]
      /\ sessions' = [sessions EXCEPT ![p] = s]
      /\ task' = [task EXCEPT ![p] = t]
      /\ UNCHANGED <<link, outlived, cut, up, coord, requests, unacked, replies, resets>>
  BY DEF install_renegotiation, At, Goto
<1>2. task[p] # Idle /\ task[p].key \in Keys /\ task[p].seq \in Nat /\ task[p].local \in BOOLEAN
  BY <1>1, PeerTypes DEF RekeyInv, Idle, Renegotiation
<1>3. e.key = task[p].key /\ e.seq = task[p].seq /\ e \in DataKey
  BY <1>2 DEF KeyOfTask, KeyOf, DataKey
<1>4. t \in Task /\ t.key = task[p].key /\ t.seq = task[p].seq /\ t.step = "retire"
  BY <1>2 DEF Renegotiation, Task, Steps
<1>5. /\ m \in [channels: SUBSET (Keys \union {0}), primary: Keys \union {0}, leaving: SUBSET Keys]
      /\ m.channels = mux[p].channels /\ m.primary = e.key /\ m.leaving = mux[p].leaving
  BY <1>2, <1>3, PeerTypes DEF RekeyInv, Mux
<1>6. /\ KeyRing(ring[p].receive, e) \in [receive: SUBSET DataKey, send: DataKey]
      /\ KeyRing(ring[p].receive, e).receive = ring[p].receive
      /\ KeyRing(ring[p].receive, e).send = e
  BY <1>3, PeerTypes DEF RekeyInv, KeyRing
<1>7. /\ s \in Seq(Keys) /\ Len(s) = Len(sessions[p]) + 1 /\ DOMAIN s = 1 .. Len(sessions[p]) + 1
      /\ DOMAIN sessions[p] = 1 .. Len(sessions[p])
      /\ \A i \in DOMAIN sessions[p] : s[i] = sessions[p][i]
      /\ s[Len(sessions[p]) + 1] = e.key
  BY <1>2, <1>3, PeerTypes DEF RekeyInv
<1>8. KeyRing(ring[p].receive, e).send.key = e.key
  BY <1>6
<1> HIDE DEF t, m, s
<1>9. SupervisorsOK' /\ ChannelsOK'
  BY <1>1, <1>4, <1>5, <1>6, <1>7 DEF RekeyInv, RekeyTypeOK, SupervisorsOK, ChannelsOK
<1>10. /\ task'[p] = t /\ ring'[p].receive = ring[p].receive /\ ring'[p].send = e
       /\ mux'[p] = m /\ sessions'[p] = s
       /\ \A r \in Peers \ {p} : Untouched(r)
  BY <1>1, <1>6 DEF RekeyInv, RekeyTypeOK, SupervisorsOK, ChannelsOK, Untouched
<1>11. Bounded(p) /\ RingInv(p) /\ MuxInv(p) /\ CoordInv(p)
  BY DEF RekeyInv, RekeyTypeOK
<1>12. KeyOfTask(p)' = e
  BY <1>4, <1>10 DEF KeyOfTask
<1> HIDE DEF e
<1>13. RingInv(p)'
  BY <1>1, <1>2, <1>3, <1>4, <1>10, <1>11 DEF RingInv, Negotiates
<1>14. Len(sessions[p]) \in Nat /\ Len(sessions[p]) <= Scan /\ Scan \in Nat
       /\ Len(s) \in Nat /\ s # <<>>
  BY <1>1, <1>7, <1>11, PeerTypes, ScanAssumption DEF MuxInv, RekeyInv
<1>15. MuxInv(p)'
  <2>1. task[p].key \in mux[p].channels \ mux[p].leaving
        /\ \A i \in DOMAIN sessions[p] : sessions[p][i] # task[p].key
    BY <1>1, <1>11 DEF MuxInv, HasChannel
  <2>2. \A i \in DOMAIN s : s[i] \in m.channels \ m.leaving
    <3>1. \A i \in DOMAIN s : i \in DOMAIN sessions[p] \/ i = Len(sessions[p]) + 1
      BY <1>7, <1>14
    <3> QED  BY <1>3, <1>5, <1>7, <1>11, <2>1, <3>1 DEF MuxInv
  <2>3. \A i, j \in DOMAIN s : s[i] = s[j] => i = j
    <3>1. \A i \in DOMAIN s : i \in DOMAIN sessions[p] \/ i = Len(sessions[p]) + 1
      BY <1>7, <1>14
    <3>2. \A i, j \in DOMAIN sessions[p] : sessions[p][i] = sessions[p][j] => i = j
      BY <1>11 DEF MuxInv
    <3> QED  BY <1>3, <1>7, <2>1, <3>1, <3>2
  <2>4. LastSession(s) = e.key
    BY <1>7, <1>14 DEF LastSession
  <2> QED  BY <1>1, <1>4, <1>5, <1>10, <1>11, <2>2, <2>3, <2>4 DEF MuxInv, HasChannel
<1>16. CoordInv(p)'
  <2>1. Negotiating(p)' = Negotiating(p)
    BY <1>1 DEF Negotiating
  <2>2. CASE p \in cut
    BY <1>1, <1>4, <1>10, <1>11, <2>1, <2>2 DEF CoordInv
  <2>3. CASE p \notin cut
    <3>1. \A f \in ring[p].receive : f.seq <= e.seq
      <4>1. \A f \in ring[p].receive : f.seq \in Nat
        BY PeerTypes DEF RekeyInv, DataKey
      <4>2. \A f \in ring[p].receive : f.seq <= ring[p].send.seq \/ f = e
        BY <1>11, <2>3 DEF CoordInv, e
      <4>3. ring[p].send.seq \in Nat /\ e.seq \in Nat
        BY <1>2, <1>3, PeerTypes DEF RekeyInv
      <4> QED  BY <1>1, <4>1, <4>2, <4>3
    <3>2. coord[p].promoted < task[p].seq
      BY <1>1, <1>3, <1>11, <2>3 DEF CoordInv
    <3> QED  BY <1>1, <1>4, <1>10, <1>12, <2>3, <3>1, <3>2 DEF CoordInv
  <2> QED  BY <2>2, <2>3
<1>17. Bounded(p)'
  BY <1>7, <1>10, <1>11, <1>14 DEF Bounded
<1>18. Together'
  <2>1. q \in Peers /\ q # p /\ Other(q) = p /\ task'[q] = task[q] /\ ring'[q] = ring[q]
        /\ sessions'[q] = sessions[q]
    BY <1>10, TwoPeers DEF Untouched
  <2>2. Other(p) = q
    OBVIOUS
  <2> HIDE DEF q
  <2>3. SUFFICES ASSUME \A r \in Peers : up'[r], cut' = {}, outlived' = {}
                 PROVE  Joint(p)' /\ Backed(p)' /\ Backed(q)'
    BY <2>2, JointlyTrue
  <2>4. Joint(p) /\ Backed(p) /\ Backed(q)
    BY <1>1, <2>1, <2>3 DEF RekeyInv, Together
  <2>5. TakesPart(q, task[p].key, PastHandshake) /\ HasChannel(p)
    BY <1>1, <2>2, <2>4 DEF Backed, HasChannel
  <2>6. ~Ahead(p)
    BY <2>2, <2>5, AheadIsDone
  <2>7. task[p].key # 0 /\ task[p].key # ring[p].send.key
    BY <2>5, NewKey
  <2>8. Backed(p)'
    BY <1>4, <1>10 DEF Backed
  <2>9. Backed(q)'
    <3>1. SUFFICES ASSUME task[q].step = "install"
                   PROVE  TakesPart(p, task[q].key, PastHandshake)'
      BY <2>1 DEF Backed
    <3>2. CASE task[p].key = task[q].key
      BY <1>1, <1>4, <1>10, <2>1, <2>3, <3>2 DEF TakesPart, PastHandshake
    <3>3. CASE ring[p].send.key = task[q].key
      <4>1. ring[q].send.key = ring[p].send.key \/ Ahead(q)
        BY <2>2, <2>4, <2>6 DEF Joint
      <4>2. HasChannel(q) /\ TakesPart(p, task[q].key, PastHandshake)
        BY <2>1, <2>4, <3>1 DEF HasChannel, Backed
      <4>3. ~Ahead(q)
        BY <2>1, <4>2, AheadIsDone
      <4> QED  BY <2>1, <3>3, <4>1, <4>2, <4>3, NewKey
    <3> QED  BY <2>1, <2>4, <3>1, <3>2, <3>3 DEF Backed, TakesPart, PastHandshake
  <2>10. Joint(p)'
    <3>1. CASE Ahead(q)
      <4>1. task[p].key = ring[q].send.key
        BY <2>1, <3>1 DEF Ahead
      <4> QED  BY <1>3, <1>10, <2>1, <2>2, <4>1 DEF Joint
    <3>2. CASE ring[p].send.key = ring[q].send.key
      <4>1. task[q].key = task[p].key /\ task[q].step \in PastHandshake
        BY <2>5, <2>7, <3>2 DEF TakesPart
      <4>2. p \notin cut /\ q \notin cut
        BY <1>1, <2>3
      <4>3. task[q].step # "retire"
        <5>1. SUFFICES ASSUME task[q].step = "retire" PROVE FALSE
          OBVIOUS
        <5>2. CoordInv(q)
          BY <2>1 DEF RekeyInv
        <5>3. ring[q].send = KeyOfTask(q)
          BY <4>2, <5>1, <5>2 DEF CoordInv
        <5>4. KeyOfTask(q).key = task[q].key
          BY DEF KeyOfTask, KeyOf
        <5> QED  BY <2>7, <3>2, <4>1, <5>3, <5>4
      <4>4. task[q].step \in {"exchange", "install"}
        BY <4>1, <4>3 DEF PastHandshake
      <4>5. ring[p].send \in ring[p].receive
        BY <1>11, <4>2 DEF CoordInv
      <4>6. \/ Len(s) = 1 /\ ring[q].send.key = 0
            \/ Len(s) > 1 /\ s[Len(s) - 1] = ring[q].send.key
        <5>1. ring[p].send.key = LastSession(sessions[p])
          BY <1>11 DEF MuxInv
        <5>2. CASE sessions[p] = <<>>
          BY <1>7, <3>2, <5>1, <5>2 DEF LastSession
        <5>3. CASE sessions[p] # <<>>
          <6>1. Len(sessions[p]) \in DOMAIN sessions[p] /\ Len(sessions[p]) > 0
            BY <5>3, PeerTypes DEF RekeyInv
          <6>2. Len(s) - 1 = Len(sessions[p]) /\ Len(s) > 1
            BY <1>7, <1>14, <6>1
          <6> QED  BY <1>7, <3>2, <5>1, <5>3, <6>1, <6>2 DEF LastSession
        <5> QED  BY <5>2, <5>3
      <4>7. Ahead(p)'
        <5>1. task'[q].step \in {"exchange", "install"}
          BY <2>1, <4>4
        <5>2. task'[q].key = ring'[p].send.key
          BY <1>3, <1>10, <2>1, <4>1
        <5>3. \E f \in ring'[p].receive : f.key = ring'[q].send.key
          BY <1>10, <2>1, <3>2, <4>5
        <5> QED  BY <1>10, <2>1, <2>2, <4>6, <5>1, <5>2, <5>3 DEF Ahead
      <4> QED  BY <4>7 DEF Joint
    <3> QED  BY <2>2, <2>4, <2>6, <3>1, <3>2 DEF Joint
  <2> QED  BY <2>8, <2>9, <2>10
<1> QED  BY <1>9, <1>10, <1>13, <1>15, <1>16, <1>17, <1>18, Assembled DEF Local

\* Finishing keeps what a dropped renegotiation left on the books.
LEMMA PromotedKeeps ==
    ASSUME RekeyInv, NEW p \in Peers, task[p].step = "retire",
           NEW expired \in SUBSET {s \in coord[p].states : s.status = "lameduck"}
    PROVE  LET c == Promoted(p, expired)
           IN /\ c \in [states: SUBSET ResetState, active: Keys \union {0},
                        sequence: Nat, promoted: Nat]
              /\ c.sequence = coord[p].sequence
              /\ task[p].seq > coord[p].promoted =>
                     c.active = task[p].key /\ c.promoted = task[p].seq
              /\ \A s \in Negotiating(p) : s.key # task[p].key => s \in c.states
<1> DEFINE t == task[p]
           wins == t.seq > coord[p].promoted
           mine == Reset(t.key, t.seq, IF wins THEN "active" ELSE "lameduck")
           Old(s) == IF wins /\ s.status = "active" THEN Reset(s.key, s.seq, "lameduck") ELSE s
           aged == {Old(s) : s \in WithoutKey(coord[p].states, t.key)}
           all == (aged \ expired) \union {mine}
           c == Promoted(p, expired)
<1>1. c = Coordinator(NewestStates(all), IF wins THEN t.key ELSE coord[p].active,
                      coord[p].sequence, IF wins THEN t.seq ELSE coord[p].promoted)
  BY DEF Promoted
<1>2. /\ t.key \in Keys /\ t.seq \in Nat /\ coord[p].states \in SUBSET ResetState
      /\ coord[p].active \in Keys \union {0} /\ coord[p].sequence \in Nat
      /\ coord[p].promoted \in Nat
  BY PeerTypes DEF RekeyInv, Idle, Renegotiation
<1>3. mine \in ResetState
  BY <1>2 DEF Reset, ResetState
<1>4. ASSUME NEW s \in WithoutKey(coord[p].states, t.key) PROVE Old(s) \in ResetState
  <2>1. s \in ResetState
    BY <1>2 DEF WithoutKey
  <2>2. Reset(s.key, s.seq, "lameduck") \in ResetState
    BY <2>1 DEF Reset, ResetState
  <2> QED  BY <2>1, <2>2
<1>5. all \in SUBSET ResetState
  BY <1>3, <1>4
<1>6. ASSUME NEW s \in Negotiating(p), s.key # t.key PROVE s \in NewestStates(all)
  <2>1. s \in WithoutKey(coord[p].states, t.key) /\ s.status = "negotiating"
    BY <1>6 DEF Negotiating, WithoutKey
  <2>2. Old(s) = s
    BY <2>1
  <2>3. s \in aged /\ s \notin expired
    BY <2>1, <2>2
  <2> HIDE DEF aged, mine
  <2> QED  BY <2>1, <2>3 DEF NewestStates
<1>7. NewestStates(all) \in SUBSET ResetState
  <2> HIDE DEF all
  <2> QED  BY <1>5 DEF NewestStates
<1> HIDE DEF all
<1>8. /\ c \in [states: SUBSET ResetState, active: Keys \union {0},
                sequence: Nat, promoted: Nat]
      /\ c.states = NewestStates(all) /\ c.sequence = coord[p].sequence
      /\ wins => c.active = t.key /\ c.promoted = t.seq
  BY <1>1, <1>2, <1>7 DEF Coordinator
<1> QED  BY <1>6, <1>8

\* A supervisor that keeps too many sessions loses the oldest, not the last two.
LEMMA KeptKeeps ==
    ASSUME RekeyInv, NEW p \in Peers, task[p].step = "retire"
    PROVE  LET s == sessions[p]
               k == KeptSessions(p)
           IN /\ k \in Seq(Keys) /\ Len(k) <= Scan
              /\ \A i \in DOMAIN k : \E j \in DOMAIN s : k[i] = s[j] /\ s[j] \notin Retired(p)
              /\ \A i, j \in DOMAIN k : k[i] = k[j] => i = j
              /\ LastSession(k) = LastSession(s)
              /\ Len(s) = 1 => Len(k) = 1
              /\ Len(s) > 1 => Len(k) > 1 /\ k[Len(k) - 1] = s[Len(s) - 1]
              /\ \A x \in Retired(p) : \E j \in DOMAIN s : x = s[j]
<1> DEFINE s == sessions[p]
           k == KeptSessions(p)
<1>1. s \in Seq(Keys) /\ Len(s) \in Nat /\ DOMAIN s = 1 .. Len(s) /\ Len(s) <= Scan + 1
      /\ Scan \in Nat /\ 1 < Scan
  BY PeerTypes, ScanAssumption DEF RekeyInv, RekeyTypeOK, Bounded
<1>2. \A i, j \in DOMAIN s : s[i] = s[j] => i = j
  BY DEF RekeyInv, MuxInv
<1>3. CASE ~Crowded(p)
  <2>1. k = s /\ Retired(p) = {} /\ Len(s) <= Scan
    BY <1>1, <1>3 DEF KeptSessions, Retired, Crowded
  <2> QED  BY <1>1, <1>2, <2>1
<1>4. CASE Crowded(p)
  <2>1. Len(s) = Scan + 1 /\ s # <<>>
    BY <1>1, <1>4 DEF Crowded
  <2>2. k = Tail(s) /\ Retired(p) = {Head(s)}
    BY <1>4 DEF KeptSessions, Retired
  <2>3. k \in Seq(Keys) /\ Len(k) = Scan /\ \A i \in 1 .. Scan : k[i] = s[i + 1]
    BY <1>1, <2>1, <2>2
  <2>4. DOMAIN k = 1 .. Scan /\ Head(s) = s[1]
    BY <1>1, <2>1, <2>3
  <2>5. \A i \in DOMAIN k : i + 1 \in DOMAIN s /\ k[i] = s[i + 1] /\ s[i + 1] # s[1]
    <3>1. ASSUME NEW i \in DOMAIN k
          PROVE  i + 1 \in DOMAIN s /\ k[i] = s[i + 1] /\ s[i + 1] # s[1]
      <4>1. i + 1 \in DOMAIN s /\ 1 \in DOMAIN s /\ i + 1 # 1 /\ i \in 1 .. Scan
        BY <1>1, <2>1, <2>4
      <4> QED  BY <1>2, <2>3, <4>1
    <3> QED  BY <3>1
  <2>6. \A i, j \in DOMAIN k : k[i] = k[j] => i = j
    <3>1. ASSUME NEW i \in DOMAIN k, NEW j \in DOMAIN k, k[i] = k[j] PROVE i = j
      <4>1. i + 1 = j + 1
        BY <1>2, <2>5, <3>1
      <4> QED  BY <1>1, <2>4, <4>1
    <3> QED  BY <3>1
  <2>7. LastSession(k) = LastSession(s)
    <3>1. k # <<>> /\ Len(k) \in DOMAIN k
      BY <1>1, <2>3, <2>4
    <3>2. k[Len(k)] = s[Len(s)]
      BY <2>1, <2>3, <2>5, <3>1
    <3> QED  BY <2>1, <3>1, <3>2 DEF LastSession
  <2>8. Len(k) > 1 /\ k[Len(k) - 1] = s[Len(s) - 1]
    <3>1. Len(k) - 1 \in DOMAIN k /\ Len(k) - 1 + 1 = Len(s) - 1
      BY <1>1, <2>1, <2>3, <2>4
    <3> QED  BY <1>1, <2>3, <2>5, <3>1
  <2>9. \A x \in Retired(p) : \E j \in DOMAIN s : x = s[j]
    BY <1>1, <2>1, <2>2, <2>4
  <2>10. \A i \in DOMAIN k : \E j \in DOMAIN s : k[i] = s[j] /\ s[j] \notin Retired(p)
    BY <2>2, <2>4, <2>5
  <2>11. Len(k) <= Scan /\ (Len(s) = 1 => Len(k) = 1)
    BY <1>1, <2>1, <2>3
  <2> HIDE DEF k, s
  <2> QED  BY <2>3, <2>6, <2>7, <2>8, <2>9, <2>10, <2>11 DEF k, s
<1> QED  BY <1>3, <1>4

LEMMA FinishKeeps ==
    ASSUME RekeyInv, NEW p \in Peers, finish_success(p)
    PROVE  RekeyInv'
<1> DEFINE q == Other(p)
           k == KeptSessions(p)
           channels == Closed(p, Retired(p))
           m == Mux(channels, mux[p].primary, mux[p].leaving)
<1>1. /\ task[p].step = "retire"
      /\ mux' = [mux EXCEPT ![p] = m]
      /\ unacked' = [unacked EXCEPT ![p] = @ \ Retired(p)]
      /\ sessions' = [sessions EXCEPT ![p] = k]
      /\ task' = [task EXCEPT ![p] = Idle]
      /\ UNCHANGED <<link, outlived, cut, up, ring, requests, replies, resets>>
  BY DEF finish_success, At
<1>2. PICK expired \in SUBSET {s \in coord[p].states : s.status = "lameduck"} :
         coord' = [coord EXCEPT ![p] = Promoted(p, expired)]
  BY DEF finish_success
<1> DEFINE c == Promoted(p, expired)
<1>3. /\ c \in [states: SUBSET ResetState, active: Keys \union {0}, sequence: Nat, promoted: Nat]
      /\ c.sequence = coord[p].sequence
      /\ task[p].seq > coord[p].promoted => c.active = task[p].key /\ c.promoted = task[p].seq
      /\ \A s \in Negotiating(p) : s.key # task[p].key => s \in c.states
  BY <1>1, PromotedKeeps
<1>4. /\ k \in Seq(Keys) /\ Len(k) <= Scan
      /\ \A i \in DOMAIN k : \E j \in DOMAIN sessions[p] :
             k[i] = sessions[p][j] /\ sessions[p][j] \notin Retired(p)
      /\ \A i, j \in DOMAIN k : k[i] = k[j] => i = j
      /\ LastSession(k) = LastSession(sessions[p])
      /\ Len(sessions[p]) = 1 => Len(k) = 1
      /\ Len(sessions[p]) > 1 =>
             Len(k) > 1 /\ k[Len(k) - 1] = sessions[p][Len(sessions[p]) - 1]
      /\ \A x \in Retired(p) : \E j \in DOMAIN sessions[p] : x = sessions[p][j]
  BY <1>1, KeptKeeps
<1>5. /\ m \in [channels: SUBSET (Keys \union {0}), primary: Keys \union {0}, leaving: SUBSET Keys]
      /\ m.channels = channels /\ m.primary = mux[p].primary /\ m.leaving = mux[p].leaving
  BY PeerTypes DEF RekeyInv, Mux, Closed
<1>6. Idle \in Task /\ Idle.step = "idle" /\ Idle.key = 0
  BY DEF Task, Idle, Renegotiation
<1> HIDE DEF c, k, m, channels
<1>7. SupervisorsOK' /\ ChannelsOK'
  BY <1>1, <1>2, <1>3, <1>4, <1>5, <1>6
     DEF RekeyInv, RekeyTypeOK, SupervisorsOK, ChannelsOK, c
<1>8. /\ task'[p] = Idle /\ coord'[p] = c /\ mux'[p] = m /\ sessions'[p] = k
      /\ \A r \in Peers \ {p} : Untouched(r)
  BY <1>1, <1>2 DEF RekeyInv, RekeyTypeOK, SupervisorsOK, ChannelsOK, Untouched, c
<1>9. Bounded(p) /\ RingInv(p) /\ MuxInv(p) /\ CoordInv(p)
  BY DEF RekeyInv, RekeyTypeOK
<1>10. Bounded(p)'
  <2>1. Len(k) \in Nat /\ Scan \in Nat
    BY <1>4, ScanAssumption
  <2> QED  BY <1>1, <1>4, <1>8, <1>9, <2>1 DEF Bounded
<1>11. RingInv(p)'
  BY <1>1, <1>3, <1>6, <1>8, <1>9 DEF RingInv, Negotiates
<1>12. MuxInv(p)'
  <2>1. \A x \in Retired(p) : x \notin mux[p].leaving
    BY <1>4, <1>9 DEF MuxInv
  <2>2. mux[p].leaving \subseteq channels
    BY <1>9, <2>1 DEF MuxInv, channels, Closed
  <2>3. \A i \in DOMAIN k : k[i] \in channels \ mux[p].leaving
    BY <1>4, <1>9 DEF MuxInv, channels, Closed
  <2>4. mux[p].primary \in channels
    BY <1>9 DEF MuxInv, channels, Closed
  <2> QED  BY <1>1, <1>4, <1>5, <1>6, <1>8, <1>9, <2>2, <2>3, <2>4 DEF MuxInv, HasChannel
<1>13. CoordInv(p)'
  <2>1. CASE p \in cut
    <3>1. PICK s \in Negotiating(p) : s.key # task[p].key
      BY <1>9, <2>1 DEF CoordInv
    <3>2. s \in Negotiating(p)'
      BY <1>3, <1>8, <3>1 DEF Negotiating
    <3>3. s.key # 0
      BY <3>1, PeerTypes DEF RekeyInv, Negotiating, ResetState, Keys
    <3> QED  BY <1>1, <1>6, <1>8, <2>1, <3>2, <3>3 DEF CoordInv
  <2>2. CASE p \notin cut
    <3>1. ring[p].send = KeyOfTask(p) /\ coord[p].promoted < task[p].seq
      BY <1>1, <1>9, <2>2 DEF CoordInv
    <3>2. ring[p].send.key = task[p].key /\ ring[p].send.seq = task[p].seq
      BY <3>1 DEF KeyOfTask, KeyOf
    <3>3. c.active = task[p].key /\ c.promoted = task[p].seq
      <4>1. task[p].seq > coord[p].promoted
        BY <3>1, PeerTypes DEF RekeyInv
      <4> QED  BY <1>3, <4>1
    <3>4. \A e \in ring[p].receive : e.seq <= ring[p].send.seq
      BY <1>1, <1>9, <2>2 DEF CoordInv
    <3>5. ring[p].send \in ring[p].receive
      BY <1>9, <2>2 DEF CoordInv
    <3> QED  BY <1>1, <1>6, <1>8, <2>2, <3>2, <3>3, <3>4, <3>5 DEF CoordInv
  <2> QED  BY <2>1, <2>2
<1>14. Together'
  <2>1. q \in Peers /\ q # p /\ Other(q) = p /\ task'[q] = task[q] /\ ring'[q] = ring[q]
        /\ sessions'[q] = sessions[q]
    BY <1>8, TwoPeers DEF Untouched
  <2>2. Other(p) = q
    OBVIOUS
  <2> HIDE DEF q
  <2>3. SUFFICES ASSUME \A r \in Peers : up'[r], cut' = {}, outlived' = {}
                 PROVE  Joint(p)' /\ Backed(p)' /\ Backed(q)'
    BY <2>2, JointlyTrue
  <2>4. Joint(p) /\ Backed(p) /\ Backed(q) /\ p \notin cut
    BY <1>1, <2>1, <2>3 DEF RekeyInv, Together
  <2>6. ~Ahead(q)
    BY <1>1, <2>1 DEF Ahead
  <2>7. Joint(p)'
    <3>1. CASE ring[p].send.key = ring[q].send.key
      BY <1>1, <2>2, <3>1 DEF Joint
    <3>2. CASE Ahead(p)
      <4>1. task'[q].step \in {"exchange", "install"}
        BY <2>1, <2>2, <3>2 DEF Ahead
      <4>2. task'[q].key = ring'[p].send.key
            /\ \E e \in ring'[p].receive : e.key = ring'[q].send.key
        BY <1>1, <2>1, <2>2, <3>2 DEF Ahead
      <4>3. \/ Len(k) = 1 /\ ring'[q].send.key = 0
            \/ Len(k) > 1 /\ k[Len(k) - 1] = ring'[q].send.key
        BY <1>4, <2>1, <2>2, <3>2 DEF Ahead
      <4>4. Ahead(p)'
        BY <1>8, <2>2, <4>1, <4>2, <4>3 DEF Ahead
      <4> QED  BY <4>4 DEF Joint
    <3> QED  BY <2>2, <2>4, <2>6, <3>1, <3>2 DEF Joint
  <2>8. Backed(p)'
    BY <1>6, <1>8 DEF Backed
  <2>9. Backed(q)'
    <3>1. ring[p].send.key = task[p].key
      BY <1>1, <1>9, <2>4 DEF CoordInv, KeyOfTask, KeyOf
    <3> QED  BY <1>1, <2>1, <2>3, <2>4, <3>1 DEF Backed, TakesPart, PastHandshake
  <2> QED  BY <2>7, <2>8, <2>9
<1> QED  BY <1>7, <1>8, <1>10, <1>11, <1>12, <1>13, <1>14, Assembled DEF Local

LEMMA CancelKeeps ==
    ASSUME RekeyInv, NEW p \in Peers, Cancel(p)
    PROVE  RekeyInv'
<1> DEFINE s == IF task[p].step = "retire" THEN KeptSessions(p) ELSE sessions[p]
           m == Mux(mux[p].channels, mux[p].primary, mux[p].leaving \union Dropped(p))
<1>1. /\ task[p] # Idle
      /\ task' = [task EXCEPT ![p] = Idle] /\ cut' = cut \union {p}
      /\ mux' = [mux EXCEPT ![p] = m] /\ sessions' = [sessions EXCEPT ![p] = s]
      /\ UNCHANGED <<link, outlived, up, coord, ring, requests, unacked, replies, resets>>
  BY DEF Cancel
<1>2. task[p].key \in Keys /\ task[p].step \in Steps
  BY <1>1, PeerTypes DEF RekeyInv
<1>3. Bounded(p) /\ RingInv(p) /\ MuxInv(p) /\ CoordInv(p)
  BY DEF RekeyInv, RekeyTypeOK
<1>4. sessions[p] \in Seq(Keys) /\ Len(sessions[p]) \in Nat /\ Scan \in Nat
  BY PeerTypes, ScanAssumption DEF RekeyInv
<1>5. /\ s \in Seq(Keys) /\ Len(s) <= Scan /\ LastSession(s) = LastSession(sessions[p])
      /\ \A i, j \in DOMAIN s : s[i] = s[j] => i = j
      /\ \A i \in DOMAIN s : s[i] \in mux[p].channels \ (mux[p].leaving \union Dropped(p))
      /\ Dropped(p) \subseteq mux[p].channels \intersect Keys
  <2>1. CASE task[p].step = "retire"
    <3>1. s = KeptSessions(p) /\ Dropped(p) = Retired(p)
      BY <2>1 DEF Dropped
    <3>2. /\ s \in Seq(Keys) /\ Len(s) <= Scan
          /\ \A i \in DOMAIN s : \E j \in DOMAIN sessions[p] :
                 s[i] = sessions[p][j] /\ sessions[p][j] \notin Retired(p)
          /\ \A i, j \in DOMAIN s : s[i] = s[j] => i = j
          /\ LastSession(s) = LastSession(sessions[p])
          /\ \A x \in Retired(p) : \E j \in DOMAIN sessions[p] : x = sessions[p][j]
      BY <2>1, <3>1, KeptKeeps
    <3>3. \A j \in DOMAIN sessions[p] :
              sessions[p][j] \in Keys /\ sessions[p][j] \in mux[p].channels \ mux[p].leaving
      BY <1>3, <1>4 DEF MuxInv
    <3> HIDE DEF s
    <3> QED  BY <3>1, <3>2, <3>3
  <2>2. CASE task[p].step = "register"
    BY <1>3, <1>4, <2>2 DEF MuxInv, Dropped
  <2>3. CASE task[p].step \in {"handshake", "exchange", "install"}
    <3>1. s = sessions[p] /\ Dropped(p) = {task[p].key}
      BY <2>3 DEF Dropped
    <3>2. task[p].key \in mux[p].channels /\ \A i \in DOMAIN s : s[i] # task[p].key
      BY <1>3, <2>3, <3>1 DEF MuxInv, HasChannel
    <3> QED  BY <1>2, <1>3, <1>4, <2>3, <3>1, <3>2 DEF MuxInv
  <2> QED  BY <1>2, <2>1, <2>2, <2>3 DEF Steps
<1>6. /\ m \in [channels: SUBSET (Keys \union {0}), primary: Keys \union {0}, leaving: SUBSET Keys]
      /\ m.channels = mux[p].channels /\ m.primary = mux[p].primary
      /\ m.leaving = mux[p].leaving \union Dropped(p)
  BY <1>5, PeerTypes DEF RekeyInv, Mux
<1>7. Idle \in Task /\ Idle.step = "idle" /\ Idle.key = 0
  BY DEF Task, Idle, Renegotiation
<1> HIDE DEF s, m
<1>8. SupervisorsOK' /\ ChannelsOK'
  BY <1>1, <1>5, <1>6, <1>7 DEF RekeyInv, RekeyTypeOK, SupervisorsOK, ChannelsOK
<1>9. /\ task'[p] = Idle /\ mux'[p] = m /\ sessions'[p] = s
      /\ \A r \in Peers \ {p} : Untouched(r)
  BY <1>1 DEF RekeyInv, RekeyTypeOK, SupervisorsOK, ChannelsOK, Untouched
<1>10. Bounded(p)'
  <2>1. Len(s) \in Nat
    BY <1>5
  <2> QED  BY <1>1, <1>3, <1>4, <1>5, <1>9, <2>1 DEF Bounded
<1>11. RingInv(p)'
  BY <1>1, <1>3, <1>7, <1>9 DEF RingInv, Negotiates
<1>12. MuxInv(p)'
  BY <1>1, <1>3, <1>5, <1>6, <1>7, <1>9 DEF MuxInv, HasChannel
<1>13. CoordInv(p)'
  <2>1. Reset(task[p].key, task[p].seq, "negotiating") \in coord[p].states
    BY <1>1, <1>3 DEF RingInv
  <2>2. PICK r \in coord[p].states : r.status = "negotiating" /\ r.key = task[p].key
    BY <2>1 DEF Reset
  <2>3. r \in Negotiating(p)' /\ r.key # 0
    BY <1>1, <1>2, <2>2 DEF Negotiating, Keys
  <2> QED  BY <1>1, <1>7, <1>9, <2>3 DEF CoordInv
<1>14. Together'
  BY <1>1 DEF Together
<1> QED  BY <1>8, <1>9, <1>10, <1>11, <1>12, <1>13, <1>14, Assembled DEF Local

LEMMA UnregisterKeeps ==
    ASSUME RekeyInv, NEW p \in Peers, NEW k \in Keys, unregister(p, k)
    PROVE  RekeyInv'
<1> DEFINE channels == Closed(p, {k})
           m == Mux(channels, mux[p].primary, mux[p].leaving \ {k})
<1>1. /\ k \in mux[p].leaving /\ mux' = [mux EXCEPT ![p] = m]
      /\ unacked' = [unacked EXCEPT ![p] = @ \ {k}]
      /\ UNCHANGED <<link, outlived, cut, up, task, coord, ring, sessions, requests, replies,
                     resets>>
  BY DEF unregister
<1>2. /\ m \in [channels: SUBSET (Keys \union {0}), primary: Keys \union {0}, leaving: SUBSET Keys]
      /\ m.channels = channels /\ m.primary = mux[p].primary /\ m.leaving = mux[p].leaving \ {k}
  BY PeerTypes DEF RekeyInv, Mux, Closed
<1> HIDE DEF channels, m
<1>3. SupervisorsOK' /\ ChannelsOK'
  BY <1>1, <1>2 DEF RekeyInv, RekeyTypeOK, SupervisorsOK, ChannelsOK
<1>4. mux'[p] = m /\ \A r \in Peers \ {p} : Untouched(r)
  BY <1>1 DEF RekeyInv, RekeyTypeOK, ChannelsOK, Untouched
<1>5. Bounded(p) /\ RingInv(p) /\ MuxInv(p) /\ CoordInv(p)
  BY DEF RekeyInv, RekeyTypeOK
<1>6. Bounded(p)' /\ RingInv(p)'
  BY <1>1, <1>5 DEF Bounded, RingInv, Negotiates, KeyOfTask
<1>7. MuxInv(p)'
  <2>1. \A x \in mux[p].channels : x # k => x \in channels
    BY DEF channels, Closed
  <2>2. mux[p].primary \in channels
    BY <1>5 DEF MuxInv, channels, Closed
  <2> QED  BY <1>1, <1>2, <1>4, <1>5, <2>1, <2>2 DEF MuxInv, HasChannel
<1>8. CoordInv(p)'
  BY <1>1, <1>5 DEF CoordInv, Negotiating, KeyOfTask
<1>9. Together'
  BY <1>1, TogetherStays DEF RekeyInv
<1> QED  BY <1>3, <1>4, <1>6, <1>7, <1>8, <1>9, Assembled DEF Local

LEMMA PruneKeeps ==
    ASSUME RekeyInv, NEW p \in Peers, NEW e \in ring[p].receive, prune(p, e)
    PROVE  RekeyInv'
<1> DEFINE q == Other(p)
           R == ring[p].receive
           r == KeyRing(R \ {e}, ring[p].send)
<1>1. /\ e # ring[p].send /\ (task[p].step = "install" => e # KeyOfTask(p))
      /\ ring' = [ring EXCEPT ![p] = r]
      /\ outlived' = IF e.key = ring[q].send.key THEN outlived \union {p} ELSE outlived
      /\ UNCHANGED <<link, cut, up, task, coord, mux, sessions, requests, unacked, replies,
                     resets>>
  BY DEF prune
<1>2. /\ r \in [receive: SUBSET DataKey, send: DataKey]
      /\ r.receive = R \ {e} /\ r.send = ring[p].send
  BY PeerTypes DEF RekeyInv, KeyRing
<1> HIDE DEF r
<1>3. SupervisorsOK' /\ ChannelsOK'
  BY <1>1, <1>2 DEF RekeyInv, RekeyTypeOK, SupervisorsOK, ChannelsOK
<1>4. ring'[p] = r /\ \A x \in Peers \ {p} : Untouched(x)
  BY <1>1 DEF RekeyInv, RekeyTypeOK, ChannelsOK, Untouched
<1>5. Bounded(p) /\ RingInv(p) /\ MuxInv(p) /\ CoordInv(p)
  BY DEF RekeyInv, RekeyTypeOK
<1>6. IsFiniteSet(R \ {e}) /\ Cardinality(R \ {e}) <= Cardinality(R)
      /\ Cardinality(R) \in Nat /\ Cardinality(R \ {e}) \in Nat
  <2>1. IsFiniteSet(R)
    BY <1>5 DEF RingInv
  <2> QED  BY <2>1, FS_Subset, FS_CardinalityType
<1>7. Bounded(p)'
  <2>1. ring'[p].receive = R \ {e} /\ sessions' = sessions
    BY <1>1, <1>2, <1>4
  <2>2. Cardinality(R) <= Scan /\ Scan \in Nat
    BY <1>5, ScanAssumption DEF Bounded
  <2>3. Cardinality(R \ {e}) <= Scan
    BY <1>6, <2>2
  <2> QED  BY <1>5, <2>1, <2>3 DEF Bounded
<1>8. RingInv(p)'
  <2>1. KeyOfTask(p)' = KeyOfTask(p)
    BY <1>1 DEF KeyOfTask, KeyOf
  <2> QED  BY <1>1, <1>2, <1>4, <1>5, <1>6, <2>1 DEF RingInv, Negotiates
<1>9. MuxInv(p)'
  BY <1>1, <1>2, <1>4, <1>5 DEF MuxInv, HasChannel
<1>10. CoordInv(p)'
  <2>1. Negotiating(p)' = Negotiating(p) /\ KeyOfTask(p)' = KeyOfTask(p)
    BY <1>1 DEF Negotiating, KeyOfTask
  <2> QED  BY <1>1, <1>2, <1>4, <1>5, <2>1 DEF CoordInv
<1>11. Together'
  <2>1. q \in Peers /\ q # p /\ Other(q) = p /\ ring'[q] = ring[q]
    BY <1>4, TwoPeers DEF Untouched
  <2>2. Other(p) = q
    OBVIOUS
  <2> HIDE DEF q
  <2>3. SUFFICES ASSUME \A x \in Peers : up'[x], cut' = {}, outlived' = {}
                 PROVE  Joint(p)' /\ Backed(p)' /\ Backed(q)'
    BY <2>2, JointlyTrue
  <2>4. e.key # ring[q].send.key /\ outlived = {}
    BY <1>1, <2>3
  <2>5. Joint(p) /\ Backed(p) /\ Backed(q)
    BY <1>1, <2>1, <2>3, <2>4 DEF RekeyInv, Together
  <2>6. Backed(p)' /\ Backed(q)'
    BY <1>1, <1>2, <1>4, <2>1, <2>2, <2>5 DEF Backed, TakesPart, PastHandshake
  <2>7. Ahead(p) => Ahead(p)'
    BY <1>1, <1>2, <1>4, <2>1, <2>2, <2>4 DEF Ahead
  <2>8. Ahead(q) => Ahead(q)'
    BY <1>1, <1>2, <1>4, <2>1, <2>2 DEF Ahead
  <2> QED  BY <1>2, <1>4, <2>1, <2>2, <2>5, <2>6, <2>7, <2>8 DEF Joint
<1> QED  BY <1>3, <1>4, <1>7, <1>8, <1>9, <1>10, <1>11, Assembled DEF Local

\* A reset is queued, a reset begins or is refused: no more than one at a time.
LEMMA RenegotiateKeeps ==
    ASSUME RekeyInv, NEW p \in Peers, renegotiate(p)
    PROVE  RekeyInv'
<1>1. requests' \in [Peers -> Nat]
  <2>1. requests \in [Peers -> Nat] /\ requests[p] > 0
        /\ requests' = [requests EXCEPT ![p] = requests[p] - 1]
    BY DEF renegotiate, RekeyInv, RekeyTypeOK, SupervisorsOK
  <2>2. requests[p] - 1 \in Nat
    BY <2>1
  <2> QED  BY <2>1, <2>2
<1>2. CASE Negotiating(p) = {}
  <2> DEFINE k == next_key_id(coord[p].active)
  <2>1. k \in Keys
    <3>1. coord[p].active \in Keys \union {0}
      BY PeerTypes DEF RekeyInv
    <3>2. coord[p].active \in 0 .. KeyMax /\ KeyMax \in Nat /\ 1 <= KeyMax
      BY <3>1, ScanAssumption DEF Keys
    <3> QED  BY <3>2 DEF next_key_id, Keys
  <2>2. begin(p, k, TRUE) /\ task[p] = Idle
        /\ UNCHANGED <<link, outlived, cut, up, ring, mux, sessions, unacked, replies, resets>>
    BY <1>2 DEF renegotiate, Waiting
  <2>3. resets' \in [Peers -> SUBSET Keys]
    BY <2>2 DEF RekeyInv, RekeyTypeOK, SupervisorsOK
  <2> HIDE DEF k
  <2> QED  BY <1>1, <1>2, <2>1, <2>2, <2>3, BeginKeeps
<1>3. CASE Negotiating(p) # {}
  <2>1. UNCHANGED <<task, coord, link, outlived, cut, up, ring, mux, sessions, unacked,
                    replies, resets>>
    BY <1>3 DEF renegotiate
  <2>2. SupervisorsOK'
    BY <1>1, <2>1 DEF RekeyInv, RekeyTypeOK, SupervisorsOK
  <2> QED  BY <2>1, <2>2, BooksStay
<1> QED  BY <1>2, <1>3

LEMMA AcceptKeeps ==
    ASSUME RekeyInv, NEW p \in Peers, NEW k \in Keys, accept_remote_renegotiation(p, k)
    PROVE  RekeyInv'
<1>1. /\ resets' \in [Peers -> SUBSET Keys] /\ task[p] = Idle
      /\ UNCHANGED <<link, outlived, cut, up, ring, mux, sessions, requests, unacked, replies>>
  BY DEF accept_remote_renegotiation, Waiting, RekeyInv, RekeyTypeOK, SupervisorsOK
<1>2. CASE AlreadyBegun(p, k)
  <2>1. UNCHANGED <<task, coord>>
    BY <1>2 DEF accept_remote_renegotiation
  <2>2. SupervisorsOK'
    BY <1>1, <2>1 DEF RekeyInv, RekeyTypeOK, SupervisorsOK
  <2> QED  BY <1>1, <2>1, <2>2, BooksStay
<1>3. CASE ~AlreadyBegun(p, k)
  <2>1. begin(p, k, FALSE)
    BY <1>3 DEF accept_remote_renegotiation
  <2>2. \A s \in Negotiating(p) : s.key # k
    BY <1>3 DEF AlreadyBegun, Negotiating
  <2>3. requests' \in [Peers -> Nat]
    BY <1>1 DEF RekeyInv, RekeyTypeOK, SupervisorsOK
  <2> QED  BY <1>1, <2>1, <2>2, <2>3, BeginKeeps
<1> QED  BY <1>2, <1>3

LEMMA LinkKeeps ==
    ASSUME RekeyInv, NEW p \in Peers, NEW k \in Keys,
           ResetArrives(p, k) \/ ResetAcked(p, k) \/ AckIsLost(p, k)
    PROVE  RekeyInv'
<1>1. UNCHANGED <<link, outlived, cut, up, task, coord, ring, mux, sessions, requests>>
  BY DEF ResetArrives, ResetAcked, AckIsLost
<1>2. /\ unacked' \in [Peers -> SUBSET Keys] /\ replies' \in [Peers -> SUBSET Keys]
      /\ resets' \in [Peers -> SUBSET Keys]
  <2>1. /\ unacked \in [Peers -> SUBSET Keys] /\ replies \in [Peers -> SUBSET Keys]
        /\ resets \in [Peers -> SUBSET Keys] /\ Other(p) \in Peers
    BY TwoPeers DEF RekeyInv, RekeyTypeOK, SupervisorsOK
  <2>2. CASE ResetArrives(p, k)
    BY <2>1, <2>2 DEF ResetArrives
  <2>3. CASE ResetAcked(p, k)
    BY <2>1, <2>3 DEF ResetAcked
  <2>4. CASE AckIsLost(p, k)
    BY <2>1, <2>4 DEF AckIsLost
  <2> QED  BY <2>2, <2>3, <2>4
<1>3. SupervisorsOK'
  BY <1>1, <1>2 DEF RekeyInv, RekeyTypeOK, SupervisorsOK
<1> QED  BY <1>1, <1>3, BooksStay

LEMMA RekeyStart ==
    ASSUME RekeyInit
    PROVE  RekeyInv
<1>1. Scan \in Nat /\ 1 < Scan /\ KeyMax \in Nat
  BY ScanAssumption
<1>2. KeyOf(0, 0) \in DataKey /\ KeyOf(0, 0).key = 0 /\ KeyOf(0, 0).seq = 0
  BY DEF KeyOf, DataKey
<1>3. Idle \in Task /\ Idle.key = 0 /\ Idle.step = "idle"
  BY DEF Task, Idle, Renegotiation
<1>4. Rekeys[link] \subseteq [Peers -> Nat]
  BY RekeysAssumption DEF RekeyInit
<1>5. SupervisorsOK
  BY <1>3, <1>4 DEF RekeyInit, SupervisorsOK, Coordinator
<1>6. ChannelsOK
  BY <1>2 DEF RekeyInit, ChannelsOK, KeyRing, Mux
<1>7. ASSUME NEW p \in Peers PROVE Bounded(p) /\ RingInv(p) /\ MuxInv(p) /\ CoordInv(p)
  <2>1. /\ task[p] = Idle /\ ring[p].receive = {KeyOf(0, 0)} /\ ring[p].send = KeyOf(0, 0)
        /\ mux[p].channels = {0} /\ mux[p].primary = 0 /\ mux[p].leaving = {}
        /\ sessions[p] = <<>> /\ coord[p].sequence = 0 /\ coord[p].active = 0
        /\ coord[p].promoted = 0 /\ cut = {}
    BY <1>7 DEF RekeyInit, KeyRing, Mux, Coordinator
  <2>2. IsFiniteSet({KeyOf(0, 0)}) /\ Cardinality({KeyOf(0, 0)}) = 1
    BY FS_Singleton
  <2>3. Len(sessions[p]) = 0 /\ DOMAIN sessions[p] = {} /\ LastSession(sessions[p]) = 0
    BY <2>1 DEF LastSession
  <2>4. Bounded(p)
    BY <1>1, <2>1, <2>2, <2>3 DEF Bounded
  <2>5. RingInv(p)
    BY <1>2, <1>3, <2>1, <2>2 DEF RingInv, Negotiates
  <2>6. MuxInv(p)
    BY <1>1, <1>2, <1>3, <2>1, <2>3 DEF MuxInv, HasChannel
  <2>7. CoordInv(p)
    BY <1>2, <1>3, <2>1 DEF CoordInv
  <2> QED  BY <2>4, <2>5, <2>6, <2>7
<1>8. ASSUME NEW p \in Peers PROVE Joint(p) /\ Backed(p)
  <2>1. Other(p) \in Peers
    BY TwoPeers
  <2>2. ring[p].send = KeyOf(0, 0) /\ ring[Other(p)].send = KeyOf(0, 0) /\ task[p] = Idle
    BY <2>1 DEF RekeyInit, KeyRing
  <2> QED  BY <1>3, <2>2 DEF Joint, Backed
<1> QED  BY <1>5, <1>6, <1>7, <1>8 DEF RekeyInv, RekeyTypeOK, Together

LEMMA RekeyStep ==
    ASSUME RekeyInv, [RekeyNext]_rekeyVars
    PROVE  RekeyInv'
<1>1. CASE UNCHANGED rekeyVars
  <2>1. SupervisorsOK' /\ UNCHANGED <<outlived, cut, up, task, coord, ring, mux, sessions>>
    BY <1>1 DEF rekeyVars, RekeyInv, RekeyTypeOK, SupervisorsOK
  <2> QED  BY <2>1, BooksStay
<1>2. ASSUME NEW p \in Peers, renegotiate(p) PROVE RekeyInv'
  BY <1>2, RenegotiateKeeps
<1>3. ASSUME NEW p \in Peers, Work(p) PROVE RekeyInv'
  <2>1. CASE DuplicateKeyId(p)
    <3>1. /\ task[p].step = "register" /\ Over(p)
          /\ UNCHANGED <<link, outlived, cut, ring, mux, sessions, requests, unacked, replies,
                         resets>>
      BY <2>1 DEF DuplicateKeyId, Duplicate, At
    <3>2. task[p] # Idle
      BY <3>1 DEF Idle, Renegotiation
    <3> QED  BY <3>1, <3>2, OverKeeps
  <2> QED  BY <1>3, <2>1, RegisterKeeps, HandshakeKeeps, NegotiateKeeps, InstallKeeps, FinishKeeps
     DEF Work
<1>4. ASSUME NEW p \in Peers, HandshakeTimeout(p) \/ ExchangeFails(p) PROVE RekeyInv'
  <2>1. /\ task[p].step \in {"handshake", "exchange"} /\ Over(p)
        /\ UNCHANGED <<link, outlived, cut, ring, mux, sessions, requests, unacked, replies,
                       resets>>
    BY <1>4 DEF HandshakeTimeout, ExchangeFails, At
  <2>2. task[p] # Idle
    BY <2>1 DEF Idle, Renegotiation
  <2> QED  BY <2>1, <2>2, OverKeeps
<1>5. ASSUME NEW p \in Peers, Cancel(p) PROVE RekeyInv'
  BY <1>5, CancelKeeps
<1>6. ASSUME NEW p \in Peers, NEW k \in Keys,
             \/ accept_remote_renegotiation(p, k) \/ unregister(p, k)
             \/ ResetArrives(p, k) \/ ResetAcked(p, k) \/ AckIsLost(p, k)
      PROVE  RekeyInv'
  BY <1>6, AcceptKeeps, UnregisterKeeps, LinkKeeps
<1>7. ASSUME NEW p \in Peers, NEW e \in ring[p].receive, prune(p, e) PROVE RekeyInv'
  BY <1>7, PruneKeeps
<1> QED  BY <1>1, <1>2, <1>3, <1>4, <1>5, <1>6, <1>7 DEF RekeyNext

\* Every rekey keeps RekeyInv, whatever is dropped, lost or times out.
THEOREM RekeyInvCorrect == RekeySpec => []RekeyInv
BY RekeyStart, RekeyStep, PTL DEF RekeySpec

\* The key ring, the mux and the coordinator (data_key_ring.rs, control_mux.rs and
\* soft_reset.rs): the sending key is in the ring of a peer that dropped nothing, a
\* negotiated key can be installed, and between rekeys all three name one key.
THEOREM RekeySafe == RekeySpec => []RekeySafetyInv
<1>1. RekeyInv => RekeySafetyInv
  <2>1. SUFFICES ASSUME RekeyInv PROVE RekeySafetyInv
    OBVIOUS
  <2>2. SendKeyExists
    BY <2>1 DEF RekeyInv, CoordInv, SendKeyExists
  <2>3. InstallSucceeds
    <3>1. ASSUME NEW p \in Peers, At(p, "install")
          PROVE  /\ task[p].key \in mux[p].channels /\ KeyOfTask(p) \in ring[p].receive
                 /\ task[p].seq > ring[p].send.seq
      <4>1. task[p].step = "install" /\ RingInv(p) /\ MuxInv(p)
        BY <2>1, <3>1 DEF RekeyInv, At
      <4>2. ring[p].send.seq \in Nat /\ task[p].seq \in Nat
        BY <2>1, PeerTypes DEF RekeyInv
      <4> QED  BY <4>1, <4>2 DEF RingInv, MuxInv, HasChannel, Negotiates
    <3> QED  BY <3>1 DEF InstallSucceeds
  <2>4. KeysAgree
    <3>1. ASSUME NEW p \in Peers, Waiting(p), Negotiating(p) = {}
          PROVE  /\ coord[p].active = ring[p].send.key /\ coord[p].promoted = ring[p].send.seq
                 /\ mux[p].primary = ring[p].send.key /\ mux[p].primary \in mux[p].channels
      <4>1. task[p].step = "idle" /\ MuxInv(p) /\ CoordInv(p)
        BY <2>1, <3>1 DEF RekeyInv, Waiting, Idle, Renegotiation
      <4>2. p \notin cut
        BY <3>1, <4>1 DEF CoordInv
      <4> QED  BY <4>1, <4>2 DEF MuxInv, CoordInv
    <3> QED  BY <3>1 DEF KeysAgree
  <2> QED  BY <2>1, <2>2, <2>3, <2>4 DEF RekeyInv, RekeySafetyInv
<1> QED  BY <1>1, RekeyInvCorrect, PTL

\* A peer can decrypt what the other sends, or is about to be able to, at any moment
\* of a rekey, as long as no renegotiation is dropped and no rekey outlasts the
\* transition window (client_connector.rs, server_connector.rs and data_key_ring.rs).
THEOREM PeersRead == RekeySpec => []PeerReads
<1>1. RekeyInv => PeerReads
  <2>1. SUFFICES ASSUME RekeyInv, \A r \in Peers : up[r], cut = {}, outlived = {},
                        NEW p \in Peers
                 PROVE  Reads(p, ring[Other(p)].send.key)
    BY DEF PeerReads
  <2> DEFINE q == Other(p)
  <2>2. q \in Peers /\ Other(q) = p
    BY TwoPeers
  <2>3. Joint(p) /\ RingInv(p) /\ CoordInv(p)
    BY <2>1 DEF RekeyInv, Together
  <2>4. CASE Ahead(p)
    BY <2>4 DEF Ahead, Reads
  <2>5. CASE Ahead(q)
    <3>1. task[p].step \in {"exchange", "install"} /\ task[p].key = ring[q].send.key
      BY <2>2, <2>5 DEF Ahead
    <3>2. CASE task[p].step = "install"
      <4>1. KeyOfTask(p) \in ring[p].receive /\ KeyOfTask(p).key = task[p].key
        BY <2>3, <3>2 DEF RingInv, KeyOfTask, KeyOf
      <4> QED  BY <3>1, <4>1 DEF Reads
    <3> QED  BY <3>1, <3>2 DEF Reads
  <2>6. CASE ring[p].send.key = ring[q].send.key
    <3>1. ring[p].send \in ring[p].receive
      BY <2>1, <2>3 DEF CoordInv
    <3> QED  BY <2>6, <3>1 DEF Reads
  <2> QED  BY <2>3, <2>4, <2>5, <2>6 DEF Joint
<1> QED  BY <1>1, RekeyInvCorrect, PTL

=============================================================================
