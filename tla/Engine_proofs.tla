---------------------------- MODULE Engine_proofs ----------------------------
(* Proofs about parts of the engine, for every value of the constants: the     *)
(* bounded LRU cache of the DNS client, the fake-IP allocator and the outbound *)
(* groups.                                                                     *)
EXTENDS DnsLru, FakeIp, OutboundGroups, FiniteSetTheorems, SequenceTheorems, WellFoundedInduction, TLAPS

-----------------------------------------------------------------------------
(* The LRU cache, for any finite set of keys, any capacity and any number of  *)
(* uses. The queue keeps the last use of every entry in order, therefore an   *)
(* insertion can always evict down to the capacity and what it evicts was     *)
(* used least recently. LruInv, the conjunction of the type and the two facts *)
(* about the queue, is inductive.                                             *)

\* The queue q holds the last use of every entry of c, and is in order.
Holds(c, q) == \A k \in Cached(c) : \E i \in DOMAIN q : q[i] = [key |-> k, gen |-> c[k]]
Sorted(q) == \A i, j \in DOMAIN q : i < j => q[i].gen < q[j].gen

\* A set of naturals that is not empty has a least element.
LEMMA LeastNatural ==
  ASSUME NEW T \in SUBSET Nat, T # {}
  PROVE  \E n \in T : \A m \in T : n <= m
<1>1. \E x \in T : \A y \in T : ~ (<<y, x>> \in OpToRel(<, Nat))
  BY NatLessThanWellFounded, WFMin
<1>2. PICK x \in T : \A y \in T : ~ (<<y, x>> \in OpToRel(<, Nat))
  BY <1>1
<1>3. \A y \in T : ~ (y < x)
  BY <1>2 DEF OpToRel
<1>. QED
  BY <1>3

\* Popping the whole queue would leave nothing, so some number of pops is enough.
LEMMA EvictionsSuffice ==
  ASSUME NEW c \in [Keys -> Nat], NEW q \in Seq(Pair), Holds(c, q)
  PROVE  Evictions(c, q) \in Enough(c, q)
<1>1. Len(q) \in Nat /\ DOMAIN q = 1 .. Len(q)
  BY LenProperties
<1>2. Cached(Popped(c, q, Len(q))) = {}
  <2>1. SUFFICES ASSUME NEW k \in Keys PROVE Popped(c, q, Len(q))[k] = 0
    BY DEF Cached
  <2>2. CASE c[k] = 0
    BY <2>2 DEF Popped
  <2>3. CASE c[k] # 0
    <3>1. PICK i \in 1 .. Len(q) : q[i] = [key |-> k, gen |-> c[k]]
      BY <1>1, <2>3 DEF Holds, Cached
    <3>. QED
      BY <3>1 DEF Popped, Last
  <2>. QED
    BY <2>2, <2>3
<1>3. Len(q) \in Enough(c, q)
  <2>1. Cardinality(Cached(Popped(c, q, Len(q)))) = 0
    BY <1>2, FS_EmptySet
  <2>2. Cardinality(Cached(Popped(c, q, Len(q)))) <= Capacity /\ Len(q) \in 0 .. Len(q)
    BY <1>1, <2>1, CapacityAssumption
  <2>. QED
    BY <2>2 DEF Enough
<1>4. Enough(c, q) \in SUBSET Nat
  BY <1>1 DEF Enough
<1>5. \E n \in Enough(c, q) : \A m \in Enough(c, q) : n <= m
  BY <1>3, <1>4, LeastNatural
<1>. QED
  BY <1>5 DEF Evictions

\* The map and the queue after n pops: entries keep their generation or leave,
\* what stays has its last use in the rest, and what leaves had it before.
LEMMA PoppedProperties ==
  ASSUME NEW c \in [Keys -> Nat], NEW q \in Seq(Pair), Holds(c, q), Sorted(q),
         NEW n \in 0 .. Len(q)
  PROVE  /\ Popped(c, q, n) \in [Keys -> Nat]
         /\ \A k \in Keys : Popped(c, q, n)[k] \in {0, c[k]}
         /\ SubSeq(q, n + 1, Len(q)) \in Seq(Pair)
         /\ \A i \in DOMAIN SubSeq(q, n + 1, Len(q)) :
                n + i \in DOMAIN q /\ SubSeq(q, n + 1, Len(q))[i] = q[n + i]
         /\ Sorted(SubSeq(q, n + 1, Len(q)))
         /\ Holds(Popped(c, q, n), SubSeq(q, n + 1, Len(q)))
         /\ \A e \in Cached(c) \ Cached(Popped(c, q, n)), s \in Cached(Popped(c, q, n)) : c[e] < c[s]
<1>. DEFINE rest == SubSeq(q, n + 1, Len(q))
            left == Popped(c, q, n)
<1>1. Len(q) \in Nat /\ DOMAIN q = 1 .. Len(q) /\ \A i \in 1 .. Len(q) : q[i] \in Pair
  BY LenProperties
<1>2. left \in [Keys -> Nat] /\ \A k \in Keys : left[k] \in {0, c[k]}
  BY DEF Popped
<1>3. /\ rest \in Seq(Pair) /\ DOMAIN rest = 1 .. Len(q) - n
      /\ \A i \in DOMAIN rest : n + i \in DOMAIN q /\ rest[i] = q[n + i]
  <2>1. CASE n = Len(q)
    <3>1. rest = <<>>
      BY <1>1, <2>1, SubSeqEmpty
    <3>. QED
      BY <1>1, <2>1, <3>1
  <2>2. CASE n < Len(q)
    <3>1. n + 1 \in 1 .. Len(q) /\ Len(q) \in n .. Len(q)
      BY <1>1, <2>2
    <3>2. /\ rest \in Seq(Pair) /\ Len(rest) = Len(q) - (n + 1) + 1
          /\ \A i \in 1 .. Len(q) - (n + 1) + 1 : rest[i] = q[n + 1 + i - 1]
      BY <1>1, <2>2, <3>1, SubSeqProperties
    <3>3. DOMAIN rest = 1 .. Len(rest)
      BY <3>2, LenProperties
    <3>4. n \in Nat /\ Len(q) - (n + 1) + 1 = Len(q) - n
      BY <1>1, <2>2
    <3>5. DOMAIN rest = 1 .. Len(q) - n
      BY <3>2, <3>3, <3>4
    <3>6. ASSUME NEW i \in DOMAIN rest
          PROVE  n + i \in DOMAIN q /\ rest[i] = q[n + i]
      <4>1. i \in 1 .. Len(q) - n
        BY <3>5
      <4>2. n + i \in 1 .. Len(q) /\ n + 1 + i - 1 = n + i
        BY <1>1, <2>2, <3>4, <4>1
      <4>3. rest[i] = q[n + 1 + i - 1]
        BY <3>2, <3>4, <4>1
      <4>. QED
        BY <1>1, <4>2, <4>3
    <3>. QED
      BY <3>2, <3>5, <3>6
  <2>3. n \in Nat /\ Len(q) \in Nat /\ n <= Len(q)
    BY LenProperties
  <2>4. n = Len(q) \/ n < Len(q)
    BY <2>3
  <2>. QED
    BY <2>1, <2>2, <2>4
<1>4. Sorted(rest)
  <2>. SUFFICES ASSUME NEW i \in DOMAIN rest, NEW j \in DOMAIN rest, i < j
                PROVE  rest[i].gen < rest[j].gen
    BY DEF Sorted
  <2>1. n + i \in DOMAIN q /\ n + j \in DOMAIN q /\ n + i < n + j
    BY <1>1, <1>3
  <2>2. q[n + i].gen < q[n + j].gen
    BY <2>1 DEF Sorted
  <2>. QED
    BY <1>3, <2>2
<1>5. \A k \in Cached(left) : \E i \in n + 1 .. Len(q) : q[i] = [key |-> k, gen |-> c[k]]
  <2>. SUFFICES ASSUME NEW k \in Cached(left)
                PROVE  \E i \in n + 1 .. Len(q) : q[i] = [key |-> k, gen |-> c[k]]
    OBVIOUS
  <2>1. k \in Keys /\ left[k] # 0 /\ c[k] # 0 /\ ~ \E i \in 1 .. n : q[i].key = k /\ Last(c, q[i])
    BY DEF Cached, Popped
  <2>2. PICK i \in 1 .. Len(q) : q[i] = [key |-> k, gen |-> c[k]]
    BY <1>1, <2>1 DEF Holds, Cached
  <2>3. q[i].key = k /\ Last(c, q[i])
    BY <2>2 DEF Last
  <2>. QED
    BY <1>1, <2>1, <2>2, <2>3
<1>6. Holds(left, rest)
  <2>. SUFFICES ASSUME NEW k \in Cached(left)
                PROVE  \E i \in DOMAIN rest : rest[i] = [key |-> k, gen |-> left[k]]
    BY DEF Holds
  <2>1. PICK i \in n + 1 .. Len(q) : q[i] = [key |-> k, gen |-> c[k]]
    BY <1>5
  <2>2. left[k] = c[k]
    BY <1>2 DEF Cached
  <2>3. i - n \in DOMAIN rest /\ n + (i - n) = i
    BY <1>1, <1>3
  <2>. QED
    BY <1>3, <2>1, <2>2, <2>3
<1>7. \A e \in Cached(c) \ Cached(left), s \in Cached(left) : c[e] < c[s]
  <2>. SUFFICES ASSUME NEW e \in Cached(c) \ Cached(left), NEW s \in Cached(left)
                PROVE  c[e] < c[s]
    OBVIOUS
  <2>1. PICK i \in 1 .. n : q[i].key = e /\ Last(c, q[i])
    BY DEF Cached, Popped
  <2>2. q[i].gen = c[e]
    BY <2>1 DEF Last
  <2>3. PICK j \in n + 1 .. Len(q) : q[j] = [key |-> s, gen |-> c[s]]
    BY <1>5
  <2>4. i \in DOMAIN q /\ j \in DOMAIN q /\ i < j
    BY <1>1
  <2>5. q[i].gen < q[j].gen
    BY <2>4 DEF Sorted
  <2>6. q[j].gen = c[s]
    BY <2>3
  <2>. QED
    BY <2>2, <2>5, <2>6
<1>. QED
  BY <1>2, <1>3, <1>4, <1>6, <1>7

\* The invariant of any map, queue and generation.
Good(c, q, g) ==
    /\ c \in [Keys -> Nat] /\ q \in Seq(Pair) /\ g \in Nat
    /\ \A k \in Keys : c[k] <= g
    /\ \A i \in DOMAIN q : q[i].gen <= g
    /\ Sorted(q) /\ Holds(c, q)

LEMMA InvIsGood == LruInv <=> Good(cache, order, generation) /\ restored \subseteq Keys
BY DEF LruInv, Good, LruTypeOK, InOrder, Evictable, Sorted, Holds

\* A use stamps the entry and pushes its pair, which keeps the queue good; the
\* pair alone does so too, for an entry that expired before it could be used.
LEMMA UseKeepsGood ==
  ASSUME NEW c, NEW q, NEW g, Good(c, q, g), NEW k \in Keys
  PROVE  /\ Good([c EXCEPT ![k] = g + 1], Append(q, [key |-> k, gen |-> g + 1]), g + 1)
         /\ Good(c, Append(q, [key |-> k, gen |-> g + 1]), g + 1)
<1>. DEFINE stamped == [c EXCEPT ![k] = g + 1]
            pair == [key |-> k, gen |-> g + 1]
            pushed == Append(q, pair)
<1>1. /\ c \in [Keys -> Nat] /\ q \in Seq(Pair) /\ g \in Nat
      /\ \A l \in Keys : c[l] <= g
      /\ \A i \in DOMAIN q : q[i].gen <= g
      /\ Sorted(q) /\ Holds(c, q)
  BY DEF Good
<1>2. pair \in Pair /\ pair.gen = g + 1
  BY <1>1 DEF Pair
<1>3. Len(q) \in Nat /\ DOMAIN q = 1 .. Len(q) /\ \A i \in 1 .. Len(q) : q[i] \in Pair
  BY <1>1, LenProperties
<1>4. /\ pushed \in Seq(Pair) /\ DOMAIN pushed = 1 .. Len(q) + 1
      /\ \A i \in 1 .. Len(q) : pushed[i] = q[i]
      /\ pushed[Len(q) + 1] = pair
  BY <1>1, <1>2, <1>3
<1>5. \A i \in 1 .. Len(q) : q[i].gen \in Nat /\ q[i].gen <= g
  BY <1>1, <1>3 DEF Pair
<1>6. \A i \in DOMAIN pushed : pushed[i].gen <= g + 1
  BY <1>1, <1>2, <1>3, <1>4, <1>5
<1>7. Sorted(pushed)
  <2>. SUFFICES ASSUME NEW i \in DOMAIN pushed, NEW j \in DOMAIN pushed, i < j
                PROVE  pushed[i].gen < pushed[j].gen
    BY DEF Sorted
  <2>1. i \in 1 .. Len(q)
    BY <1>3, <1>4
  <2>2. CASE j \in 1 .. Len(q)
    BY <1>1, <1>3, <1>4, <2>1, <2>2 DEF Sorted
  <2>3. CASE j = Len(q) + 1
    BY <1>1, <1>2, <1>4, <1>5, <2>1, <2>3
  <2>. QED
    BY <1>3, <1>4, <2>2, <2>3
<1>8. Holds(c, pushed)
  BY <1>1, <1>3, <1>4 DEF Holds
<1>9. Holds(stamped, pushed)
  <2>. SUFFICES ASSUME NEW l \in Cached(stamped)
                PROVE  \E i \in DOMAIN pushed : pushed[i] = [key |-> l, gen |-> stamped[l]]
    BY DEF Holds
  <2>1. CASE l = k
    <3>1. stamped[l] = g + 1
      BY <1>1, <2>1
    <3>. QED
      BY <1>3, <1>4, <2>1, <3>1
  <2>2. CASE l # k
    <3>1. l \in Cached(c) /\ stamped[l] = c[l]
      BY <1>1, <2>2 DEF Cached
    <3>. QED
      BY <1>8, <3>1 DEF Holds
  <2>. QED
    BY <2>1, <2>2
<1>10. stamped \in [Keys -> Nat] /\ \A l \in Keys : stamped[l] <= g + 1 /\ c[l] <= g + 1
  BY <1>1
<1>. QED
  BY <1>1, <1>4, <1>6, <1>7, <1>8, <1>9, <1>10 DEF Good

\* So do the evictions after an insertion.
LEMMA EvictionKeepsGood ==
  ASSUME NEW c, NEW q, NEW g, Good(c, q, g)
  PROVE  LET n == Evictions(c, q)
         IN  /\ n \in 0 .. Len(q)
             /\ Good(Popped(c, q, n), SubSeq(q, n + 1, Len(q)), g)
             /\ Cardinality(Cached(Popped(c, q, n))) <= Capacity
             /\ \A k \in Keys : Popped(c, q, n)[k] \in {0, c[k]}
             /\ \A e \in Cached(c) \ Cached(Popped(c, q, n)), s \in Cached(Popped(c, q, n)) : c[e] < c[s]
<1>. DEFINE n == Evictions(c, q)
            rest == SubSeq(q, n + 1, Len(q))
            left == Popped(c, q, n)
<1>1. /\ c \in [Keys -> Nat] /\ q \in Seq(Pair) /\ g \in Nat
      /\ \A l \in Keys : c[l] <= g
      /\ \A i \in DOMAIN q : q[i].gen <= g
      /\ Sorted(q) /\ Holds(c, q)
  BY DEF Good
<1>2. n \in 0 .. Len(q) /\ Cardinality(Cached(left)) <= Capacity
  BY <1>1, EvictionsSuffice DEF Enough
<1>. HIDE DEF n
<1>3. /\ left \in [Keys -> Nat]
      /\ \A k \in Keys : left[k] \in {0, c[k]}
      /\ rest \in Seq(Pair)
      /\ \A i \in DOMAIN rest : n + i \in DOMAIN q /\ rest[i] = q[n + i]
      /\ Sorted(rest) /\ Holds(left, rest)
      /\ \A e \in Cached(c) \ Cached(left), s \in Cached(left) : c[e] < c[s]
  BY <1>1, <1>2, PoppedProperties
<1>4. \A k \in Keys : left[k] <= g
  BY <1>1, <1>3
<1>5. \A i \in DOMAIN rest : rest[i].gen <= g
  BY <1>1, <1>3
<1>6. Good(left, rest, g)
  BY <1>1, <1>3, <1>4, <1>5 DEF Good
<1>. QED
  BY <1>2, <1>3, <1>6 DEF n

LEMMA InvInit == LruInit => LruInv
BY DEF LruInit, LruInv, LruTypeOK, InOrder, Evictable, Cached, Pair

\* Every operation of the cache keeps the queue good.
LEMMA InvStep == LruInv /\ [LruNext]_lruVars => LruInv'
<1>. SUFFICES ASSUME LruInv, [LruNext]_lruVars
              PROVE  Good(cache', order', generation') /\ restored' \subseteq Keys
  BY DEF LruInv, Good, LruTypeOK, InOrder, Evictable, Sorted, Holds
<1>0. Good(cache, order, generation) /\ restored \subseteq Keys
  BY InvIsGood
<1>1. ASSUME NEW k \in Keys, insert_cache(k) PROVE Good(cache', order', generation')
  <2>1. Good(Stamped(k), Pushed(k), generation + 1)
    BY <1>0, UseKeepsGood DEF Stamped, Pushed
  <2>. QED
    BY <1>1, <2>1, EvictionKeepsGood DEF insert_cache
<1>2. ASSUME NEW k \in Keys, touch(k) PROVE Good(cache', order', generation')
  BY <1>0, <1>2, UseKeepsGood DEF touch, Stamped, Pushed
<1>3. ASSUME NEW k \in Keys, load_cache(k) PROVE Good(cache', order', generation')
  BY <1>0, <1>3 DEF load_cache, Good, Holds, Cached
<1>4. ASSUME NEW k \in Keys, insert_persistent_entry(k) PROVE Good(cache', order', generation')
  <2>. DEFINE g == generation + 1
  <2>1. Good(Stamped(k), Pushed(k), g)
    BY <1>0, UseKeepsGood DEF Stamped, Pushed
  <2>. HIDE DEF g
  <2>2. Good([Stamped(k) EXCEPT ![k] = g + 1], Append(Pushed(k), [key |-> k, gen |-> g + 1]), g + 1)
    BY <2>1, UseKeepsGood
  <2>3. cache' = [Stamped(k) EXCEPT ![k] = g + 1] /\ g + 1 = generation + 2
    BY <1>0, <1>4 DEF insert_persistent_entry, Stamped, Good, g
  <2>. QED
    BY <1>4, <2>2, <2>3 DEF insert_persistent_entry
<1>5. ASSUME NEW k \in Keys, ExpiredPersistentEntry(k) PROVE Good(cache', order', generation')
  BY <1>0, <1>5, UseKeepsGood DEF ExpiredPersistentEntry, Pushed
<1>6. CASE clear_cache
  BY <1>0, <1>6 DEF clear_cache, Good, Sorted, Holds, Cached, Pair
<1>7. ASSUME UNCHANGED lruVars PROVE Good(cache', order', generation')
  BY <1>0, <1>7 DEF lruVars
<1>8. restored' \subseteq Keys
  BY <1>0 DEF LruNext, lruVars, insert_cache, touch, load_cache, insert_persistent_entry,
              ExpiredPersistentEntry, clear_cache
<1>. QED
  BY <1>1, <1>2, <1>3, <1>4, <1>5, <1>6, <1>7, <1>8 DEF LruNext

\* The generations of the cache of client.rs stay well formed: no entry and no
\* queued pair is ahead of the counter.
THEOREM TypeCorrect == LruSpec => []LruTypeOK
<1>1. LruInv => LruTypeOK
  BY DEF LruInv
<1>. QED
  BY InvInit, InvStep, <1>1, PTL DEF LruSpec

\* touch, insert_cache and the persistent path keep the queue in order of use
\* and never lose the last use of an entry.
THEOREM QueueCorrect == LruSpec => [](InOrder /\ Evictable)
<1>1. LruInv => InOrder /\ Evictable
  BY DEF LruInv
<1>. QED
  BY InvInit, InvStep, <1>1, PTL DEF LruSpec

\* insert_cache evicts what was used least recently, for any capacity.
THEOREM LruCorrect == LruSpec => EvictsOldest
<1>. DEFINE Oldest ==
              generation' # generation =>
                 \A e \in Cached(cache) \ Cached(cache'), s \in Cached(cache) \intersect Cached(cache') :
                     cache'[s] = cache[s] => cache[e] < cache[s]
<1>1. LruInv /\ [LruNext]_lruVars => [Oldest]_lruVars
  <2>. SUFFICES ASSUME LruInv, LruNext, generation' # generation,
                       NEW e \in Cached(cache) \ Cached(cache'),
                       NEW s \in Cached(cache) \intersect Cached(cache'), cache'[s] = cache[s]
                PROVE  cache[e] < cache[s]
    OBVIOUS
  <2>0. Good(cache, order, generation)
    BY InvIsGood
  <2>1. cache \in [Keys -> Nat] /\ generation \in Nat /\ (\A k \in Keys : cache[k] <= generation)
    BY <2>0 DEF Good
  <2>2. ASSUME NEW k \in Keys, insert_cache(k) PROVE cache[e] < cache[s]
    <3>. DEFINE c == Stamped(k)
    <3>1. Good(c, Pushed(k), generation + 1)
      BY <2>0, UseKeepsGood DEF Stamped, Pushed
    <3>2. /\ \A l \in Keys : cache'[l] \in {0, c[l]}
          /\ \A x \in Cached(c) \ Cached(cache'), y \in Cached(cache') : c[x] < c[y]
      BY <2>2, <3>1, EvictionKeepsGood DEF insert_cache
    <3>3. c[k] = generation + 1 /\ \A l \in Keys : l # k => c[l] = cache[l]
      BY <2>1 DEF Stamped
    <3>. HIDE DEF c
    <3>4. s \in Keys /\ e \in Keys /\ cache[s] # 0 /\ cache[e] # 0 /\ cache'[s] # 0
      BY DEF Cached
    <3>5. s # k
      BY <2>1, <3>2, <3>3, <3>4
    <3>6. e # k
      <4>. SUFFICES ASSUME e = k PROVE FALSE
        OBVIOUS
      <4>1. k \in Cached(c)
        BY <2>1, <3>3 DEF Cached
      <4>2. c[k] < c[s]
        BY <3>2, <4>1
      <4>. QED
        BY <2>1, <3>3, <3>4, <3>5, <4>2
    <3>7. e \in Cached(c)
      BY <3>3, <3>4, <3>6 DEF Cached
    <3>8. c[e] < c[s]
      BY <3>2, <3>7
    <3>. QED
      BY <3>3, <3>4, <3>5, <3>6, <3>8
  <2>3. ASSUME NEW k \in Keys, touch(k) PROVE FALSE
    BY <2>1, <2>3 DEF touch, Stamped, Cached
  <2>4. ASSUME NEW k \in Keys, insert_persistent_entry(k) PROVE FALSE
    BY <2>1, <2>4 DEF insert_persistent_entry, Cached
  <2>5. ASSUME NEW k \in Keys, ExpiredPersistentEntry(k) PROVE FALSE
    BY <2>5 DEF ExpiredPersistentEntry
  <2>6. ASSUME NEW k \in Keys, load_cache(k) PROVE FALSE
    BY <2>6 DEF load_cache
  <2>7. CASE clear_cache
    BY <2>7 DEF clear_cache
  <2>. QED
    BY <2>2, <2>3, <2>4, <2>5, <2>6, <2>7 DEF LruNext
<1>. QED
  BY InvInit, InvStep, <1>1, PTL DEF LruSpec, EvictsOldest

\* The map of client.rs exceeds cache_capacity only by what lookups restored from
\* disk since the last insertion, for any capacity and any set of keys.
THEOREM BoundCorrect == LruSpec => []CacheBounded
<1>1. LruInit => CacheBounded
  <2>. SUFFICES ASSUME LruInit PROVE CacheBounded
    OBVIOUS
  <2>1. Cached(cache) \ restored = {}
    BY DEF LruInit, Cached
  <2>2. Cardinality(Cached(cache) \ restored) = 0
    BY <2>1, FS_EmptySet
  <2>. QED
    BY <2>2, CapacityAssumption DEF CacheBounded
<1>2. LruInv /\ CacheBounded /\ [LruNext]_lruVars => CacheBounded'
  <2>. SUFFICES ASSUME LruInv, CacheBounded, [LruNext]_lruVars
                PROVE  Cardinality(Cached(cache') \ restored') <= Capacity
    BY DEF CacheBounded, Cached
  <2>0. Good(cache, order, generation) /\ cache \in [Keys -> Nat] /\ generation \in Nat
    BY InvIsGood DEF Good
  <2>1. ASSUME NEW k \in Keys, insert_cache(k)
        PROVE  Cardinality(Cached(cache') \ restored') <= Capacity
    <3>1. Good(Stamped(k), Pushed(k), generation + 1)
      BY <2>0, UseKeepsGood DEF Stamped, Pushed
    <3>2. Cardinality(Cached(cache')) <= Capacity
      BY <2>1, <3>1, EvictionKeepsGood DEF insert_cache
    <3>3. Cached(cache') \ restored' = Cached(cache')
      BY <2>1 DEF insert_cache
    <3>. QED
      BY <3>2, <3>3
  <2>2. ASSUME Cached(cache') \ restored' \subseteq Cached(cache) \ restored
        PROVE  Cardinality(Cached(cache') \ restored') <= Capacity
    <3>1. IsFiniteSet(Cached(cache) \ restored) /\ IsFiniteSet(Cached(cache') \ restored')
      BY KeysAssumption, FS_Subset DEF Cached
    <3>2. Cardinality(Cached(cache') \ restored') <= Cardinality(Cached(cache) \ restored)
      BY <2>2, <3>1, FS_Subset
    <3>3. /\ Cardinality(Cached(cache) \ restored) \in Nat
          /\ Cardinality(Cached(cache') \ restored') \in Nat
      BY <3>1, FS_CardinalityType
    <3>. QED
      BY <3>2, <3>3, CapacityAssumption DEF CacheBounded
  <2>. DEFINE Fewer == Cached(cache') \ restored' \subseteq Cached(cache) \ restored
  <2>3. ASSUME NEW k \in Keys, touch(k) PROVE Fewer
    BY <2>0, <2>3 DEF touch, Stamped, Cached
  <2>4. ASSUME NEW k \in Keys, load_cache(k) PROVE Fewer
    BY <2>0, <2>4 DEF load_cache, Cached
  <2>5. ASSUME clear_cache PROVE Fewer
    BY <2>5 DEF clear_cache, Cached
  <2>6. ASSUME UNCHANGED lruVars PROVE Fewer
    BY <2>6 DEF lruVars, Cached
  <2>7. ASSUME NEW k \in Keys, insert_persistent_entry(k) PROVE Fewer
    BY <2>0, <2>7 DEF insert_persistent_entry, Cached
  <2>8. ASSUME NEW k \in Keys, ExpiredPersistentEntry(k) PROVE Fewer
    BY <2>8 DEF ExpiredPersistentEntry, Cached
  <2>. QED
    BY <2>1, <2>2, <2>3, <2>4, <2>5, <2>6, <2>7, <2>8 DEF LruNext
<1>. QED
  BY InvInit, InvStep, <1>1, <1>2, PTL DEF LruSpec

-----------------------------------------------------------------------------
(* The fake-IP allocator, for any domains, ranges and failures. That both     *)
(* directions of the mapping agree is inductive by itself. That a connection  *)
(* reaches the domain its address was given to needs Store, which relates     *)
(* memory, tables and what was given: the tables hold everything that the     *)
(* other two know, and only addresses of the range they were written for.     *)

MappingInv == StateOK /\ Bijective

\* The rows are good for range r.
Fits(r) == \A a \in Addr : rows[a] # None => contains(r, a) /\ a # r.last

\* Memory and tables fit the range in use, or the one in the metadata.
Placed ==
    /\ InRange
    /\ range # None => Fits(range) /\ (meta # None => meta.range = range)
    /\ range = None /\ meta # None => Fits(meta.range)

\* The tables hold what is in memory and what was given.
Store ==
    /\ \A a, b \in Addr : rows[a] # None /\ rows[a] = rows[b] => a = b
    /\ \A a \in Addr : by_address[a] # None => rows[a] = by_address[a]
    /\ \A a \in Addr : given[a] # None => rows[a] = given[a]

-----------------------------------------------------------------------------
(* The operators *)

LEMMA NextType ==
  ASSUME NEW a \in Addr \union {None}
  PROVE  next(a) \in Addr \union {None}
BY TopAssumption, NoneAssumption DEF next, Addr

\* An address that is taken is given within the range when the range is roomy.
LEMMA TakenInRange ==
  ASSUME Roomy, StateOK, NEW a \in Addr, NEW d \in Domains, Take(a, d)
  PROVE  contains(range, a) /\ a # range.last
<1>1. range \in Ranges /\ range.net \in Addr /\ range.addr \in Addr /\ range.last \in Addr
  BY RangesAssumption DEF StateOK, Take
<1>2. range.net <= range.addr /\ range.addr + 2 < range.last
  BY <1>1, RangesAssumption DEF Roomy
<1>3. next(range.addr) = range.addr + 1 /\ next(next(range.addr)) = range.addr + 2
  BY <1>1, <1>2, TopAssumption DEF next, Addr
<1>. QED
  BY <1>1, <1>2, <1>3 DEF Take, NextAddress, contains, Addr

\* insert_mapping keeps both directions in agreement and adds only the pair.
LEMMA InsertMapping ==
  ASSUME StateOK, Bijective, NEW a \in Addr, NEW d \in Domains, insert_mapping(a, d)
  PROVE  /\ by_address' \in [Addr -> Domains \union {None}]
         /\ by_domain' \in [Domains -> Addr \union {None}]
         /\ Bijective'
         /\ by_address'[a] = d
         /\ \A x \in Addr : x # a => by_address'[x] \in {by_address[x], None}
<1> DEFINE freed == [x \in Domains |-> IF x = by_address[a] THEN None ELSE by_domain[x]]
           mapped == [by_address EXCEPT ![a] = d]
<1>1. by_domain' = [freed EXCEPT ![d] = a]
  BY DEF insert_mapping
<1>2. by_address' = [x \in Addr |-> IF x = freed[d] /\ x # a /\ mapped[x] = d THEN None ELSE mapped[x]]
  BY DEF insert_mapping
<1>3. by_address \in [Addr -> Domains \union {None}] /\ by_domain \in [Domains -> Addr \union {None}]
  BY DEF StateOK
<1>4. \A x \in Addr : by_address'[x] = IF x = a THEN d ELSE IF x = freed[d] /\ by_address[x] = d THEN None ELSE by_address[x]
  BY <1>2, <1>3
<1>5. \A x \in Domains : by_domain'[x] = IF x = d THEN a ELSE IF x = by_address[a] THEN None ELSE by_domain[x]
  BY <1>1, <1>3
<1>6. freed[d] = IF d = by_address[a] THEN None ELSE by_domain[d]
  OBVIOUS
<1>7. by_address' \in [Addr -> Domains \union {None}] /\ by_domain' \in [Domains -> Addr \union {None}]
  BY <1>1, <1>2, <1>3
<1>8. ASSUME NEW x \in Addr, NEW e \in Domains
      PROVE  (by_address'[x] = e) <=> (by_domain'[e] = x)
  <2>1. (by_address[x] = e) <=> (by_domain[e] = x)
    BY DEF Bijective
  <2>2. (by_address[x] = d) <=> (by_domain[d] = x)
    BY DEF Bijective
  <2>3. (by_address[a] = e) <=> (by_domain[e] = a)
    BY DEF Bijective
  <2>. QED
    BY <1>4, <1>5, <1>6, <2>1, <2>2, <2>3, NoneAssumption
<1>9. Bijective'
  BY <1>8 DEF Bijective
<1>. QED
  BY <1>4, <1>7, <1>9

-----------------------------------------------------------------------------
(* The mapping *)

LEMMA InitInv == FakeIpInit => MappingInv
BY NoneAssumption DEF FakeIpInit, MappingInv, StateOK, Bijective, NoDomains, NoAddresses

LEMMA AllocateInv ==
  ASSUME MappingInv, NEW d \in Domains, NEW a \in Addr, Allocate(a, d)
  PROVE  MappingInv'
<1>1. range \in Ranges /\ range # None
  BY NoneAssumption DEF Allocate, Take, MappingInv, StateOK
<1>2. Bijective' /\ by_address' \in [Addr -> Domains \union {None}] /\ by_domain' \in [Domains -> Addr \union {None}]
  BY InsertMapping DEF Allocate, MappingInv
<1>3. rows' \in [Addr -> Domains \union {None}]
  <2>1. save_fakeip(a, d) \in [Addr -> Domains \union {None}]
    BY DEF save_fakeip, MappingInv, StateOK
  <2>. QED
    BY <2>1 DEF Allocate, Stored, MappingInv, StateOK
<1>4. meta' \in [range: Ranges, current: Addr \union {None}] \union {None}
  <2>1. Position(a) \in [range: Ranges, current: Addr \union {None}]
    BY <1>1 DEF Position
  <2>. QED
    BY <2>1 DEF Allocate, Stored, MappingInv, StateOK
<1>5. given' \in [Addr -> Domains \union {None}]
  BY DEF Allocate, Take, MappingInv, StateOK
<1>. QED
  BY <1>1, <1>2, <1>3, <1>4, <1>5 DEF Allocate, MappingInv, StateOK

LEMMA NextInv ==
  ASSUME MappingInv, [FakeIpNext]_fakeIpVars
  PROVE  MappingInv'
<1>1. CASE UNCHANGED fakeIpVars
  BY <1>1 DEF MappingInv, StateOK, Bijective, fakeIpVars
<1>2. ASSUME NEW r \in Ranges, new_with_cache(r) PROVE MappingInv'
  <2>1. r.addr \in Addr
    BY RangesAssumption
  <2>2. next(r.addr) \in Addr \union {None}
    BY <2>1, NextType
  <2>3. current' \in Addr \union {None}
    BY <1>2, <2>2, NoRowAssumption DEF new_with_cache, Matches, MappingInv, StateOK
  <2>4. [range |-> r, current |-> next(r.addr)] \in [range: Ranges, current: Addr \union {None}]
    BY <2>2
  <2>5. meta' \in [range: Ranges, current: Addr \union {None}] \union {None}
    BY <1>2, <2>4 DEF new_with_cache, MappingInv, StateOK
  <2>6. range' # None
    BY <1>2, NoneAssumption DEF new_with_cache
  <2>. QED
    BY <1>2, <2>3, <2>5, <2>6 DEF new_with_cache, MappingInv, StateOK, Bijective, NoDomains
<1>3. ASSUME NEW r \in Ranges, NoStore(r) PROVE MappingInv'
  BY <1>3 DEF NoStore, memory, MappingInv, StateOK, Bijective, NoDomains
<1>4. ASSUME NEW d \in Domains, Known(d) PROVE MappingInv'
  BY <1>4 DEF Known, memory, MappingInv, StateOK, Bijective
<1>5. ASSUME NEW d \in Domains, Restored(d) PROVE MappingInv'
  <2>1. PICK a \in Addr : insert_mapping(a, d) /\ given' = [given EXCEPT ![a] = d]
    BY <1>5 DEF Restored, load_fakeip_by_domain
  <2>2. Bijective' /\ by_address' \in [Addr -> Domains \union {None}] /\ by_domain' \in [Domains -> Addr \union {None}]
    BY <2>1, InsertMapping DEF MappingInv
  <2>. QED
    BY <1>5, <2>1, <2>2 DEF Restored, MappingInv, StateOK
<1>6. ASSUME NEW d \in Domains, NEW a \in Addr, Allocate(a, d) PROVE MappingInv'
  BY <1>6, AllocateInv
<1>7. ASSUME NEW d \in Domains, NEW a \in Addr, Interrupted(a, d) PROVE MappingInv'
  <2>1. rows' \in [Addr -> Domains \union {None}]
    BY <1>7 DEF Interrupted, save_fakeip, MappingInv, StateOK
  <2>2. Bijective'
    BY <1>7, NoneAssumption DEF Interrupted, NoMemory, NoDomains, NoAddresses, Bijective
  <2>. QED
    BY <1>7, <2>1, <2>2 DEF Interrupted, Take, NoMemory, NoDomains, NoAddresses, MappingInv, StateOK
<1>8. ASSUME NEW a \in Addr, lookup_domain(a) PROVE MappingInv'
  <2>1. rows[a] \in Domains
    BY <1>8 DEF lookup_domain, MappingInv, StateOK
  <2>2. Bijective' /\ by_address' \in [Addr -> Domains \union {None}] /\ by_domain' \in [Domains -> Addr \union {None}]
    BY <1>8, <2>1, InsertMapping DEF lookup_domain, MappingInv
  <2>. QED
    BY <1>8, <2>2 DEF lookup_domain, MappingInv, StateOK
<1>9. CASE reset
  <2>1. Bijective'
    BY <1>9, NoneAssumption DEF reset, NoMemory, NoDomains, NoAddresses, Bijective
  <2>. QED
    BY <1>9, <2>1 DEF reset, NoMemory, NoDomains, NoAddresses, MappingInv, StateOK
<1>10. CASE drop
  <2>1. Bijective'
    BY <1>10, NoneAssumption DEF drop, NoMemory, NoDomains, NoAddresses, Bijective
  <2>. QED
    BY <1>10, <2>1 DEF drop, NoMemory, NoDomains, NoAddresses, MappingInv, StateOK
<1>. QED
  BY <1>1, <1>2, <1>3, <1>4, <1>5, <1>6, <1>7, <1>8, <1>9, <1>10 DEF FakeIpNext

\* For every sequence of operations and failures of create, lookup_domain,
\* reset and restarts, the state has its types and both directions of the
\* mapping agree.
THEOREM MappingCorrect == FakeIpSpec => [](StateOK /\ Bijective)
<1>1. MappingInv /\ [FakeIpNext]_fakeIpVars => MappingInv'
  BY NextInv
<1>. QED
  BY InitInv, <1>1, PTL DEF FakeIpSpec, MappingInv

-----------------------------------------------------------------------------
(* The range *)

LEMMA NextPlaced ==
  ASSUME Roomy, MappingInv, Placed, [FakeIpNext]_fakeIpVars
  PROVE  Placed'
<1>1. CASE UNCHANGED fakeIpVars
  BY <1>1 DEF Placed, InRange, Fits, fakeIpVars
<1>2. ASSUME NEW r \in Ranges, new_with_cache(r) PROVE Placed'
  <2>1. by_address = NoDomains /\ by_address' = NoDomains /\ range' = r /\ r # None
    BY <1>2, NoneAssumption DEF new_with_cache, MappingInv, StateOK
  <2>2. CASE Matches(r)
    BY <1>2, <2>1, <2>2 DEF new_with_cache, Matches, Placed, InRange, Fits, NoDomains
  <2>3. CASE ~Matches(r)
    <3>1. rows' = NoDomains
      BY <1>2, <2>3 DEF new_with_cache
    <3>2. meta' # None => meta'.range = r
      BY <1>2, <2>3 DEF new_with_cache
    <3>. QED
      BY <2>1, <3>1, <3>2 DEF Placed, InRange, Fits, NoDomains
  <2>. QED
    BY <2>2, <2>3
<1>3. ASSUME NEW r \in Ranges, NoStore(r) PROVE Placed'
  BY <1>3 DEF NoStore, memory, Placed, InRange
<1>4. ASSUME NEW d \in Domains, Known(d) PROVE Placed'
  BY <1>4 DEF Known, memory, Placed, InRange, Fits
<1>5. ASSUME NEW d \in Domains, Restored(d) PROVE Placed'
  <2>1. PICK a \in Addr : insert_mapping(a, d) /\ rows[a] = d
    BY <1>5 DEF Restored, load_fakeip_by_domain
  <2>2. \A x \in Addr : x # a => by_address'[x] \in {by_address[x], None}
    BY <2>1, InsertMapping DEF MappingInv
  <2>3. contains(range, a) /\ a # range.last
    BY <1>5, <2>1, NoneAssumption DEF Restored, Placed, Fits
  <2>. QED
    BY <1>5, <2>2, <2>3 DEF Restored, Placed, InRange, Fits
<1>6. ASSUME NEW d \in Domains, NEW a \in Addr, Allocate(a, d) PROVE Placed'
  <2>1. contains(range, a) /\ a # range.last /\ range # None
    BY <1>6, TakenInRange DEF Allocate, Take, MappingInv
  <2>2. \A x \in Addr : x # a => by_address'[x] \in {by_address[x], None}
    BY <1>6, InsertMapping DEF MappingInv, Allocate
  <2>3. \A x \in Addr : x # a => rows'[x] \in {rows[x], None}
    BY <1>6 DEF Allocate, Stored, save_fakeip
  <2>4. meta' # None => meta'.range = range
    BY <1>6, <2>1 DEF Allocate, Stored, Position, Placed
  <2>. QED
    BY <1>6, <2>1, <2>2, <2>3, <2>4 DEF Allocate, Placed, InRange, Fits
<1>7. ASSUME NEW d \in Domains, NEW a \in Addr, Interrupted(a, d) PROVE Placed'
  <2>1. contains(range, a) /\ a # range.last /\ range # None
    BY <1>7, TakenInRange DEF Interrupted, Take, MappingInv
  <2>2. \A x \in Addr : x # a => rows'[x] \in {rows[x], None}
    BY <1>7 DEF Interrupted, save_fakeip
  <2>. QED
    BY <1>7, <2>1, <2>2 DEF Interrupted, Placed, InRange, Fits
<1>8. ASSUME NEW a \in Addr, lookup_domain(a) PROVE Placed'
  <2>1. rows[a] \in Domains
    BY <1>8 DEF lookup_domain, MappingInv, StateOK
  <2>2. \A x \in Addr : x # a => by_address'[x] \in {by_address[x], None}
    BY <1>8, <2>1, InsertMapping DEF lookup_domain, MappingInv
  <2>3. contains(range, a) /\ a # range.last
    BY <1>8, <2>1 DEF lookup_domain, Placed, Fits
  <2>. QED
    BY <1>8, <2>2, <2>3 DEF lookup_domain, Placed, InRange, Fits
<1>9. CASE reset
  BY <1>9 DEF reset, NoMemory, NoDomains, Placed, InRange, Fits
<1>10. CASE drop
  BY <1>10 DEF drop, Placed, InRange, Fits
<1>. QED
  BY <1>1, <1>2, <1>3, <1>4, <1>5, <1>6, <1>7, <1>8, <1>9, <1>10 DEF FakeIpNext

\* When every range has room between its second and its last address, only
\* addresses that is_fake_ip recognises are ever given, whatever fails.
THEOREM RangeCorrect == ASSUME Roomy PROVE FakeIpSpec => []InRange
<1>1. FakeIpInit => Placed
  BY NoneAssumption DEF FakeIpInit, Placed, InRange
<1>2. MappingInv /\ Placed /\ [FakeIpNext]_fakeIpVars => MappingInv' /\ Placed'
  BY NextInv, NextPlaced
<1>3. Placed => InRange
  BY DEF Placed
<1>. QED
  BY InitInv, <1>1, <1>2, <1>3, PTL DEF FakeIpSpec

-----------------------------------------------------------------------------
(* The store *)

LEMMA NextStore ==
  ASSUME Roomy, Persistent, ~StoreFails, MappingInv, Placed, Store, [FakeIpNext]_fakeIpVars
  PROVE  Store'
<1>1. CASE UNCHANGED fakeIpVars
  BY <1>1 DEF Store, fakeIpVars
<1>2. ASSUME NEW r \in Ranges, new_with_cache(r) PROVE Store'
  <2>1. by_address' = NoDomains
    BY <1>2 DEF new_with_cache, MappingInv, StateOK
  <2>. QED
    BY <1>2, <2>1 DEF new_with_cache, Store, NoDomains
<1>3. ASSUME NEW r \in Ranges, NoStore(r) PROVE Store'
  <2>1. by_address' = NoDomains
    BY <1>3 DEF NoStore, memory, MappingInv, StateOK
  <2>. QED
    BY <1>3, <2>1 DEF NoStore, memory, Store, NoDomains
<1>4. ASSUME NEW d \in Domains, Known(d) PROVE Store'
  <2>1. by_domain[d] \in Addr
    BY <1>4 DEF Known, MappingInv, StateOK
  <2>2. by_address[by_domain[d]] = d
    BY <2>1 DEF MappingInv, Bijective
  <2>3. rows[by_domain[d]] = d
    BY <2>1, <2>2, NoneAssumption DEF Store
  <2>4. \A x \in Addr : given'[x] = IF x = by_domain[d] THEN d ELSE given[x]
    BY <1>4 DEF Known, MappingInv, StateOK
  <2>. QED
    BY <1>4, <2>3, <2>4 DEF Known, memory, Store
<1>5. ASSUME NEW d \in Domains, Restored(d) PROVE Store'
  <2>1. PICK a \in Addr : insert_mapping(a, d) /\ rows[a] = d /\ given' = [given EXCEPT ![a] = d]
    BY <1>5 DEF Restored, load_fakeip_by_domain
  <2>2. by_address'[a] = d /\ \A x \in Addr : x # a => by_address'[x] \in {by_address[x], None}
    BY <2>1, InsertMapping DEF MappingInv
  <2>3. \A x \in Addr : given'[x] = IF x = a THEN d ELSE given[x]
    BY <2>1 DEF MappingInv, StateOK
  <2>. QED
    BY <1>5, <2>1, <2>2, <2>3 DEF Restored, Store
<1>6. ASSUME NEW d \in Domains, NEW a \in Addr, Take(a, d), rows' = save_fakeip(a, d),
             \A x \in Addr : x # a => by_address'[x] \in {by_address[x], None},
             by_address'[a] \in {d, None}
      PROVE  Store'
  <2>1. \A x \in Addr : rows'[x] = IF x = a THEN d ELSE IF rows[x] = d THEN None ELSE rows[x]
    BY <1>6 DEF save_fakeip
  <2>2. \A x \in Addr : given'[x] = IF x = a THEN d ELSE given[x]
    BY <1>6 DEF Take, MappingInv, StateOK
  <2>3. \A x \in Addr : rows[x] # d
    BY <1>6, NoneAssumption DEF Take, load_fakeip_by_domain, Placed, Fits
  <2>. QED
    BY <1>6, <2>1, <2>2, <2>3 DEF Store
<1>7. ASSUME NEW d \in Domains, NEW a \in Addr, Allocate(a, d) PROVE Store'
  <2>1. rows' = save_fakeip(a, d)
    BY <1>7 DEF Allocate, Stored
  <2>2. by_address'[a] = d /\ \A x \in Addr : x # a => by_address'[x] \in {by_address[x], None}
    BY <1>7, InsertMapping DEF MappingInv, Allocate
  <2>. QED
    BY <1>6, <1>7, <2>1, <2>2 DEF Allocate
<1>8. ASSUME NEW d \in Domains, NEW a \in Addr, Interrupted(a, d) PROVE Store'
  <2>1. \A x \in Addr : by_address'[x] = None
    BY <1>8 DEF Interrupted, NoMemory, NoDomains
  <2>. QED
    BY <1>6, <1>8, <2>1 DEF Interrupted
<1>9. ASSUME NEW a \in Addr, lookup_domain(a) PROVE Store'
  <2>1. rows[a] \in Domains
    BY <1>9 DEF lookup_domain, MappingInv, StateOK
  <2>2. by_address'[a] = rows[a] /\ \A x \in Addr : x # a => by_address'[x] \in {by_address[x], None}
    BY <1>9, <2>1, InsertMapping DEF lookup_domain, MappingInv
  <2>. QED
    BY <1>9, <2>2 DEF lookup_domain, Store
<1>10. CASE reset
  BY <1>10 DEF reset, NoMemory, NoDomains, Store
<1>11. CASE drop
  BY <1>11 DEF drop, NoMemory, NoDomains, Store
<1>. QED
  BY <1>1, <1>2, <1>3, <1>4, <1>5, <1>7, <1>8, <1>9, <1>10, <1>11 DEF FakeIpNext

LEMMA FaultsStay ==
  ASSUME [FakeIpNext]_fakeIpVars
  PROVE  faults' = faults
BY DEF FakeIpNext, fakeIpVars, new_with_cache, NoStore, Known, Restored, Allocate, Interrupted, lookup_domain, reset, drop

\* With a cache on disk, a connection to an address goes to the domain that was
\* last given the address as long as the store does not fail, across any
\* number of restarts, crashes between two writes, evictions and resets.
THEOREM RoutingCorrect == ASSUME Roomy, Persistent PROVE FakeIpSpec => []Routed
<1>1. FakeIpInit => Placed /\ Store
  BY NoneAssumption DEF FakeIpInit, Placed, InRange, Store, NoDomains
<1>2. MappingInv /\ Placed /\ (~StoreFails => Store) /\ [FakeIpNext]_fakeIpVars => MappingInv' /\ Placed' /\ (~StoreFails => Store)'
  <2>. SUFFICES ASSUME MappingInv, Placed, ~StoreFails => Store, [FakeIpNext]_fakeIpVars
                PROVE  MappingInv' /\ Placed' /\ (~StoreFails' => Store')
    OBVIOUS
  <2>1. StoreFails' = StoreFails
    BY FaultsStay DEF StoreFails
  <2>2. CASE StoreFails
    BY <2>1, <2>2, NextInv, NextPlaced
  <2>3. CASE ~StoreFails
    BY <2>3, NextInv, NextPlaced, NextStore
  <2>. QED
    BY <2>2, <2>3
<1>3. Placed /\ (~StoreFails => Store) => Routed
  BY DEF Placed, Fits, Store, Routed, Found
<1>4. FakeIpInit => MappingInv /\ Placed /\ (~StoreFails => Store)
  BY InitInv, <1>1
<1>. QED
  BY <1>2, <1>3, <1>4, PTL DEF FakeIpSpec

-----------------------------------------------------------------------------
(* The rotation *)

\* The position c of range r: every address of the rotation after x, up to c, was
\* given since x was.
Turned(r, c, s) ==
    /\ c \in r.addr + 1 .. r.last - 1
    /\ \A x \in Addr, y \in Rotation(r) :
           (x < y /\ y <= c) \/ (c < x /\ (x < y \/ y <= c)) => y \in s[x]

\* The position in memory is good, and the one in the metadata is the same, or
\* good when there is no resolver.
InTurn ==
    /\ since \in [Addr -> SUBSET Addr]
    /\ range # None => Turned(range, current, since)
    /\ range # None /\ meta # None => meta.range = range /\ meta.current = current
    /\ range = None /\ meta # None => Turned(meta.range, meta.current, since)
    /\ ~Persistent => meta = None

LEMMA NextNumber ==
  ASSUME NEW c \in Nat, c < Top
  PROVE  next(c) = c + 1
<1>1. c \in Addr
  BY TopAssumption DEF Addr
<1>. QED
  BY <1>1 DEF next

\* What a range is, and its first position.
LEMMA RangeNumbers ==
  ASSUME Roomy, NEW r \in Ranges
  PROVE  /\ r.net \in Nat /\ r.addr \in Nat /\ r.last \in Nat
         /\ r.net <= r.addr /\ r.addr + 2 < r.last /\ r.last <= Top
         /\ next(r.addr) = r.addr + 1 /\ next(next(r.addr)) = r.addr + 2
<1>1. r.net \in Addr /\ r.addr \in Addr /\ r.last \in Addr /\ r.net <= r.addr
  BY RangesAssumption
<1>2. r.addr + 2 < r.last
  BY DEF Roomy
<1>. QED
  BY <1>1, <1>2, TopAssumption DEF next, Addr

\* Nothing was given: every position of the range is good.
LEMMA FreshPosition ==
  ASSUME Roomy, NEW r \in Ranges, NEW c \in r.addr + 1 .. r.last - 1
  PROVE  Turned(r, c, NeverGiven)
<1>1. Rotation(r) \subseteq Addr
  BY RangeNumbers, TopAssumption DEF Rotation, Addr
<1>. QED
  BY <1>1 DEF Turned, NeverGiven

\* The address that is taken is the next one of the rotation, and it is its turn;
\* afterwards the position is good again.
LEMMA TakenInTurn ==
  ASSUME Roomy, StateOK, InTurn, NEW a \in Addr, NEW d \in Domains, Take(a, d)
  PROVE  Turn(a) /\ range \in Ranges /\ Turned(range, a, since') /\ since' \in [Addr -> SUBSET Addr]
<1>1. range \in Ranges /\ range # None /\ Turned(range, current, since) /\ since \in [Addr -> SUBSET Addr]
  BY DEF Take, StateOK, InTurn
<1>2. /\ range.net \in Nat /\ range.addr \in Nat /\ range.last \in Nat
      /\ range.net <= range.addr /\ range.addr + 2 < range.last /\ range.last <= Top
      /\ next(next(range.addr)) = range.addr + 2
  BY <1>1, RangeNumbers
<1>3. current \in range.addr + 1 .. range.last - 1
  BY <1>1 DEF Turned
<1>4. next(current) = current + 1 /\ contains(range, current + 1)
  <2>1. current \in Nat /\ current < Top /\ range.net <= current + 1 /\ current + 1 <= range.last
    BY <1>2, <1>3, TopAssumption
  <2>2. next(current) = current + 1
    BY <2>1, NextNumber
  <2>3. contains(range, current + 1)
    BY <1>2, <2>1 DEF contains
  <2>. QED
    BY <2>2, <2>3
<1>5. a = IF current + 1 = range.last THEN range.addr + 2 ELSE current + 1
  BY <1>2, <1>4 DEF Take, NextAddress
<1>6. \A x \in Addr, y \in Rotation(range) :
          (x < y /\ y <= current) \/ (current < x /\ (x < y \/ y <= current)) => y \in since[x]
  BY <1>1 DEF Turned
<1>7. since' = [x \in Addr |-> IF x = a THEN {} ELSE since[x] \union {a}]
  BY DEF Take
<1>8. since' \in [Addr -> SUBSET Addr]
  BY <1>1, <1>7
<1>9. \A x \in Addr : x \in Nat
  BY TopAssumption DEF Addr
<1>10. Turn(a)
  <2>. SUFFICES ASSUME NEW y \in Rotation(range), y # a PROVE y \in since[a]
    BY DEF Turn
  <2>1. (a < y /\ y <= current) \/ (current < a /\ (a < y \/ y <= current))
    BY <1>2, <1>3, <1>5, <1>9 DEF Rotation
  <2>. QED
    BY <1>6, <2>1
<1>11. a \in range.addr + 1 .. range.last - 1
  BY <1>2, <1>3, <1>5
<1>12. ASSUME NEW x \in Addr, NEW y \in Rotation(range),
              (x < y /\ y <= a) \/ (a < x /\ (x < y \/ y <= a))
       PROVE  y \in since'[x]
  <2>1. x # a
    BY <1>2, <1>9, <1>12 DEF Rotation
  <2>2. since'[x] = since[x] \union {a}
    BY <1>7, <2>1
  <2>3. y = a \/ (x < y /\ y <= current) \/ (current < x /\ (x < y \/ y <= current))
    BY <1>2, <1>3, <1>5, <1>9, <1>12, <2>1 DEF Rotation
  <2>. QED
    BY <1>6, <2>2, <2>3
<1>13. Turned(range, a, since')
  BY <1>11, <1>12 DEF Turned
<1>. QED
  BY <1>1, <1>8, <1>10, <1>13

LEMMA NextInTurn ==
  ASSUME Roomy, MappingInv, InTurn, faults = {}, [FakeIpNext]_fakeIpVars
  PROVE  InTurn'
<1>11. ~StoreFails /\ ~Crashes
  BY DEF StoreFails, Crashes
<1>12. StateOK
  BY DEF MappingInv
<1>13. NeverGiven \in [Addr -> SUBSET Addr]
  BY DEF NeverGiven
<1>1. CASE UNCHANGED fakeIpVars
  BY <1>1 DEF InTurn, Turned, fakeIpVars
<1>2. ASSUME NEW r \in Ranges, new_with_cache(r) PROVE InTurn'
  <2>1. range = None /\ range' = r /\ r # None
    BY <1>2, NoneAssumption DEF new_with_cache
  <2>2. CASE Matches(r)
    BY <1>2, <2>1, <2>2 DEF new_with_cache, Matches, InTurn, Turned
  <2>3. CASE ~Matches(r)
    <3>1. /\ current' = next(r.addr) /\ since' = NeverGiven
          /\ meta' = IF Persistent THEN [range |-> r, current |-> next(r.addr)] ELSE None
      BY <1>2, <2>3 DEF new_with_cache
    <3>2. next(r.addr) \in r.addr + 1 .. r.last - 1
      BY RangeNumbers
    <3>3. Turned(r, next(r.addr), NeverGiven)
      BY <3>2, FreshPosition
    <3>. QED
      BY <1>13, <2>1, <3>1, <3>3 DEF InTurn
  <2>. QED
    BY <2>2, <2>3
<1>3. ASSUME NEW r \in Ranges, NoStore(r) PROVE InTurn'
  BY <1>11, <1>3 DEF NoStore
<1>4. ASSUME NEW d \in Domains, Known(d) PROVE InTurn'
  BY <1>4 DEF Known, memory, InTurn
<1>5. ASSUME NEW d \in Domains, Restored(d) PROVE InTurn'
  BY <1>5 DEF Restored, InTurn
<1>6. ASSUME NEW d \in Domains, NEW a \in Addr, Allocate(a, d) PROVE InTurn'
  <2>1. range # None /\ range' = range /\ current' = a /\ Take(a, d)
    BY <1>6 DEF Allocate, Take
  <2>2. Turned(range, a, since') /\ since' \in [Addr -> SUBSET Addr]
    BY <1>12, <2>1, TakenInTurn
  <2>3. meta' = IF Persistent THEN [range |-> range, current |-> a] ELSE meta
    BY <1>11, <1>6 DEF Allocate, Stored, Position
  <2>. QED
    BY <2>1, <2>2, <2>3 DEF InTurn
<1>7. ASSUME NEW d \in Domains, NEW a \in Addr, Interrupted(a, d) PROVE InTurn'
  BY <1>11, <1>7 DEF Interrupted
<1>8. ASSUME NEW a \in Addr, lookup_domain(a) PROVE InTurn'
  BY <1>8 DEF lookup_domain, InTurn
<1>9. CASE reset
  <2>1. range # None /\ range \in Ranges /\ current \in range.addr + 1 .. range.last - 1
    BY <1>12, <1>9 DEF reset, StateOK, InTurn, Turned
  <2>2. Turned(range, current, NeverGiven)
    BY <2>1, FreshPosition
  <2>3. range' = range /\ current' = current /\ since' = NeverGiven /\ meta' = None
    BY <1>11, <1>9 DEF reset
  <2>. QED
    BY <1>13, <2>1, <2>2, <2>3 DEF InTurn
<1>10. CASE drop
  <2>1. range # None /\ range' = None /\ meta' = meta
    BY <1>10 DEF drop
  <2>2. since' = IF Persistent THEN since ELSE NeverGiven
    BY <1>10 DEF drop
  <2>. QED
    BY <1>13, <2>1, <2>2 DEF InTurn
<1>. QED
  BY <1>1, <1>2, <1>3, <1>4, <1>5, <1>6, <1>7, <1>8, <1>9, <1>10 DEF FakeIpNext

\* When every range has room and nothing fails, create gives an address to
\* another domain only after every other address of the range was given, over
\* any number of restarts and resets.
THEOREM RotationCorrect == ASSUME Roomy PROVE FakeIpSpec => OldestFirst
<1>. DEFINE Safe == faults = {} => InTurn
            InOrderOfTurns == \A a \in Addr, d \in Domains : Take(a, d) /\ faults = {} => Turn(a)
<1>1. FakeIpInit => Safe
  BY NoneAssumption DEF FakeIpInit, InTurn, NeverGiven
<1>2. MappingInv /\ Safe /\ [FakeIpNext]_fakeIpVars => Safe'
  BY FaultsStay, NextInTurn
<1>3. MappingInv /\ Safe /\ [FakeIpNext]_fakeIpVars => [InOrderOfTurns]_fakeIpVars
  BY TakenInTurn DEF MappingInv
<1>4. MappingInv /\ [FakeIpNext]_fakeIpVars => MappingInv'
  BY NextInv
<1>. QED
  BY InitInv, <1>1, <1>2, <1>3, <1>4, PTL DEF FakeIpSpec, OldestFirst

-----------------------------------------------------------------------------
(* The outbound groups, for any groups, configurations and callers. A refresh *)
(* that tests holds the check lock, so that no other one finishes a check in  *)
(* between; a dial takes choice and token of a URL test in one step, and a    *)
(* refresh moves both in one.                                                 *)

\* The members of the configured groups are configured.
LEMMA MembersOK ==
  ASSUME setup \in Setups
  PROVE  /\ DOMAIN Members \subseteq Groups /\ Root \in DOMAIN Members
         /\ Configured \subseteq Tags
         /\ \A g \in DOMAIN Members : /\ Range(Members[g]) \subseteq Configured
                                      /\ Members[g][1] \in Range(Members[g])
                                      /\ DOMAIN Members[g] \subseteq Nat
<1>1. /\ DOMAIN Members \subseteq Groups /\ Root \in DOMAIN Members
      /\ \A g \in DOMAIN Members : Members[g] \in Seq(Configured) /\ Members[g] # <<>>
  BY GroupsAssumption DEF Members, Root, Configured
<1>2. Configured \subseteq Tags
  BY <1>1 DEF Configured, Tags
<1>3. ASSUME NEW g \in DOMAIN Members
      PROVE  /\ Range(Members[g]) \subseteq Configured
             /\ Members[g][1] \in Range(Members[g])
             /\ DOMAIN Members[g] \subseteq Nat
  <2>. DEFINE m == Members[g]
  <2>1. m \in Seq(Configured) /\ m # <<>>
    BY <1>1
  <2>. HIDE DEF m
  <2>2. DOMAIN m = 1 .. Len(m) /\ Len(m) \in Nat /\ Len(m) # 0 /\ \A i \in 1 .. Len(m) : m[i] \in Configured
    BY <2>1, LenProperties, EmptySeq
  <2>3. Range(m) \subseteq Configured /\ m[1] \in Range(m) /\ DOMAIN m \subseteq Nat
    BY <2>2 DEF Range
  <2>. QED
    BY <2>3 DEF m
<1>. QED
  BY <1>1, <1>2, <1>3

LEMMA FirstIsMember ==
  ASSUME setup \in Setups, ChoicesOK, NEW g \in DOMAIN Members
  PROVE  selected_or_first(g) \in Range(Members[g])
BY MembersOK DEF ChoicesOK, selected_or_first

\* The choice of a refresh is a member of the group.
LEMMA BestIsMember ==
  ASSUME setup \in Setups, ChoicesOK, NEW g \in DOMAIN Members,
         NEW h \in [Leaves -> Delays \union {Absent}]
  PROVE  Best(g, h) \in Range(Members[g])
<1>. DEFINE of(i) == Lookup(h, Members[g][i])
            M == Measured(g, h)
            first(i) == \A j \in M : of(i) < of(j) \/ (of(i) = of(j) /\ i <= j)
<1>1. \A tag : Lookup(h, tag) \in Delays \union {Absent}
  BY DEF Lookup
<1>2. M \subseteq DOMAIN Members[g] /\ M \subseteq Nat /\ \A i \in M : of(i) \in Nat
  BY <1>1, MembersOK, DelaysAssumption DEF Measured
<1>3. ASSUME M # {} PROVE Fastest(g, h) \in Range(Members[g])
  <2>1. PICK t \in {of(i) : i \in M} : \A u \in {of(i) : i \in M} : t <= u
    <3>1. {of(i) : i \in M} \in SUBSET Nat /\ {of(i) : i \in M} # {}
      BY <1>2, <1>3
    <3>. QED
      BY <3>1, LeastNatural
  <2>2. PICK k \in {i \in M : of(i) = t} : \A j \in {i \in M : of(i) = t} : k <= j
    <3>1. {i \in M : of(i) = t} \in SUBSET Nat /\ {i \in M : of(i) = t} # {}
      BY <1>2, <2>1
    <3>. QED
      BY <3>1, LeastNatural
  <2>3. k \in M /\ first(k)
    <3>1. \A j \in M : t <= of(j) /\ of(j) \in Nat
      BY <1>2, <2>1
    <3>2. of(k) = t /\ t \in Nat /\ k \in M
      BY <1>2, <2>2
    <3>3. \A j \in M : of(j) = t => k <= j
      BY <2>2
    <3>. QED
      BY <3>1, <3>2, <3>3
  <2>4. (CHOOSE i \in M : first(i)) \in M
    BY <2>3
  <2>5. Fastest(g, h) = Members[g][CHOOSE i \in M : first(i)]
    BY DEF Fastest
  <2>. QED
    BY <1>2, <2>4, <2>5 DEF Range
<1>4. keep_current(g, h) => chosen[g] \in Range(Members[g])
  BY DEF keep_current, ChoicesOK
<1>. QED
  BY <1>3, <1>4, FirstIsMember DEF Best

\* What a refresh inserts into the history has no probe under way.
LEMMA MergedOK ==
  ASSUME GroupsInv, NEW g \in UrlTests, NEW c \in Callers, Joined(g, c)
  PROVE  Merged(g, c) \in [Leaves -> Delays \union {Absent}]
<1>1. /\ call[g][c] \in Calls
      /\ \A l \in Leaves : call[g][c].got[l] # Pending
  BY DEF GroupsInv, CallOK, Joined, Tested
<1>2. \A l \in Leaves : call[g][c].got[l] \in Delays \union {Absent}
  BY <1>1 DEF Calls
<1>3. \A n \in Nested(g), l \in Leaves : call[n][g].got[l] \in Delays \union {Absent}
  <2>. SUFFICES ASSUME NEW n \in Nested(g), NEW l \in Leaves PROVE call[n][g].got[l] \in Delays \union {Absent}
    OBVIOUS
  <2>1. n \in UrlTests /\ g \in Callers
    BY DEF Nested, Callers
  <2>2. call[n][g].pc = "returned"
    BY DEF Joined
  <2>3. call[n][g] \in Calls /\ call[n][g].got[l] # Pending
    <3>1. CallOK(n, g)
      BY <2>1 DEF GroupsInv
    <3>. QED
      BY <2>2, <3>1 DEF CallOK
  <2>. QED
    BY <2>3 DEF Calls
<1>4. ASSUME NEW l \in Leaves PROVE Merged(g, c)[l] \in Delays \union {Absent}
  <2>. DEFINE returned == {n \in Nested(g) : call[n][g].got[l] # Absent}
  <2>1. Merged(g, c)[l] = CASE returned # {} -> call[CHOOSE n \in returned : TRUE][g].got[l]
                            [] returned = {} /\ l \in Targets(g) -> call[g][c].got[l]
                            [] OTHER -> history[g][l]
    BY DEF Merged
  <2>2. CASE returned # {}
    <3>1. (CHOOSE n \in returned : TRUE) \in Nested(g)
      BY <2>2
    <3>. QED
      BY <1>3, <2>1, <2>2, <3>1
  <2>3. CASE returned = {} /\ l \in Targets(g)
    BY <1>2, <2>1, <2>3
  <2>4. CASE returned = {} /\ l \notin Targets(g)
    <3>1. Merged(g, c)[l] = history[g][l]
      BY <2>1, <2>4
    <3>. QED
      BY <3>1 DEF GroupsInv
  <2>. QED
    BY <2>2, <2>3, <2>4
<1>5. Merged(g, c) = [l \in Leaves |-> Merged(g, c)[l]]
  BY DEF Merged
<1>. QED
  BY <1>4, <1>5
-----------------------------------------------------------------------------
(* The refreshes *)

\* A call with its fields.
LEMMA CallFields ==
  ASSUME NEW pc \in {"idle", "locking", "testing", "nesting", "returned"}, NEW force \in BOOLEAN,
         NEW got \in [Leaves -> Delays \union {Absent, Pending}]
  PROVE  /\ Call(pc, force, got) \in Calls
         /\ Call(pc, force, got).pc = pc /\ Call(pc, force, got).force = force
         /\ Call(pc, force, got).got = got
BY DEF Call, Calls

\* A call that neither tests nor has a probe under way.
Quiet(r) ==
    /\ r \in Calls /\ r.pc \notin {"testing", "nesting"}
    /\ \A l \in Leaves : r.got[l] # Pending

LEMMA QuietFields ==
  ASSUME NEW pc \in {"idle", "locking", "returned"}, NEW force \in BOOLEAN,
         NEW got \in [Leaves -> Delays \union {Absent, Pending}], \A l \in Leaves : got[l] # Pending
  PROVE  Quiet(Call(pc, force, got))
BY CallFields DEF Quiet

LEMMA ReturnIsQuiet ==
  ASSUME NEW g \in UrlTests, NEW c \in Callers, NEW result \in [Leaves -> Delays \union {Absent}]
  PROVE  Quiet(Return(g, c, result)) /\ Quiet(NoCall)
<1>1. /\ result \in [Leaves -> Delays \union {Absent, Pending}] /\ \A l \in Leaves : result[l] # Pending
      /\ NoDelays \in [Leaves -> Delays \union {Absent, Pending}] /\ \A l \in Leaves : NoDelays[l] # Pending
  BY DelaysAssumption DEF NoDelays
<1>2. Quiet(Call("returned", FALSE, result))
  BY <1>1, QuietFields
<1>3. Quiet(NoCall)
  BY <1>1, QuietFields DEF NoCall
<1>. QED
  BY <1>2, <1>3 DEF Return

LEMMA BeginIsQuiet ==
  ASSUME GroupsInv, NEW g \in UrlTests, NEW c \in Callers, NEW force \in BOOLEAN
  PROVE  Quiet(Begin(g, c, force))
<1>1. NoDelays \in [Leaves -> Delays \union {Absent, Pending}] /\ \A l \in Leaves : NoDelays[l] # Pending
  BY DelaysAssumption DEF NoDelays
<1>2. Quiet(Call("locking", force, NoDelays))
  BY <1>1, QuietFields
<1>3. Quiet(Return(g, c, history[g]))
  BY ReturnIsQuiet DEF GroupsInv
<1>. QED
  BY <1>2, <1>3 DEF Begin

LEMMA QuietIsOK ==
  ASSUME NEW g, NEW c, Quiet(call'[g][c])
  PROVE  CallOK(g, c)'
BY DEF Quiet, CallOK

\* A call that did not move.
LEMMA CallStays ==
  ASSUME NEW g, NEW c, CallOK(g, c), call'[g][c] = call[g][c],
         \/ check'[g] = check[g] /\ (fresh'[g] => fresh[g])
         \/ call[g][c].pc \notin {"testing", "nesting"}
  PROVE  CallOK(g, c)'
BY DEF CallOK

\* What the invariant says of one refresh.
LEMMA OneCall ==
  ASSUME GroupsInv, NEW g \in UrlTests, NEW c \in Callers
  PROVE  /\ CallOK(g, c) /\ call[g][c] \in Calls /\ call[g][c].force \in BOOLEAN
         /\ call[g][c].got \in [Leaves -> Delays \union {Absent, Pending}]
         /\ (call[g][c].pc \in {"testing", "nesting"} => check[g] = c)
<1>1. CallOK(g, c)
  BY DEF GroupsInv
<1>2. call[g][c] \in Calls
  BY <1>1 DEF CallOK
<1>3. call[g][c].force \in BOOLEAN /\ call[g][c].got \in [Leaves -> Delays \union {Absent, Pending}]
  BY <1>2 DEF Calls
<1>. QED
  BY <1>1, <1>2, <1>3 DEF CallOK

CallsOK == call \in [UrlTests -> [Callers -> Calls]] /\ \A g \in UrlTests, c \in Callers : CallOK(g, c)

\* All calls but one stay as they are.
LEMMA CallMoves ==
  ASSUME GroupsInv, NEW g \in UrlTests, NEW c \in Callers, NEW r \in Calls,
         call' = [call EXCEPT ![g][c] = r],
         CallOK(g, c)',
         \A h \in UrlTests : \/ check'[h] = check[h] /\ (fresh'[h] => fresh[h])
                             \/ h = g /\ \A k \in Callers : k # c => call[g][k].pc \notin {"testing", "nesting"}
  PROVE  CallsOK'
<1>1. call \in [UrlTests -> [Callers -> Calls]]
  BY DEF GroupsInv
<1>2. call' \in [UrlTests -> [Callers -> Calls]]
  BY <1>1
<1>3. ASSUME NEW h \in UrlTests, NEW k \in Callers PROVE CallOK(h, k)'
  <2>1. CASE h = g /\ k = c
    BY <2>1
  <2>2. CASE ~(h = g /\ k = c)
    <3>1. call'[h][k] = call[h][k]
      BY <1>1, <2>2
    <3>2. \/ check'[h] = check[h] /\ (fresh'[h] => fresh[h])
          \/ call[h][k].pc \notin {"testing", "nesting"}
      BY <2>2
    <3>3. CallOK(h, k)
      BY OneCall
    <3>. QED
      BY <3>1, <3>2, <3>3, CallStays
  <2>. QED
    BY <2>1, <2>2
<1>. QED
  BY <1>2, <1>3 DEF CallsOK

\* The calls stay, and no group is found to be fresh.
LEMMA CallsStay ==
  ASSUME GroupsInv, call' = call, check' = check, \A h \in UrlTests : fresh'[h] => fresh[h]
  PROVE  CallsOK'
<1>1. ASSUME NEW h \in UrlTests, NEW k \in Callers PROVE CallOK(h, k)'
  BY OneCall, CallStays
<1>. QED
  BY <1>1 DEF CallsOK, GroupsInv

LEMMA LockKeepsCalls ==
  ASSUME GroupsInv, NEW g \in UrlTests, NEW c \in Callers, Lock(g, c)
  PROVE  CallsOK' /\ check' \in [UrlTests -> Callers \union {Absent}]
<1>1. /\ call[g][c].pc = "locking" /\ check[g] = Absent /\ fresh' = fresh
      /\ check \in [UrlTests -> Callers \union {Absent}]
  BY DEF Lock, groupVars, GroupsInv
<1>2. CASE ~call[g][c].force /\ fresh[g]
  <2>1. call' = [call EXCEPT ![g][c] = Return(g, c, history[g])] /\ check' = check
    BY <1>2 DEF Lock
  <2>2. Quiet(Return(g, c, history[g]))
    BY ReturnIsQuiet DEF GroupsInv
  <2>3. call'[g][c] = Return(g, c, history[g])
    BY <2>1 DEF GroupsInv
  <2>4. CallOK(g, c)'
    BY <2>2, <2>3, QuietIsOK
  <2>. QED
    BY <1>1, <2>1, <2>2, <2>4, CallMoves DEF Quiet
<1>3. CASE ~(~call[g][c].force /\ fresh[g])
  <2>. DEFINE r == Call("testing", call[g][c].force, ToProbe(g))
  <2>1. call' = [call EXCEPT ![g][c] = r] /\ check' = [check EXCEPT ![g] = c]
    BY <1>3 DEF Lock
  <2>2. ToProbe(g) \in [Leaves -> Delays \union {Absent, Pending}]
    BY DEF ToProbe
  <2>3. r \in Calls /\ r.pc = "testing" /\ r.force = call[g][c].force
    BY <2>2, OneCall, CallFields
  <2>. HIDE DEF r
  <2>4. call'[g][c] = r /\ check'[g] = c /\ \A h \in UrlTests : h # g => check'[h] = check[h]
    BY <1>1, <2>1 DEF GroupsInv
  <2>5. ~r.force => ~fresh'[g]
    BY <1>1, <1>3, <2>3
  <2>6. CallOK(g, c)'
    BY <2>3, <2>4, <2>5 DEF CallOK
  <2>7. \A k \in Callers : call[g][k].pc \notin {"testing", "nesting"}
    BY <1>1, OneCall, KindsAssumption
  <2>. QED
    BY <1>1, <2>1, <2>3, <2>4, <2>6, <2>7, CallMoves
<1>. QED
  BY <1>2, <1>3

LEMMA ProbeKeepsCalls ==
  ASSUME GroupsInv, NEW g \in UrlTests, NEW c \in Callers, NEW l \in Leaves, Probe(g, c, l)
  PROVE  CallsOK'
<1>. DEFINE got == [call[g][c].got EXCEPT ![l] = delay[l]]
            r == Call("testing", call[g][c].force, got)
<1>1. /\ call[g][c].pc = "testing" /\ fresh' = fresh /\ check' = check
      /\ call' = [call EXCEPT ![g][c] = r]
  BY DEF Probe, groupVars
<1>2. got \in [Leaves -> Delays \union {Absent, Pending}]
  BY OneCall DEF GroupsInv
<1>3. r \in Calls /\ r.pc = "testing" /\ r.force = call[g][c].force
  BY <1>2, OneCall, CallFields
<1>. HIDE DEF r, got
<1>4. call'[g][c] = r
  BY <1>1 DEF GroupsInv
<1>5. CallOK(g, c)'
  BY <1>1, <1>3, <1>4, OneCall DEF CallOK
<1>. QED
  BY <1>1, <1>3, <1>5, CallMoves

LEMMA NestKeepsCalls ==
  ASSUME GroupsInv, NEW g \in UrlTests, NEW c \in Callers, Nest(g, c)
  PROVE  CallsOK'
<1>. DEFINE r == Call("nesting", call[g][c].force, call[g][c].got)
<1>1. /\ Tested(g, c) /\ fresh' = fresh /\ check' = check
      /\ call' = [h \in UrlTests |-> [k \in Callers |->
             IF h = g /\ k = c THEN r
             ELSE IF h \in Nested(g) /\ k = g THEN Begin(h, g, call[g][c].force)
             ELSE call[h][k]]]
  BY DEF Nest, groupVars
<1>2. /\ r \in Calls /\ r.pc = "nesting" /\ r.force = call[g][c].force
      /\ \A l \in Leaves : r.got[l] # Pending
  BY <1>1, OneCall, CallFields DEF Tested
<1>. HIDE DEF r
<1>3. ASSUME NEW h \in UrlTests, NEW k \in Callers PROVE CallOK(h, k)' /\ call'[h][k] \in Calls
  <2>1. CASE h = g /\ k = c
    <3>1. call'[g][c] = r
      BY <1>1
    <3>. QED
      BY <1>1, <1>2, <2>1, <3>1, OneCall DEF CallOK, Tested
  <2>2. CASE ~(h = g /\ k = c) /\ h \in Nested(g) /\ k = g
    <3>1. call'[h][k] = Begin(h, g, call[g][c].force)
      BY <1>1, <2>2
    <3>2. Quiet(Begin(h, g, call[g][c].force))
      BY <2>2, OneCall, BeginIsQuiet
    <3>. QED
      BY <3>1, <3>2, QuietIsOK DEF Quiet
  <2>3. CASE ~(h = g /\ k = c) /\ ~(h \in Nested(g) /\ k = g)
    <3>1. call'[h][k] = call[h][k]
      BY <1>1, <2>3
    <3>. QED
      BY <1>1, <3>1, OneCall, CallStays
  <2>. QED
    BY <2>1, <2>2, <2>3
<1>4. call' \in [UrlTests -> [Callers -> Calls]]
  <2>1. call' = [h \in UrlTests |-> [k \in Callers |-> call'[h][k]]]
    BY <1>1
  <2>. QED
    BY <1>3, <2>1
<1>. QED
  BY <1>3, <1>4 DEF CallsOK

LEMMA ApplyKeepsCalls ==
  ASSUME GroupsInv, NEW g \in UrlTests, NEW c \in Callers, Apply(g, c)
  PROVE  CallsOK'
<1>. DEFINE m == Merged(g, c)
<1>1. /\ Joined(g, c) /\ fresh' = [fresh EXCEPT ![g] = TRUE] /\ check' = [check EXCEPT ![g] = Absent]
      /\ call' = [h \in UrlTests |-> [k \in Callers |->
             IF h = g /\ k = c THEN Return(g, c, m)
             ELSE IF h \in Nested(g) /\ k = g THEN NoCall
             ELSE call[h][k]]]
  BY DEF Apply
<1>2. m \in [Leaves -> Delays \union {Absent}]
  BY <1>1, MergedOK
<1>. HIDE DEF m
<1>3. Quiet(Return(g, c, m)) /\ Quiet(NoCall)
  BY <1>2, ReturnIsQuiet
<1>4. check[g] = c
  BY <1>1, OneCall DEF Joined, Tested
<1>5. \A h \in UrlTests : h # g => check'[h] = check[h] /\ fresh'[h] = fresh[h]
  BY <1>1 DEF GroupsInv
<1>6. ASSUME NEW h \in UrlTests, NEW k \in Callers PROVE CallOK(h, k)' /\ call'[h][k] \in Calls
  <2>1. CASE h = g /\ k = c
    <3>1. call'[h][k] = Return(g, c, m)
      BY <1>1, <2>1
    <3>. QED
      BY <1>3, <3>1, QuietIsOK DEF Quiet
  <2>2. CASE ~(h = g /\ k = c) /\ h \in Nested(g) /\ k = g
    <3>1. call'[h][k] = NoCall
      BY <1>1, <2>2
    <3>. QED
      BY <1>3, <3>1, QuietIsOK DEF Quiet
  <2>3. CASE ~(h = g /\ k = c) /\ ~(h \in Nested(g) /\ k = g)
    <3>1. call'[h][k] = call[h][k]
      BY <1>1, <2>3
    <3>2. \/ check'[h] = check[h] /\ (fresh'[h] => fresh[h])
          \/ call[h][k].pc \notin {"testing", "nesting"}
      BY <1>4, <1>5, <2>3, OneCall
    <3>. QED
      BY <3>1, <3>2, OneCall, CallStays
  <2>. QED
    BY <2>1, <2>2, <2>3
<1>7. call' \in [UrlTests -> [Callers -> Calls]]
  <2>1. call' = [h \in UrlTests |-> [k \in Callers |-> call'[h][k]]]
    BY <1>1
  <2>. QED
    BY <1>6, <2>1
<1>. QED
  BY <1>6, <1>7 DEF CallsOK

-----------------------------------------------------------------------------
(* The dials *)

LEMMA ConnFields ==
  ASSUME NEW pc \in {"idle", "entering", "open", "failing"}, NEW ext \in BOOLEAN,
         NEW read \in Tags \union {Absent}, NEW hops \in Seq(Hop)
  PROVE  /\ Conn(pc, ext, read, hops) \in Conns
         /\ Conn(pc, ext, read, hops).pc = pc /\ (Conn(pc, ext, read, hops).ext <=> ext)
         /\ Conn(pc, ext, read, hops).read = read /\ Conn(pc, ext, read, hops).hops = hops
BY DEF Conn, Conns

\* A connection with other hops.
LEMMA ConnLike ==
  ASSUME NEW c \in Conns, NEW hops \in Seq(Hop)
  PROVE  /\ Conn(c.pc, c.ext, c.read, hops) \in Conns
         /\ Conn(c.pc, c.ext, c.read, hops).pc = c.pc /\ (Conn(c.pc, c.ext, c.read, hops).ext <=> c.ext)
         /\ Conn(c.pc, c.ext, c.read, hops).read = c.read /\ Conn(c.pc, c.ext, c.read, hops).hops = hops
BY DEF Conn, Conns

ConnsOK ==
    /\ conn \in [Dialers -> Conns]
    /\ \A d \in Dialers : ConnOK(conn[d]) /\ Through(conn[d])

\* What the invariant says of one dial.
LEMMA OneConn ==
  ASSUME GroupsInv, NEW d \in Dialers
  PROVE  /\ ConnOK(conn[d]) /\ Through(conn[d]) /\ conn[d] \in Conns
         /\ conn[d].pc \in {"idle", "entering", "open", "failing"} /\ conn[d].ext \in BOOLEAN
         /\ conn[d].read \in Tags \union {Absent} /\ conn[d].hops \in Seq(Hop)
         /\ DOMAIN conn[d].hops = 1 .. Len(conn[d].hops) /\ Len(conn[d].hops) \in Nat
         /\ \A i \in DOMAIN conn[d].hops : conn[d].hops[i] \in Hop
         /\ At(d) = Place(conn[d].hops) /\ At(d) \in Configured
<1>1. ConnOK(conn[d]) /\ Through(conn[d]) /\ conn[d] \in Conns
  BY DEF GroupsInv
<1>2. /\ conn[d].pc \in {"idle", "entering", "open", "failing"} /\ conn[d].ext \in BOOLEAN
      /\ conn[d].read \in Tags \union {Absent} /\ conn[d].hops \in Seq(Hop)
  BY <1>1 DEF Conns
<1>3. /\ DOMAIN conn[d].hops = 1 .. Len(conn[d].hops) /\ Len(conn[d].hops) \in Nat
      /\ \A i \in 1 .. Len(conn[d].hops) : conn[d].hops[i] \in Hop
  BY <1>2, LenProperties
<1>4. At(d) = Place(conn[d].hops)
  BY DEF At, Place
<1>5. Root \in Configured
  BY MembersOK DEF GroupsInv, Configured
<1>6. conn[d].hops # <<>> => Len(conn[d].hops) \in DOMAIN conn[d].hops
  BY <1>2, <1>3, EmptySeq
<1>7. At(d) \in Configured
  BY <1>1, <1>4, <1>5, <1>6 DEF Place, ConnOK
<1>. QED
  BY <1>1, <1>2, <1>3, <1>4, <1>7

\* A dial moves to x; the others and the choices stay.
LEMMA ConnMoves ==
  ASSUME GroupsInv, setup' = setup, chosen' = chosen,
         NEW d \in Dialers, NEW x, conn' = [conn EXCEPT ![d] = x], ConnOK(x), Through(x)
  PROVE  ConnsOK'
<1>1. conn \in [Dialers -> Conns] /\ x \in Conns
  BY DEF GroupsInv, ConnOK
<1>2. conn' \in [Dialers -> Conns]
  BY <1>1
<1>3. ASSUME NEW e \in Dialers PROVE (ConnOK(conn[e]) /\ Through(conn[e]))'
  <2>1. PICK y : y = conn'[e]
    OBVIOUS
  <2>2. ConnOK(y) /\ Through(y)
    BY <1>1, <2>1, OneConn
  <2>3. ConnOK(conn[e])'
    BY <2>1, <2>2 DEF ConnOK, Configured, Place, Members, Root
  <2>4. Through(conn[e])'
    BY <2>1, <2>2 DEF Through, InterruptExist, selected_or_first, Members
  <2>. QED
    BY <2>3, <2>4
<1>. QED
  BY <1>2, <1>3 DEF ConnsOK

LEMMA ConnsStay ==
  ASSUME GroupsInv, setup' = setup, chosen' = chosen, conn' = conn
  PROVE  ConnsOK'
BY DEF GroupsInv, ConnsOK, ConnOK, Through, Configured, Place, Members, Root, InterruptExist, selected_or_first

\* A group moves its choice and cancels the tokens of those who took the old one.
LEMMA InterruptKeepsConns ==
  ASSUME GroupsInv, setup' = setup, NEW g \in Groups, NEW tag,
         chosen' = [chosen EXCEPT ![g] = tag], conn' = interrupt(g)
  PROVE  ConnsOK'
<1>1. \A h \in Groups : h # g => chosen'[h] = chosen[h]
  BY DEF GroupsInv, ChoicesOK
<1>2. ASSUME NEW d \in Dialers PROVE conn'[d] \in Conns /\ (ConnOK(conn[d]) /\ Through(conn[d]))'
  <2>. DEFINE c == conn[d]
              all == ~c.ext \/ InterruptExist
              cuts(i) == c.hops[i].group = g /\ all
              hops == [i \in DOMAIN c.hops |->
                          [group |-> c.hops[i].group, tag |-> c.hops[i].tag,
                           live |-> c.hops[i].live /\ ~cuts(i)]]
  <2>1. conn'[d] = Conn(c.pc, c.ext, c.read, hops)
    BY DEF interrupt, Cut
  <2>2. /\ c.hops \in Seq(Hop) /\ DOMAIN c.hops = 1 .. Len(c.hops) /\ Len(c.hops) \in Nat
        /\ \A i \in DOMAIN c.hops : c.hops[i].group \in Groups /\ c.hops[i].tag \in Tags
    <3>1. \A h \in Hop : h.group \in Groups /\ h.tag \in Tags
      BY DEF Hop
    <3>. QED
      BY <3>1, OneConn
  <2>3. hops \in Seq(Hop) /\ DOMAIN hops = DOMAIN c.hops /\ Len(hops) = Len(c.hops)
    <3>1. \A i \in 1 .. Len(c.hops) : hops[i] \in Hop
      <4>1. \A i \in DOMAIN c.hops : (c.hops[i].live /\ ~cuts(i)) \in BOOLEAN
        BY Zenon
      <4>. HIDE DEF cuts
      <4>. QED
        BY <2>2, <4>1 DEF Hop
    <3>2. hops = [i \in 1 .. Len(c.hops) |-> hops[i]]
      BY <2>2
    <3>. HIDE DEF hops
    <3>3. hops \in [1 .. Len(c.hops) -> Hop]
      BY <3>1, <3>2
    <3>4. hops \in Seq(Hop) /\ Len(hops) = Len(c.hops)
      BY <2>2, <3>3
    <3>. QED
      BY <2>2, <3>3, <3>4
  <2>4. \A i \in DOMAIN c.hops : /\ hops[i].group = c.hops[i].group /\ hops[i].tag = c.hops[i].tag
                                 /\ (hops[i].live => c.hops[i].live /\ ~cuts(i))
    OBVIOUS
  <2>5. hops = <<>> <=> c.hops = <<>>
    BY <2>2, <2>3, EmptySeq
  <2>. HIDE DEF hops
  <2>6. PICK y : y = conn'[d]
    OBVIOUS
  <2>7. /\ y \in Conns /\ y.pc = c.pc /\ (y.ext <=> c.ext) /\ y.read = c.read /\ y.hops = hops
    <3>1. c \in Conns
      BY OneConn
    <3>. HIDE DEF c
    <3>2. y = Conn(c.pc, c.ext, c.read, hops)
      BY <2>1, <2>6
    <3>3. /\ Conn(c.pc, c.ext, c.read, hops) \in Conns
          /\ Conn(c.pc, c.ext, c.read, hops).pc = c.pc /\ (Conn(c.pc, c.ext, c.read, hops).ext <=> c.ext)
          /\ Conn(c.pc, c.ext, c.read, hops).read = c.read /\ Conn(c.pc, c.ext, c.read, hops).hops = hops
      BY <2>3, <3>1, ConnLike, Zenon
    <3>. QED
      BY <3>2, <3>3, Zenon
  <2>8. Place(hops) = Place(c.hops)
    <3>1. c.hops # <<>> => Len(c.hops) \in DOMAIN c.hops
      BY <2>2, EmptySeq
    <3>. QED
      BY <2>3, <2>4, <2>5, <3>1 DEF Place
  <2>9. ConnOK(y)
    BY <2>3, <2>4, <2>5, <2>7, <2>8, OneConn DEF ConnOK
  <2>10. ConnOK(conn[d])'
    BY <2>6, <2>9 DEF ConnOK, Configured, Place, Members, Root
  <2>11. ASSUME NEW i \in DOMAIN y.hops, y.hops[i].group \in UrlTests, y.hops[i].live, y.pc # "failing",
                ~y.ext \/ InterruptExist
         PROVE  y.hops[i].tag = selected_or_first(y.hops[i].group)'
    <3>1. i \in DOMAIN c.hops /\ c.hops[i].live /\ c.hops[i].group # g /\ c.hops[i].group \in UrlTests
      BY <2>3, <2>4, <2>7, <2>11
    <3>2. c.hops[i].tag = selected_or_first(c.hops[i].group)
      BY <2>7, <2>11, <3>1, OneConn DEF Through
    <3>3. chosen'[c.hops[i].group] = chosen[c.hops[i].group]
      BY <1>1, <3>1 DEF Groups
    <3>. QED
      BY <2>4, <2>7, <3>1, <3>2, <3>3 DEF selected_or_first, Members
  <2>12. Through(conn[d])'
    BY <2>6, <2>11 DEF Through, InterruptExist, selected_or_first, Members
  <2>. QED
    BY <2>6, <2>7, <2>10, <2>12
<1>3. conn' \in [Dialers -> Conns]
  <2>1. conn' = [d \in Dialers |-> conn'[d]]
    BY DEF interrupt
  <2>. QED
    BY <1>2, <2>1
<1>. QED
  BY <1>2, <1>3 DEF ConnsOK

\* Hops that lead to the choices of their URL tests.
Leads(hops, ext) ==
    \A i \in DOMAIN hops :
        hops[i].group \in UrlTests /\ hops[i].live /\ (~ext \/ InterruptExist)
            => hops[i].tag = selected_or_first(hops[i].group)

\* A dial goes on, with what it has read and the hops it has taken.
LEMMA DialGoesOn ==
  ASSUME GroupsInv, setup' = setup, chosen' = chosen,
         NEW d \in Dialers, NEW pc \in {"entering", "open", "failing"},
         NEW read \in Configured \union {Absent}, NEW hops \in Seq(Hop),
         conn' = [conn EXCEPT ![d] = Conn(pc, conn[d].ext, read, hops)],
         read # Absent => Place(hops) \in Selectors,
         \A i \in DOMAIN hops : hops[i].group \in Groups /\ hops[i].tag \in Configured,
         pc # "failing" => Leads(hops, conn[d].ext)
  PROVE  ConnsOK'
<1>1. read \in Tags \union {Absent} /\ conn[d] \in Conns /\ conn[d].ext \in BOOLEAN
  BY MembersOK, OneConn DEF GroupsInv
<1>2. PICK x : x = Conn(pc, conn[d].ext, read, hops)
  OBVIOUS
<1>3. x \in Conns /\ x.pc = pc /\ x.read = read /\ x.hops = hops
  BY <1>1, <1>2 DEF Conn, Conns
<1>4. x.ext <=> conn[d].ext
  BY <1>2 DEF Conn
<1>5. ConnOK(x)
  BY <1>3 DEF ConnOK
<1>6. Through(x)
  BY <1>3, <1>4 DEF Through, Leads
<1>7. conn' = [conn EXCEPT ![d] = x]
  BY <1>2
<1>. QED
  BY <1>5, <1>6, <1>7, ConnMoves

\* A dial ends, or begins.
LEMMA EmptyConn ==
  ASSUME GroupsInv, setup' = setup, chosen' = chosen,
         NEW d \in Dialers, NEW pc \in {"idle", "entering"}, NEW ext \in BOOLEAN,
         conn' = [conn EXCEPT ![d] = Conn(pc, ext, Absent, <<>>)]
  PROVE  ConnsOK'
<1>1. PICK x : x = Conn(pc, ext, Absent, <<>>)
  OBVIOUS
<1>2. x \in Conns /\ x.pc = pc /\ x.read = Absent /\ x.hops = <<>>
  BY <1>1 DEF Conn, Conns
<1>3. ConnOK(x) /\ Through(x)
  BY <1>2 DEF ConnOK, Through
<1>4. conn' = [conn EXCEPT ![d] = x]
  BY <1>1
<1>. QED
  BY <1>3, <1>4, ConnMoves

\* A dial enters the choice of a group that it has reached.
LEMMA EnterKeepsConns ==
  ASSUME GroupsInv, setup' = setup, chosen' = chosen, NEW d \in Dialers, NEW tag \in Configured,
         conn[d].pc = "entering", At(d) \in Groups,
         At(d) \in UrlTests => tag = selected_or_first(At(d)), conn' = Entered(d, tag)
  PROVE  ConnsOK'
<1>. DEFINE old == conn[d].hops
            hop == [group |-> At(d), tag |-> tag, live |-> TRUE]
            hops == Append(old, hop)
<1>1. /\ old \in Seq(Hop) /\ DOMAIN old = 1 .. Len(old) /\ Len(old) \in Nat
      /\ \A i \in DOMAIN old : old[i].group \in Groups /\ old[i].tag \in Configured
  BY OneConn DEF ConnOK
<1>2. hop \in Hop /\ hop.group = At(d) /\ hop.tag = tag
  BY MembersOK DEF Hop, GroupsInv
<1>3. conn' = [conn EXCEPT ![d] = Conn("entering", conn[d].ext, Absent, hops)]
  BY DEF Entered
<1>. HIDE DEF hop, old
<1>4. /\ hops \in Seq(Hop) /\ DOMAIN hops = 1 .. Len(old) + 1 /\ hops[Len(old) + 1] = hop
      /\ \A i \in 1 .. Len(old) : hops[i] = old[i]
  BY <1>1, <1>2
<1>. HIDE DEF hops
<1>5. \A i \in DOMAIN hops : hops[i].group \in Groups /\ hops[i].tag \in Configured
  BY <1>1, <1>2, <1>4
<1>6. \A i \in 1 .. Len(old) :
          old[i].group \in UrlTests /\ old[i].live /\ (~conn[d].ext \/ InterruptExist)
              => old[i].tag = selected_or_first(old[i].group)
  BY <1>1, OneConn DEF Through, old
<1>7. Leads(hops, conn[d].ext)
  <2>. SUFFICES ASSUME NEW i \in DOMAIN hops, hops[i].group \in UrlTests, hops[i].live,
                       ~conn[d].ext \/ InterruptExist
                PROVE  hops[i].tag = selected_or_first(hops[i].group)
    BY DEF Leads
  <2>1. CASE i \in 1 .. Len(old)
    BY <1>4, <1>6, <2>1
  <2>2. CASE i = Len(old) + 1
    BY <1>2, <1>4, <2>2
  <2>. QED
    BY <1>1, <1>4, <2>1, <2>2
<1>. QED
  BY <1>3, <1>4, <1>5, <1>7, DialGoesOn

LEMMA take_currentKeepsConns ==
  ASSUME GroupsInv, NEW d \in Dialers, take_current(d)
  PROVE  ConnsOK'
<1>1. /\ conn[d].pc = "entering" /\ At(d) \in UrlTests /\ conn' = Entered(d, selected_or_first(At(d)))
      /\ setup' = setup /\ chosen' = chosen
  BY DEF take_current
<1>2. At(d) \in DOMAIN Members
  BY <1>1, OneConn, KindsAssumption DEF Configured, Groups
<1>3. selected_or_first(At(d)) \in Configured
  BY <1>2, FirstIsMember, MembersOK DEF GroupsInv
<1>. QED
  BY <1>1, <1>3, EnterKeepsConns DEF Groups

LEMMA tokenKeepsConns ==
  ASSUME GroupsInv, NEW d \in Dialers, token(d)
  PROVE  ConnsOK'
<1>1. /\ conn[d].pc = "entering" /\ conn[d].read # Absent /\ conn' = Entered(d, conn[d].read)
      /\ setup' = setup /\ chosen' = chosen
  BY DEF token, groupVars
<1>2. At(d) \in Selectors /\ conn[d].read \in Configured
  BY <1>1, OneConn DEF ConnOK
<1>. QED
  BY <1>1, <1>2, EnterKeepsConns, KindsAssumption DEF Groups

LEMMA selectedKeepsConns ==
  ASSUME GroupsInv, NEW d \in Dialers, selected(d)
  PROVE  ConnsOK'
<1>1. /\ conn[d].pc = "entering" /\ At(d) \in Selectors
      /\ conn' = [conn EXCEPT ![d] = Conn("entering", conn[d].ext, chosen[At(d)], conn[d].hops)]
      /\ setup' = setup /\ chosen' = chosen
  BY DEF selected, groupVars
<1>2. At(d) \in DOMAIN Members
  BY <1>1, OneConn, KindsAssumption DEF Configured, Groups
<1>3. chosen[At(d)] \in Configured \union {Absent}
  BY <1>2, MembersOK DEF GroupsInv, ChoicesOK
<1>4. /\ conn[d].hops \in Seq(Hop) /\ Place(conn[d].hops) \in Selectors
      /\ \A i \in DOMAIN conn[d].hops : conn[d].hops[i].group \in Groups /\ conn[d].hops[i].tag \in Configured
      /\ Leads(conn[d].hops, conn[d].ext)
  BY <1>1, OneConn DEF ConnOK, Through, Leads
<1>. QED
  BY <1>1, <1>3, <1>4, DialGoesOn

LEMMA ConnectKeepsConns ==
  ASSUME GroupsInv, NEW d \in Dialers, Connect(d)
  PROVE  ConnsOK'
<1>1. conn[d].pc = "entering" /\ setup' = setup /\ chosen' = chosen
  BY DEF Connect, groupVars
<1>2. PICK pc \in {"open", "failing"} :
          conn' = [conn EXCEPT ![d] = Conn(pc, conn[d].ext, Absent, conn[d].hops)]
  BY DEF Connect
<1>3. /\ conn[d].hops \in Seq(Hop)
      /\ \A i \in DOMAIN conn[d].hops : conn[d].hops[i].group \in Groups /\ conn[d].hops[i].tag \in Configured
      /\ Leads(conn[d].hops, conn[d].ext)
  BY <1>1, OneConn DEF ConnOK, Through, Leads
<1>. QED
  BY <1>1, <1>2, <1>3, DialGoesOn

LEMMA invalidateKeepsConns ==
  ASSUME GroupsInv, NEW d \in Dialers, invalidate(d)
  PROVE  ConnsOK'
<1>. DEFINE old == conn[d].hops
            hops == SubSeq(old, 1, Len(old) - 1)
<1>1. /\ old # <<>> /\ setup' = setup /\ chosen' = chosen
      /\ conn' = [conn EXCEPT ![d] = IF Len(old) = 1 THEN NoConn
                                     ELSE Conn("failing", conn[d].ext, Absent, hops)]
  BY DEF invalidate
<1>2. CASE Len(old) = 1
  <2>1. conn' = [conn EXCEPT ![d] = Conn("idle", FALSE, Absent, <<>>)]
    BY <1>1, <1>2 DEF NoConn
  <2>. QED
    BY <1>1, <2>1, EmptyConn
<1>3. CASE Len(old) # 1
  <2>1. conn' = [conn EXCEPT ![d] = Conn("failing", conn[d].ext, Absent, hops)]
    BY <1>1, <1>3
  <2>2. /\ old \in Seq(Hop) /\ DOMAIN old = 1 .. Len(old) /\ Len(old) \in Nat
        /\ \A i \in DOMAIN old : old[i].group \in Groups /\ old[i].tag \in Configured
    BY OneConn DEF ConnOK
  <2>. HIDE DEF old
  <2>3. Len(old) > 1
    BY <1>1, <1>3, <2>2, EmptySeq
  <2>4. 1 \in 1 .. Len(old) /\ Len(old) - 1 \in 0 .. Len(old)
    BY <2>2, <2>3
  <2>5. /\ hops \in Seq(Hop) /\ Len(hops) = Len(old) - 1
        /\ \A i \in 1 .. Len(old) - 1 : hops[i] = old[i]
    BY <2>2, <2>3, <2>4, SubSeqProperties
  <2>. HIDE DEF hops
  <2>6. DOMAIN hops = 1 .. Len(old) - 1
    BY <2>5, LenProperties
  <2>7. \A i \in DOMAIN hops : hops[i].group \in Groups /\ hops[i].tag \in Configured
    BY <2>2, <2>5, <2>6
  <2>. QED
    BY <1>1, <2>1, <2>5, <2>7, DialGoesOn
<1>. QED
  BY <1>2, <1>3

-----------------------------------------------------------------------------
(* The invariant *)

\* The configuration, the tables and the clocks.
TablesOK ==
    /\ setup \in Setups /\ delay \in [Leaves -> Delays \union {Absent}]
    /\ history \in [UrlTests -> [Leaves -> Delays \union {Absent}]]
    /\ fresh \in [UrlTests -> BOOLEAN] /\ active \in [UrlTests -> BOOLEAN]
    /\ check \in [UrlTests -> Callers \union {Absent}]

LEMMA GroupsInvParts == GroupsInv <=> TablesOK /\ ChoicesOK /\ CallsOK /\ ConnsOK
BY DEF GroupsInv, TablesOK, CallsOK, ConnsOK

LEMMA ChoicesStay ==
  ASSUME GroupsInv, setup' = setup, chosen' = chosen
  PROVE  ChoicesOK'
BY DEF GroupsInv, ChoicesOK, Members, Picks

\* A group moves to one of its members.
LEMMA ChoiceMoves ==
  ASSUME GroupsInv, setup' = setup, NEW g \in DOMAIN Members, NEW tag \in Range(Members[g]),
         chosen' = [chosen EXCEPT ![g] = tag]
  PROVE  ChoicesOK'
<1>1. tag \in Tags /\ tag # Absent /\ g \in Groups
  BY MembersOK, KindsAssumption DEF GroupsInv
<1>2. chosen \in [Groups -> Tags \union {Absent}]
  BY DEF GroupsInv, ChoicesOK
<1>3. /\ chosen' \in [Groups -> Tags \union {Absent}]
      /\ chosen'[g] = tag /\ \A h \in Groups : h # g => chosen'[h] = chosen[h]
  BY <1>1, <1>2
<1>4. Members' = Members /\ Picks' = Picks /\ DOMAIN Members \subseteq Groups /\ Picks \subseteq Groups
  BY MembersOK DEF GroupsInv, Members, Picks, Groups
<1>. QED
  BY <1>1, <1>3, <1>4 DEF GroupsInv, ChoicesOK

LEMMA GroupsInvInit == Init => GroupsInv
<1>. SUFFICES ASSUME Init PROVE GroupsInv
  OBVIOUS
<1>1. TablesOK
  <2>1. setup \in Setups /\ setup.delays \subseteq Delays /\ delay \in [Leaves -> setup.delays]
    BY GroupsAssumption DEF Init
  <2>. QED
    BY <2>1 DEF Init, TablesOK, NoDelays
<1>2. ChoicesOK
  <2>1. /\ DOMAIN Members \subseteq Groups /\ Picks \subseteq DOMAIN Members
        /\ \A g \in DOMAIN Members : Members[g][1] \in Range(Members[g]) /\ Members[g][1] \in Tags
    BY MembersOK DEF Init, Picks
  <2>2. chosen = [g \in Groups |-> IF g \in Picks THEN Members[g][1] ELSE Absent]
    BY DEF Init
  <2>3. chosen \in [Groups -> Tags \union {Absent}]
    BY <2>1, <2>2
  <2>4. \A g \in DOMAIN Members : chosen[g] \in {Members[g][1], Absent} /\ (g \in Picks => chosen[g] # Absent)
    BY <2>1, <2>2, KindsAssumption
  <2>. QED
    BY <2>1, <2>3, <2>4 DEF ChoicesOK
<1>3. CallsOK
  <2>1. /\ NoDelays \in [Leaves -> Delays \union {Absent, Pending}]
        /\ \A l \in Leaves : NoDelays[l] # Pending
    BY DelaysAssumption DEF NoDelays
  <2>2. Quiet(NoCall)
    BY <2>1, QuietFields DEF NoCall
  <2>3. call = [g \in UrlTests |-> [c \in Callers |-> NoCall]]
    BY DEF Init
  <2>. QED
    BY <2>2, <2>3 DEF CallsOK, CallOK, Quiet
<1>4. ConnsOK
  <2>1. NoConn \in Conns /\ NoConn.hops = <<>> /\ NoConn.read = Absent
    BY DEF NoConn, Conn, Conns
  <2>2. conn = [d \in Dialers |-> NoConn]
    BY DEF Init
  <2>. QED
    BY <2>1, <2>2 DEF ConnsOK, ConnOK, Through
<1>. QED
  BY <1>1, <1>2, <1>3, <1>4, GroupsInvParts

\* Steps that leave the choices and the dials alone.
LEMMA RefreshStep ==
  ASSUME GroupsInv, NEW g \in Urls, NEW c \in Callers, Refresh(g, c)
  PROVE  GroupsInv'
<1>1. g \in UrlTests /\ g \in DOMAIN Members
  BY DEF Urls
<1>2. TablesOK
  BY DEF GroupsInv, TablesOK
<1>3. CASE Lock(g, c)
  <2>1. /\ setup' = setup /\ delay' = delay /\ chosen' = chosen /\ history' = history
        /\ fresh' = fresh /\ active' = active /\ conn' = conn
    BY <1>3 DEF Lock, groupVars
  <2>2. CallsOK' /\ check' \in [UrlTests -> Callers \union {Absent}]
    BY <1>1, <1>3, LockKeepsCalls
  <2>3. TablesOK' /\ ChoicesOK' /\ ConnsOK'
    BY <1>2, <2>1, <2>2, ChoicesStay, ConnsStay DEF TablesOK
  <2>. QED
    BY <2>2, <2>3 DEF GroupsInv, TablesOK, CallsOK, ConnsOK
<1>4. ASSUME NEW l \in Leaves, Probe(g, c, l) PROVE GroupsInv'
  <2>1. /\ setup' = setup /\ delay' = delay /\ chosen' = chosen /\ history' = history
        /\ fresh' = fresh /\ active' = active /\ conn' = conn /\ check' = check
    BY <1>4 DEF Probe, groupVars
  <2>2. CallsOK'
    BY <1>1, <1>4, ProbeKeepsCalls
  <2>3. TablesOK' /\ ChoicesOK' /\ ConnsOK'
    BY <1>2, <2>1, ChoicesStay, ConnsStay DEF TablesOK
  <2>. QED
    BY <2>2, <2>3 DEF GroupsInv, TablesOK, CallsOK, ConnsOK
<1>5. CASE Nest(g, c)
  <2>1. /\ setup' = setup /\ delay' = delay /\ chosen' = chosen /\ history' = history
        /\ fresh' = fresh /\ active' = active /\ conn' = conn /\ check' = check
    BY <1>5 DEF Nest, groupVars
  <2>2. CallsOK'
    BY <1>1, <1>5, NestKeepsCalls
  <2>3. TablesOK' /\ ChoicesOK' /\ ConnsOK'
    BY <1>2, <2>1, ChoicesStay, ConnsStay DEF TablesOK
  <2>. QED
    BY <2>2, <2>3 DEF GroupsInv, TablesOK, CallsOK, ConnsOK
<1>6. CASE Apply(g, c)
  <2>. DEFINE m == Merged(g, c)
              best == Best(g, m)
  <2>1. m \in [Leaves -> Delays \union {Absent}]
    BY <1>1, <1>6, MergedOK DEF Apply
  <2>2. /\ setup' = setup /\ delay' = delay /\ active' = active
        /\ history' = [history EXCEPT ![g] = m] /\ chosen' = [chosen EXCEPT ![g] = best]
        /\ fresh' = [fresh EXCEPT ![g] = TRUE] /\ check' = [check EXCEPT ![g] = Absent]
        /\ conn' = IF best # chosen[g] THEN interrupt(g) ELSE conn
    BY <1>6 DEF Apply
  <2>3. best \in Range(Members[g])
    <3>1. setup \in Setups /\ ChoicesOK
      BY DEF GroupsInv
    <3>. HIDE DEF m
    <3>. QED
      BY <1>1, <2>1, <3>1, BestIsMember
  <2>. HIDE DEF m, best
  <2>4. TablesOK'
    BY <1>2, <2>1, <2>2 DEF TablesOK
  <2>5. ChoicesOK'
    BY <1>1, <2>2, <2>3, ChoiceMoves
  <2>6. CallsOK'
    BY <1>1, <1>6, ApplyKeepsCalls
  <2>7. ConnsOK'
    <3>1. CASE best # chosen[g]
      BY <1>1, <2>2, <3>1, InterruptKeepsConns DEF Groups
    <3>2. CASE best = chosen[g]
      <4>1. chosen' = chosen /\ conn' = conn
        BY <1>1, <2>2, <3>2 DEF GroupsInv, ChoicesOK, Groups
      <4>. QED
        BY <2>2, <4>1, ConnsStay
    <3>. QED
      BY <3>1, <3>2
  <2>. QED
    BY <2>4, <2>5, <2>6, <2>7 DEF GroupsInv, TablesOK, CallsOK, ConnsOK
<1>. QED
  BY <1>3, <1>4, <1>5, <1>6 DEF Refresh

LEMMA GroupsInvStep == GroupsInv /\ [Next]_vars => GroupsInv'
<1>. SUFFICES ASSUME GroupsInv, [Next]_vars
              PROVE  GroupsInv'
  OBVIOUS
<1>. DEFINE Fixed == setup' = setup /\ chosen' = chosen
            Kept == call' = call /\ check' = check /\ \A h \in UrlTests : fresh'[h] => fresh[h]
<1>1. TablesOK
  BY DEF GroupsInv, TablesOK
<1>2. ASSUME TablesOK', ChoicesOK', CallsOK', ConnsOK' PROVE GroupsInv'
  BY <1>2 DEF GroupsInv, TablesOK, CallsOK, ConnsOK
<1>3. ASSUME NEW g \in Urls, NEW c \in Callers, NEW force \in BOOLEAN,
             call' = [call EXCEPT ![g][c] = Begin(g, c, force)],
             UNCHANGED <<setup, delay, groupVars, check, conn>>
      PROVE  GroupsInv'
  <2>1. Quiet(Begin(g, c, force)) /\ g \in UrlTests
    BY BeginIsQuiet DEF Urls
  <2>2. /\ setup' = setup /\ delay' = delay /\ chosen' = chosen /\ history' = history
        /\ fresh' = fresh /\ active' = active /\ check' = check /\ conn' = conn
    BY <1>3 DEF groupVars
  <2>3. call'[g][c] = Begin(g, c, force)
    BY <1>3, <2>1 DEF GroupsInv
  <2>4. CallOK(g, c)'
    BY <2>1, <2>3, QuietIsOK
  <2>5. CallsOK'
    BY <1>3, <2>1, <2>2, <2>4, CallMoves DEF Quiet
  <2>6. TablesOK' /\ ChoicesOK' /\ ConnsOK'
    BY <1>1, <2>2, ChoicesStay, ConnsStay DEF TablesOK
  <2>. QED
    BY <1>2, <2>5, <2>6
<1>4. ASSUME NEW g \in Urls, Tick(g) PROVE GroupsInv'
  <2>1. "background" \in Callers /\ call' = [call EXCEPT ![g]["background"] = Begin(g, "background", FALSE)]
    BY <1>4 DEF Callers, Tick
  <2>. QED
    BY <1>3, <1>4, <2>1 DEF Tick
<1>5. ASSUME NEW g \in Urls, NEW c \in Forced, interface_updated(g, c) PROVE GroupsInv'
  <2>1. c \in Callers /\ call' = [call EXCEPT ![g][c] = Begin(g, c, TRUE)]
    BY <1>5, GroupsAssumption DEF Callers, Forced, GroupsInv, interface_updated
  <2>. QED
    BY <1>3, <1>5, <2>1 DEF interface_updated
<1>6. ASSUME NEW g \in Urls, Expire(g) PROVE GroupsInv'
  <2>1. /\ setup' = setup /\ delay' = delay /\ chosen' = chosen /\ history' = history /\ active' = active
        /\ check' = check /\ conn' = conn /\ call' = call /\ fresh' = [fresh EXCEPT ![g] = FALSE]
    BY <1>6 DEF Expire
  <2>2. \A h \in UrlTests : fresh'[h] => fresh[h]
    BY <2>1 DEF GroupsInv
  <2>3. TablesOK' /\ ChoicesOK' /\ ConnsOK' /\ CallsOK'
    BY <1>1, <2>1, <2>2, ChoicesStay, ConnsStay, CallsStay DEF TablesOK
  <2>. QED
    BY <1>2, <2>3
<1>7. ASSUME NEW g \in Urls, IdleOut(g) PROVE GroupsInv'
  <2>1. /\ setup' = setup /\ delay' = delay /\ chosen' = chosen /\ history' = history /\ fresh' = fresh
        /\ check' = check /\ conn' = conn /\ call' = call /\ active' = [active EXCEPT ![g] = FALSE]
    BY <1>7 DEF IdleOut
  <2>2. TablesOK' /\ ChoicesOK' /\ ConnsOK' /\ CallsOK'
    BY <1>1, <2>1, ChoicesStay, ConnsStay, CallsStay DEF TablesOK
  <2>. QED
    BY <1>2, <2>2
<1>8. ASSUME NEW s \in Picks, NEW tag \in Tags, select(s, tag) PROVE GroupsInv'
  <2>1. /\ setup' = setup /\ delay' = delay /\ history' = history /\ fresh' = fresh /\ active' = active
        /\ check' = check /\ call' = call /\ tag \in Range(Members[s])
        /\ chosen' = [chosen EXCEPT ![s] = tag] /\ conn' = interrupt(s)
    BY <1>8 DEF select
  <2>2. s \in DOMAIN Members /\ s \in Groups
    BY DEF Picks, Groups
  <2>3. ChoicesOK' /\ ConnsOK'
    BY <2>1, <2>2, ChoiceMoves, InterruptKeepsConns
  <2>4. TablesOK' /\ CallsOK'
    BY <1>1, <2>1, CallsStay DEF TablesOK
  <2>. QED
    BY <1>2, <2>3, <2>4
<1>9. ASSUME Fixed, Kept, ConnsOK', UNCHANGED <<delay, history, fresh, active>> PROVE GroupsInv'
  <2>1. TablesOK' /\ ChoicesOK' /\ CallsOK'
    BY <1>1, <1>9, ChoicesStay, CallsStay DEF TablesOK
  <2>. QED
    BY <1>2, <1>9, <2>1
<1>10. \A d \in Active : d \in Dialers
  BY GroupsAssumption DEF Active, GroupsInv
<1>11. ASSUME NEW d \in Active, NEW ext \in BOOLEAN, Dial(d, ext) PROVE GroupsInv'
  <2>1. ConnsOK'
    BY <1>10, <1>11, EmptyConn DEF Dial, groupVars
  <2>. QED
    BY <1>9, <1>11, <2>1 DEF Dial, groupVars
<1>12. ASSUME NEW d \in Active, take_current(d) PROVE GroupsInv'
  <2>1. ConnsOK'
    BY <1>10, <1>12, take_currentKeepsConns
  <2>2. /\ setup' = setup /\ delay' = delay /\ chosen' = chosen /\ history' = history /\ fresh' = fresh
        /\ check' = check /\ call' = call /\ active' = [active EXCEPT ![At(d)] = TRUE]
    BY <1>12 DEF take_current
  <2>3. TablesOK' /\ ChoicesOK' /\ CallsOK'
    BY <1>1, <2>2, ChoicesStay, CallsStay DEF TablesOK
  <2>. QED
    BY <1>2, <2>1, <2>3
<1>13. ASSUME NEW d \in Active, selected(d) PROVE GroupsInv'
  <2>1. ConnsOK'
    BY <1>10, <1>13, selectedKeepsConns
  <2>. QED
    BY <1>9, <1>13, <2>1 DEF selected, groupVars
<1>14. ASSUME NEW d \in Active, token(d) PROVE GroupsInv'
  <2>1. ConnsOK'
    BY <1>10, <1>14, tokenKeepsConns
  <2>. QED
    BY <1>9, <1>14, <2>1 DEF token, groupVars
<1>15. ASSUME NEW d \in Active, Connect(d) PROVE GroupsInv'
  <2>1. ConnsOK'
    BY <1>10, <1>15, ConnectKeepsConns
  <2>. QED
    BY <1>9, <1>15, <2>1 DEF Connect, groupVars
<1>16. ASSUME NEW d \in Active, invalidate(d) PROVE GroupsInv'
  <2>1. ConnsOK'
    BY <1>10, <1>16, invalidateKeepsConns
  <2>2. /\ setup' = setup /\ delay' = delay /\ chosen' = chosen /\ active' = active
        /\ check' = check /\ call' = call
    BY <1>16 DEF invalidate
  <2>3. PICK u, w : \/ history' = [history EXCEPT ![u][w] = Absent] /\ fresh' = [fresh EXCEPT ![u] = FALSE]
                    \/ history' = history /\ fresh' = fresh
    BY <1>16 DEF invalidate
  <2>4. history' \in [UrlTests -> [Leaves -> Delays \union {Absent}]]
    <3>1. history \in [UrlTests -> [Leaves -> Delays \union {Absent}]]
      BY DEF GroupsInv
    <3>2. ASSUME history' = [history EXCEPT ![u][w] = Absent], NEW h \in UrlTests
          PROVE  history'[h] \in [Leaves -> Delays \union {Absent}]
      <4>1. history'[h] = IF h = u THEN [history[h] EXCEPT ![w] = Absent] ELSE history[h]
        BY <3>1, <3>2
      <4>. QED
        BY <3>1, <4>1
    <3>3. history' = [history EXCEPT ![u][w] = Absent] => history' = [h \in UrlTests |-> history'[h]]
      BY <3>1
    <3>. QED
      BY <2>3, <3>1, <3>2, <3>3
  <2>5. fresh' \in [UrlTests -> BOOLEAN] /\ \A h \in UrlTests : fresh'[h] => fresh[h]
    BY <2>3 DEF GroupsInv
  <2>6. TablesOK' /\ ChoicesOK' /\ CallsOK'
    BY <1>1, <2>2, <2>4, <2>5, ChoicesStay, CallsStay DEF TablesOK
  <2>. QED
    BY <1>2, <2>1, <2>6
<1>17. ASSUME NEW d \in Active, Close(d) PROVE GroupsInv'
  <2>1. conn' = [conn EXCEPT ![d] = Conn("idle", FALSE, Absent, <<>>)]
    BY <1>17 DEF Close, NoConn
  <2>2. ConnsOK'
    BY <1>10, <1>17, <2>1, EmptyConn DEF Close, groupVars
  <2>. QED
    BY <1>9, <1>17, <2>2 DEF Close, groupVars
<1>18. ASSUME NEW l \in Flaky, Reachability(l) PROVE GroupsInv'
  <2>1. PICK x \in setup.delays \union {Absent} : delay' = [delay EXCEPT ![l] = x]
    BY <1>18 DEF Reachability
  <2>2. x \in Delays \union {Absent}
    BY GroupsAssumption DEF GroupsInv
  <2>3. /\ setup' = setup /\ chosen' = chosen /\ history' = history /\ fresh' = fresh /\ active' = active
        /\ check' = check /\ call' = call /\ conn' = conn
    BY <1>18 DEF Reachability, groupVars
  <2>4. TablesOK' /\ ChoicesOK' /\ CallsOK' /\ ConnsOK'
    BY <1>1, <2>1, <2>2, <2>3, ChoicesStay, CallsStay, ConnsStay DEF TablesOK
  <2>. QED
    BY <1>2, <2>4
<1>19. CASE UNCHANGED vars
  <2>1. Fixed /\ Kept /\ conn' = conn /\ UNCHANGED <<delay, history, fresh, active>>
    BY <1>19 DEF vars, groupVars
  <2>. QED
    BY <1>9, <2>1, ConnsStay
<1>. QED
  BY <1>4, <1>5, <1>6, <1>7, <1>8, <1>11, <1>12, <1>13, <1>14, <1>15, <1>16, <1>17, <1>18, <1>19, RefreshStep
     DEF Next

\* In every configuration and interleaving of refreshes, switches and dials, the
\* choice of a group is a member of it and no refresh tests a group that was
\* checked within the interval, whoever checked it.
THEOREM GroupsSafe == Spec => []SafetyInv
<1>1. GroupsInv => SafetyInv
  BY DEF GroupsInv, SafetyInv, TypeOK, TestingIsDue, ChoicesOK, CallOK
<1>. QED
  BY GroupsInvInit, GroupsInvStep, <1>1, PTL DEF Spec

\* A connection through a URL test whose token is good goes through the present
\* choice of the URL test, at any depth of groups within groups.
THEOREM UrlTestsReplace == Spec => []UrlTestReplaces
<1>1. GroupsInv => UrlTestReplaces
  BY DEF GroupsInv, UrlTestReplaces, ThroughSelected, Through
<1>. QED
  BY GroupsInvInit, GroupsInvStep, <1>1, PTL DEF Spec

==============================================================================
