------------------------------- MODULE DnsLru -------------------------------
(* The bounded LRU cache of the DNS client: a map of entries stamped with a  *)
(* generation, and a queue of (key, generation) pairs that is pushed on      *)
(* every use and popped only to evict. A pair whose entry has moved on or    *)
(* left is skipped when it is popped. Answers and their ages are left out:   *)
(* any entry may turn out to be fresh or expired when it is looked up.       *)
EXTENDS Naturals, Sequences, FiniteSets

CONSTANTS
    Keys,
    Capacity,       \* cache_capacity
    PersistentCache, \* entries may also come from the persistent cache
    MaxGeneration   \* bound: uses of the cache

ASSUME KeysAssumption == IsFiniteSet(Keys)
ASSUME CapacityAssumption == Capacity \in Nat \ {0}
ASSUME MaxGenerationAssumption == MaxGeneration \in Nat
ASSUME PersistentCacheAssumption == PersistentCache \in BOOLEAN

VARIABLES
    cache,          \* State.cache: the generation of each entry, 0 for none
    order,          \* State.order
    generation,     \* State.generation
    restored        \* keys taken from the persistent cache since the last insertion,
                    \* to state CacheBounded

lruVars == <<cache, order, generation, restored>>

Pair == [key: Keys, gen: Nat \ {0}]
Cached(c) == {k \in Keys : c[k] # 0}

LruTypeOK ==
    /\ cache \in [Keys -> Nat] /\ order \in Seq(Pair) /\ generation \in Nat
    /\ restored \subseteq Keys
    /\ \A k \in Keys : cache[k] <= generation
    /\ \A i \in DOMAIN order : order[i].gen <= generation

LruInit == cache = [k \in Keys |-> 0] /\ order = <<>> /\ generation = 0 /\ restored = {}

-----------------------------------------------------------------------------
Stamped(k) == [cache EXCEPT ![k] = generation + 1]
Pushed(k) == Append(order, [key |-> k, gen |-> generation + 1])

\* Mutant: any pair of the key counts.
AnyUse(c, pair) == c[pair.key] # 0

\* The pair of a popped candidate is the entry's last use.
Last(c, pair) == c[pair.key] = pair.gen

\* The entries of c that remain when the first n pairs of the queue are popped.
Popped(c, q, n) ==
    [k \in Keys |-> IF \E i \in 1 .. n : q[i].key = k /\ Last(c, q[i]) THEN 0 ELSE c[k]]

\* Mutant: one entry too many stays.
OneMore(c, q) == {n \in 0 .. Len(q) : Cardinality(Cached(Popped(c, q, n))) <= Capacity + 1}

\* The pairs that are popped: as few as bring the map back to its capacity.
Enough(c, q) == {n \in 0 .. Len(q) : Cardinality(Cached(Popped(c, q, n))) <= Capacity}
Evictions(c, q) == CHOOSE n \in Enough(c, q) : \A m \in Enough(c, q) : n <= m

\* An answer is cached, and entries are evicted as long as there are too many.
insert_cache(k) ==
    LET n == Evictions(Stamped(k), Pushed(k)) IN
    /\ generation < MaxGeneration
    /\ cache' = Popped(Stamped(k), Pushed(k), n)
    /\ order' = SubSeq(Pushed(k), n + 1, Len(Pushed(k)))
    /\ generation' = generation + 1 /\ restored' = {}

\* A lookup finds a usable entry.
touch(k) ==
    /\ generation < MaxGeneration
    /\ cache[k] # 0
    /\ cache' = Stamped(k) /\ order' = Pushed(k) /\ generation' = generation + 1
    /\ UNCHANGED restored

\* A lookup finds an entry that has expired.
load_cache(k) ==
    /\ cache[k] # 0
    /\ cache' = [cache EXCEPT ![k] = 0]
    /\ UNCHANGED <<order, generation, restored>>

\* A lookup takes a usable entry from the persistent cache, and touches it.
insert_persistent_entry(k) ==
    /\ PersistentCache /\ generation + 1 < MaxGeneration
    /\ cache[k] = 0
    /\ cache' = [cache EXCEPT ![k] = generation + 2]
    /\ order' = Append(Pushed(k), [key |-> k, gen |-> generation + 2])
    /\ generation' = generation + 2 /\ restored' = restored \union {k}

\* It takes one that has expired, and removes it again.
ExpiredPersistentEntry(k) ==
    /\ PersistentCache /\ generation < MaxGeneration
    /\ cache[k] = 0
    /\ order' = Pushed(k) /\ generation' = generation + 1
    /\ UNCHANGED <<cache, restored>>

clear_cache ==
    /\ cache' = [k \in Keys |-> 0] /\ order' = <<>> /\ restored' = {}
    /\ UNCHANGED generation

LruNext ==
    \/ \E k \in Keys : \/ insert_cache(k) \/ touch(k) \/ load_cache(k)
                       \/ insert_persistent_entry(k) \/ ExpiredPersistentEntry(k)
    \/ clear_cache

LruSpec == LruInit /\ [][LruNext]_lruVars

-----------------------------------------------------------------------------
(* Properties *)

\* The queue is in order of use, and the last use of every entry is in it: an
\* entry that is not would never be evicted.
InOrder == \A i, j \in DOMAIN order : i < j => order[i].gen < order[j].gen
Evictable == \A k \in Cached(cache) : \E i \in DOMAIN order : order[i] = [key |-> k, gen |-> cache[k]]

LruInv == LruTypeOK /\ InOrder /\ Evictable

\* The map exceeds its capacity only by entries that lookups took from the
\* persistent cache since the last insertion: the evictions of an insertion bring
\* it back, the queue cannot run dry before.
CacheBounded == Cardinality(Cached(cache) \ restored) <= Capacity

\* What leaves when an answer is cached was used less recently than all that
\* stays.
EvictsOldest ==
    [][generation' # generation =>
          \A e \in Cached(cache) \ Cached(cache'), s \in Cached(cache) \intersect Cached(cache') :
              cache'[s] = cache[s] => cache[e] < cache[s]]_lruVars

-----------------------------------------------------------------------------
(* What the code does not keep.                                              *)

\* client.rs:1: "bounded LRU caching". insert_persistent_entry does not evict.
AlwaysBounded == Cardinality(Cached(cache)) <= Capacity

\* The queue is bounded like the map. Only an eviction pops it.
OrderBounded == Len(order) <= 2 * Capacity

=============================================================================
