----------------------------- MODULE DnsClient -----------------------------
(* The DNS exchange client: concurrent queries for a key share one exchange, *)
(* stale answers are served while one background task refreshes them, the    *)
(* cache is backed by a store on disk, and the owner of the client may clear *)
(* it at any time. An answer is reduced to the number of clears that had     *)
(* happened when its exchange began. Every lock of the state is one step;    *)
(* the store is read before the lock is taken. There are fewer keys than the *)
(* capacity of the cache: DnsLru models eviction.                            *)
EXTENDS Naturals, FiniteSets

CONSTANTS
    Keys,
    Queries,        \* bound: queries under way at the same time
    Refreshes,      \* bound: background refreshes at the same time
    MaxClears,      \* bound: calls of clear_cache
    Optimistic,     \* optimistic_timeout is not zero
    Persistent,     \* a persistent cache is configured
    None

ASSUME FlagsAssumption == {Optimistic, Persistent} \subseteq BOOLEAN
ASSUME BoundsAssumption == MaxClears \in Nat

VARIABLES
    cache,          \* State.cache
    store,          \* the table of the persistent cache
    flights,        \* State.flights: the waiters of each exchange
    background,     \* State.background_refresh
    epoch,          \* State.cache_epoch
    query,          \* calls of exchange_inner
    refresh         \* tasks of spawn_refresh

vars == <<cache, store, flights, background, epoch, query, refresh>>

Epochs == 0 .. MaxClears
Entry == [born: Epochs, age: {"fresh", "stale", "dead"}, by: {"query", "refresh", "disk"}]
Query(pc, key, born) == [pc |-> pc, key |-> key, stale |-> FALSE, disk |-> None, born |-> born]
NoQuery == Query("idle", None, 0)
NoRefresh == [key |-> None, epoch |-> 0]

ASSUME NoneAssumption ==
    None \notin Keys /\ None \notin Entry /\ \A waiters \in SUBSET Queries : waiters # None

TypeOK ==
    /\ cache \in [Keys -> Entry \union {None}]
    /\ store \in [Keys -> Entry \union {None}]
    /\ flights \in [Keys -> (SUBSET Queries) \union {None}]
    /\ background \subseteq Keys /\ epoch \in Epochs
    /\ query \in [Queries -> [pc: {"idle", "loaded", "exchanging", "waiting", "done"},
                              key: Keys \union {None}, stale: BOOLEAN, disk: Entry \union {None},
                              born: Epochs]]
    /\ \A q \in Queries : query[q].pc = "idle" => query[q] = NoQuery
    /\ refresh \in [Refreshes -> [key: Keys \union {None}, epoch: Epochs]]

Init ==
    /\ cache = [k \in Keys |-> None] /\ store = [k \in Keys |-> None]
    /\ flights = [k \in Keys |-> None]
    /\ background = {} /\ epoch = 0
    /\ query = [q \in Queries |-> NoQuery]
    /\ refresh = [r \in Refreshes |-> NoRefresh]

\* A query has its answer or its error.
Done == Query("done", None, 0)
\* The owner of a flight and its waiters are given the same result.
Shared(q) ==
    [p \in Queries |-> IF p = q \/ p \in flights[query[q].key] THEN Done ELSE query[p]]

-----------------------------------------------------------------------------
\* A query begins: the persistent cache is read without the state's lock.
load_persistent(q, k, stale) ==
    /\ query[q].pc = "idle"
    /\ query' = [query EXCEPT ![q] = [pc |-> "loaded", key |-> k, stale |-> stale,
                                       disk |-> store[k], born |-> 0]]
    /\ UNCHANGED <<cache, store, flights, background, epoch, refresh>>

\* What the cache holds once an entry from disk has filled a gap.
Found(q) ==
    IF cache[query[q].key] = None THEN query[q].disk ELSE cache[query[q].key]

Usable(q) ==
    /\ Found(q) # None
    /\ \/ Found(q).age = "fresh"
       \/ Found(q).age = "stale" /\ Optimistic /\ query[q].stale

\* Mutant: the key is not marked when its refresh starts.
HitUnmarked(q) ==
    /\ query[q].pc = "loaded" /\ Usable(q)
    /\ query' = [query EXCEPT ![q] = Done]
    /\ cache' = [cache EXCEPT ![query[q].key] = Found(q)]
    /\ IF Found(q).age = "stale"
       THEN \E r \in Refreshes :
                /\ refresh[r] = NoRefresh
                /\ refresh' = [refresh EXCEPT ![r] = [key |-> query[q].key, epoch |-> epoch]]
       ELSE UNCHANGED refresh
    /\ UNCHANGED <<background, store, flights, epoch>>

\* A hit. A stale one starts a refresh unless one is marked as under way or the
\* caller only lends its transport.
Hit(q) ==
    /\ query[q].pc = "loaded" /\ Usable(q)
    /\ query' = [query EXCEPT ![q] = Done]
    /\ cache' = [cache EXCEPT ![query[q].key] = Found(q)]
    /\ \/ /\ Found(q).age = "stale" /\ query[q].key \notin background
          /\ background' = background \union {query[q].key}
          /\ \E r \in Refreshes :
                /\ refresh[r] = NoRefresh
                /\ refresh' = [refresh EXCEPT ![r] = [key |-> query[q].key, epoch |-> epoch]]
       \/ UNCHANGED <<background, refresh>>
    /\ UNCHANGED <<store, flights, epoch>>

\* A miss joins the flight of its key or becomes the owner of a new one.
Miss(q) ==
    /\ query[q].pc = "loaded" /\ ~Usable(q)
    /\ LET k == query[q].key
           own == flights[k] = None IN
       /\ cache' = [cache EXCEPT ![k] = None]
       /\ flights' = [flights EXCEPT ![k] = IF own THEN {} ELSE @ \union {q}]
       /\ query' = [query EXCEPT ![q] = IF own
                       THEN Query("exchanging", k, epoch) ELSE Query("waiting", k, 0)]
    /\ UNCHANGED <<store, background, epoch, refresh>>

\* An answer is stored in memory and, if that succeeds, on disk, from where it may
\* come back into the cache whoever fetched it.
OnDisk(entry) == [born |-> entry.born, age |-> entry.age, by |-> "disk"]
insert_cache(k, entry) ==
    /\ cache' = [cache EXCEPT ![k] = entry]
    /\ \/ Persistent /\ store' = [store EXCEPT ![k] = OnDisk(entry)]
       \/ UNCHANGED store

\* The exchange of an owner ends: with a positive TTL, with none, or failed by
\* an error or its timeout. It began when the query took the flight.
Exchanged(q) ==
    /\ query[q].pc = "exchanging"
    /\ LET k == query[q].key
           entry == [born |-> query[q].born, age |-> "fresh", by |-> "query"] IN
       /\ insert_cache(k, entry) \/ UNCHANGED <<cache, store>>
       /\ query' = Shared(q)
       /\ flights' = [flights EXCEPT ![k] = None]
    /\ UNCHANGED <<background, epoch, refresh>>

\* Mutant: an owner is dropped without its guard.
OwnerDrop(q) ==
    /\ query[q].pc = "exchanging"
    /\ query' = [query EXCEPT ![q] = NoQuery]
    /\ UNCHANGED <<cache, store, flights, background, epoch, refresh>>

\* The caller drops its query. The guard of an owner fails the waiters.
FlightGuardDrop(q) ==
    /\ query[q].pc = "exchanging"
    /\ query' = [Shared(q) EXCEPT ![q] = NoQuery]
    /\ flights' = [flights EXCEPT ![query[q].key] = None]
    /\ UNCHANGED <<cache, store, background, epoch, refresh>>
WaiterDrop(q) ==
    /\ query[q].pc = "waiting"
    /\ query' = [query EXCEPT ![q] = NoQuery]
    /\ flights' = [flights EXCEPT ![query[q].key] = @ \ {q}]
    /\ UNCHANGED <<cache, store, background, epoch, refresh>>

\* The caller has its answer.
Return(q) ==
    /\ query[q].pc = "done"
    /\ query' = [query EXCEPT ![q] = NoQuery]
    /\ UNCHANGED <<cache, store, flights, background, epoch, refresh>>

\* Mutant: the epoch is not compared.
RefreshAnyEpoch(r) ==
    /\ refresh[r] # NoRefresh
    /\ background' = background \ {refresh[r].key}
    /\ insert_cache(refresh[r].key, [born |-> refresh[r].epoch, age |-> "fresh", by |-> "refresh"])
    /\ refresh' = [refresh EXCEPT ![r] = NoRefresh]
    /\ UNCHANGED <<flights, epoch, query>>

\* A background refresh ends. Its answer is dropped after a clear.
spawn_refresh(r) ==
    /\ refresh[r] # NoRefresh
    /\ LET k == refresh[r].key
           entry == [born |-> refresh[r].epoch, age |-> "fresh", by |-> "refresh"] IN
       /\ background' = background \ {k}
       /\ \/ refresh[r].epoch = epoch /\ insert_cache(k, entry)
          \/ UNCHANGED <<cache, store>>
    /\ refresh' = [refresh EXCEPT ![r] = NoRefresh]
    /\ UNCHANGED <<flights, epoch, query>>

\* The mode changed or the user flushes; the table on disk may be left as it is.
clear_cache ==
    /\ epoch < MaxClears
    /\ cache' = [k \in Keys |-> None]
    /\ \/ store' = [k \in Keys |-> None]
       \/ Persistent /\ UNCHANGED store
    /\ background' = {}
    /\ epoch' = epoch + 1
    /\ UNCHANGED <<flights, query, refresh>>

\* An answer passes its expiry, then the optimistic timeout after it.
Older(entry) == [born |-> entry.born, by |-> entry.by,
                 age |-> IF entry.age = "fresh" THEN "stale" ELSE "dead"]
Expire(k) ==
    /\ \/ /\ cache[k] # None /\ cache[k].age # "dead"
          /\ cache' = [cache EXCEPT ![k] = Older(@)] /\ UNCHANGED store
       \/ /\ store[k] # None /\ store[k].age # "dead"
          /\ store' = [store EXCEPT ![k] = Older(@)] /\ UNCHANGED cache
    /\ UNCHANGED <<flights, background, epoch, query, refresh>>

-----------------------------------------------------------------------------
Step(q) == Hit(q) \/ Miss(q) \/ Exchanged(q)

Next ==
    \/ \E q \in Queries, k \in Keys, stale \in BOOLEAN : load_persistent(q, k, stale)
    \/ \E q \in Queries : Step(q) \/ FlightGuardDrop(q) \/ WaiterDrop(q) \/ Return(q)
    \/ \E r \in Refreshes : spawn_refresh(r)
    \/ clear_cache
    \/ \E k \in Keys : Expire(k)

\* Queries are polled, exchanges have a timeout, refreshes are tasks.
Fairness ==
    /\ \A q \in Queries : WF_vars(Step(q))
    /\ \A r \in Refreshes : WF_vars(spawn_refresh(r))

Spec == Init /\ [][Next]_vars
FairSpec == Spec /\ Fairness

-----------------------------------------------------------------------------
(* Properties *)

\* Identical queries are coalesced: a key has a flight exactly while one query
\* exchanges it, and every query that waits is known to that flight.
FlightsHaveOwners ==
    \A k \in Keys :
        /\ Cardinality({q \in Queries : query[q].pc = "exchanging" /\ query[q].key = k})
               = (IF flights[k] = None THEN 0 ELSE 1)
        /\ {q \in Queries : query[q].pc = "waiting" /\ query[q].key = k}
               = (IF flights[k] = None THEN {} ELSE flights[k])

\* A query that nobody drops is answered, although the owner it waits for may
\* be dropped at any time.
Answered == \A q \in Queries : query[q].pc \in {"loaded", "waiting"} ~> query[q].pc \in {"done", "idle"}

\* An optimistic hit starts one background refresh: before the first clear a key
\* never has two (background_refresh marks the keys).
TwoRefreshes ==
    \E r, s \in Refreshes : r # s /\ refresh[r] = refresh[s] /\ refresh[r] # NoRefresh
OneRefresh == epoch = 0 => ~TwoRefreshes

\* A background refresh that began before a clear does not put its answer into the
\* cache after it. Not said: that the answer does not come back from the disk.
RefreshRespectsClear ==
    \A k \in Keys : cache[k] # None /\ cache[k].by = "refresh" => cache[k].born = epoch

\* Type-correct, coalesced, and refreshed once.
SafetyInv == TypeOK /\ FlightsHaveOwners /\ OneRefresh

-----------------------------------------------------------------------------
(* What a clear does not keep.                                               *)

\* A key never has two refreshes. A refresh from before a clear removes the mark of
\* the one that began after it.
AlwaysOneRefresh == ~TwoRefreshes

\* The cache holds no answer from before the last clear. The exchange of a query
\* does not look at the epoch, and an entry read from disk before the clear is
\* inserted after it; so is one that the store failed to delete.
ClearEmptiesCache == \A k \in Keys : cache[k] # None => cache[k].born = epoch

-----------------------------------------------------------------------------
(* The inductive invariant behind the safety properties.                     *)

Owners(k) == {q \in Queries : query[q].pc = "exchanging" /\ query[q].key = k}
Waiters(k) == {q \in Queries : query[q].pc = "waiting" /\ query[q].key = k}

\* A query under way has a key; a flight has one owner and knows its waiters.
KeyedInv == \A q \in Queries :
    query[q].pc \in {"loaded", "exchanging", "waiting"} => query[q].key \in Keys
FlightInv == \A k \in Keys :
    IF flights[k] = None THEN Owners(k) = {} /\ Waiters(k) = {}
    ELSE (\E o \in Queries : Owners(k) = {o}) /\ Waiters(k) = flights[k]

\* A refresh is of this epoch or of an earlier one. Before the first clear its key
\* is marked, and no other refresh has it.
RefreshInv == \A r \in Refreshes : refresh[r] # NoRefresh =>
    /\ refresh[r].key \in Keys /\ refresh[r].epoch <= epoch
    /\ epoch = 0 => /\ refresh[r].key \in background
                    /\ \A s \in Refreshes \ {r} : refresh[s].key # refresh[r].key

\* What comes from the disk says so.
DiskInv ==
    /\ \A k \in Keys : store[k] # None => store[k].by = "disk"
    /\ \A q \in Queries : query[q].disk # None => query[q].disk.by = "disk"

IInv == TypeOK /\ KeyedInv /\ FlightInv /\ RefreshInv /\ DiskInv /\ RefreshRespectsClear

=============================================================================
