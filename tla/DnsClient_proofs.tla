------------------------- MODULE DnsClient_proofs -------------------------
(* Proofs about DnsClient: for any keys and any number of queries, refreshes *)
(* and clears, flights and their waiters never come apart, and no refresh    *)
(* outlives a clear.                                                         *)
EXTENDS DnsClient, FiniteSetTheorems, TLAPS

\* The shape of the records the actions build.
LEMMA Records ==
    /\ NoQuery.pc = "idle" /\ NoQuery.key = None /\ NoQuery.disk = None /\ NoQuery.born = 0
    /\ Done.pc = "done" /\ Done.key = None /\ Done.disk = None /\ Done.born = 0
    /\ NoQuery.stale = FALSE /\ Done.stale = FALSE
    /\ NoRefresh.key = None /\ NoRefresh.epoch = 0
  BY DEF NoQuery, Done, NoRefresh, Query

LEMMA Start == Init => IInv
<1> SUFFICES ASSUME Init PROVE IInv
  OBVIOUS
<1>1. TypeOK
  BY BoundsAssumption DEF Init, TypeOK, NoQuery, NoRefresh, Query, Epochs
<1>2. KeyedInv
  BY Records DEF Init, KeyedInv
<1>3. FlightInv
  BY Records DEF Init, FlightInv, Owners, Waiters
<1>4. RefreshInv
  BY DEF Init, RefreshInv
<1>5. DiskInv
  BY Records DEF Init, DiskInv
<1>6. RefreshRespectsClear
  BY DEF Init, RefreshRespectsClear
<1> QED  BY <1>1, <1>2, <1>3, <1>4, <1>5, <1>6 DEF IInv

\* What a flight says of its key depends on flights and on the queries that
\* exchange and wait, not on anything else a query carries.
LEMMA FlightKept ==
    ASSUME FlightInv, UNCHANGED flights,
           \A q \in Queries : \/ query'[q] = query[q]
                              \/ /\ query[q].pc \notin {"exchanging", "waiting"}
                                 /\ query'[q].pc \notin {"exchanging", "waiting"}
    PROVE  FlightInv'
<1>1. ASSUME NEW k \in Keys
      PROVE  Owners(k)' = Owners(k) /\ Waiters(k)' = Waiters(k)
  BY DEF Owners, Waiters
<1> QED  BY <1>1 DEF FlightInv

\* Inserting an answer keeps the types, and on disk it is marked as from disk.
LEMMA Inserted ==
    ASSUME IInv, NEW k \in Keys, NEW entry \in Entry, insert_cache(k, entry)
    PROVE  /\ cache' \in [Keys -> Entry \union {None}]
           /\ store' \in [Keys -> Entry \union {None}]
           /\ \A j \in Keys : store'[j] # None => store'[j].by = "disk"
           /\ cache' = [cache EXCEPT ![k] = entry]
<1>1. OnDisk(entry) \in Entry /\ OnDisk(entry).by = "disk"
  BY DEF Entry, OnDisk
<1> QED  BY <1>1 DEF insert_cache, IInv, TypeOK, DiskInv

LEMMA LoadStep ==
    ASSUME IInv, NEW q \in Queries, NEW k \in Keys, NEW stale \in BOOLEAN,
           load_persistent(q, k, stale)
    PROVE  IInv'
<1> DEFINE n == [pc |-> "loaded", key |-> k, stale |-> stale,
               disk |-> store[k], born |-> 0]
<1>1. /\ n.pc = "loaded" /\ n.key = k /\ n.disk = store[k]
      /\ n \in [pc: {"idle", "loaded", "exchanging", "waiting", "done"},
                key: Keys \union {None}, stale: BOOLEAN, disk: Entry \union {None},
                born: Epochs]
  BY BoundsAssumption DEF IInv, TypeOK, Epochs
<1> HIDE DEF n
<1>2. /\ query' = [query EXCEPT ![q] = n] /\ query[q].pc = "idle"
      /\ UNCHANGED <<cache, store, flights, background, epoch, refresh>>
  BY DEF load_persistent, n
<1>3. TypeOK'
  BY <1>1, <1>2 DEF IInv, TypeOK
<1>4. KeyedInv'
  BY <1>1, <1>2 DEF IInv, KeyedInv, TypeOK
<1>5. FlightInv'
  BY <1>1, <1>2, FlightKept DEF IInv, TypeOK
<1>6. RefreshInv' /\ RefreshRespectsClear'
  BY <1>2 DEF IInv, RefreshInv, RefreshRespectsClear
<1>7. DiskInv'
  BY <1>1, <1>2 DEF IInv, DiskInv, TypeOK
<1> QED  BY <1>3, <1>4, <1>5, <1>6, <1>7 DEF IInv

LEMMA HitStep == ASSUME IInv, NEW q \in Queries, Hit(q) PROVE IInv'
<1> DEFINE k == query[q].key
<1>1. k \in Keys /\ Found(q) \in Entry
  BY DEF Hit, Usable, Found, IInv, KeyedInv, TypeOK
<1>2. /\ query' = [query EXCEPT ![q] = Done] /\ cache' = [cache EXCEPT ![k] = Found(q)]
      /\ query[q].pc = "loaded" /\ UNCHANGED <<store, flights, epoch>>
  BY DEF Hit
<1>3. Done \in [pc: {"idle", "loaded", "exchanging", "waiting", "done"},
                key: Keys \union {None}, stale: BOOLEAN, disk: Entry \union {None},
                born: Epochs]
  BY BoundsAssumption DEF Done, Query, Epochs
<1>4. ASSUME UNCHANGED <<background, refresh>>
      PROVE  TypeOK' /\ RefreshInv'
  <2>1. TypeOK'
    BY <1>1, <1>2, <1>3, <1>4, Records DEF IInv, TypeOK
  <2>2. RefreshInv'
    BY <1>2, <1>4 DEF IInv, RefreshInv
  <2> QED  BY <2>1, <2>2
<1>5. ASSUME NEW r \in Refreshes, refresh[r] = NoRefresh, k \notin background,
             background' = background \union {k},
             refresh' = [refresh EXCEPT ![r] = [key |-> k, epoch |-> epoch]]
      PROVE  TypeOK' /\ RefreshInv'
  <2>1. TypeOK'
    BY <1>1, <1>2, <1>3, <1>5, Records DEF IInv, TypeOK
  <2>2. RefreshInv'
    <3> SUFFICES ASSUME NEW s \in Refreshes, refresh'[s] # NoRefresh
                 PROVE  /\ refresh'[s].key \in Keys /\ refresh'[s].epoch <= epoch'
                        /\ epoch' = 0 => /\ refresh'[s].key \in background'
                                         /\ \A z \in Refreshes \ {s} :
                                               refresh'[z].key # refresh'[s].key
      BY DEF RefreshInv
    <3>1. epoch \in Nat /\ refresh \in [Refreshes -> [key: Keys \union {None}, epoch: Epochs]]
      BY BoundsAssumption DEF IInv, TypeOK, Epochs
    <3>2. epoch = 0 => \A z \in Refreshes : refresh[z].key # k
      BY <1>1, <1>5, Records, NoneAssumption DEF IInv, RefreshInv
    <3>3. CASE s = r
      BY <1>1, <1>2, <1>5, <3>1, <3>2, <3>3
    <3>4. CASE s # r
      BY <1>1, <1>2, <1>5, <3>1, <3>2, <3>4 DEF IInv, RefreshInv
    <3> QED  BY <3>3, <3>4
  <2> QED  BY <2>1, <2>2
<1>6. TypeOK' /\ RefreshInv'
  BY <1>4, <1>5 DEF Hit
<1>7. KeyedInv' /\ DiskInv'
  BY <1>2, Records DEF IInv, KeyedInv, DiskInv, TypeOK
<1>8. FlightInv'
  BY <1>2, Records, FlightKept DEF IInv, TypeOK
<1>9. RefreshRespectsClear'
  <2>1. Found(q).by = "refresh" => Found(q).born = epoch
    BY <1>1, NoneAssumption DEF Found, IInv, DiskInv, RefreshRespectsClear
  <2> QED  BY <1>1, <1>2, <2>1 DEF IInv, RefreshRespectsClear, TypeOK
<1> QED  BY <1>6, <1>7, <1>8, <1>9 DEF IInv

LEMMA MissStep == ASSUME IInv, NEW q \in Queries, Miss(q) PROVE IInv'
<1> DEFINE k == query[q].key
           own == flights[k] = None
           n == IF own THEN Query("exchanging", k, epoch) ELSE Query("waiting", k, 0)
<1>1. k \in Keys /\ query[q].pc = "loaded"
  BY DEF Miss, IInv, KeyedInv
<1>2. /\ query' = [query EXCEPT ![q] = n] /\ cache' = [cache EXCEPT ![k] = None]
      /\ flights' = [flights EXCEPT ![k] = IF own THEN {} ELSE flights[k] \union {q}]
      /\ UNCHANGED <<store, background, epoch, refresh>>
  BY DEF Miss
<1>3. /\ n \in [pc: {"idle", "loaded", "exchanging", "waiting", "done"},
                key: Keys \union {None}, stale: BOOLEAN, disk: Entry \union {None},
                born: Epochs]
      /\ n.pc = (IF own THEN "exchanging" ELSE "waiting") /\ n.key = k /\ n.disk = None
  BY <1>1, BoundsAssumption DEF Query, Epochs, IInv, TypeOK
<1> HIDE DEF n
<1>4. TypeOK'
  <2>1. own \/ flights[k] \in SUBSET Queries
    BY <1>1 DEF IInv, TypeOK
  <2>2. flights' \in [Keys -> (SUBSET Queries) \union {None}]
    BY <1>1, <1>2, <2>1 DEF IInv, TypeOK
  <2> QED  BY <1>2, <1>3, <2>2 DEF IInv, TypeOK
<1>5. KeyedInv' /\ DiskInv' /\ RefreshInv'
  BY <1>1, <1>2, <1>3 DEF IInv, KeyedInv, DiskInv, RefreshInv, TypeOK
<1>6. FlightInv'
  <2> SUFFICES ASSUME NEW j \in Keys
               PROVE  IF flights'[j] = None THEN Owners(j)' = {} /\ Waiters(j)' = {}
                      ELSE (\E o \in Queries : Owners(j)' = {o}) /\ Waiters(j)' = flights'[j]
    BY DEF FlightInv
  <2>1. /\ query \in [Queries -> [pc: {"idle", "loaded", "exchanging", "waiting", "done"},
                key: Keys \union {None}, stale: BOOLEAN, disk: Entry \union {None},
                born: Epochs]]
        /\ flights \in [Keys -> (SUBSET Queries) \union {None}]
    BY DEF IInv, TypeOK
  <2>2. CASE j # k
    <3>1. Owners(j)' = Owners(j) /\ Waiters(j)' = Waiters(j) /\ flights'[j] = flights[j]
      BY <1>1, <1>2, <1>3, <2>1, <2>2 DEF Owners, Waiters
    <3> QED  BY <3>1 DEF IInv, FlightInv
  <2>3. CASE j = k /\ own
    <3>1. Owners(k) = {} /\ Waiters(k) = {}
      BY <1>1, <2>3 DEF IInv, FlightInv
    <3>2. Owners(j)' = {q} /\ Waiters(j)' = {} /\ flights'[j] = {}
      BY <1>1, <1>2, <1>3, <2>1, <2>3, <3>1 DEF Owners, Waiters
    <3>3. flights'[j] # None
      BY <3>2, NoneAssumption
    <3> QED  BY <2>3, <3>2, <3>3
  <2>4. CASE j = k /\ ~own
    <3>1. (\E o \in Queries : Owners(j) = {o}) /\ Waiters(j) = flights[j]
      BY <1>1, <2>4 DEF IInv, FlightInv
    <3>2. /\ Owners(j)' = Owners(j) /\ Waiters(j)' = Waiters(j) \union {q}
          /\ flights'[j] = flights[j] \union {q}
      BY <1>1, <1>2, <1>3, <2>1, <2>4 DEF Owners, Waiters
    <3>3. flights'[j] # None
      BY <1>1, <2>1, <2>4, <3>2, NoneAssumption
    <3> QED  BY <2>4, <3>1, <3>2, <3>3
  <2> QED  BY <2>2, <2>3, <2>4
<1>7. RefreshRespectsClear'
  BY <1>1, <1>2 DEF IInv, RefreshRespectsClear, TypeOK
<1> QED  BY <1>4, <1>5, <1>6, <1>7 DEF IInv

\* The end of a flight, with a result or without: its owner and its waiters are
\* neither any more, and nobody else is touched.
LEMMA FlightEnds ==
    ASSUME IInv, NEW q \in Queries, query[q].pc = "exchanging",
           flights' = [flights EXCEPT ![query[q].key] = None],
           \A p \in Queries : IF p = q \/ p \in flights[query[q].key]
                              THEN query'[p].pc \notin {"exchanging", "waiting"}
                              ELSE query'[p] = query[p]
    PROVE  FlightInv'
<1> DEFINE k == query[q].key
<1>1. k \in Keys /\ q \in Owners(k)
  BY DEF IInv, KeyedInv, Owners
<1>2. Owners(k) = {q} /\ Waiters(k) = flights[k]
  BY <1>1 DEF IInv, FlightInv
<1> SUFFICES ASSUME NEW j \in Keys
             PROVE  IF flights'[j] = None THEN Owners(j)' = {} /\ Waiters(j)' = {}
                    ELSE (\E o \in Queries : Owners(j)' = {o}) /\ Waiters(j)' = flights'[j]
  BY DEF FlightInv
<1>3. flights \in [Keys -> (SUBSET Queries) \union {None}]
  BY DEF IInv, TypeOK
<1>4. CASE j # k
  <2>1. Owners(j)' = Owners(j) /\ Waiters(j)' = Waiters(j) /\ flights'[j] = flights[j]
    BY <1>1, <1>2, <1>3, <1>4 DEF Owners, Waiters
  <2> QED  BY <2>1 DEF IInv, FlightInv
<1>5. CASE j = k
  <2>1. Owners(j)' = {} /\ Waiters(j)' = {} /\ flights'[j] = None
    BY <1>1, <1>2, <1>3, <1>5 DEF Owners, Waiters
  <2> QED  BY <1>5, <2>1
<1> QED  BY <1>4, <1>5

\* What Shared leaves of the queries.
LEMMA SharedQueries ==
    ASSUME IInv, NEW q \in Queries, query[q].pc = "exchanging"
    PROVE  /\ Shared(q) \in [Queries -> [pc: {"idle", "loaded", "exchanging", "waiting", "done"},
                                key: Keys \union {None}, stale: BOOLEAN,
                                disk: Entry \union {None}, born: Epochs]]
           /\ \A p \in Queries : Shared(q)[p] = Done \/ Shared(q)[p] = query[p]
           /\ \A p \in Queries : p = q \/ p \in flights[query[q].key] => Shared(q)[p] = Done
           /\ \A p \in Queries : ~(p = q \/ p \in flights[query[q].key]) => Shared(q)[p] = query[p]
<1>1. Done \in [pc: {"idle", "loaded", "exchanging", "waiting", "done"},
                key: Keys \union {None}, stale: BOOLEAN, disk: Entry \union {None},
                born: Epochs]
  BY BoundsAssumption DEF Done, Query, Epochs
<1> HIDE DEF Done
<1> QED  BY <1>1 DEF Shared, IInv, TypeOK

LEMMA ExchangedStep == ASSUME IInv, NEW q \in Queries, Exchanged(q) PROVE IInv'
<1> DEFINE k == query[q].key
           entry == [born |-> query[q].born, age |-> "fresh", by |-> "query"]
<1>1. k \in Keys /\ query[q].pc = "exchanging" /\ entry \in Entry /\ entry.by = "query"
  BY DEF Exchanged, IInv, KeyedInv, TypeOK, Entry
<1>2. /\ query' = Shared(q) /\ flights' = [flights EXCEPT ![k] = None]
      /\ UNCHANGED <<background, epoch, refresh>>
      /\ insert_cache(k, entry) \/ UNCHANGED <<cache, store>>
  BY DEF Exchanged
<1> HIDE DEF entry
<1>3. /\ cache' \in [Keys -> Entry \union {None}] /\ store' \in [Keys -> Entry \union {None}]
      /\ \A j \in Keys : store'[j] # None => store'[j].by = "disk"
      /\ RefreshRespectsClear'
  <2>1. CASE insert_cache(k, entry)
    BY <1>1, <1>2, <2>1, Inserted DEF IInv, RefreshRespectsClear, TypeOK
  <2>2. CASE UNCHANGED <<cache, store>>
    BY <1>2, <2>2 DEF IInv, RefreshRespectsClear, TypeOK, DiskInv
  <2> QED  BY <1>2, <2>1, <2>2
<1>4. flights' \in [Keys -> (SUBSET Queries) \union {None}]
  BY <1>2 DEF IInv, TypeOK
<1>5. TypeOK'
  BY <1>1, <1>2, <1>3, <1>4, SharedQueries, Records DEF IInv, TypeOK
<1>6. KeyedInv' /\ DiskInv' /\ RefreshInv'
  BY <1>1, <1>2, <1>3, SharedQueries, Records DEF IInv, KeyedInv, DiskInv, RefreshInv
<1>7. FlightInv'
  BY <1>1, <1>2, SharedQueries, Records, FlightEnds
<1> QED  BY <1>3, <1>5, <1>6, <1>7 DEF IInv

LEMMA OwnerDropped == ASSUME IInv, NEW q \in Queries, FlightGuardDrop(q) PROVE IInv'
<1> DEFINE k == query[q].key
<1>1. k \in Keys /\ query[q].pc = "exchanging"
  BY DEF FlightGuardDrop, IInv, KeyedInv
<1>2. /\ query' = [Shared(q) EXCEPT ![q] = NoQuery] /\ flights' = [flights EXCEPT ![k] = None]
      /\ UNCHANGED <<cache, store, background, epoch, refresh>>
  BY DEF FlightGuardDrop
<1>3. NoQuery \in [pc: {"idle", "loaded", "exchanging", "waiting", "done"},
                   key: Keys \union {None}, stale: BOOLEAN, disk: Entry \union {None},
                   born: Epochs]
  BY BoundsAssumption DEF NoQuery, Query, Epochs
<1>4. flights' \in [Keys -> (SUBSET Queries) \union {None}]
  BY <1>2 DEF IInv, TypeOK
<1>5. TypeOK'
  BY <1>1, <1>2, <1>3, <1>4, SharedQueries, Records DEF IInv, TypeOK
<1>6. KeyedInv' /\ DiskInv' /\ RefreshInv' /\ RefreshRespectsClear'
  BY <1>1, <1>2, SharedQueries, Records
  DEF IInv, KeyedInv, DiskInv, RefreshInv, RefreshRespectsClear
<1>7. FlightInv'
  BY <1>1, <1>2, SharedQueries, Records, FlightEnds
<1> QED  BY <1>5, <1>6, <1>7 DEF IInv

LEMMA WaiterDropped == ASSUME IInv, NEW q \in Queries, WaiterDrop(q) PROVE IInv'
<1> DEFINE k == query[q].key
<1>1. k \in Keys /\ query[q].pc = "waiting" /\ q \in Waiters(k)
  BY DEF WaiterDrop, IInv, KeyedInv, Waiters
<1>2. /\ query' = [query EXCEPT ![q] = NoQuery]
      /\ flights' = [flights EXCEPT ![k] = flights[k] \ {q}]
      /\ UNCHANGED <<cache, store, background, epoch, refresh>>
  BY DEF WaiterDrop
<1>3. NoQuery \in [pc: {"idle", "loaded", "exchanging", "waiting", "done"},
                   key: Keys \union {None}, stale: BOOLEAN, disk: Entry \union {None},
                   born: Epochs]
  BY BoundsAssumption DEF NoQuery, Query, Epochs
<1>4. /\ (\E o \in Queries : Owners(k) = {o}) /\ Waiters(k) = flights[k]
      /\ flights[k] \in SUBSET Queries
  BY <1>1 DEF IInv, FlightInv, TypeOK
<1>5. TypeOK'
  <2>1. flights' \in [Keys -> (SUBSET Queries) \union {None}]
    BY <1>1, <1>2, <1>4 DEF IInv, TypeOK
  <2> QED  BY <1>2, <1>3, <2>1 DEF IInv, TypeOK
<1>6. KeyedInv' /\ DiskInv' /\ RefreshInv' /\ RefreshRespectsClear'
  BY <1>2, Records DEF IInv, TypeOK, KeyedInv, DiskInv, RefreshInv, RefreshRespectsClear
<1>7. FlightInv'
  <2> SUFFICES ASSUME NEW j \in Keys
               PROVE  IF flights'[j] = None THEN Owners(j)' = {} /\ Waiters(j)' = {}
                      ELSE (\E o \in Queries : Owners(j)' = {o}) /\ Waiters(j)' = flights'[j]
    BY DEF FlightInv
  <2>1. query \in [Queries -> [pc: {"idle", "loaded", "exchanging", "waiting", "done"},
                key: Keys \union {None}, stale: BOOLEAN, disk: Entry \union {None},
                born: Epochs]]
        /\ flights \in [Keys -> (SUBSET Queries) \union {None}]
    BY DEF IInv, TypeOK
  <2>2. CASE j # k
    <3>1. Owners(j)' = Owners(j) /\ Waiters(j)' = Waiters(j) /\ flights'[j] = flights[j]
      BY <1>1, <1>2, <2>1, <2>2, Records DEF Owners, Waiters
    <3> QED  BY <3>1 DEF IInv, FlightInv
  <2>3. CASE j = k
    <3>1. /\ Owners(j)' = Owners(j) /\ Waiters(j)' = Waiters(j) \ {q}
          /\ flights'[j] = flights[j] \ {q}
      BY <1>1, <1>2, <2>1, <2>3, Records DEF Owners, Waiters
    <3>2. flights'[j] # None
      BY <1>4, <2>3, <3>1, NoneAssumption
    <3> QED  BY <1>4, <2>3, <3>1, <3>2
  <2> QED  BY <2>2, <2>3
<1> QED  BY <1>5, <1>6, <1>7 DEF IInv

LEMMA ReturnStep == ASSUME IInv, NEW q \in Queries, Return(q) PROVE IInv'
<1>1. /\ query' = [query EXCEPT ![q] = NoQuery] /\ query[q].pc = "done"
      /\ UNCHANGED <<cache, store, flights, background, epoch, refresh>>
  BY DEF Return
<1>2. NoQuery \in [pc: {"idle", "loaded", "exchanging", "waiting", "done"},
                   key: Keys \union {None}, stale: BOOLEAN, disk: Entry \union {None},
                   born: Epochs]
  BY BoundsAssumption DEF NoQuery, Query, Epochs
<1>3. TypeOK'
  BY <1>1, <1>2 DEF IInv, TypeOK
<1>4. KeyedInv' /\ DiskInv' /\ RefreshInv' /\ RefreshRespectsClear'
  BY <1>1, Records DEF IInv, TypeOK, KeyedInv, DiskInv, RefreshInv, RefreshRespectsClear
<1>5. FlightInv'
  BY <1>1, Records, FlightKept DEF IInv, TypeOK
<1> QED  BY <1>3, <1>4, <1>5 DEF IInv

LEMMA RefreshStep == ASSUME IInv, NEW r \in Refreshes, spawn_refresh(r) PROVE IInv'
<1> DEFINE k == refresh[r].key
           entry == [born |-> refresh[r].epoch, age |-> "fresh", by |-> "refresh"]
<1>1. k \in Keys /\ entry \in Entry /\ entry.born = refresh[r].epoch
  BY DEF spawn_refresh, IInv, RefreshInv, TypeOK, Entry
<1>2. /\ background' = background \ {k} /\ refresh' = [refresh EXCEPT ![r] = NoRefresh]
      /\ UNCHANGED <<flights, epoch, query>>
      /\ \/ refresh[r].epoch = epoch /\ insert_cache(k, entry)
         \/ UNCHANGED <<cache, store>>
      /\ refresh[r] # NoRefresh
  BY DEF spawn_refresh
<1> HIDE DEF entry
<1>3. /\ cache' \in [Keys -> Entry \union {None}] /\ store' \in [Keys -> Entry \union {None}]
      /\ \A j \in Keys : store'[j] # None => store'[j].by = "disk"
      /\ RefreshRespectsClear'
  <2>1. CASE refresh[r].epoch = epoch /\ insert_cache(k, entry)
    BY <1>1, <1>2, <2>1, Inserted DEF IInv, RefreshRespectsClear, TypeOK
  <2>2. CASE UNCHANGED <<cache, store>>
    BY <1>2, <2>2 DEF IInv, RefreshRespectsClear, TypeOK, DiskInv
  <2> QED  BY <1>2, <2>1, <2>2
<1>4. TypeOK'
  BY <1>2, <1>3, BoundsAssumption DEF IInv, TypeOK, NoRefresh, Epochs
<1>5. KeyedInv' /\ DiskInv' /\ FlightInv'
  BY <1>2, <1>3 DEF IInv, KeyedInv, DiskInv, FlightInv, Owners, Waiters
<1>6. RefreshInv'
  <2> SUFFICES ASSUME NEW s \in Refreshes, refresh'[s] # NoRefresh
               PROVE  /\ refresh'[s].key \in Keys /\ refresh'[s].epoch <= epoch'
                      /\ epoch' = 0 => /\ refresh'[s].key \in background'
                                       /\ \A z \in Refreshes \ {s} :
                                             refresh'[z].key # refresh'[s].key
    BY DEF RefreshInv
  <2>1. s # r /\ refresh'[s] = refresh[s]
    BY <1>2 DEF IInv, TypeOK
  <2>2. \A z \in Refreshes : refresh'[z].key = refresh[z].key \/ refresh'[z].key = None
    BY <1>2, Records DEF IInv, TypeOK
  <2>3. epoch = 0 => refresh[s].key # k
    BY <1>2, <2>1 DEF IInv, RefreshInv
  <2> QED  BY <1>2, <2>1, <2>2, <2>3, NoneAssumption DEF IInv, RefreshInv
<1> QED  BY <1>3, <1>4, <1>5, <1>6 DEF IInv

LEMMA ClearStep == ASSUME IInv, clear_cache PROVE IInv'
<1>1. epoch \in Nat /\ epoch + 1 \in Epochs /\ epoch + 1 # 0
  BY BoundsAssumption DEF clear_cache, IInv, TypeOK, Epochs
<1>2. TypeOK'
  BY <1>1 DEF clear_cache, IInv, TypeOK
<1>3. KeyedInv' /\ DiskInv' /\ FlightInv' /\ RefreshRespectsClear'
  BY DEF clear_cache, IInv, KeyedInv, DiskInv, FlightInv, Owners, Waiters, RefreshRespectsClear
<1>4. RefreshInv'
  <2>1. \A r \in Refreshes : refresh[r].epoch \in Nat
    BY BoundsAssumption DEF IInv, TypeOK, Epochs
  <2> QED  BY <1>1, <2>1 DEF clear_cache, IInv, RefreshInv
<1> QED  BY <1>2, <1>3, <1>4 DEF IInv

LEMMA ExpireStep == ASSUME IInv, NEW k \in Keys, Expire(k) PROVE IInv'
<1>1. ASSUME NEW e \in Entry
      PROVE  Older(e) \in Entry /\ Older(e).by = e.by /\ Older(e).born = e.born
  BY DEF Older, Entry
<1>2. /\ cache' \in [Keys -> Entry \union {None}] /\ store' \in [Keys -> Entry \union {None}]
      /\ \A j \in Keys : store'[j] # None => store'[j].by = "disk"
      /\ RefreshRespectsClear'
  <2>1. CASE /\ cache[k] # None /\ cache[k].age # "dead"
             /\ cache' = [cache EXCEPT ![k] = Older(@)] /\ UNCHANGED store
    BY <1>1, <2>1 DEF Expire, IInv, TypeOK, DiskInv, RefreshRespectsClear
  <2>2. CASE /\ store[k] # None /\ store[k].age # "dead"
             /\ store' = [store EXCEPT ![k] = Older(@)] /\ UNCHANGED cache
    BY <1>1, <2>2 DEF Expire, IInv, TypeOK, DiskInv, RefreshRespectsClear
  <2> QED  BY <2>1, <2>2 DEF Expire
<1>3. TypeOK'
  BY <1>2 DEF Expire, IInv, TypeOK
<1>4. KeyedInv' /\ DiskInv' /\ FlightInv' /\ RefreshInv'
  BY <1>2 DEF Expire, IInv, KeyedInv, DiskInv, FlightInv, Owners, Waiters, RefreshInv
<1> QED  BY <1>2, <1>3, <1>4 DEF IInv

\* The invariant holds for ever: what each of the properties below rests on.
THEOREM InvCorrect == Spec => []IInv
<1>1. IInv /\ [Next]_vars => IInv'
  <2> SUFFICES ASSUME IInv, [Next]_vars PROVE IInv'
    OBVIOUS
  <2>1. CASE UNCHANGED vars
    BY <2>1 DEF vars, IInv, TypeOK, KeyedInv, FlightInv, Owners, Waiters, RefreshInv, DiskInv,
       RefreshRespectsClear
  <2>2. CASE Next
    BY <2>2, LoadStep, HitStep, MissStep, ExchangedStep, OwnerDropped, WaiterDropped,
       ReturnStep, RefreshStep, ClearStep, ExpireStep DEF Next, Step
  <2> QED  BY <2>1, <2>2
<1> QED  BY <1>1, Start, PTL DEF Spec

\* exchange_inner coalesces: a key has a flight exactly while one query exchanges
\* it, whose waiters are those the flight knows (FlightsHaveOwners), and before the
\* first clear no key is refreshed twice at once (OneRefresh).
THEOREM SafetyCorrect == Spec => []SafetyInv
<1>1. IInv => FlightsHaveOwners
  <2> SUFFICES ASSUME IInv, NEW k \in Keys
               PROVE  /\ Cardinality(Owners(k)) = (IF flights[k] = None THEN 0 ELSE 1)
                      /\ Waiters(k) = (IF flights[k] = None THEN {} ELSE flights[k])
    BY DEF FlightsHaveOwners, Owners, Waiters
  <2>1. CASE flights[k] = None
    BY <2>1, FS_EmptySet DEF IInv, FlightInv
  <2>2. CASE flights[k] # None
    <3>1. PICK o \in Queries : Owners(k) = {o}
      BY <2>2 DEF IInv, FlightInv
    <3>2. Cardinality({o}) = 1
      BY FS_Singleton
    <3> QED  BY <2>2, <3>1, <3>2 DEF IInv, FlightInv
  <2> QED  BY <2>1, <2>2
<1>2. IInv => OneRefresh
  BY DEF IInv, RefreshInv, OneRefresh, TwoRefreshes
<1>3. IInv => SafetyInv
  BY <1>1, <1>2 DEF IInv, SafetyInv
<1> QED  BY <1>3, InvCorrect, PTL

\* spawn_refresh compares the epoch under the lock: no answer of a refresh from
\* before a clear is in the cache after it.
THEOREM ClearRespected == Spec => []RefreshRespectsClear
<1>1. IInv => RefreshRespectsClear
  BY DEF IInv
<1> QED  BY <1>1, InvCorrect, PTL

=============================================================================
