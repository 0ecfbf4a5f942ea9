------------------------------- MODULE FakeIp -------------------------------
(* The fake-IP allocator of the engine's DNS (dns/fakeip.rs) with its tables  *)
(* in the persistent cache (dns/persistent.rs). Addresses of a range are      *)
(* given to domains in rotation and looked up when a client connects to one.  *)
(* The model has one address family: the two share the lock and the row of    *)
(* metadata, and nothing else. Every operation runs under the mutex.          *)
EXTENDS Integers

CONSTANTS
    Domains,        \* canonical names
    Top,            \* bound: the highest address there is
    Ranges,         \* the ranges the configuration may name
    Persistent,     \* store_fakeip: there is a cache on disk
    Faults,         \* what may go wrong in a run: sets of "store" and "crash"
    None

Addr == 0 .. Top

ASSUME TopAssumption == Top \in Nat
ASSUME RangesAssumption ==
    /\ Ranges \subseteq [net: Addr, addr: Addr, last: Addr]
    /\ \A r \in Ranges : r.net <= r.addr /\ r.addr <= r.last
ASSUME NoneAssumption == None \notin Domains /\ None \notin Addr /\ None \notin Ranges
ASSUME NoRowAssumption == None \notin [range: Ranges, current: Addr \union {None}]
\* A range has an address to give after its second one and before its last.
Roomy == \A r \in Ranges : r.addr + 2 < r.last
ASSUME PersistentAssumption == Persistent \in BOOLEAN
ASSUME FaultsAssumption == Faults \subseteq SUBSET {"store", "crash"}

VARIABLES
    range,          \* inet4_range; None while no resolver exists
    current,        \* current4
    by_address,     \* address to domain, in memory
    by_domain,      \* by_domain4
    rows,           \* fakeip_cache: the domain of each address
    meta,           \* fakeip_metadata
    faults,         \* what may go wrong in this run
    given,          \* history: the domain each address was last given to
    since           \* history: the addresses given since each was given last; all of
                    \* them for an address that was never given

fakeIpVars == <<range, current, by_address, by_domain, rows, meta, faults, given, since>>
memory == <<range, current, by_address, by_domain>>

\* Reads and writes of the cache may fail; the process may die between two
\* writes.
StoreFails == "store" \in faults
Crashes == "crash" \in faults

NoDomains == [a \in Addr |-> None]
NoAddresses == [d \in Domains |-> None]
NeverGiven == [a \in Addr |-> Addr]
NoMemory == by_address' = NoDomains /\ by_domain' = NoAddresses

StateOK ==
    /\ range \in Ranges \union {None} /\ current \in Addr \union {None}
    /\ by_address \in [Addr -> Domains \union {None}] /\ by_domain \in [Domains -> Addr \union {None}]
    /\ rows \in [Addr -> Domains \union {None}]
    /\ meta \in [range: Ranges, current: Addr \union {None}] \union {None}
    /\ given \in [Addr -> Domains \union {None}]
    /\ faults \in Faults
    /\ range = None => current = None /\ by_address = NoDomains /\ by_domain = NoAddresses

FakeIpTypeOK == StateOK /\ since \in [Addr -> SUBSET Addr]

FakeIpInit ==
    /\ range = None /\ current = None
    /\ by_address = NoDomains /\ by_domain = NoAddresses
    /\ rows = NoDomains /\ meta = None
    /\ given = NoDomains /\ since = NeverGiven
    /\ faults \in Faults

next(a) == IF a \in Addr /\ a < Top THEN a + 1 ELSE None
contains(r, a) == a \in r.net .. r.last

\* The row is kept, read, or written, unless the store fails.
Stored(new, old) == {IF Persistent THEN new ELSE old} \union (IF StoreFails THEN {old} ELSE {})

-----------------------------------------------------------------------------
(* new_with_cache *)

valid_current(c, r) == c # None /\ contains(r, c)
Matches(r) == Persistent /\ meta # None /\ meta.range = r /\ valid_current(meta.current, r)

\* The position is taken from the store, or the store is cleared and written
\* anew.
new_with_cache(r) ==
    /\ range = None
    /\ range' = r
    /\ IF Matches(r)
       THEN /\ current' = meta.current
            /\ UNCHANGED <<rows, meta, given, since>>
       ELSE /\ current' = next(r.addr)
            /\ rows' = NoDomains
            /\ meta' = IF Persistent THEN [range |-> r, current |-> next(r.addr)] ELSE None
            /\ given' = NoDomains /\ since' = NeverGiven
    /\ UNCHANGED <<by_address, by_domain, faults>>

\* Without the store there is no resolver; nor is there one when the process dies
\* between the two writes. The tables have been cleared by then.
NoStore(r) ==
    /\ StoreFails \/ Crashes
    /\ Persistent
    /\ range = None /\ ~Matches(r)
    /\ rows' = NoDomains /\ meta' = None
    /\ given' = NoDomains /\ since' = NeverGiven
    /\ UNCHANGED <<memory, faults>>

\* The resolver is dropped with the runtime, or with its process.
drop ==
    /\ range # None
    /\ range' = None /\ current' = None /\ NoMemory
    /\ given' = (IF Persistent THEN given ELSE NoDomains) /\ since' = (IF Persistent THEN since ELSE NeverGiven)
    /\ UNCHANGED <<rows, meta, faults>>

-----------------------------------------------------------------------------
(* insert_mapping *)

\* The domain that had the address loses it, and the address the domain had
\* before is forgotten.
insert_mapping(a, d) ==
    LET freed == [x \in Domains |-> IF x = by_address[a] THEN None ELSE by_domain[x]]
        mapped == [by_address EXCEPT ![a] = d]
        previous == freed[d]
    IN  /\ by_domain' = [freed EXCEPT ![d] = a]
        /\ by_address' = [x \in Addr |-> IF x = previous /\ x # a /\ mapped[x] = d THEN None ELSE mapped[x]]

-----------------------------------------------------------------------------
(* create *)

Known(d) ==
    /\ range # None /\ by_domain[d] # None
    /\ given' = [given EXCEPT ![by_domain[d]] = d]
    /\ UNCHANGED <<memory, rows, meta, since, faults>>

\* The address the store has for the domain, when it is in the range.
load_fakeip_by_domain(d) == {a \in Addr : rows[a] = d /\ contains(range, a)}

Restored(d) ==
    /\ range # None /\ by_domain[d] = None
    /\ \E a \in load_fakeip_by_domain(d) :
           insert_mapping(a, d) /\ given' = [given EXCEPT ![a] = d]
    /\ UNCHANGED <<range, current, rows, meta, since, faults>>

\* Mutant: the last address of the range is used too.
ToTheLast ==
    LET a == next(current) IN
    IF a = None \/ ~contains(range, a) THEN next(next(range.addr)) ELSE a

\* The next address in rotation. After the last one it begins again.
NextAddress ==
    LET a == next(current) IN
    IF a = range.last \/ ~contains(range, a) THEN next(next(range.addr)) ELSE a

\* Mutants: the row of an address that has one is not replaced; the position is
\* saved before it moves.
SaveInsertOnly(a, d) == [x \in Addr |-> IF x = a /\ rows[x] = None THEN d ELSE rows[x]]
PositionBefore(a) == [range |-> range, current |-> current]

save_fakeip(a, d) == [x \in Addr |-> IF x = a THEN d ELSE IF rows[x] = d THEN None ELSE rows[x]]
Position(a) == [range |-> range, current |-> a]

Take(a, d) ==
    /\ range # None /\ by_domain[d] = None
    /\ load_fakeip_by_domain(d) = {} \/ StoreFails
    /\ next(current) # None /\ a # None /\ a = NextAddress
    /\ given' = [given EXCEPT ![a] = d]
    /\ since' = [x \in Addr |-> IF x = a THEN {} ELSE since[x] \union {a}]

Allocate(a, d) ==
    /\ Take(a, d)
    /\ current' = a
    /\ insert_mapping(a, d)
    /\ rows' \in Stored(save_fakeip(a, d), rows)
    /\ meta' \in Stored(Position(a), meta)
    /\ UNCHANGED <<range, faults>>

\* The process dies after the address was saved and before the position was.
Interrupted(a, d) ==
    /\ Crashes /\ Persistent
    /\ Take(a, d)
    /\ rows' = save_fakeip(a, d)
    /\ range' = None /\ current' = None /\ NoMemory
    /\ UNCHANGED <<meta, faults>>

-----------------------------------------------------------------------------
\* An address that is not in memory is looked up in the store.
lookup_domain(a) ==
    /\ range # None
    /\ by_address[a] = None /\ rows[a] # None
    /\ contains(range, a)
    /\ insert_mapping(a, rows[a])
    /\ UNCHANGED <<range, current, rows, meta, given, since, faults>>

\* The mappings are discarded; the position in memory is not.
reset ==
    /\ range # None
    /\ NoMemory
    /\ \/ rows' = NoDomains /\ meta' = None
       \/ StoreFails /\ UNCHANGED <<rows, meta>>
    /\ given' = NoDomains /\ since' = NeverGiven
    /\ UNCHANGED <<range, current, faults>>

-----------------------------------------------------------------------------
FakeIpNext ==
    \/ \E r \in Ranges : new_with_cache(r) \/ NoStore(r)
    \/ \E d \in Domains : Known(d) \/ Restored(d)
    \/ \E d \in Domains, a \in Addr : Allocate(a, d) \/ Interrupted(a, d)
    \/ \E a \in Addr : lookup_domain(a)
    \/ reset
    \/ drop

FakeIpSpec == FakeIpInit /\ [][FakeIpNext]_fakeIpVars

-----------------------------------------------------------------------------
(* Properties *)

\* Both directions of the mapping agree: an address has one domain, a domain
\* one address, whatever was evicted, restored or looked up in between.
Bijective == \A a \in Addr, d \in Domains : (by_address[a] = d) = (by_domain[d] = a)

\* What a connection to an address is routed to.
Found(a) == IF by_address[a] # None THEN by_address[a] ELSE IF contains(range, a) THEN rows[a] ELSE None

\* A connection to an address goes to the domain that was last given the
\* address, across restarts, crashes between two writes, evictions and resets,
\* as long as the store does not fail (SINGBOX.md, of store_fakeip: both
\* directions are restored after a restart).
Routed == range # None /\ ~StoreFails => \A a \in Addr : given[a] # None => Found(a) = given[a]

\* Every address given is one that is_fake_ip recognises, and never the last
\* one of the range.
InRange == range # None => \A a \in Addr : by_address[a] # None => contains(range, a) /\ a # range.last

\* The addresses of a range that are given.
Rotation(r) == r.addr + 2 .. r.last - 1

\* It is the address' turn: it was never given, or every other address of the
\* range was given since.
Turn(a) == Rotation(range) \ {a} \subseteq since[a]

\* An address is given to another domain only when every other address of the
\* range has been given since, before or after a restart, as long as nothing
\* goes wrong.
OldestFirst == [][\A a \in Addr, d \in Domains : Take(a, d) /\ faults = {} => Turn(a)]_fakeIpVars

-----------------------------------------------------------------------------
(* What the code does not keep: an address is given again at once after a     *)
(* failed write of the row or of the position, and after a crash between the  *)
(* two; and a range whose second address is near its end gives addresses      *)
(* outside it.                                                                *)

\* Routed, whatever the store does.
AlwaysRouted == range # None => \A a \in Addr : given[a] # None => Found(a) = given[a]

\* OldestFirst, across a crash between save_fakeip and the metadata.
AlwaysOldestFirst == [][\A a \in Addr, d \in Domains : Take(a, d) => Turn(a)]_fakeIpVars

=============================================================================
