---------------------------- MODULE SessionState ----------------------------
(***************************************************************************)
(* One SessionState object (packages/state/src/session-state): entries with  *)
(* an expiry and a generation, kept for the requests of one session.  The    *)
(* engine runs one call at a time; around it are the callers' read, decide   *)
(* and compare-and-swap (updateEntry), the alarm that drops what expired,     *)
(* the registration with the org's ControlPlane, which an org's deletion      *)
(* reads, and evictions.                                                    *)
(*                                                                         *)
(* A call carries its caller's clock, which is behind the object's by at       *)
(* most Lag when the call arrives.  A value is the number of its write, and    *)
(* incr is a write like any other.  A call has one op, which is not rejected.  *)
(***************************************************************************)
EXTENDS Integers, FiniteSets, FiniteSetsExt

CONSTANTS
    Keys,
    Callers,        \* bound: updateEntry calls at once
    None,
    MinTtl, MaxTtl, \* MIN_TTL_MS, MAX_TTL_MS
    Asked,          \* the ttlMs the callers ask for
    MaxEntries,     \* maxEntries
    Lag,            \* bound: how late a caller's clock is
    MaxTime,        \* bound: the object's clock
    MaxWrites,      \* bound: writes
    MaxDeletions    \* bound: deletions of the org that reach the object

Times == 0..MaxTime
Writes == 1..MaxWrites
Expiries == 0..(MaxTime + MaxTtl)
Generations == 0..(MaxTime + MaxWrites)

VARIABLES
    \* stored
    entries,        \* session_state_entries, session_state_chunks
    alarm,
    \* in memory
    last,           \* StateEngine.#last
    armedAt,        \* #armedAt
    registeredUntil,    \* #registeredUntil
    registering,    \* the registrations the object waits for
    \* the ControlPlane
    registered,     \* session_instances.expires_at, 0 or past: none
    deleting,       \* an org's deletion: "none", "listed", "wiped"
    \* callers
    caller,         \* updateEntry: what it knows of its key
    clock,
    writes,
    deletions,
    \* history
    missed,         \* keys whose entry was there when a registration failed
    lasting,        \* registered, less what the deletion under way is going to forget
    forgotten       \* a deletion made the ControlPlane forget what it was told since the wipe

memory == <<last, armedAt, registeredUntil, registering>>
plane == <<registered, deleting, deletions, lasting, forgotten>>
vars == <<entries, alarm, memory, plane, caller, clock, writes, missed>>

Row == [value : Writes, generation : Generations, expiresAt : Expiries]

Caller ==
    [key : Keys, generation : Generations, current : Writes \cup {None},
     restarted : BOOLEAN]       \* history: the engine began anew since it read

Registration == [until : Expiries, arrived : BOOLEAN]

ASSUME SessionAssumption ==
    /\ {MinTtl, MaxEntries, MaxTime} \subseteq Nat \ {0}
    /\ {Lag, MaxWrites, MaxDeletions} \subseteq Nat
    /\ MaxTtl \in Nat /\ MaxTtl >= MinTtl
    /\ Asked \subseteq Int
    /\ None \notin Row \cup Writes \cup Expiries \cup Caller

TypeOK ==
    /\ entries \in [Keys -> Row \cup {None}]
    /\ alarm \in Expiries \cup {None}
    /\ last \in Generations
    /\ armedAt \in Expiries \cup {None}
    /\ registeredUntil \in Expiries
    /\ registering \subseteq Registration
    /\ registered \in Expiries
    /\ deleting \in {"none", "listed", "wiped"}
    /\ caller \in [Callers -> Caller \cup {None}]
    /\ clock \in Times
    /\ writes \in 0..MaxWrites
    /\ deletions \in 0..MaxDeletions
    /\ missed \subseteq Keys
    /\ lasting \in Expiries
    /\ forgotten \in BOOLEAN

Empty == [k \in Keys |-> None]

Init ==
    /\ entries = Empty
    /\ alarm = None
    /\ last = 0
    /\ armedAt = None
    /\ registeredUntil = 0
    /\ registering = {}
    /\ registered = 0
    /\ deleting = "none"
    /\ caller = [c \in Callers |-> None]
    /\ clock = 1
    /\ writes = 0
    /\ deletions = 0
    /\ missed = {}
    /\ lasting = 0
    /\ forgotten = FALSE

-----------------------------------------------------------------------------
(* The engine *)

clampTtl(ttl) == Min({MaxTtl, Max({MinTtl, ttl})})

Held(table) == {k \in Keys : table[k] # None}

nextExpiry(table) ==
    IF Held(table) = {} THEN None ELSE Min({table[k].expiresAt : k \in Held(table)})

maxGeneration(table) == Max({0} \cup {table[k].generation : k \in Held(table)})

\* #live: the row is dropped on contact once it expired by the caller's clock.
live(k, now) == IF entries[k] # None /\ entries[k].expiresAt > now THEN entries[k] ELSE None

generationOf(row) == IF row = None THEN 0 ELSE row.generation

valueOf(row) == IF row = None THEN None ELSE row.value

nextGeneration(now) == Max({last + 1, now})

purgeExpired(table, now) ==
    [k \in Keys |-> IF table[k] # None /\ table[k].expiresAt <= now THEN None ELSE table[k]]

\* The `count` rows of the lowest generations.
Oldest(table, count) ==
    {k \in Held(table) :
        Cardinality({j \in Held(table) : table[j].generation < table[k].generation}) < count}

enforceBound(table, now) ==
    LET kept == purgeExpired(table, now)
        overflow == Cardinality(Held(kept)) - MaxEntries
    IN  IF Cardinality(Held(table)) <= MaxEntries THEN table
        ELSE [k \in Keys |-> IF overflow > 0 /\ k \in Oldest(kept, overflow) THEN None ELSE kept[k]]

\* Mutant: a row that is written again keeps its generation.
PutInPlace(k, now, ttl) ==
    enforceBound([entries EXCEPT ![k] =
        [value |-> writes + 1,
         generation |-> IF live(k, now) = None THEN nextGeneration(now) ELSE @.generation,
         expiresAt |-> now + clampTtl(ttl)]], now)

\* The table after key k is written.
Put(k, now, ttl) ==
    enforceBound([entries EXCEPT ![k] =
        [value |-> writes + 1, generation |-> nextGeneration(now), expiresAt |-> now + clampTtl(ttl)]], now)

-----------------------------------------------------------------------------
(* The object *)

\* Mutant: an alarm that is set stays.
armOnce(table) ==
    LET next == nextExpiry(table)
    IN  IF next = None \/ alarm # None THEN UNCHANGED <<armedAt, alarm>>
        ELSE armedAt' = next /\ alarm' = next

\* #arm, after the table was written.
arm(table) ==
    LET next == nextExpiry(table)
    IN  IF next = None \/ next = armedAt THEN UNCHANGED <<armedAt, alarm>>
        ELSE armedAt' = next /\ alarm' = next

\* Mutant: again only once the registration ended.
registerLate(table, now) ==
    registering' =
        IF Held(table) = {} \/ registeredUntil > now THEN registering
        ELSE registering \cup {[until |-> now + MaxTtl, arrived |-> FALSE]}

\* #register: the call to the ControlPlane, unless it was told lately.
register(table, now) ==
    registering' =
        IF Held(table) = {} \/ 2 * (registeredUntil - now) > MaxTtl THEN registering
        ELSE registering \cup {[until |-> now + MaxTtl, arrived |-> FALSE]}

\* A write of key k goes through: put or incr.
Written(k, now, ttl) ==
    /\ writes < MaxWrites
    /\ writes' = writes + 1
    /\ last' = nextGeneration(now)
    /\ entries' = Put(k, now, ttl)
    /\ arm(entries')
    /\ register(entries', now)
    /\ missed' = (missed \ {k}) \cap Held(entries')
    /\ UNCHANGED <<registeredUntil, plane, clock>>

\* A call leaves the table as `table`, with nothing written: a read, a conflict, a delete.
Kept(table) ==
    /\ entries' = table
    /\ missed' = missed \cap Held(table)
    /\ UNCHANGED <<last, registeredUntil, plane, clock, writes>>

\* The row of k as a call meets it.
Touched(k, now) == [entries EXCEPT ![k] = live(k, now)]

CallTimes == {t \in Times : t > 0 /\ clock - Lag <= t /\ t <= clock}

-----------------------------------------------------------------------------
(* Callers: updateEntry, and calls without a generation *)

Knows(k, row) ==
    [key |-> k, generation |-> generationOf(row), current |-> valueOf(row), restarted |-> FALSE]

\* The first get, without and with a sliding expiry.
Get(c, k, now) ==
    /\ caller[c] = None
    /\ Kept(Touched(k, now))
    /\ caller' = [caller EXCEPT ![c] = Knows(k, live(k, now))]
    /\ UNCHANGED <<alarm, armedAt, registering>>

GetExtends(c, k, now, ttl) ==
    /\ caller[c] = None
    /\ Kept(IF live(k, now) = None THEN Touched(k, now)
            ELSE [entries EXCEPT ![k].expiresAt = Max({@, now + clampTtl(ttl)})])
    /\ register(entries', now)
    /\ caller' = [caller EXCEPT ![c] = Knows(k, live(k, now))]
    /\ UNCHANGED <<alarm, armedAt>>

\* ifGeneration is the row's.
Unchanged(c, now) == generationOf(live(caller[c].key, now)) = caller[c].generation

\* The caller goes on from its own write, which may be what it knows of a later
\* update (`known`), or does not hear of it.
CasPut(c, now, ttl) ==
    /\ caller[c] # None
    /\ Unchanged(c, now)
    /\ Written(caller[c].key, now, ttl)
    /\ \/ caller' = [caller EXCEPT ![c] = None]
       \/ caller' = [caller EXCEPT ![c] = [@ EXCEPT !.generation = last', !.current = writes',
                                                    !.restarted = FALSE]]

CasDelete(c, now) ==
    /\ caller[c] # None
    /\ Unchanged(c, now)
    /\ Kept([entries EXCEPT ![caller[c].key] = None])
    /\ caller' = [caller EXCEPT ![c] = None]
    /\ UNCHANGED <<alarm, armedAt, registering>>

\* The answer is the row as it is, from which the caller tries again.
Conflict(c, now, put) ==
    LET k == caller[c].key
    IN  /\ caller[c] # None
        /\ ~Unchanged(c, now)
        /\ Kept(Touched(k, now))
        /\ caller' = [caller EXCEPT ![c] = Knows(k, live(k, now))]
        /\ IF put THEN arm(entries') /\ register(entries', now)
           ELSE UNCHANGED <<alarm, armedAt, registering>>

\* The caller keeps the value as it is, has tried MAX_CAS_ATTEMPTS times, or its call
\* failed.
Ends(c) ==
    /\ caller[c] # None
    /\ caller' = [caller EXCEPT ![c] = None]
    /\ UNCHANGED <<entries, alarm, memory, plane, clock, writes, missed>>

\* put without a generation, or incr; delete without one.
Overwrite(k, now, ttl) ==
    /\ Written(k, now, ttl)
    /\ UNCHANGED caller

Delete(k, now) ==
    /\ Kept([entries EXCEPT ![k] = None])
    /\ UNCHANGED <<alarm, armedAt, registering, caller>>

-----------------------------------------------------------------------------
(* Alarm, registration, eviction, deletion *)

Restarted == [c \in Callers |-> IF caller[c] = None THEN None ELSE [caller[c] EXCEPT !.restarted = TRUE]]

\* sweep: an instance with nothing left deletes its storage and begins anew.
Alarm ==
    LET table == purgeExpired(entries, clock)
        next == nextExpiry(table)
    IN  /\ alarm # None /\ alarm <= clock
        /\ entries' = table
        /\ missed' = missed \cap Held(table)
        /\ alarm' = next
        /\ armedAt' = next
        /\ IF next = None THEN last' = 0 /\ caller' = Restarted ELSE UNCHANGED <<last, caller>>
        /\ UNCHANGED <<registeredUntil, registering, plane, clock, writes>>

RegisterArrives(r) ==
    /\ ~r.arrived
    /\ registering' = (registering \ {r}) \cup {[r EXCEPT !.arrived = TRUE]}
    /\ registered' = Max({registered, r.until})
    /\ lasting' = Max({lasting, r.until})
    /\ UNCHANGED <<entries, alarm, last, armedAt, registeredUntil, deleting, deletions, forgotten,
                   caller, clock, writes, missed>>

RegisterAnswered(r) ==
    /\ r.arrived
    /\ registering' = registering \ {r}
    /\ registeredUntil' = r.until
    /\ UNCHANGED <<entries, alarm, last, armedAt, plane, caller, clock, writes, missed>>

\* It fails, before or after it arrived.
RegisterFails(r) ==
    /\ registering' = registering \ {r}
    /\ missed' = IF r.arrived THEN missed ELSE Held(entries)
    /\ UNCHANGED <<entries, alarm, last, armedAt, registeredUntil, plane, caller, clock, writes>>

\* The new object starts from the stored table.  Mutant: from nothing.
EvictForgets ==
    /\ last' = 0
    /\ armedAt' = None
    /\ registeredUntil' = 0
    /\ registering' = {}
    /\ missed' = IF \E r \in registering : ~r.arrived THEN Held(entries) ELSE missed
    /\ caller' = Restarted
    /\ UNCHANGED <<entries, alarm, plane, clock, writes>>

Evict ==
    /\ last' = maxGeneration(entries)
    /\ armedAt' = None
    /\ registeredUntil' = 0
    /\ registering' = {}
    /\ missed' = IF \E r \in registering : ~r.arrived THEN Held(entries) ELSE missed
    /\ caller' = Restarted
    /\ UNCHANGED <<entries, alarm, plane, clock, writes>>

\* deleteOrg: it lists the registered objects, wipes them and forgets them.
DeletionLists ==
    /\ deleting = "none" /\ deletions < MaxDeletions
    /\ registered > clock
    /\ deleting' = "listed"
    /\ deletions' = deletions + 1
    /\ UNCHANGED <<entries, alarm, memory, registered, lasting, forgotten, caller, clock, writes, missed>>

Wipe ==
    /\ deleting = "listed"
    /\ deleting' = "wiped"
    /\ entries' = Empty
    /\ alarm' = None
    /\ armedAt' = None
    /\ last' = 0
    /\ registeredUntil' = 0
    /\ missed' = {}
    /\ lasting' = IF \E r \in registering : r.arrived THEN lasting ELSE 0
    /\ caller' = Restarted
    /\ UNCHANGED <<registering, registered, deletions, forgotten, clock, writes>>

forgetSessionInstances ==
    /\ deleting = "wiped"
    /\ deleting' = "none"
    /\ registered' = 0
    /\ lasting' = 0
    /\ forgotten' = (forgotten \/ lasting > 0)
    /\ UNCHANGED <<entries, alarm, memory, deletions, caller, clock, writes, missed>>

Tick ==
    /\ clock < MaxTime
    /\ clock' = clock + 1
    /\ UNCHANGED <<entries, alarm, memory, plane, caller, writes, missed>>

-----------------------------------------------------------------------------

Next ==
    \/ \E k \in Keys, now \in CallTimes :
        \/ \E c \in Callers :
            \/ Get(c, k, now)
            \/ \E ttl \in Asked : GetExtends(c, k, now, ttl)
        \/ \E ttl \in Asked : Overwrite(k, now, ttl)
        \/ Delete(k, now)
    \/ \E c \in Callers, now \in CallTimes :
        \/ \E ttl \in Asked : CasPut(c, now, ttl)
        \/ CasDelete(c, now)
        \/ \E put \in BOOLEAN : Conflict(c, now, put)
    \/ \E c \in Callers : Ends(c)
    \/ Alarm
    \/ \E r \in registering : RegisterArrives(r) \/ RegisterAnswered(r) \/ RegisterFails(r)
    \/ Evict
    \/ DeletionLists \/ Wipe \/ forgetSessionInstances
    \/ Tick

Spec == Init /\ [][Next]_vars

-----------------------------------------------------------------------------
(* Properties *)

\* The row that has the generation a caller knows has the value it saw, so that its
\* compare-and-swap undoes no write it did not see: through other writers, expiry, the
\* bound and retries, as long as the engine did not begin anew since (#nextGeneration).
NoLostUpdate ==
    \A c \in Callers : caller[c] # None /\ ~caller[c].restarted =>
        LET row == entries[caller[c].key]
        IN  row # None /\ row.generation = caller[c].generation => row.value = caller[c].current

\* A write that was answered is in the table: the bound drops older ones, whatever the
\* caller's clock says and whether or not the object was evicted (#enforceBound).
WriteKept ==
    [][writes' > writes => \E k \in Keys : entries'[k] # None /\ entries'[k].value = writes']_vars

\* While the object holds entries, its alarm is set, no later than the first expires.
AlarmCovers == \A k \in Keys : entries[k] # None => alarm # None /\ alarm <= entries[k].expiresAt

\* An entry outlives the registration a deletion of the org finds its object by for at
\* most half of MAX_TTL (#register, wipe), unless the registration failed, is under way,
\* or was under way or made while a deletion wiped the object and then forgot it.
FoundByDeletion ==
    \A k \in Keys : entries[k] # None =>
        \/ k \in missed \/ forgotten
        \/ \E r \in registering : ~r.arrived
        \/ 2 * (entries[k].expiresAt - registered) <= MaxTtl

-----------------------------------------------------------------------------
(* The inductive invariant *)

\* No generation is ahead of the engine's, which runs ahead of the clock by a write
\* each at most; the rows are finitely many.
GenerationsPast ==
    /\ last <= MaxTime + writes
    /\ IsFiniteSet(Held(entries))
    /\ \A k \in Keys : entries[k] # None => entries[k].generation \in 1..last
    /\ \A c \in Callers : caller[c] # None /\ ~caller[c].restarted => caller[c].generation <= last

\* The alarm in memory is the stored one.
AlarmKnown == armedAt # None => alarm = armedAt

\* A registration that arrived is in the ControlPlane, the one in memory too, and a
\* deletion under way will not forget it.
RegistrationKnown ==
    /\ lasting <= registered
    /\ \/ forgotten
       \/ /\ registeredUntil <= lasting
          /\ \A r \in registering : r.arrived => r.until <= lasting

\* The registration that an entry waits for is one that will cover it.
FoundOnceRegistered ==
    \A k \in Keys : entries[k] # None =>
        \/ k \in missed \/ forgotten
        \/ \E r \in registering : ~r.arrived /\ 2 * (entries[k].expiresAt - r.until) <= MaxTtl
        \/ 2 * (entries[k].expiresAt - lasting) <= MaxTtl

IInv ==
    /\ TypeOK /\ GenerationsPast /\ NoLostUpdate
    /\ AlarmKnown /\ AlarmCovers
    /\ RegistrationKnown /\ FoundOnceRegistered
=============================================================================
