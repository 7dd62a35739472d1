----------------------------- MODULE State_proofs -----------------------------
(***************************************************************************)
(* The proofs of two components of packages/state, for any constants that     *)
(* satisfy their assumptions: the session state, and the named leases.         *)
(***************************************************************************)
EXTENDS SessionState, NamedLease, FiniteSetTheorems, WellFoundedInduction, TLAPS

-----------------------------------------------------------------------------
(* Smallest and largest numbers *)

\* The smaller and the larger of two numbers.
LEMMA MinOfTwo ==
    ASSUME NEW a \in Int, NEW b \in Int
    PROVE  Min({a, b}) = IF a <= b THEN a ELSE b
<1>1. \E x \in {a, b} : \A y \in {a, b} : x <= y
  OBVIOUS
<1>2. /\ Min({a, b}) \in {a, b}
      /\ \A y \in {a, b} : Min({a, b}) <= y
  BY <1>1 DEF Min
<1> QED
  BY <1>2

LEMMA MaxOfTwo ==
    ASSUME NEW a \in Int, NEW b \in Int
    PROVE  Max({a, b}) = IF a >= b THEN a ELSE b
<1>1. \E x \in {a, b} : \A y \in {a, b} : x >= y
  OBVIOUS
<1>2. /\ Max({a, b}) \in {a, b}
      /\ \A y \in {a, b} : Max({a, b}) >= y
  BY <1>1 DEF Max
<1> QED
  BY <1>2

\* Some natural numbers have a smallest, and a largest if they are bounded.
LEMMA LessRelates ==
    ASSUME NEW u \in Nat, NEW v \in Nat, u < v
    PROVE  <<u, v>> \in OpToRel(<, Nat)
  BY DEF OpToRel

LEMMA SmallestExists ==
    ASSUME NEW S \in SUBSET Nat, S # {}
    PROVE  \E x \in S : \A y \in S : x <= y
<1>1. PICK x \in S : \A y \in S : ~(<<y, x>> \in OpToRel(<, Nat))
  BY NatLessThanWellFounded, WFMin
<1>2. ASSUME NEW y \in S PROVE x <= y
  <2>1. ~(y < x)
    BY <1>1, LessRelates
  <2> QED
    BY <2>1
<1> QED
  BY <1>2

LEMMA MinOfNats ==
    ASSUME NEW S \in SUBSET Nat, S # {}
    PROVE  /\ Min(S) \in S
           /\ \A y \in S : Min(S) <= y
  BY SmallestExists DEF Min

LEMMA MaxOfNats ==
    ASSUME NEW S \in SUBSET Nat, S # {}, NEW n \in Nat, \A y \in S : y <= n
    PROVE  /\ Max(S) \in S
           /\ \A y \in S : Max(S) >= y
<1> DEFINE T == {n - y : y \in S}
<1>1. \A y \in S : n - y \in Nat
  OBVIOUS
<1>2. T \in SUBSET Nat /\ T # {}
  BY <1>1
<1>3. PICK z \in T : \A y \in T : z <= y
  BY <1>2, SmallestExists
<1>4. PICK x \in S : z = n - x
  BY <1>3
<1>5. ASSUME NEW y \in S PROVE x >= y
  <2>1. n - x <= n - y
    BY <1>3, <1>4
  <2> QED
    BY <2>1
<1> QED
  BY <1>5 DEF Max

-----------------------------------------------------------------------------
(* The engine's operators *)

Table == [Keys -> Row \cup {None}]

\* The bounds are numbers, and no value of the model is taken for another.
LEMMA Numbers ==
    /\ MinTtl \in Nat /\ MinTtl >= 1 /\ MaxTtl \in Nat /\ MaxTtl >= MinTtl
    /\ MaxEntries \in Nat /\ MaxEntries >= 1 /\ MaxTime \in Nat /\ MaxTime >= 1
    /\ MaxWrites \in Nat /\ Lag \in Nat /\ MaxDeletions \in Nat
    /\ Asked \subseteq Int
    /\ Times = 0..MaxTime /\ Writes = 1..MaxWrites
    /\ Expiries = 0..(MaxTime + MaxTtl) /\ Generations = 0..(MaxTime + MaxWrites)
    /\ None \notin Row /\ None \notin Writes /\ None \notin Expiries /\ None \notin Caller
  BY SessionAssumption DEF Times, Writes, Expiries, Generations

\* A caller's clock is a positive time.
LEMMA CallTimesFact ==
    ASSUME NEW now \in CallTimes
    PROVE  now \in Times /\ now \in Nat /\ now > 0 /\ now <= MaxTime
  BY Numbers DEF CallTimes

\* clampTtl gives every entry a life between MIN_TTL_MS and MAX_TTL_MS.
LEMMA ClampFact ==
    ASSUME NEW ttl \in Asked
    PROVE  clampTtl(ttl) \in Nat /\ clampTtl(ttl) >= 1 /\ clampTtl(ttl) <= MaxTtl
<1>1. ttl \in Int
  BY Numbers
<1>2. Max({MinTtl, ttl}) = IF MinTtl >= ttl THEN MinTtl ELSE ttl
  BY <1>1, Numbers, MaxOfTwo
<1> DEFINE m == Max({MinTtl, ttl})
<1>3. m \in Int /\ m >= MinTtl
  BY <1>1, <1>2, Numbers
<1> HIDE DEF m
<1>4. Min({MaxTtl, m}) = IF MaxTtl <= m THEN MaxTtl ELSE m
  BY <1>3, Numbers, MinOfTwo
<1>5. clampTtl(ttl) = Min({MaxTtl, m})
  BY DEF clampTtl, m
<1> QED
  BY <1>3, <1>4, <1>5, Numbers

\* #nextGeneration is past the last one, and a write ahead of the clock at most.
LEMMA NextGenerationFact ==
    ASSUME last \in Nat, NEW now \in Nat
    PROVE  /\ nextGeneration(now) \in Nat /\ nextGeneration(now) > last
           /\ nextGeneration(now) = last + 1 \/ nextGeneration(now) = now
<1>1. nextGeneration(now) = IF last + 1 >= now THEN last + 1 ELSE now
  BY MaxOfTwo DEF nextGeneration
<1> QED
  BY <1>1

\* nextExpiry is the first expiry of a table that holds something.
LEMMA NextExpiryFact ==
    ASSUME NEW table \in Table
    PROVE  /\ nextExpiry(table) \in Expiries \cup {None}
           /\ nextExpiry(table) = None <=> Held(table) = {}
           /\ \A k \in Keys : table[k] # None =>
                nextExpiry(table) # None /\ nextExpiry(table) <= table[k].expiresAt
<1>1. CASE Held(table) = {}
  BY <1>1 DEF nextExpiry, Held
<1>2. CASE Held(table) # {}
  <2> DEFINE S == {table[k].expiresAt : k \in Held(table)}
  <2>1. \A k \in Held(table) : table[k].expiresAt \in Expiries
    BY DEF Table, Held, Row
  <2>2. S \in SUBSET Nat /\ S \subseteq Expiries /\ S # {}
    BY <1>2, <2>1, Numbers
  <2>3. /\ Min(S) \in S
        /\ \A y \in S : Min(S) <= y
    BY <2>2, MinOfNats
  <2>4. nextExpiry(table) = Min(S)
    BY <1>2 DEF nextExpiry
  <2>5. \A k \in Keys : table[k] # None => table[k].expiresAt \in S
    BY DEF Held
  <2> QED
    BY <1>2, <2>2, <2>3, <2>4, <2>5, Numbers
<1> QED
  BY <1>1, <1>2

\* What #live, purgeExpired and #enforceBound leave of a row is the row, or nothing.
LEMMA PurgeFact ==
    ASSUME NEW table \in Table, NEW now \in Nat
    PROVE  /\ purgeExpired(table, now) \in Table
           /\ \A k \in Keys : purgeExpired(table, now)[k] =
                IF table[k] # None /\ table[k].expiresAt <= now THEN None ELSE table[k]
  BY DEF purgeExpired, Table

LEMMA EnforceFact ==
    ASSUME NEW table \in Table, NEW now \in Nat
    PROVE  /\ enforceBound(table, now) \in Table
           /\ \A k \in Keys : enforceBound(table, now)[k] \in {None, table[k]}
  BY PurgeFact DEF enforceBound, Table

LEMMA LiveFact ==
    ASSUME entries \in Table, NEW k \in Keys, NEW now \in Nat
    PROVE  /\ live(k, now) \in {None, entries[k]}
           /\ Touched(k, now) \in Table
           /\ \A j \in Keys : Touched(k, now)[j] = IF j = k THEN live(k, now) ELSE entries[j]
  BY DEF live, Touched, Table

\* The newest row is not among the oldest that #enforceBound drops.
LEMMA NewestKept ==
    ASSUME NEW table \in Table, NEW k \in Keys, NEW now \in Nat, IsFiniteSet(Held(table)),
           table[k] # None, table[k].expiresAt > now,
           \A j \in Keys : j # k /\ table[j] # None => table[j].generation < table[k].generation
    PROVE  enforceBound(table, now)[k] = table[k]
<1> DEFINE kept == purgeExpired(table, now)
           overflow == Cardinality(Held(kept)) - MaxEntries
           older == {j \in Held(kept) : kept[j].generation < kept[k].generation}
<1>1. \A j \in Keys : kept[j] = IF table[j] # None /\ table[j].expiresAt <= now THEN None ELSE table[j]
  BY PurgeFact
<1>2. kept[k] = table[k] /\ table[k] \in Row /\ table[k].expiresAt \in Int
  BY <1>1, Numbers DEF Table, Row
<1>3. Held(kept) \subseteq Held(table) /\ k \in Held(kept)
  BY <1>1, <1>2 DEF Held
<1>4. IsFiniteSet(Held(kept))
  BY <1>3, FS_Subset
<1>5. older = Held(kept) \ {k}
  <2>1. \A j \in Held(kept) \ {k} : kept[j] = table[j] /\ table[j] # None /\ j \in Keys
    BY <1>1 DEF Held
  <2>2. table[k].generation \in Int
    BY <1>2, Numbers DEF Row
  <2> QED
    BY <1>2, <2>1, <2>2
<1>6. /\ Cardinality(older) = Cardinality(Held(kept)) - 1
      /\ Cardinality(Held(kept)) \in Nat
  BY <1>3, <1>4, <1>5, FS_RemoveElement, FS_CardinalityType
<1>7. ~(Cardinality(older) < overflow)
  BY <1>6, Numbers
<1>8. k \notin Oldest(kept, overflow)
  BY <1>7 DEF Oldest
<1> HIDE DEF kept, older
<1> QED
  BY <1>2, <1>8 DEF enforceBound, kept

\* A write that there is room for: the new row is in the table, and what #enforceBound
\* leaves of the others are rows that were there.
LEMMA PutFact ==
    ASSUME TypeOK, GenerationsPast, NEW k \in Keys, NEW now \in CallTimes, NEW ttl \in Asked,
           writes < MaxWrites
    PROVE  /\ Put(k, now, ttl) \in Table
           /\ IsFiniteSet(Held(Put(k, now, ttl)))
           /\ Put(k, now, ttl)[k] = [value |-> writes + 1, generation |-> nextGeneration(now),
                                     expiresAt |-> now + clampTtl(ttl)]
           /\ \A j \in Keys \ {k} : Put(k, now, ttl)[j] \in {None, entries[j]}
           /\ nextGeneration(now) \in Generations /\ nextGeneration(now) > last
           /\ nextGeneration(now) <= MaxTime + writes + 1
<1> DEFINE row == [value |-> writes + 1, generation |-> nextGeneration(now),
                   expiresAt |-> now + clampTtl(ttl)]
           table == [entries EXCEPT ![k] = row]
<1>1. writes \in Nat /\ last \in Nat /\ last <= MaxTime + writes /\ entries \in Table
  BY Numbers DEF TypeOK, GenerationsPast, Table
<1>2. /\ nextGeneration(now) \in Nat /\ nextGeneration(now) > last
      /\ nextGeneration(now) <= MaxTime + writes + 1
      /\ nextGeneration(now) \in Generations
  <2>1. now \in Nat /\ now <= MaxTime
    BY CallTimesFact
  <2>2. /\ nextGeneration(now) \in Nat /\ nextGeneration(now) > last
        /\ nextGeneration(now) = last + 1 \/ nextGeneration(now) = now
    BY <1>1, <2>1, NextGenerationFact
  <2> QED
    BY <1>1, <2>1, <2>2, Numbers
<1>3. /\ row.expiresAt \in Expiries /\ row.expiresAt > now /\ writes + 1 \in Writes
  BY <1>1, ClampFact, CallTimesFact, Numbers
<1>4. row \in Row /\ row # None
  BY <1>2, <1>3, Numbers DEF Row
<1>5. /\ table \in Table /\ table[k] = row
      /\ \A j \in Keys \ {k} : table[j] = entries[j]
  BY <1>1, <1>4 DEF Table
<1>6. Held(table) = Held(entries) \cup {k}
  BY <1>4, <1>5 DEF Held
<1>7. IsFiniteSet(Held(table))
  <2>1. IsFiniteSet(Held(entries))
    BY DEF GenerationsPast
  <2>2. IsFiniteSet(Held(entries) \cup {k})
    BY <2>1, FS_AddElement
  <2> QED
    BY <1>6, <2>2
<1>8. \A j \in Keys : j # k /\ table[j] # None => table[j].generation < table[k].generation
  BY <1>1, <1>2, <1>5 DEF GenerationsPast
<1>9. Put(k, now, ttl) = enforceBound(table, now)
  BY DEF Put
<1>10. now \in Nat
  BY CallTimesFact
<1> HIDE DEF table
<1>11. enforceBound(table, now)[k] = table[k]
  BY <1>3, <1>4, <1>5, <1>7, <1>8, <1>10, NewestKept
<1>12. /\ enforceBound(table, now) \in Table
       /\ \A j \in Keys : enforceBound(table, now)[j] \in {None, table[j]}
  BY <1>5, <1>10, EnforceFact
<1>13. Held(enforceBound(table, now)) \subseteq Held(table)
  BY <1>12 DEF Held
<1>14. IsFiniteSet(Held(enforceBound(table, now)))
  BY <1>7, <1>13, FS_Subset
<1> QED
  BY <1>2, <1>5, <1>9, <1>11, <1>12, <1>14

\* #arm: the alarm is set, no later than the first entry of the table expires.
LEMMA ArmFact ==
    ASSUME TypeOK, AlarmKnown, NEW table \in Table, arm(table)
    PROVE  /\ alarm' \in Expiries \cup {None} /\ armedAt' \in Expiries \cup {None}
           /\ AlarmKnown'
           /\ \A k \in Keys : table[k] # None => alarm' # None /\ alarm' <= table[k].expiresAt
<1>1. /\ nextExpiry(table) \in Expiries \cup {None}
      /\ \A k \in Keys : table[k] # None =>
            nextExpiry(table) # None /\ nextExpiry(table) <= table[k].expiresAt
  BY NextExpiryFact
<1>2. CASE nextExpiry(table) = None \/ nextExpiry(table) = armedAt
  <2>1. armedAt' = armedAt /\ alarm' = alarm
    BY <1>2 DEF arm
  <2> QED
    BY <1>1, <1>2, <2>1 DEF AlarmKnown, TypeOK
<1>3. CASE ~(nextExpiry(table) = None \/ nextExpiry(table) = armedAt)
  <2>1. armedAt' = nextExpiry(table) /\ alarm' = nextExpiry(table)
    BY <1>3 DEF arm
  <2> QED
    BY <1>1, <2>1 DEF AlarmKnown
<1> QED
  BY <1>2, <1>3

\* #register: an entry that lives for MAX_TTL at most is covered by the registration the
\* ControlPlane has, or by one that is on its way.
LEMMA RegisterFact ==
    ASSUME TypeOK, RegistrationKnown, NEW table \in Table, NEW now \in CallTimes,
           register(table, now)
    PROVE  /\ registering \subseteq registering' /\ registering' \subseteq Registration
           /\ \A r \in registering' : r.arrived => r \in registering
           /\ \A k \in Keys : table[k] # None /\ table[k].expiresAt <= now + MaxTtl =>
                \/ forgotten
                \/ \E r \in registering' : ~r.arrived /\ 2 * (table[k].expiresAt - r.until) <= MaxTtl
                \/ 2 * (table[k].expiresAt - lasting) <= MaxTtl
<1> DEFINE new == [until |-> now + MaxTtl, arrived |-> FALSE]
<1>1. now \in Nat /\ now <= MaxTime
  BY CallTimesFact
<1>2. new \in Registration /\ ~new.arrived /\ new.until = now + MaxTtl
  BY <1>1, Numbers DEF Registration
<1>3. /\ registering \subseteq Registration
      /\ registeredUntil \in Int /\ lasting \in Int
  BY Numbers DEF TypeOK
<1>4. \/ registering' = registering
      \/ registering' = registering \cup {new}
  BY DEF register
<1>5. registering \subseteq registering' /\ registering' \subseteq Registration
  BY <1>2, <1>3, <1>4
<1>6. \A r \in registering' : r.arrived => r \in registering
  BY <1>2, <1>4
<1>7. ASSUME NEW k \in Keys, table[k] # None, table[k].expiresAt <= now + MaxTtl
      PROVE  \/ forgotten
             \/ \E r \in registering' : ~r.arrived /\ 2 * (table[k].expiresAt - r.until) <= MaxTtl
             \/ 2 * (table[k].expiresAt - lasting) <= MaxTtl
  <2>1. Held(table) # {}
    BY <1>7 DEF Held
  <2>2. table[k].expiresAt \in Int
    BY <1>7, Numbers DEF Table, Row
  <2>3. CASE 2 * (registeredUntil - now) > MaxTtl
    <3>1. forgotten \/ registeredUntil <= lasting
      BY DEF RegistrationKnown
    <3> QED
      BY <1>1, <1>3, <1>7, <2>2, <2>3, <3>1, Numbers
  <2>4. CASE ~(2 * (registeredUntil - now) > MaxTtl)
    <3>1. new \in registering'
      BY <2>1, <2>4 DEF register
    <3>2. 2 * (table[k].expiresAt - new.until) <= MaxTtl
      BY <1>1, <1>2, <1>7, <2>2, Numbers
    <3> QED
      BY <1>2, <3>1, <3>2
  <2> QED
    BY <2>3, <2>4
<1> QED
  BY <1>5, <1>6, <1>7

-----------------------------------------------------------------------------
(* The steps of the session state *)

\* What a get or a conflict tells the caller of its key.
LEMMA KnowsFact ==
    ASSUME NEW k \in Keys, NEW row \in Row \cup {None}
    PROVE  Knows(k, row) \in Caller
<1>1. generationOf(row) \in Generations /\ valueOf(row) \in Writes \cup {None}
  BY Numbers DEF generationOf, valueOf, Row
<1> QED
  BY <1>1 DEF Knows, Caller

\* A call that writes nothing: the rows that stay keep their value and generation, and a
\* caller knows what it knew, or its row as the call leaves it.
LEMMA KeptKeeps ==
    ASSUME IInv, NEW table \in Table, Kept(table),
           \A k \in Keys : table[k] # None =>
                /\ entries[k] # None
                /\ table[k].generation = entries[k].generation /\ table[k].value = entries[k].value,
           caller' \in [Callers -> Caller \cup {None}],
           \A c \in Callers :
                \/ caller'[c] = None \/ caller'[c] = caller[c]
                \/ \E k \in Keys : caller'[c] = Knows(k, table[k]),
           alarm' \in Expiries \cup {None}, armedAt' \in Expiries \cup {None},
           registering' \subseteq Registration,
           \A r \in registering' : r.arrived => r \in registering
    PROVE  TypeOK' /\ GenerationsPast' /\ NoLostUpdate' /\ RegistrationKnown'
<1>1. /\ entries' = table /\ last' = last /\ registeredUntil' = registeredUntil
      /\ registered' = registered /\ deleting' = deleting /\ deletions' = deletions
      /\ lasting' = lasting /\ forgotten' = forgotten /\ clock' = clock /\ writes' = writes
      /\ missed' = missed \cap Held(table)
  BY DEF Kept, plane
<1>2. TypeOK /\ GenerationsPast /\ NoLostUpdate /\ RegistrationKnown
  BY DEF IInv
<1>3. TypeOK'
  BY <1>1, <1>2 DEF TypeOK, Table
<1>4. \A k \in Keys : table[k] # None => table[k].generation \in 1..last
  BY <1>2 DEF GenerationsPast
<1> DEFINE Sound(c) ==
        /\ caller'[c].generation <= last
        /\ table[caller'[c].key] # None /\ table[caller'[c].key].generation = caller'[c].generation
                => table[caller'[c].key].value = caller'[c].current
<1>5. ASSUME NEW c \in Callers, caller'[c] # None, ~caller'[c].restarted
      PROVE  Sound(c)
  <2>1. CASE caller'[c] = caller[c]
    <3>1. caller[c].key \in Keys /\ caller[c] # None /\ ~caller[c].restarted
      BY <1>2, <1>5, <2>1 DEF TypeOK, Caller
    <3> QED
      BY <1>2, <2>1, <3>1 DEF GenerationsPast, NoLostUpdate
  <2>2. ASSUME NEW k \in Keys, caller'[c] = Knows(k, table[k])
        PROVE  Sound(c)
    <3>1. table[k] \in Row \cup {None} /\ last \in Nat
      BY <1>2, Numbers DEF Table, TypeOK
    <3> DEFINE row == table[k]
    <3>2. caller'[c] = Knows(k, row) /\ row \in Row \cup {None}
      BY <2>2, <3>1
    <3> HIDE DEF row
    <3>3. /\ caller'[c].key = k
          /\ row = None => caller'[c].generation = 0
          /\ row # None => caller'[c].generation = row.generation /\ caller'[c].current = row.value
      BY <3>2 DEF Knows, generationOf, valueOf
    <3> QED
      BY <1>4, <3>1, <3>3 DEF row
  <2> QED
    BY <1>5, <2>1, <2>2
<1>6. IsFiniteSet(Held(table))
  <2>1. Held(table) \subseteq Held(entries)
    BY DEF Held
  <2> QED
    BY <1>2, <2>1, FS_Subset DEF GenerationsPast
<1>7. GenerationsPast'
  BY <1>1, <1>2, <1>4, <1>5, <1>6 DEF GenerationsPast, Held
<1>8. NoLostUpdate'
  BY <1>1, <1>5 DEF NoLostUpdate
<1>9. RegistrationKnown'
  BY <1>1, <1>2 DEF RegistrationKnown
<1> QED
  BY <1>3, <1>7, <1>8, <1>9

\* A row that stays as it is stays covered, by the alarm and by a registration.
LEMMA ShrunkCovered ==
    ASSUME IInv, NEW table \in Table, \A k \in Keys : table[k] \in {None, entries[k]},
           entries' = table, missed' = missed \cap Held(table),
           UNCHANGED plane, registering \subseteq registering'
    PROVE  /\ FoundOnceRegistered'
           /\ UNCHANGED <<alarm, armedAt>> => AlarmKnown' /\ AlarmCovers'
<1>1. registered' = registered /\ lasting' = lasting /\ forgotten' = forgotten
  BY DEF plane
<1>2. FoundOnceRegistered /\ AlarmKnown /\ AlarmCovers
  BY DEF IInv
<1>3. ASSUME NEW k \in Keys, table[k] # None
      PROVE  table[k] = entries[k] /\ (k \in missed => k \in missed')
  BY <1>3 DEF Held
<1>4. FoundOnceRegistered'
  <2> SUFFICES ASSUME NEW k \in Keys, table[k] # None
               PROVE  \/ k \in missed' \/ forgotten
                      \/ \E r \in registering' : ~r.arrived /\ 2 * (table[k].expiresAt - r.until) <= MaxTtl
                      \/ 2 * (table[k].expiresAt - lasting) <= MaxTtl
    BY <1>1 DEF FoundOnceRegistered
  <2> QED
    BY <1>2, <1>3 DEF FoundOnceRegistered
<1>5. UNCHANGED <<alarm, armedAt>> => AlarmKnown' /\ AlarmCovers'
  BY <1>2, <1>3 DEF AlarmKnown, AlarmCovers
<1> QED
  BY <1>4, <1>5

\* A call that drops rows or none, and leaves the alarm and the registrations alone.
LEMMA DropKeeps ==
    ASSUME IInv, NEW table \in Table, \A k \in Keys : table[k] \in {None, entries[k]},
           Kept(table),
           caller' \in [Callers -> Caller \cup {None}],
           \A c \in Callers :
                \/ caller'[c] = None \/ caller'[c] = caller[c]
                \/ \E k \in Keys : caller'[c] = Knows(k, table[k]),
           UNCHANGED <<alarm, armedAt, registering>>
    PROVE  IInv'
<1>1. /\ alarm' \in Expiries \cup {None} /\ armedAt' \in Expiries \cup {None}
      /\ registering' \subseteq Registration /\ registering \subseteq registering'
      /\ \A r \in registering' : r.arrived => r \in registering
  BY DEF IInv, TypeOK
<1>2. TypeOK' /\ GenerationsPast' /\ NoLostUpdate' /\ RegistrationKnown'
  BY <1>1, KeptKeeps
<1>3. entries' = table /\ missed' = missed \cap Held(table) /\ UNCHANGED plane
  BY DEF Kept
<1>4. FoundOnceRegistered' /\ AlarmKnown' /\ AlarmCovers'
  BY <1>1, <1>3, ShrunkCovered
<1> QED
  BY <1>2, <1>4 DEF IInv

LEMMA GetKeeps ==
    ASSUME IInv, NEW c \in Callers, NEW k \in Keys, NEW now \in CallTimes, Get(c, k, now)
    PROVE  IInv'
<1>1. entries \in Table /\ caller \in [Callers -> Caller \cup {None}] /\ now \in Nat
  BY CallTimesFact DEF IInv, TypeOK, Table
<1>2. /\ live(k, now) \in {None, entries[k]} /\ Touched(k, now) \in Table
      /\ \A j \in Keys : Touched(k, now)[j] = IF j = k THEN live(k, now) ELSE entries[j]
  BY <1>1, LiveFact
<1>3. Knows(k, live(k, now)) \in Caller
  BY <1>1, <1>2, KnowsFact DEF Table
<1>4. \A d \in Callers : caller'[d] = caller[d] \/ caller'[d] = Knows(k, Touched(k, now)[k])
  BY <1>1, <1>2 DEF Get
<1>5. caller' \in [Callers -> Caller \cup {None}]
  BY <1>1, <1>3 DEF Get
<1>6. \A j \in Keys : Touched(k, now)[j] \in {None, entries[j]}
  BY <1>2
<1>7. Kept(Touched(k, now)) /\ UNCHANGED <<alarm, armedAt, registering>>
  BY DEF Get
<1> HIDE DEF Touched
<1> QED
  BY <1>2, <1>4, <1>5, <1>6, <1>7, DropKeeps

LEMMA CasDeleteKeeps ==
    ASSUME IInv, NEW c \in Callers, NEW now \in CallTimes, CasDelete(c, now)
    PROVE  IInv'
<1> DEFINE table == [entries EXCEPT ![caller[c].key] = None]
<1>1. entries \in Table /\ caller \in [Callers -> Caller \cup {None}]
  BY DEF IInv, TypeOK, Table
<1>2. table \in Table /\ \A k \in Keys : table[k] \in {None, entries[k]}
  BY <1>1 DEF Table
<1>3. /\ caller' \in [Callers -> Caller \cup {None}]
      /\ \A d \in Callers : caller'[d] = None \/ caller'[d] = caller[d]
  BY <1>1 DEF CasDelete
<1>4. Kept(table) /\ UNCHANGED <<alarm, armedAt, registering>>
  BY DEF CasDelete
<1> HIDE DEF table
<1> QED
  BY <1>2, <1>3, <1>4, DropKeeps

LEMMA DeleteKeeps ==
    ASSUME IInv, NEW k \in Keys, NEW now \in CallTimes, Delete(k, now)
    PROVE  IInv'
<1> DEFINE table == [entries EXCEPT ![k] = None]
<1>1. entries \in Table /\ caller \in [Callers -> Caller \cup {None}]
  BY DEF IInv, TypeOK, Table
<1>2. table \in Table /\ \A j \in Keys : table[j] \in {None, entries[j]}
  BY <1>1 DEF Table
<1>3. Kept(table) /\ UNCHANGED <<alarm, armedAt, registering>> /\ caller' = caller
  BY DEF Delete
<1> HIDE DEF table
<1> QED
  BY <1>1, <1>2, <1>3, DropKeeps

LEMMA ConflictKeeps ==
    ASSUME IInv, NEW c \in Callers, NEW now \in CallTimes, NEW put \in BOOLEAN, Conflict(c, now, put)
    PROVE  IInv'
<1> DEFINE k == caller[c].key
           table == Touched(k, now)
<1>1. /\ entries \in Table /\ caller \in [Callers -> Caller \cup {None}] /\ now \in Nat
      /\ TypeOK /\ AlarmKnown /\ RegistrationKnown
  BY CallTimesFact DEF IInv, TypeOK, Table
<1>2. caller[c] # None /\ k \in Keys
  BY <1>1 DEF Conflict, Caller
<1> HIDE DEF k
<1>3. /\ live(k, now) \in {None, entries[k]} /\ table \in Table
      /\ \A j \in Keys : table[j] = IF j = k THEN live(k, now) ELSE entries[j]
  BY <1>1, <1>2, LiveFact
<1>4. Knows(k, live(k, now)) \in Caller
  BY <1>1, <1>2, <1>3, KnowsFact DEF Table
<1>5. caller' = [caller EXCEPT ![c] = Knows(k, live(k, now))] /\ Kept(table)
  BY DEF Conflict, k
<1>6. /\ caller' \in [Callers -> Caller \cup {None}]
      /\ \A d \in Callers : caller'[d] = caller[d] \/ caller'[d] = Knows(k, table[k])
  BY <1>1, <1>2, <1>3, <1>4, <1>5
<1>7. \A j \in Keys : table[j] \in {None, entries[j]}
  BY <1>3
<1>8. entries' = table /\ missed' = missed \cap Held(table) /\ UNCHANGED plane
  BY <1>5 DEF Kept
<1>9. CASE ~put
  <2>1. UNCHANGED <<alarm, armedAt, registering>>
    BY <1>9 DEF Conflict
  <2> HIDE DEF table
  <2> QED
    BY <1>2, <1>3, <1>5, <1>6, <1>7, <2>1, DropKeeps
<1>10. CASE put
  <2>1. arm(table) /\ register(table, now)
    BY <1>8, <1>10 DEF Conflict
  <2> HIDE DEF table
  <2>2. /\ alarm' \in Expiries \cup {None} /\ armedAt' \in Expiries \cup {None} /\ AlarmKnown'
        /\ \A j \in Keys : table[j] # None => alarm' # None /\ alarm' <= table[j].expiresAt
    BY <1>1, <1>3, <2>1, ArmFact
  <2>3. /\ registering \subseteq registering' /\ registering' \subseteq Registration
        /\ \A r \in registering' : r.arrived => r \in registering
    BY <1>1, <1>3, <2>1, RegisterFact
  <2>4. TypeOK' /\ GenerationsPast' /\ NoLostUpdate' /\ RegistrationKnown'
    BY <1>2, <1>3, <1>5, <1>6, <1>7, <2>2, <2>3, KeptKeeps
  <2>5. FoundOnceRegistered'
    BY <1>3, <1>7, <1>8, <2>3, ShrunkCovered
  <2>6. AlarmCovers'
    BY <1>8, <2>2 DEF AlarmCovers
  <2> QED
    BY <2>2, <2>4, <2>5, <2>6 DEF IInv
<1> QED
  BY <1>9, <1>10

\* A sliding expiry only moves on, and never past what a registration covers.
LEMMA GetExtendsKeeps ==
    ASSUME IInv, NEW c \in Callers, NEW k \in Keys, NEW now \in CallTimes, NEW ttl \in Asked,
           GetExtends(c, k, now, ttl)
    PROVE  IInv'
<1> DEFINE until == Max({entries[k].expiresAt, now + clampTtl(ttl)})
           table == IF live(k, now) = None THEN Touched(k, now)
                    ELSE [entries EXCEPT ![k].expiresAt = until]
<1>1. /\ entries \in Table /\ caller \in [Callers -> Caller \cup {None}]
      /\ now \in Nat /\ now <= MaxTime /\ registering \subseteq Registration
      /\ alarm \in Expiries \cup {None} /\ armedAt \in Expiries \cup {None}
      /\ registered \in Int
      /\ TypeOK /\ AlarmKnown /\ AlarmCovers /\ RegistrationKnown /\ FoundOnceRegistered
  BY CallTimesFact, Numbers DEF IInv, TypeOK, Table
<1>2. /\ live(k, now) \in {None, entries[k]} /\ Touched(k, now) \in Table
      /\ \A j \in Keys : Touched(k, now)[j] = IF j = k THEN live(k, now) ELSE entries[j]
  BY <1>1, LiveFact
<1>3. /\ Kept(table) /\ register(entries', now) /\ alarm' = alarm /\ armedAt' = armedAt
      /\ caller' = [caller EXCEPT ![c] = Knows(k, live(k, now))]
  BY DEF GetExtends
<1>4. /\ entries' = table /\ missed' = missed \cap Held(table)
      /\ registered' = registered /\ lasting' = lasting /\ forgotten' = forgotten
  BY <1>3 DEF Kept, plane
<1>5. live(k, now) # None => /\ live(k, now) = entries[k] /\ entries[k] \in Row
                             /\ until \in Expiries /\ until >= entries[k].expiresAt
                             /\ until = entries[k].expiresAt \/ until <= now + MaxTtl
  <2> SUFFICES ASSUME live(k, now) # None
               PROVE  <1>5!2
    OBVIOUS
  <2>1. live(k, now) = entries[k] /\ entries[k] \in Row
    BY <1>1, <1>2 DEF Table
  <2>2. entries[k].expiresAt \in Expiries
    BY <2>1 DEF Row
  <2>3. /\ clampTtl(ttl) \in Nat /\ clampTtl(ttl) <= MaxTtl
    BY ClampFact
  <2>4. entries[k].expiresAt \in Int /\ now + clampTtl(ttl) \in Int
    BY <1>1, <2>2, <2>3, Numbers
  <2>5. until = IF entries[k].expiresAt >= now + clampTtl(ttl) THEN entries[k].expiresAt
                ELSE now + clampTtl(ttl)
    BY <2>4, MaxOfTwo
  <2> HIDE DEF until
  <2> QED
    BY <1>1, <2>1, <2>2, <2>3, <2>4, <2>5, Numbers
<1> HIDE DEF until
<1>6. /\ table \in Table
      /\ \A j \in Keys \ {k} : table[j] = entries[j]
      /\ table[k] # None =>
            /\ live(k, now) # None /\ entries[k] # None
            /\ table[k].generation = entries[k].generation /\ table[k].value = entries[k].value
            /\ table[k].expiresAt = until
      /\ live(k, now) = None <=> table[k] = None
  <2>1. CASE live(k, now) = None
    BY <1>2, <2>1
  <2>2. CASE live(k, now) # None
    <3>1. [entries[k] EXCEPT !.expiresAt = until] \in Row
      BY <1>5, <2>2 DEF Row
    <3>2. table = [entries EXCEPT ![k] = [entries[k] EXCEPT !.expiresAt = until]]
      BY <2>2
    <3>3. table \in Table /\ table[k] = [entries[k] EXCEPT !.expiresAt = until]
      BY <1>1, <3>1, <3>2 DEF Table
    <3>4. \A j \in Keys \ {k} : table[j] = entries[j]
      BY <1>1, <3>2 DEF Table
    <3>5. table[k] # None /\ entries[k] # None
      BY <1>5, <2>2, <3>1, <3>3, Numbers
    <3> HIDE DEF table
    <3>6. /\ table[k].generation = entries[k].generation /\ table[k].value = entries[k].value
          /\ table[k].expiresAt = until
      BY <1>5, <2>2, <3>3 DEF Row
    <3> QED
      BY <2>2, <3>3, <3>4, <3>5, <3>6
  <2> QED
    BY <2>1, <2>2
<1> HIDE DEF table
<1>7. Knows(k, live(k, now)) \in Caller
  BY <1>1, <1>2, KnowsFact DEF Table
<1>8. Knows(k, live(k, now)) = Knows(k, table[k])
  <2>1. /\ generationOf(live(k, now)) = generationOf(table[k])
        /\ valueOf(live(k, now)) = valueOf(table[k])
    BY <1>5, <1>6 DEF generationOf, valueOf
  <2> QED
    BY <2>1 DEF Knows
<1>9. /\ caller' \in [Callers -> Caller \cup {None}]
      /\ \A d \in Callers : caller'[d] = caller[d] \/ caller'[d] = Knows(k, table[k])
  BY <1>1, <1>3, <1>7, <1>8
<1>10. /\ registering \subseteq registering' /\ registering' \subseteq Registration
       /\ \A r \in registering' : r.arrived => r \in registering
       /\ \A j \in Keys : table[j] # None /\ table[j].expiresAt <= now + MaxTtl =>
            \/ forgotten
            \/ \E r \in registering' : ~r.arrived /\ 2 * (table[j].expiresAt - r.until) <= MaxTtl
            \/ 2 * (table[j].expiresAt - lasting) <= MaxTtl
  BY <1>1, <1>3, <1>4, <1>6, RegisterFact
<1>11. TypeOK' /\ GenerationsPast' /\ NoLostUpdate' /\ RegistrationKnown'
  <2>1. \A j \in Keys : table[j] # None =>
            /\ entries[j] # None
            /\ table[j].generation = entries[j].generation /\ table[j].value = entries[j].value
    BY <1>6
  <2> QED
    BY <1>1, <1>3, <1>6, <1>9, <1>10, <2>1, KeptKeeps
<1>12. AlarmKnown' /\ AlarmCovers'
  <2>1. ASSUME NEW j \in Keys, table[j] # None
        PROVE  alarm # None /\ alarm <= table[j].expiresAt
    <3>1. entries[j] # None /\ entries[j].expiresAt \in Int
      BY <1>1, <1>6, <2>1, Numbers DEF Table, Row
    <3>2. alarm # None /\ alarm <= entries[j].expiresAt /\ alarm \in Int
      BY <1>1, <3>1, Numbers DEF AlarmCovers
    <3>3. table[j].expiresAt >= entries[j].expiresAt /\ table[j].expiresAt \in Int
      BY <1>5, <1>6, <2>1, <3>1, Numbers
    <3> QED
      BY <3>1, <3>2, <3>3
  <2> QED
    BY <1>1, <1>3, <1>4, <2>1 DEF AlarmKnown, AlarmCovers
<1>13. FoundOnceRegistered'
  <2> SUFFICES ASSUME NEW j \in Keys, table[j] # None
               PROVE  \/ j \in missed' \/ forgotten
                      \/ \E r \in registering' : ~r.arrived /\ 2 * (table[j].expiresAt - r.until) <= MaxTtl
                      \/ 2 * (table[j].expiresAt - lasting) <= MaxTtl
    BY <1>4 DEF FoundOnceRegistered
  <2>1. \/ table[j].expiresAt = entries[j].expiresAt
        \/ table[j].expiresAt <= now + MaxTtl
    BY <1>5, <1>6
  <2>2. entries[j] # None /\ (j \in missed => j \in missed')
    BY <1>4, <1>6 DEF Held
  <2>3. CASE table[j].expiresAt = entries[j].expiresAt
    BY <1>1, <1>10, <2>2, <2>3 DEF FoundOnceRegistered
  <2>4. CASE table[j].expiresAt <= now + MaxTtl
    BY <1>10, <2>4
  <2> QED
    BY <2>1, <2>3, <2>4
<1> QED
  BY <1>11, <1>12, <1>13 DEF IInv

\* A write: no caller knows its generation but the one that made it.
LEMMA WrittenKeeps ==
    ASSUME IInv, NEW k \in Keys, NEW now \in CallTimes, NEW ttl \in Asked, Written(k, now, ttl),
           caller' \in [Callers -> Caller \cup {None}],
           \A c \in Callers :
                \/ caller'[c] = None \/ caller'[c] = caller[c]
                \/ /\ caller'[c].key = k /\ caller'[c].generation = last'
                   /\ caller'[c].current = writes'
    PROVE  IInv'
<1> DEFINE table == Put(k, now, ttl)
           row == [value |-> writes + 1, generation |-> nextGeneration(now),
                   expiresAt |-> now + clampTtl(ttl)]
<1>1. /\ TypeOK /\ GenerationsPast /\ NoLostUpdate /\ AlarmKnown /\ AlarmCovers
      /\ RegistrationKnown /\ FoundOnceRegistered
  BY DEF IInv
<1>2. /\ writes < MaxWrites /\ writes' = writes + 1 /\ last' = nextGeneration(now)
      /\ entries' = table /\ arm(table) /\ register(table, now)
      /\ missed' = (missed \ {k}) \cap Held(table)
      /\ registeredUntil' = registeredUntil /\ registered' = registered /\ deleting' = deleting
      /\ deletions' = deletions /\ lasting' = lasting /\ forgotten' = forgotten /\ clock' = clock
  BY DEF Written, plane
<1>3. /\ table \in Table /\ IsFiniteSet(Held(table)) /\ table[k] = row
      /\ \A j \in Keys \ {k} : table[j] \in {None, entries[j]}
      /\ last' \in Generations /\ last' > last /\ last' <= MaxTime + writes + 1
  BY <1>1, <1>2, PutFact
<1> HIDE DEF table
<1>4. /\ table[k] # None /\ table[k].value = writes' /\ table[k].generation = last'
      /\ table[k].expiresAt <= now + MaxTtl
  <2>1. row.expiresAt <= now + MaxTtl
    BY ClampFact, CallTimesFact, Numbers
  <2>2. table[k] \in Row \cup {None} /\ row # None
    <3>1. writes + 1 \in Writes
      <4>1. writes \in 0..MaxWrites
        BY <1>1 DEF TypeOK
      <4> QED
        BY <1>2, <4>1, Numbers
    <3>2. now + clampTtl(ttl) \in Expiries
      BY ClampFact, CallTimesFact, Numbers
    <3>3. row \in Row
      BY <1>2, <1>3, <3>1, <3>2 DEF Row
    <3> QED
      BY <1>3, <3>3, Numbers
  <2> QED
    BY <1>2, <1>3, <2>1, <2>2
<1>5. /\ alarm' \in Expiries \cup {None} /\ armedAt' \in Expiries \cup {None} /\ AlarmKnown'
      /\ \A j \in Keys : table[j] # None => alarm' # None /\ alarm' <= table[j].expiresAt
  BY <1>1, <1>2, <1>3, ArmFact
<1>6. /\ registering \subseteq registering' /\ registering' \subseteq Registration
      /\ \A r \in registering' : r.arrived => r \in registering
      /\ \A j \in Keys : table[j] # None /\ table[j].expiresAt <= now + MaxTtl =>
            \/ forgotten
            \/ \E r \in registering' : ~r.arrived /\ 2 * (table[j].expiresAt - r.until) <= MaxTtl
            \/ 2 * (table[j].expiresAt - lasting) <= MaxTtl
  BY <1>1, <1>2, <1>3, RegisterFact
<1>7. last \in Nat /\ last' \in Nat /\ writes \in Nat
  BY <1>1, <1>3, Numbers DEF TypeOK
<1>8. TypeOK'
  <2>1. writes' \in 0..MaxWrites
    BY <1>2, <1>7, Numbers
  <2> QED
    BY <1>1, <1>2, <1>3, <1>5, <1>6, <2>1 DEF TypeOK, Table
<1>9. \A j \in Keys \ {k} : table[j] # None => table[j] = entries[j] /\ entries[j].generation \in 1..last
  BY <1>1, <1>3 DEF GenerationsPast
<1>10. ASSUME NEW c \in Callers, caller'[c] # None, ~caller'[c].restarted
       PROVE  /\ caller'[c].generation <= last'
              /\ table[caller'[c].key] # None /\ table[caller'[c].key].generation = caller'[c].generation
                    => table[caller'[c].key].value = caller'[c].current
  <2>1. CASE caller'[c] = caller[c]
    <3>1. caller[c].key \in Keys /\ caller[c].generation \in Nat
      BY <1>1, <1>10, <2>1, Numbers DEF TypeOK, Caller
    <3>2. /\ caller[c].generation <= last
          /\ entries[caller[c].key] # None /\ entries[caller[c].key].generation = caller[c].generation
                => entries[caller[c].key].value = caller[c].current
      BY <1>1, <1>10, <2>1 DEF GenerationsPast, NoLostUpdate
    <3>3. CASE caller[c].key = k
      BY <1>3, <1>4, <1>7, <2>1, <3>1, <3>2, <3>3
    <3>4. CASE caller[c].key # k
      BY <1>3, <1>7, <1>9, <2>1, <3>1, <3>2, <3>4
    <3> QED
      BY <3>3, <3>4
  <2>2. CASE /\ caller'[c].key = k /\ caller'[c].generation = last'
             /\ caller'[c].current = writes'
    BY <1>4, <1>7, <2>2
  <2> QED
    BY <1>10, <2>1, <2>2
<1>11. GenerationsPast'
  <2>1. \A j \in Keys : table[j] # None => table[j].generation \in 1..last'
    BY <1>3, <1>4, <1>7, <1>9
  <2>2. last' <= MaxTime + writes'
    BY <1>2, <1>3, <1>7, Numbers
  <2> QED
    BY <1>2, <1>3, <1>10, <2>1, <2>2 DEF GenerationsPast, Held
<1>12. NoLostUpdate'
  BY <1>2, <1>10 DEF NoLostUpdate
<1>13. AlarmCovers'
  BY <1>2, <1>5 DEF AlarmCovers
<1>14. RegistrationKnown'
  BY <1>1, <1>2, <1>6 DEF RegistrationKnown
<1>15. FoundOnceRegistered'
  <2> SUFFICES ASSUME NEW j \in Keys, table[j] # None
               PROVE  \/ j \in missed' \/ forgotten
                      \/ \E r \in registering' : ~r.arrived /\ 2 * (table[j].expiresAt - r.until) <= MaxTtl
                      \/ 2 * (table[j].expiresAt - lasting) <= MaxTtl
    BY <1>2 DEF FoundOnceRegistered
  <2>1. CASE j = k
    BY <1>4, <1>6, <2>1
  <2>2. CASE j # k
    <3>1. table[j] = entries[j] /\ (j \in missed => j \in missed')
      BY <1>2, <1>9, <2>2 DEF Held
    <3> QED
      BY <1>1, <1>6, <3>1 DEF FoundOnceRegistered
  <2> QED
    BY <2>1, <2>2
<1> QED
  BY <1>5, <1>8, <1>11, <1>12, <1>13, <1>14, <1>15 DEF IInv

LEMMA CasPutKeeps ==
    ASSUME IInv, NEW c \in Callers, NEW now \in CallTimes, NEW ttl \in Asked, CasPut(c, now, ttl)
    PROVE  IInv'
<1> DEFINE k == caller[c].key
           told == [caller[c] EXCEPT !.generation = last', !.current = writes', !.restarted = FALSE]
<1>1. /\ TypeOK /\ GenerationsPast /\ caller \in [Callers -> Caller \cup {None}]
      /\ caller[c] \in Caller /\ k \in Keys
  BY DEF IInv, TypeOK, CasPut, Caller
<1>2. Written(k, now, ttl)
  BY DEF CasPut
<1>3. last' \in Generations /\ writes' \in Writes
  <2>1. writes < MaxWrites /\ writes' = writes + 1 /\ last' = nextGeneration(now)
    BY <1>2 DEF Written
  <2> HIDE DEF k
  <2>2. nextGeneration(now) \in Generations
    BY <1>1, <2>1, PutFact
  <2> QED
    BY <1>1, <2>1, <2>2, Numbers DEF TypeOK
<1>4. /\ told \in Caller
      /\ told.key = k /\ told.generation = last' /\ told.current = writes'
  BY <1>1, <1>3 DEF Caller
<1>5. \/ caller' = [caller EXCEPT ![c] = None]
      \/ caller' = [caller EXCEPT ![c] = told]
  BY DEF CasPut
<1> HIDE DEF k, told
<1>6. /\ caller' \in [Callers -> Caller \cup {None}]
      /\ \A d \in Callers : caller'[d] = None \/ caller'[d] = caller[d] \/ caller'[d] = told
  BY <1>1, <1>4, <1>5
<1> QED
  BY <1>1, <1>2, <1>4, <1>6, WrittenKeeps

LEMMA OverwriteKeeps ==
    ASSUME IInv, NEW k \in Keys, NEW now \in CallTimes, NEW ttl \in Asked, Overwrite(k, now, ttl)
    PROVE  IInv'
<1>1. caller' = caller /\ caller \in [Callers -> Caller \cup {None}] /\ Written(k, now, ttl)
  BY DEF IInv, TypeOK, Overwrite
<1> QED
  BY <1>1, WrittenKeeps

LEMMA EndsKeeps ==
    ASSUME IInv, NEW c \in Callers, Ends(c)
    PROVE  IInv'
<1>1. /\ entries \in Table /\ caller \in [Callers -> Caller \cup {None}] /\ missed \subseteq Keys
  BY DEF IInv, TypeOK, Table
<1>2. /\ caller' \in [Callers -> Caller \cup {None}]
      /\ \A d \in Callers : caller'[d] = None \/ caller'[d] = caller[d]
  BY <1>1 DEF Ends
<1>3. /\ UNCHANGED <<entries, alarm, last, armedAt, registeredUntil, registering, registered,
                     deleting, deletions, lasting, forgotten, clock, writes, missed>>
  BY DEF Ends, memory, plane
<1>4. /\ TypeOK /\ GenerationsPast /\ NoLostUpdate /\ AlarmKnown /\ AlarmCovers
      /\ RegistrationKnown /\ FoundOnceRegistered
  BY DEF IInv
<1>5. TypeOK'
  BY <1>2, <1>3, <1>4 DEF TypeOK
<1>6. GenerationsPast'
  BY <1>2, <1>3, <1>4 DEF GenerationsPast, Held
<1>7. NoLostUpdate'
  BY <1>2, <1>3, <1>4 DEF NoLostUpdate
<1>8. AlarmKnown' /\ AlarmCovers' /\ RegistrationKnown' /\ FoundOnceRegistered'
  BY <1>3, <1>4 DEF AlarmKnown, AlarmCovers, RegistrationKnown, FoundOnceRegistered
<1> QED
  BY <1>5, <1>6, <1>7, <1>8 DEF IInv

\* A caller whose object began anew knows nothing for sure.
LEMMA RestartedFact ==
    ASSUME TypeOK
    PROVE  /\ Restarted \in [Callers -> Caller \cup {None}]
           /\ \A c \in Callers : Restarted[c] # None => Restarted[c].restarted
<1>1. caller \in [Callers -> Caller \cup {None}]
  BY DEF TypeOK
<1>2. ASSUME NEW x \in Caller
      PROVE  [x EXCEPT !.restarted = TRUE] \in Caller /\ [x EXCEPT !.restarted = TRUE].restarted
  BY DEF Caller
<1>3. ASSUME NEW c \in Callers
      PROVE  \/ Restarted[c] = None
             \/ Restarted[c] \in Caller /\ Restarted[c].restarted
  <2>1. Restarted[c] = IF caller[c] = None THEN None ELSE [caller[c] EXCEPT !.restarted = TRUE]
    BY DEF Restarted
  <2> QED
    BY <1>1, <1>2, <2>1
<1>4. Restarted \in [Callers -> Caller \cup {None}]
  BY <1>3 DEF Restarted
<1> QED
  BY <1>3, <1>4

\* The alarm drops what expired and is set again for the rest; an engine with nothing
\* left begins anew.
LEMMA AlarmKeeps ==
    ASSUME IInv, Alarm
    PROVE  IInv'
<1> DEFINE table == purgeExpired(entries, clock)
           next == nextExpiry(table)
<1>1. /\ TypeOK /\ GenerationsPast /\ NoLostUpdate /\ RegistrationKnown /\ FoundOnceRegistered
      /\ entries \in Table /\ clock \in Nat
      /\ caller \in [Callers -> Caller \cup {None}]
      /\ last \in Nat /\ writes \in Nat
  BY Numbers DEF IInv, TypeOK, Table
<1>2. table \in Table /\ \A k \in Keys : table[k] \in {None, entries[k]}
  BY <1>1, PurgeFact
<1>3. /\ entries' = table /\ missed' = missed \cap Held(table) /\ alarm' = next /\ armedAt' = next
      /\ UNCHANGED <<registeredUntil, registering, registered, deleting, deletions, lasting, forgotten,
                     clock, writes>>
      /\ IF next = None THEN last' = 0 /\ caller' = Restarted ELSE last' = last /\ caller' = caller
  BY DEF Alarm, plane
<1> HIDE DEF table
<1>4. /\ next \in Expiries \cup {None} /\ (next = None <=> Held(table) = {})
      /\ \A k \in Keys : table[k] # None => next # None /\ next <= table[k].expiresAt
  BY <1>2, NextExpiryFact
<1> HIDE DEF next
<1>5. Restarted \in [Callers -> Caller \cup {None}] /\ \A c \in Callers : Restarted[c] # None => Restarted[c].restarted
  BY <1>1, RestartedFact
<1>6. last' \in Generations /\ last' <= MaxTime + writes /\ caller' \in [Callers -> Caller \cup {None}]
  BY <1>1, <1>3, <1>5, Numbers DEF GenerationsPast, TypeOK
<1>7. TypeOK'
  BY <1>1, <1>2, <1>3, <1>4, <1>6 DEF TypeOK, Table
<1>8. \A k \in Keys : table[k] # None => next # None /\ table[k] = entries[k]
  BY <1>2, <1>4
<1>9. GenerationsPast'
  <2>1. Held(table) \subseteq Held(entries) /\ IsFiniteSet(Held(entries))
    BY <1>1, <1>2 DEF Held, GenerationsPast
  <2>2. IsFiniteSet(Held(table))
    BY <2>1, FS_Subset
  <2>3. \A k \in Keys : table[k] # None => table[k].generation \in 1..last'
    BY <1>1, <1>3, <1>8 DEF GenerationsPast
  <2>4. \A c \in Callers : caller'[c] # None /\ ~caller'[c].restarted => caller'[c].generation <= last'
    BY <1>1, <1>3, <1>5 DEF GenerationsPast
  <2> QED
    BY <1>3, <1>6, <2>2, <2>3, <2>4 DEF GenerationsPast, Held
<1>10. NoLostUpdate'
  <2> SUFFICES ASSUME NEW c \in Callers, caller'[c] # None, ~caller'[c].restarted,
                      table[caller'[c].key] # None,
                      table[caller'[c].key].generation = caller'[c].generation
               PROVE  table[caller'[c].key].value = caller'[c].current
    BY <1>3 DEF NoLostUpdate
  <2>1. caller' = caller
    BY <1>3, <1>5
  <2>2. caller[c].key \in Keys
    BY <1>1, <2>1 DEF Caller
  <2> QED
    BY <1>1, <1>8, <2>1, <2>2 DEF NoLostUpdate
<1>11. AlarmKnown' /\ AlarmCovers'
  BY <1>3, <1>4 DEF AlarmKnown, AlarmCovers
<1>12. RegistrationKnown'
  BY <1>1, <1>3 DEF RegistrationKnown
<1>13. FoundOnceRegistered'
  BY <1>2, <1>3, ShrunkCovered DEF plane
<1> QED
  BY <1>7, <1>9, <1>10, <1>11, <1>12, <1>13 DEF IInv

\* A step that leaves the table, the alarm, the engine and the callers alone.
LEMMA PlaneStepKeeps ==
    ASSUME IInv, TypeOK', UNCHANGED <<entries, alarm, last, armedAt, caller, writes>>,
           RegistrationKnown', FoundOnceRegistered'
    PROVE  IInv'
<1>1. GenerationsPast /\ NoLostUpdate /\ AlarmKnown /\ AlarmCovers
  BY DEF IInv
<1>2. GenerationsPast'
  BY <1>1 DEF GenerationsPast, Held
<1>3. NoLostUpdate'
  BY <1>1 DEF NoLostUpdate
<1>4. AlarmKnown' /\ AlarmCovers'
  BY <1>1 DEF AlarmKnown, AlarmCovers
<1> QED
  BY <1>2, <1>3, <1>4 DEF IInv

LEMMA RegisterArrivesKeeps ==
    ASSUME IInv, NEW r \in registering, RegisterArrives(r)
    PROVE  IInv'
<1> DEFINE here == [r EXCEPT !.arrived = TRUE]
<1>1. /\ TypeOK /\ RegistrationKnown /\ FoundOnceRegistered
      /\ registering \subseteq Registration /\ entries \in Table
      /\ r.until \in Expiries /\ r \in Registration /\ registered \in Expiries
      /\ registeredUntil \in Int /\ lasting \in Expiries
  BY Numbers DEF IInv, TypeOK, Registration, Table
<1>2. /\ ~r.arrived /\ registering' = (registering \ {r}) \cup {here}
      /\ UNCHANGED <<entries, alarm, last, armedAt, registeredUntil, deleting, deletions, forgotten,
                     caller, clock, writes, missed>>
      /\ registered' = Max({registered, r.until})
      /\ lasting' = Max({lasting, r.until})
  BY DEF RegisterArrives
<1>3. here \in Registration /\ here.arrived /\ here.until = r.until
  BY <1>1 DEF Registration
<1> HIDE DEF here
<1>4. registered \in Int /\ lasting \in Int /\ r.until \in Int
  BY <1>1, Numbers
<1>5. /\ registered' = IF registered >= r.until THEN registered ELSE r.until
      /\ lasting' = IF lasting >= r.until THEN lasting ELSE r.until
  BY <1>2, <1>4, MaxOfTwo
<1>6. /\ registered' \in Expiries /\ lasting' \in Expiries
      /\ lasting' \in Int /\ lasting' >= lasting /\ lasting' >= r.until
  BY <1>1, <1>4, <1>5
<1>7. TypeOK'
  BY <1>1, <1>2, <1>3, <1>6 DEF TypeOK
<1>8. RegistrationKnown'
  <2>1. ASSUME ~forgotten, NEW s \in registering', s.arrived
        PROVE  s.until <= lasting'
    <3>1. CASE s = here
      BY <1>3, <1>6, <3>1
    <3>2. CASE s # here
      <4>1. s \in registering /\ s.until \in Int
        BY <1>1, <1>2, <2>1, <3>2, Numbers DEF Registration
      <4> QED
        BY <1>1, <1>4, <1>6, <2>1, <4>1 DEF RegistrationKnown
    <3> QED
      BY <3>1, <3>2
  <2>2. lasting' <= registered'
    <3>1. lasting <= registered
      BY <1>1 DEF RegistrationKnown
    <3> QED
      BY <1>4, <1>5, <3>1
  <2>3. forgotten \/ registeredUntil <= lasting'
    <3>1. forgotten \/ registeredUntil <= lasting
      BY <1>1 DEF RegistrationKnown
    <3> QED
      BY <1>1, <1>4, <1>6, <3>1
  <2>4. registeredUntil' = registeredUntil /\ forgotten' = forgotten
    BY <1>2
  <2> QED
    BY <2>1, <2>2, <2>3, <2>4 DEF RegistrationKnown
<1>9. FoundOnceRegistered'
  <2> SUFFICES ASSUME NEW k \in Keys, entries[k] # None, ~(k \in missed \/ forgotten)
               PROVE  \/ \E s \in registering' : ~s.arrived /\ 2 * (entries[k].expiresAt - s.until) <= MaxTtl
                      \/ 2 * (entries[k].expiresAt - lasting') <= MaxTtl
    BY <1>2 DEF FoundOnceRegistered
  <2>1. entries[k].expiresAt \in Int
    BY <1>1, Numbers DEF Table, Row
  <2>2. CASE 2 * (entries[k].expiresAt - lasting) <= MaxTtl
    <3>1. MaxTtl \in Int
      BY Numbers
    <3>2. 2 * (entries[k].expiresAt - lasting') <= MaxTtl
      BY <1>4, <1>6, <2>1, <2>2, <3>1
    <3> QED
      BY <3>2
  <2>3. ASSUME NEW s \in registering, ~s.arrived, 2 * (entries[k].expiresAt - s.until) <= MaxTtl
        PROVE  \/ \E t \in registering' : ~t.arrived /\ 2 * (entries[k].expiresAt - t.until) <= MaxTtl
               \/ 2 * (entries[k].expiresAt - lasting') <= MaxTtl
    <3>1. CASE s = r
      <4>1. MaxTtl \in Int
        BY Numbers
      <4>2. 2 * (entries[k].expiresAt - r.until) <= MaxTtl
        BY <2>3, <3>1
      <4>3. 2 * (entries[k].expiresAt - lasting') <= MaxTtl
        BY <1>4, <1>6, <2>1, <4>1, <4>2
      <4> QED
        BY <4>3
    <3>2. CASE s # r
      BY <1>2, <2>3, <3>2
    <3> QED
      BY <3>1, <3>2
  <2> QED
    BY <1>1, <2>2, <2>3 DEF FoundOnceRegistered
<1> QED
  BY <1>2, <1>7, <1>8, <1>9, PlaneStepKeeps

LEMMA RegisterAnsweredKeeps ==
    ASSUME IInv, NEW r \in registering, RegisterAnswered(r)
    PROVE  IInv'
<1>1. /\ TypeOK /\ RegistrationKnown /\ FoundOnceRegistered /\ r.until \in Expiries
  BY DEF IInv, TypeOK, Registration
<1>2. /\ r.arrived /\ registering' = registering \ {r} /\ registeredUntil' = r.until
      /\ UNCHANGED <<entries, alarm, last, armedAt, registered, deleting, deletions, lasting, forgotten,
                     caller, clock, writes, missed>>
  BY DEF RegisterAnswered, plane
<1>3. TypeOK'
  BY <1>1, <1>2 DEF TypeOK
<1>4. RegistrationKnown'
  BY <1>1, <1>2 DEF RegistrationKnown
<1>5. FoundOnceRegistered'
  BY <1>1, <1>2 DEF FoundOnceRegistered
<1> QED
  BY <1>2, <1>3, <1>4, <1>5, PlaneStepKeeps

LEMMA RegisterFailsKeeps ==
    ASSUME IInv, NEW r \in registering, RegisterFails(r)
    PROVE  IInv'
<1>1. /\ TypeOK /\ RegistrationKnown /\ FoundOnceRegistered
  BY DEF IInv
<1>2. /\ registering' = registering \ {r} /\ missed' = IF r.arrived THEN missed ELSE Held(entries)
      /\ UNCHANGED <<entries, alarm, last, armedAt, registeredUntil, registered, deleting, deletions,
                     lasting, forgotten, caller, clock, writes>>
  BY DEF RegisterFails, plane
<1>3. TypeOK'
  BY <1>1, <1>2 DEF TypeOK, Held
<1>4. RegistrationKnown'
  BY <1>1, <1>2 DEF RegistrationKnown
<1>5. FoundOnceRegistered'
  <2>1. CASE r.arrived
    BY <1>1, <1>2, <2>1 DEF FoundOnceRegistered
  <2>2. CASE ~r.arrived
    BY <1>2, <2>2 DEF FoundOnceRegistered, Held
  <2> QED
    BY <2>1, <2>2
<1> QED
  BY <1>2, <1>3, <1>4, <1>5, PlaneStepKeeps

\* A new object starts from the generations of the rows it finds.
LEMMA EvictKeeps ==
    ASSUME IInv, Evict
    PROVE  IInv'
<1>1. /\ TypeOK /\ GenerationsPast /\ NoLostUpdate /\ AlarmCovers
      /\ RegistrationKnown /\ FoundOnceRegistered /\ last \in Nat /\ lasting \in Nat
      /\ last \in Generations /\ last <= MaxTime + writes /\ writes \in Nat
  BY Numbers DEF IInv, TypeOK, GenerationsPast
<1>2. /\ last' = maxGeneration(entries) /\ armedAt' = None /\ registeredUntil' = 0 /\ registering' = {}
      /\ missed' = IF \E r \in registering : ~r.arrived THEN Held(entries) ELSE missed
      /\ caller' = Restarted
      /\ UNCHANGED <<entries, alarm, registered, deleting, deletions, lasting, forgotten, clock, writes>>
  BY DEF Evict, plane
<1>3. /\ last' \in Nat /\ last' <= last
      /\ \A k \in Keys : entries[k] # None => entries[k].generation \in 1..last'
  <2> DEFINE S == {0} \cup {entries[k].generation : k \in Held(entries)}
  <2>1. \A k \in Held(entries) : entries[k].generation \in 1..last
    BY <1>1 DEF GenerationsPast, Held
  <2>2. S \in SUBSET Nat /\ S # {} /\ \A y \in S : y <= last
    BY <1>1, <2>1
  <2>3. Max(S) \in S /\ \A y \in S : Max(S) >= y
    BY <1>1, <2>2, MaxOfNats
  <2>4. last' = Max(S)
    BY <1>2 DEF maxGeneration
  <2>5. \A k \in Keys : entries[k] # None => entries[k].generation \in S
    BY DEF Held
  <2> HIDE DEF S
  <2>6. last' \in Nat /\ last' <= last
    BY <2>2, <2>3, <2>4
  <2>7. \A k \in Keys : entries[k] # None => entries[k].generation \in 1..last /\ entries[k].generation <= last'
    BY <1>1, <2>3, <2>4, <2>5 DEF GenerationsPast
  <2> QED
    BY <1>1, <2>6, <2>7
<1>4. Restarted \in [Callers -> Caller \cup {None}] /\ \A c \in Callers : Restarted[c] # None => Restarted[c].restarted
  BY <1>1, RestartedFact
<1>5. TypeOK'
  <2>1. last' \in Generations
    BY <1>1, <1>3, Numbers
  <2>2. 0 \in Expiries
    BY Numbers
  <2> QED
    BY <1>1, <1>2, <1>4, <2>1, <2>2 DEF TypeOK, Held
<1>6. GenerationsPast'
  <2>1. last' <= MaxTime + writes
    BY <1>1, <1>3, Numbers
  <2> QED
    BY <1>1, <1>2, <1>3, <1>4, <2>1 DEF GenerationsPast, Held
<1>7. NoLostUpdate'
  BY <1>2, <1>4 DEF NoLostUpdate
<1>8. AlarmKnown' /\ AlarmCovers'
  BY <1>1, <1>2 DEF AlarmKnown, AlarmCovers
<1>9. RegistrationKnown'
  BY <1>1, <1>2 DEF RegistrationKnown
<1>10. FoundOnceRegistered'
  <2>1. CASE \E r \in registering : ~r.arrived
    BY <1>2, <2>1 DEF FoundOnceRegistered, Held
  <2>2. CASE ~(\E r \in registering : ~r.arrived)
    BY <1>1, <1>2, <2>2 DEF FoundOnceRegistered
  <2> QED
    BY <2>1, <2>2
<1> QED
  BY <1>5, <1>6, <1>7, <1>8, <1>9, <1>10 DEF IInv

LEMMA WipeKeeps ==
    ASSUME IInv, Wipe
    PROVE  IInv'
<1>1. TypeOK /\ RegistrationKnown /\ registered \in Nat /\ lasting \in Nat /\ writes \in Nat
  BY Numbers DEF IInv, TypeOK
<1>2. /\ deleting' = "wiped" /\ entries' = Empty /\ alarm' = None /\ armedAt' = None /\ last' = 0
      /\ registeredUntil' = 0 /\ missed' = {} /\ caller' = Restarted
      /\ lasting' = IF \E r \in registering : r.arrived THEN lasting ELSE 0
      /\ UNCHANGED <<registering, registered, deletions, forgotten, clock, writes>>
  BY DEF Wipe
<1>3. Restarted \in [Callers -> Caller \cup {None}] /\ \A c \in Callers : Restarted[c] # None => Restarted[c].restarted
  BY <1>1, RestartedFact
<1>4. Empty \in Table /\ \A k \in Keys : Empty[k] = None
  BY DEF Empty, Table
<1>5. TypeOK'
  BY <1>1, <1>2, <1>3, <1>4, Numbers DEF TypeOK, Table
<1>6. IsFiniteSet(Held(Empty))
  <2>1. Held(Empty) = {}
    BY <1>4 DEF Held
  <2> QED
    BY <2>1, FS_EmptySet
<1>7. GenerationsPast'
  BY <1>1, <1>2, <1>3, <1>4, <1>6, Numbers DEF GenerationsPast, Held
<1>8. NoLostUpdate'
  BY <1>2, <1>3 DEF NoLostUpdate
<1>9. AlarmKnown' /\ AlarmCovers' /\ FoundOnceRegistered'
  BY <1>2, <1>4 DEF AlarmKnown, AlarmCovers, FoundOnceRegistered
<1>10. RegistrationKnown'
  <2>1. lasting' <= registered' /\ registeredUntil' <= lasting'
    BY <1>1, <1>2 DEF RegistrationKnown
  <2>2. \A r \in registering' : r.arrived => registering' = registering /\ lasting' = lasting
    BY <1>2
  <2> QED
    BY <1>1, <1>2, <2>1, <2>2 DEF RegistrationKnown
<1> QED
  BY <1>5, <1>7, <1>8, <1>9, <1>10 DEF IInv

\* The deletion's other steps, and the clock.
LEMMA DeletionKeeps ==
    ASSUME IInv, DeletionLists \/ forgetSessionInstances \/ Tick
    PROVE  IInv'
<1>1. /\ TypeOK /\ RegistrationKnown /\ FoundOnceRegistered
      /\ deletions \in Nat /\ clock \in Nat /\ lasting \in Nat
  BY Numbers DEF IInv, TypeOK
<1>2. CASE DeletionLists
  <2>1. /\ deleting' = "listed" /\ deletions < MaxDeletions /\ deletions' = deletions + 1
        /\ UNCHANGED <<entries, alarm, last, armedAt, registeredUntil, registering, registered,
                       lasting, forgotten, caller, clock, writes, missed>>
    BY <1>2 DEF DeletionLists, memory
  <2>2. deletions' \in 0..MaxDeletions
    BY <1>1, <2>1, Numbers
  <2>3. TypeOK'
    BY <1>1, <2>1, <2>2 DEF TypeOK
  <2>4. RegistrationKnown' /\ FoundOnceRegistered'
    BY <1>1, <2>1 DEF RegistrationKnown, FoundOnceRegistered
  <2> QED
    BY <2>1, <2>3, <2>4, PlaneStepKeeps
<1>3. CASE forgetSessionInstances
  <2>1. /\ deleting' = "none" /\ registered' = 0 /\ lasting' = 0
        /\ forgotten' = (forgotten \/ lasting > 0)
        /\ UNCHANGED <<entries, alarm, last, armedAt, registeredUntil, registering, deletions,
                       caller, clock, writes, missed>>
    BY <1>3 DEF forgetSessionInstances, memory
  <2>2. TypeOK'
    BY <1>1, <2>1, Numbers DEF TypeOK
  <2>3. ASSUME lasting > 0 PROVE RegistrationKnown' /\ FoundOnceRegistered'
    <3>1. forgotten'
      BY <2>1, <2>3, Zenon
    <3>2. lasting' <= registered'
      BY <2>1
    <3> QED
      BY <3>1, <3>2 DEF RegistrationKnown, FoundOnceRegistered
  <2>4. ASSUME lasting = 0 PROVE RegistrationKnown' /\ FoundOnceRegistered'
    <3>1. forgotten => forgotten'
      BY <2>1, Zenon
    <3>2. /\ entries' = entries /\ missed' = missed
          /\ registering' = registering /\ registeredUntil' = registeredUntil
          /\ lasting' = lasting /\ lasting' <= registered'
      BY <2>1, <2>4
    <3>3. RegistrationKnown'
      BY <1>1, <3>1, <3>2 DEF RegistrationKnown
    <3>4. FoundOnceRegistered'
      BY <1>1, <3>1, <3>2 DEF FoundOnceRegistered
    <3> QED
      BY <3>3, <3>4
  <2>5. RegistrationKnown' /\ FoundOnceRegistered'
    BY <1>1, <2>3, <2>4
  <2> QED
    BY <2>1, <2>2, <2>5, PlaneStepKeeps
<1>4. CASE Tick
  <2>1. /\ clock < MaxTime /\ clock' = clock + 1
        /\ UNCHANGED <<entries, alarm, last, armedAt, registeredUntil, registering, registered,
                       deleting, deletions, lasting, forgotten, caller, writes, missed>>
    BY <1>4 DEF Tick, memory, plane
  <2>2. clock' \in Times
    BY <1>1, <2>1, Numbers
  <2>3. TypeOK'
    BY <1>1, <2>1, <2>2 DEF TypeOK
  <2>4. RegistrationKnown' /\ FoundOnceRegistered'
    BY <1>1, <2>1 DEF RegistrationKnown, FoundOnceRegistered
  <2> QED
    BY <2>1, <2>3, <2>4, PlaneStepKeeps
<1> QED
  BY <1>2, <1>3, <1>4

LEMMA SessionInit == Init => IInv
<1> SUFFICES ASSUME Init PROVE IInv
  OBVIOUS
<1>1. TypeOK
  <2>1. 0 \in Expiries /\ 0 \in Generations /\ 0 \in 0..MaxWrites /\ 0 \in 0..MaxDeletions /\ 1 \in Times
    BY Numbers
  <2>2. entries \in [Keys -> Row \cup {None}] /\ caller \in [Callers -> Caller \cup {None}]
    BY DEF Init, Empty
  <2> QED
    BY <2>1, <2>2 DEF Init, TypeOK
<1>2. Held(entries) = {} /\ IsFiniteSet({})
  BY FS_EmptySet DEF Init, Held, Empty
<1>3. GenerationsPast
  <2>1. /\ \A k \in Keys : entries[k] = None
        /\ \A c \in Callers : caller[c] = None
        /\ last = 0 /\ writes = 0
    BY DEF Init, Empty
  <2> QED
    BY <1>2, <2>1, Numbers DEF GenerationsPast
<1>4. NoLostUpdate /\ AlarmKnown /\ AlarmCovers /\ RegistrationKnown /\ FoundOnceRegistered
  BY Numbers DEF Init, Empty, NoLostUpdate, AlarmKnown, AlarmCovers, RegistrationKnown, FoundOnceRegistered
<1> QED
  BY <1>1, <1>3, <1>4 DEF IInv

LEMMA SessionStep == IInv /\ [Next]_vars => IInv'
<1> SUFFICES ASSUME IInv, [Next]_vars PROVE IInv'
  OBVIOUS
<1>1. ASSUME NEW c \in Callers, NEW k \in Keys, NEW now \in CallTimes, Get(c, k, now) PROVE IInv'
  BY <1>1, GetKeeps
<1>2. ASSUME NEW c \in Callers, NEW k \in Keys, NEW now \in CallTimes, NEW ttl \in Asked,
             GetExtends(c, k, now, ttl)
      PROVE  IInv'
  BY <1>2, GetExtendsKeeps
<1>3. ASSUME NEW k \in Keys, NEW now \in CallTimes, NEW ttl \in Asked, Overwrite(k, now, ttl) PROVE IInv'
  BY <1>3, OverwriteKeeps
<1>4. ASSUME NEW k \in Keys, NEW now \in CallTimes, Delete(k, now) PROVE IInv'
  BY <1>4, DeleteKeeps
<1>5. ASSUME NEW c \in Callers, NEW now \in CallTimes, NEW ttl \in Asked, CasPut(c, now, ttl) PROVE IInv'
  BY <1>5, CasPutKeeps
<1>6. ASSUME NEW c \in Callers, NEW now \in CallTimes, CasDelete(c, now) PROVE IInv'
  BY <1>6, CasDeleteKeeps
<1>7. ASSUME NEW c \in Callers, NEW now \in CallTimes, NEW put \in BOOLEAN, Conflict(c, now, put) PROVE IInv'
  BY <1>7, ConflictKeeps
<1>8. ASSUME NEW c \in Callers, Ends(c) PROVE IInv'
  BY <1>8, EndsKeeps
<1>9. CASE Alarm
  BY <1>9, AlarmKeeps
<1>10. ASSUME NEW r \in registering, RegisterArrives(r) \/ RegisterAnswered(r) \/ RegisterFails(r)
       PROVE  IInv'
  BY <1>10, RegisterArrivesKeeps, RegisterAnsweredKeeps, RegisterFailsKeeps
<1>11. CASE Evict
  BY <1>11, EvictKeeps
<1>12. CASE Wipe
  BY <1>12, WipeKeeps
<1>13. CASE DeletionLists \/ forgetSessionInstances \/ Tick
  BY <1>13, DeletionKeeps
<1>14. CASE UNCHANGED vars
  <2>1. UNCHANGED <<entries, alarm, last, armedAt, registeredUntil, registering, registered, deleting,
                    deletions, lasting, forgotten, caller, clock, writes, missed>>
    BY <1>14 DEF vars, memory, plane
  <2>2. TypeOK /\ RegistrationKnown /\ FoundOnceRegistered
    BY DEF IInv
  <2>3. TypeOK' /\ RegistrationKnown' /\ FoundOnceRegistered'
    BY <2>1, <2>2 DEF TypeOK, RegistrationKnown, FoundOnceRegistered
  <2> QED
    BY <2>1, <2>3, PlaneStepKeeps
<1> QED
  BY <1>1, <1>2, <1>3, <1>4, <1>5, <1>6, <1>7, <1>8, <1>9, <1>10, <1>11, <1>12, <1>13, <1>14 DEF Next

\* The inductive invariant of the session state.
THEOREM SessionInvariant == Spec => []IInv
  BY SessionInit, SessionStep, PTL DEF Spec

\* Every value has its type.
THEOREM SessionTypeCorrect == Spec => []TypeOK
<1>1. IInv => TypeOK
  BY DEF IInv
<1> QED
  BY <1>1, SessionInvariant, PTL

\* updateEntry's compare-and-swap undoes no write its caller did not see.
THEOREM SessionNoLostUpdate == Spec => []NoLostUpdate
<1>1. IInv => NoLostUpdate
  BY DEF IInv
<1> QED
  BY <1>1, SessionInvariant, PTL

\* While the object holds entries its alarm is set, in time for the first (#arm, sweep).
THEOREM SessionAlarmCovers == Spec => []AlarmCovers
<1>1. IInv => AlarmCovers
  BY DEF IInv
<1> QED
  BY <1>1, SessionInvariant, PTL

\* A deletion of the org finds the object of an entry, until half of MAX_TTL before the
\* entry expires (#register).
THEOREM SessionFoundByDeletion == Spec => []FoundByDeletion
<1>1. IInv => FoundByDeletion
  <2> SUFFICES ASSUME IInv, NEW k \in Keys, entries[k] # None,
                      2 * (entries[k].expiresAt - lasting) <= MaxTtl
               PROVE  2 * (entries[k].expiresAt - registered) <= MaxTtl
    BY DEF IInv, FoundOnceRegistered, FoundByDeletion
  <2>1. entries[k].expiresAt \in Int /\ lasting \in Int /\ registered \in Int
    BY Numbers DEF IInv, TypeOK, Row
  <2>2. lasting <= registered /\ MaxTtl \in Int
    BY Numbers DEF IInv, RegistrationKnown
  <2> QED
    BY <2>1, <2>2
<1> QED
  BY <1>1, SessionInvariant, PTL

\* The row that a call wrote is in the table it leaves.
LEMMA WrittenIsKept ==
    ASSUME IInv, NEW k \in Keys, NEW now \in CallTimes, NEW ttl \in Asked, Written(k, now, ttl)
    PROVE  entries'[k] # None /\ entries'[k].value = writes'
<1>1. /\ writes < MaxWrites /\ writes' = writes + 1 /\ entries' = Put(k, now, ttl)
      /\ TypeOK /\ GenerationsPast
  BY DEF Written, IInv
<1>2. /\ Put(k, now, ttl)[k] = [value |-> writes + 1, generation |-> nextGeneration(now),
                                expiresAt |-> now + clampTtl(ttl)]
      /\ nextGeneration(now) \in Generations
  BY <1>1, PutFact
<1>3. writes + 1 \in Writes /\ now + clampTtl(ttl) \in Expiries
  BY <1>1, ClampFact, CallTimesFact, Numbers DEF TypeOK
<1>4. entries'[k] \in Row
  BY <1>1, <1>2, <1>3 DEF Row
<1> QED
  BY <1>1, <1>2, <1>4, Numbers

\* A write that was answered is in the table: the bound never drops the newest row.
THEOREM SessionWriteKept == Spec => WriteKept
<1> DEFINE Stays == writes' > writes => \E k \in Keys : entries'[k] # None /\ entries'[k].value = writes'
<1>1. ASSUME IInv, Next PROVE Stays
  <2>1. ASSUME NEW k \in Keys, NEW now \in CallTimes, NEW ttl \in Asked, Written(k, now, ttl)
        PROVE  Stays
    BY <1>1, <2>1, WrittenIsKept
  <2>2. ASSUME NEW c \in Callers, NEW now \in CallTimes, NEW ttl \in Asked, CasPut(c, now, ttl)
        PROVE  Stays
    <3>1. caller[c].key \in Keys
      BY <1>1, <2>2 DEF IInv, TypeOK, CasPut, Caller
    <3> QED
      BY <2>1, <2>2, <3>1 DEF CasPut
  <2>3. \/ writes' = writes
        \/ \E k \in Keys, now \in CallTimes, ttl \in Asked : Overwrite(k, now, ttl)
        \/ \E c \in Callers, now \in CallTimes, ttl \in Asked : CasPut(c, now, ttl)
    <3>1. \A k \in Keys, now \in CallTimes :
              /\ \A c \in Callers : Get(c, k, now) => writes' = writes
              /\ \A c \in Callers, ttl \in Asked : GetExtends(c, k, now, ttl) => writes' = writes
              /\ Delete(k, now) => writes' = writes
      BY DEF Get, GetExtends, Delete, Kept
    <3>2. \A c \in Callers, now \in CallTimes :
              /\ CasDelete(c, now) => writes' = writes
              /\ \A put \in BOOLEAN : Conflict(c, now, put) => writes' = writes
      BY DEF CasDelete, Conflict, Kept
    <3>3. /\ \A c \in Callers : Ends(c) => writes' = writes
          /\ Alarm => writes' = writes
      BY DEF Ends, Alarm
    <3>4. \A r \in registering :
              /\ RegisterArrives(r) => writes' = writes
              /\ RegisterAnswered(r) => writes' = writes
              /\ RegisterFails(r) => writes' = writes
      BY DEF RegisterArrives, RegisterAnswered, RegisterFails
    <3>5. Evict \/ DeletionLists \/ Wipe \/ forgetSessionInstances \/ Tick => writes' = writes
      BY DEF Evict, DeletionLists, Wipe, forgetSessionInstances, Tick
    <3> QED
      BY <1>1, <3>1, <3>2, <3>3, <3>4, <3>5 DEF Next
  <2>4. CASE writes' = writes
    <3>1. writes \in Int
      BY <1>1, Numbers DEF IInv, TypeOK
    <3> QED
      BY <2>4, <3>1
  <2>5. CASE \E k \in Keys, now \in CallTimes, ttl \in Asked : Overwrite(k, now, ttl)
    BY <2>1, <2>5 DEF Overwrite
  <2>6. CASE \E c \in Callers, now \in CallTimes, ttl \in Asked : CasPut(c, now, ttl)
    BY <2>2, <2>6
  <2> QED
    BY <2>3, <2>4, <2>5, <2>6
<1>2. IInv /\ [Next]_vars => [Stays]_vars
  BY <1>1
<1> QED
  BY <1>2, SessionInvariant, PTL DEF Spec, WriteKept

-----------------------------------------------------------------------------
(* The entries as the callers share them, whatever keeps them *)

Shared == INSTANCE SharedEntries WITH
    entry <- entries, view <- caller, count <- writes,
    Room <- {S \in SUBSET Keys : Cardinality(S) <= MaxEntries}

\* A caller that saw no row has no generation.
SeenConsistent == \A c \in Callers :
    caller[c] # None => (caller[c].generation = 0 <=> caller[c].current = None)

\* What a call answers of a row is consistent.
LEMMA KnowsConsistent ==
    ASSUME NEW k \in Keys, NEW row \in Row \cup {None}, row # None => row.generation >= 1
    PROVE  /\ Knows(k, row) # None /\ Knows(k, row).key = k /\ ~Knows(k, row).restarted
           /\ Knows(k, row).current = IF row = None THEN None ELSE row.value
           /\ Knows(k, row).generation = 0 <=> Knows(k, row).current = None
<1>1. Knows(k, row) # None
  BY KnowsFact, Numbers
<1>2. row # None => row.value # None /\ row.generation \in Int
  BY Numbers DEF Row
<1> QED
  BY <1>1, <1>2 DEF Knows, generationOf, valueOf

\* A caller that began anew knows what it knew.
LEMMA RestartedConsistent ==
    ASSUME TypeOK, SeenConsistent, caller' = Restarted
    PROVE  SeenConsistent'
<1> SUFFICES ASSUME NEW c \in Callers, caller'[c] # None
             PROVE  caller'[c].generation = 0 <=> caller'[c].current = None
  BY DEF SeenConsistent
<1>1. /\ caller[c] # None /\ caller'[c] = [caller[c] EXCEPT !.restarted = TRUE]
      /\ caller[c] \in Caller
  BY DEF Restarted, TypeOK
<1>2. caller'[c].generation = caller[c].generation /\ caller'[c].current = caller[c].current
  BY <1>1 DEF Caller
<1> QED
  BY <1>1, <1>2 DEF SeenConsistent

\* The row as a call meets it is one of the table's, with a generation.
LEMMA LiveRow ==
    ASSUME IInv, NEW k \in Keys, NEW now \in CallTimes
    PROVE  /\ live(k, now) \in Row \cup {None}
           /\ live(k, now) # None =>
                live(k, now) = entries[k] /\ entries[k].generation >= 1 /\ entries[k].generation \in Int
           /\ live(k, now) = None => entries[k] = None \/ entries[k].expiresAt <= clock
<1>1. entries \in Table /\ clock \in Nat /\ now \in Nat /\ now <= clock
  BY Numbers DEF IInv, TypeOK, Table, CallTimes
<1>2. live(k, now) \in {None, entries[k]} /\ entries[k] \in Row \cup {None}
  BY <1>1, LiveFact DEF Table
<1>3. entries[k] # None => entries[k].generation >= 1 /\ entries[k].generation \in Int
  BY DEF IInv, GenerationsPast
<1>4. live(k, now) = None => entries[k] = None \/ entries[k].expiresAt <= clock
  <2>1. entries[k] # None => entries[k].expiresAt \in Int
    BY <1>2, Numbers DEF Row
  <2> QED
    BY <1>1, <2>1 DEF live
<1> QED
  BY <1>2, <1>3, <1>4

\* A call that answers with the row as it is reads it.
LEMMA AnswerIsRead ==
    ASSUME IInv, SeenConsistent, NEW c \in Callers, NEW k \in Keys, NEW now \in CallTimes,
           caller[c] = None \/ caller[c].key = k,
           caller' = [caller EXCEPT ![c] = Knows(k, live(k, now))],
           clock' = clock, writes' = writes, entries' \in Table,
           \A j \in Keys \ {k} : entries'[j] = entries[j],
           \/ live(k, now) = None /\ entries'[k] = None
           \/ /\ live(k, now) # None /\ entries'[k] # None
              /\ entries'[k].value = entries[k].value /\ entries'[k].expiresAt >= entries[k].expiresAt
    PROVE  Shared!Read(c, k) /\ SeenConsistent'
<1> DEFINE row == live(k, now)
<1>1. /\ row \in Row \cup {None}
      /\ row # None => row = entries[k] /\ entries[k].generation >= 1
      /\ row = None => entries[k] = None \/ entries[k].expiresAt <= clock
  BY LiveRow
<1>2. caller \in [Callers -> Caller \cup {None}] /\ entries \in Table
  BY DEF IInv, TypeOK, Table
<1>3. caller'[c] = Knows(k, row) /\ \A d \in Callers \ {c} : caller'[d] = caller[d]
  BY <1>2
<1> HIDE DEF row
<1>4. /\ Knows(k, row) # None /\ Knows(k, row).key = k /\ ~Knows(k, row).restarted
      /\ Knows(k, row).current = IF row = None THEN None ELSE row.value
      /\ Knows(k, row).generation = 0 <=> Knows(k, row).current = None
  BY <1>1, KnowsConsistent
<1>5. SeenConsistent'
  <2> SUFFICES ASSUME NEW d \in Callers, caller'[d] # None
               PROVE  caller'[d].generation = 0 <=> caller'[d].current = None
    BY DEF SeenConsistent
  <2> QED
    BY <1>3, <1>4 DEF SeenConsistent
<1>6. entries' = [entries EXCEPT ![k] = entries'[k]]
  BY <1>2 DEF Table
<1>7. caller' = [caller EXCEPT ![c] = caller'[c]]
  BY <1>3
<1>8. Shared!Sees(c, k, IF row = None THEN None ELSE row.value)
  BY <1>3, <1>4, <1>7 DEF Shared!Sees
<1>9. \/ Shared!Gone(k) /\ entries'[k] = None /\ Shared!Sees(c, k, None)
      \/ /\ entries[k] # None /\ entries'[k] # None
         /\ entries'[k].value = entries[k].value /\ entries'[k].expiresAt >= entries[k].expiresAt
         /\ Shared!Sees(c, k, entries[k].value)
  BY <1>1, <1>8 DEF Shared!Gone, row
<1> QED
  BY <1>5, <1>6, <1>9 DEF Shared!Read

\* Other rows go only for want of room: #enforceBound leaves a table that fits alone.
LEMMA RoomOnly ==
    ASSUME IInv, NEW k \in Keys, NEW now \in CallTimes, NEW ttl \in Asked, writes < MaxWrites,
           \E j \in Keys \ {k} : entries[j] # None /\ Put(k, now, ttl)[j] = None
    PROVE  ~(Cardinality({j \in Keys : entries[j] # None} \cup {k}) <= MaxEntries)
<1> DEFINE row == [value |-> writes + 1, generation |-> nextGeneration(now),
                   expiresAt |-> now + clampTtl(ttl)]
           table == [entries EXCEPT ![k] = row]
<1>1. entries \in Table /\ writes \in Nat
  BY Numbers DEF IInv, TypeOK, Table
<1>2. row \in Row
  <2>1. nextGeneration(now) \in Generations
    BY PutFact DEF IInv
  <2>2. now + clampTtl(ttl) \in Expiries /\ writes + 1 \in Writes
    BY <1>1, ClampFact, CallTimesFact, Numbers
  <2> QED
    BY <2>1, <2>2 DEF Row
<1>3. Held(table) = {j \in Keys : entries[j] # None} \cup {k}
  BY <1>1, <1>2, Numbers DEF Held, Table
<1>4. Put(k, now, ttl) = enforceBound(table, now)
  BY DEF Put
<1>5. \E j \in Keys : table[j] # None /\ enforceBound(table, now)[j] = None
  BY <1>1, <1>4 DEF Table
<1> HIDE DEF table
<1>6. ~(Cardinality(Held(table)) <= MaxEntries)
  BY <1>5 DEF enforceBound
<1> QED
  BY <1>3, <1>6

\* A write of k is a Put of k.
LEMMA WrittenIsPut ==
    ASSUME IInv, NEW k \in Keys, NEW now \in CallTimes, NEW ttl \in Asked, Written(k, now, ttl)
    PROVE  Shared!Put(k) /\ last' \in Nat /\ last' >= 1 /\ writes' \in Writes
<1>1. /\ writes < MaxWrites /\ writes' = writes + 1 /\ entries' = Put(k, now, ttl) /\ clock' = clock
      /\ last' = nextGeneration(now)
      /\ TypeOK /\ GenerationsPast
  BY DEF Written, IInv
<1>2. entries'[k] # None /\ entries'[k].value = writes'
  BY WrittenIsKept
<1>3. /\ entries' \in Table /\ \A j \in Keys \ {k} : entries'[j] \in {None, entries[j]}
      /\ nextGeneration(now) \in Generations /\ nextGeneration(now) > last
  BY <1>1, PutFact
<1>4. entries' = [j \in Keys |-> IF j # k /\ entries'[j] # None THEN entries[j] ELSE entries'[j]]
  BY <1>3 DEF Table
<1>5. (\E j \in Keys \ {k} : entries[j] # None /\ entries'[j] = None) =>
        {j \in Keys : entries[j] # None} \cup {k} \notin {S \in SUBSET Keys : Cardinality(S) <= MaxEntries}
  BY <1>1, RoomOnly
<1>6. last' \in Nat /\ last' >= 1 /\ writes' \in Writes
  BY <1>1, <1>3, Numbers DEF TypeOK
<1> QED
  BY <1>1, <1>2, <1>4, <1>5, <1>6 DEF Shared!Put

\* A compare-and-swap that goes through meets the entry as its caller saw it.
LEMMA UnchangedIsAsSeen ==
    ASSUME IInv, SeenConsistent, NEW c \in Callers, NEW now \in CallTimes,
           caller[c] # None, Unchanged(c, now)
    PROVE  Shared!May(c) /\ caller[c].key \in Keys
<1> DEFINE k == caller[c].key
           row == live(k, now)
<1>1. k \in Keys
  BY DEF IInv, TypeOK, Caller
<1>2. /\ row # None => row = entries[k] /\ entries[k].generation >= 1 /\ entries[k].generation \in Int
      /\ row = None => entries[k] = None \/ entries[k].expiresAt <= clock
  BY <1>1, LiveRow
<1>3. caller[c].generation = IF row = None THEN 0 ELSE row.generation
  BY DEF Unchanged, generationOf
<1>4. caller[c].generation = 0 <=> caller[c].current = None
  BY DEF SeenConsistent
<1> HIDE DEF row
<1>5. CASE row = None
  <2>1. caller[c].current = None
    BY <1>3, <1>4, <1>5
  <2> QED
    BY <1>1, <1>2, <1>5, <2>1 DEF Shared!May, Shared!AsSeen, Shared!Gone
<1>6. CASE row # None
  <2>1. caller[c].current # None /\ entries[k] # None /\ entries[k].generation = caller[c].generation
    BY <1>2, <1>3, <1>4, <1>6
  <2>2. ~caller[c].restarted => entries[k].value = caller[c].current
    BY <2>1 DEF IInv, NoLostUpdate
  <2> QED
    BY <1>1, <2>1, <2>2 DEF Shared!May, Shared!AsSeen
<1> QED
  BY <1>5, <1>6

\* updateEntry's reads: the first, and the answers to a compare-and-swap that lost.
LEMMA GetShared ==
    ASSUME IInv, SeenConsistent, NEW c \in Callers, NEW k \in Keys, NEW now \in CallTimes, Get(c, k, now)
    PROVE  Shared!Read(c, k) /\ SeenConsistent'
<1>1. entries \in Table /\ now \in Nat
  BY CallTimesFact DEF IInv, TypeOK, Table
<1>2. /\ Touched(k, now) \in Table
      /\ \A j \in Keys : Touched(k, now)[j] = IF j = k THEN live(k, now) ELSE entries[j]
  BY <1>1, LiveFact
<1>3. live(k, now) # None => live(k, now) = entries[k] /\ entries[k].expiresAt \in Int
  BY <1>1, LiveRow, Numbers DEF Row
<1>4. /\ caller[c] = None /\ entries' = Touched(k, now) /\ clock' = clock /\ writes' = writes
      /\ caller' = [caller EXCEPT ![c] = Knows(k, live(k, now))]
  BY DEF Get, Kept
<1>5. /\ entries' \in Table /\ \A j \in Keys \ {k} : entries'[j] = entries[j]
      /\ \/ live(k, now) = None /\ entries'[k] = None
         \/ /\ live(k, now) # None /\ entries'[k] # None
            /\ entries'[k].value = entries[k].value /\ entries'[k].expiresAt >= entries[k].expiresAt
  BY <1>2, <1>3, <1>4
<1> QED
  BY <1>4, <1>5, AnswerIsRead

LEMMA ConflictShared ==
    ASSUME IInv, SeenConsistent, NEW c \in Callers, NEW now \in CallTimes, NEW put \in BOOLEAN,
           Conflict(c, now, put)
    PROVE  \E k \in Keys : Shared!Read(c, k) /\ SeenConsistent'
<1> DEFINE k == caller[c].key
<1>1. entries \in Table /\ now \in Nat
  BY CallTimesFact DEF IInv, TypeOK, Table
<1>2. /\ caller[c] # None /\ entries' = Touched(k, now) /\ clock' = clock /\ writes' = writes
      /\ caller' = [caller EXCEPT ![c] = Knows(k, live(k, now))]
  BY DEF Conflict, Kept
<1>3. k \in Keys
  BY <1>2 DEF IInv, TypeOK, Caller
<1>4. /\ Touched(k, now) \in Table
      /\ \A j \in Keys : Touched(k, now)[j] = IF j = k THEN live(k, now) ELSE entries[j]
  BY <1>1, <1>3, LiveFact
<1>5. live(k, now) # None => live(k, now) = entries[k] /\ entries[k].expiresAt \in Int
  BY <1>1, <1>3, LiveRow, Numbers DEF Row
<1> HIDE DEF k
<1>6. caller[c].key = k
  BY DEF k
<1>7. /\ entries' \in Table /\ \A j \in Keys \ {k} : entries'[j] = entries[j]
      /\ \/ live(k, now) = None /\ entries'[k] = None
         \/ /\ live(k, now) # None /\ entries'[k] # None
            /\ entries'[k].value = entries[k].value /\ entries'[k].expiresAt >= entries[k].expiresAt
  BY <1>2, <1>3, <1>4, <1>5
<1> QED
  BY <1>2, <1>3, <1>6, <1>7, AnswerIsRead

LEMMA GetExtendsShared ==
    ASSUME IInv, SeenConsistent, NEW c \in Callers, NEW k \in Keys, NEW now \in CallTimes, NEW ttl \in Asked,
           GetExtends(c, k, now, ttl)
    PROVE  Shared!Read(c, k) /\ SeenConsistent'
<1> DEFINE row == entries[k]
           until == Max({row.expiresAt, now + clampTtl(ttl)})
<1>1. entries \in Table /\ now \in Nat
  BY CallTimesFact DEF IInv, TypeOK, Table
<1>2. /\ caller[c] = None /\ clock' = clock /\ writes' = writes
      /\ caller' = [caller EXCEPT ![c] = Knows(k, live(k, now))]
      /\ entries' = IF live(k, now) = None THEN Touched(k, now)
                    ELSE [entries EXCEPT ![k].expiresAt = Max({@, now + clampTtl(ttl)})]
  BY DEF GetExtends, Kept
<1>3. entries' \in Table
  <2>1. IInv'
    BY GetExtendsKeeps
  <2> QED
    BY <2>1 DEF IInv, TypeOK, Table
<1>4. CASE live(k, now) = None
  <2>1. /\ Touched(k, now) \in Table
        /\ \A j \in Keys : Touched(k, now)[j] = IF j = k THEN live(k, now) ELSE entries[j]
    BY <1>1, LiveFact
  <2> QED
    BY <1>2, <1>3, <1>4, <2>1, AnswerIsRead
<1>5. CASE live(k, now) # None
  <2>1. row \in Row /\ row.expiresAt \in Expiries /\ row.expiresAt \in Int
    BY <1>1, <1>5, LiveRow, Numbers DEF Table, Row
  <2>2. until >= row.expiresAt /\ until \in Expiries
    <3>1. now + clampTtl(ttl) \in Int /\ now + clampTtl(ttl) \in Expiries
      BY ClampFact, CallTimesFact, Numbers
    <3>2. until = IF row.expiresAt >= now + clampTtl(ttl) THEN row.expiresAt ELSE now + clampTtl(ttl)
      BY <2>1, <3>1, MaxOfTwo
    <3> QED
      BY <2>1, <3>1, <3>2
  <2>3. /\ entries'[k] = [row EXCEPT !.expiresAt = until]
        /\ \A j \in Keys \ {k} : entries'[j] = entries[j]
    BY <1>1, <1>2, <1>5 DEF Table
  <2> HIDE DEF until
  <2>4. /\ entries'[k] # None /\ entries'[k].value = row.value /\ entries'[k].expiresAt = until
    <3>1. /\ [row EXCEPT !.expiresAt = until].value = row.value
          /\ [row EXCEPT !.expiresAt = until].expiresAt = until
      BY <2>1 DEF Row
    <3>2. [row EXCEPT !.expiresAt = until] \in Row
      BY <2>1, <2>2 DEF Row
    <3> QED
      BY <2>3, <3>1, <3>2, Numbers
  <2> QED
    BY <1>2, <1>3, <1>5, <2>2, <2>3, <2>4, AnswerIsRead
<1> QED
  BY <1>4, <1>5

\* updateEntry's writes: one step on the entry its caller saw.
LEMMA CasPutShared ==
    ASSUME IInv, SeenConsistent, NEW c \in Callers, NEW now \in CallTimes, NEW ttl \in Asked,
           CasPut(c, now, ttl)
    PROVE  Shared!Update(c) /\ SeenConsistent'
<1> DEFINE own == [caller[c] EXCEPT !.generation = last', !.current = writes', !.restarted = FALSE]
<1>1. /\ caller[c] # None /\ Unchanged(c, now) /\ Written(caller[c].key, now, ttl)
      /\ \/ caller' = [caller EXCEPT ![c] = None]
         \/ caller' = [caller EXCEPT ![c] = own]
  BY DEF CasPut
<1>2. Shared!May(c) /\ caller[c].key \in Keys
  BY <1>1, UnchangedIsAsSeen
<1>3. Shared!Put(caller[c].key) /\ last' \in Nat /\ last' >= 1 /\ writes' \in Writes
  BY <1>1, <1>2, WrittenIsPut
<1>4. caller \in [Callers -> Caller \cup {None}] /\ caller[c] \in Caller
  BY <1>1 DEF IInv, TypeOK
<1>5. /\ own.key = caller[c].key /\ own.generation = last' /\ own.current = writes'
      /\ ~own.restarted
  BY <1>4 DEF Caller
<1>6. own # None
  <2>1. IInv'
    BY CasPutKeeps
  <2>2. last' \in Generations
    BY <2>1 DEF IInv, TypeOK
  <2>3. own \in Caller
    BY <1>3, <1>4, <2>2 DEF Caller
  <2> QED
    BY <2>3, Numbers
<1> HIDE DEF own
<1>7. CASE caller' = [caller EXCEPT ![c] = None]
  <2>1. SeenConsistent'
    BY <1>4, <1>7 DEF SeenConsistent
  <2> QED
    BY <1>2, <1>3, <1>7, <2>1 DEF Shared!Update
<1>8. CASE caller' = [caller EXCEPT ![c] = own]
  <2>1. caller'[c] = own /\ \A d \in Callers \ {c} : caller'[d] = caller[d]
    BY <1>4, <1>8
  <2>2. SeenConsistent'
    <3>1. last' # 0 /\ writes' # None
      BY <1>3, Numbers
    <3> SUFFICES ASSUME NEW d \in Callers, caller'[d] # None
                 PROVE  caller'[d].generation = 0 <=> caller'[d].current = None
      BY DEF SeenConsistent
    <3> QED
      BY <1>5, <2>1, <3>1 DEF SeenConsistent
  <2>3. Shared!Sees(c, caller[c].key, writes')
    BY <1>5, <1>6, <1>8, <2>1 DEF Shared!Sees
  <2> QED
    BY <1>2, <1>3, <2>2, <2>3 DEF Shared!Update
<1> QED
  BY <1>1, <1>7, <1>8

LEMMA CasDeleteShared ==
    ASSUME IInv, SeenConsistent, NEW c \in Callers, NEW now \in CallTimes, CasDelete(c, now)
    PROVE  Shared!UpdateDeletes(c) /\ SeenConsistent'
<1>1. /\ caller[c] # None /\ Unchanged(c, now)
      /\ entries' = [entries EXCEPT ![caller[c].key] = None]
      /\ caller' = [caller EXCEPT ![c] = None] /\ clock' = clock /\ writes' = writes
  BY DEF CasDelete, Kept
<1>2. Shared!May(c)
  BY <1>1, UnchangedIsAsSeen
<1>3. caller \in [Callers -> Caller \cup {None}]
  BY DEF IInv, TypeOK
<1>4. SeenConsistent'
  BY <1>1, <1>3 DEF SeenConsistent
<1> QED
  BY <1>1, <1>2, <1>4 DEF Shared!UpdateDeletes

\* The alarm, an eviction and a wipe: entries go when their time is up or with their org.
LEMMA LifeShared ==
    ASSUME IInv, SeenConsistent, Alarm \/ Evict \/ Wipe
    PROVE  (Shared!Expire \/ Shared!Wipe) /\ SeenConsistent'
<1>1. TypeOK /\ entries \in Table /\ clock \in Nat
  BY Numbers DEF IInv, TypeOK, Table
<1>2. Restarted = [c \in Callers |-> IF caller[c] = None THEN None ELSE [caller[c] EXCEPT !.restarted = TRUE]]
  BY DEF Restarted
<1>3. /\ clock' = clock /\ writes' = writes
      /\ caller' = caller \/ caller' = Restarted
  BY DEF Alarm, Evict, Wipe
<1>4. SeenConsistent'
  <2>1. CASE caller' = caller
    BY <2>1 DEF SeenConsistent
  <2>2. CASE caller' = Restarted
    BY <1>1, <2>2, RestartedConsistent
  <2> QED
    BY <1>3, <2>1, <2>2
<1>5. UNCHANGED caller \/ Shared!Unsure
  BY <1>2, <1>3 DEF Shared!Unsure
<1>6. CASE Alarm
  <2>1. entries' = purgeExpired(entries, clock)
    BY <1>6 DEF Alarm
  <2>2. \A k \in Keys : entries'[k] =
            IF entries[k] # None /\ entries[k].expiresAt <= clock THEN None ELSE entries[k]
    BY <1>1, <2>1, PurgeFact
  <2>3. entries' \in Table
    BY <1>1, <2>1, PurgeFact
  <2>4. entries' = [k \in Keys |-> IF entries'[k] = None THEN None ELSE entries[k]]
    BY <2>2, <2>3 DEF Table
  <2>5. \A k \in Keys : entries'[k] = None => Shared!Gone(k)
    BY <2>2 DEF Shared!Gone
  <2> QED
    BY <1>3, <1>4, <1>5, <2>4, <2>5 DEF Shared!Expire, Shared!Lapse
<1>7. CASE Evict
  <2>1. entries' = entries
    BY <1>7 DEF Evict
  <2>2. entries' = [k \in Keys |-> IF entries'[k] = None THEN None ELSE entries[k]]
    BY <1>1, <2>1 DEF Table
  <2>3. \A k \in Keys : entries'[k] = None => Shared!Gone(k)
    BY <2>1 DEF Shared!Gone
  <2> QED
    BY <1>3, <1>4, <1>5, <2>2, <2>3 DEF Shared!Expire, Shared!Lapse
<1>8. CASE Wipe
  <2>1. entries' = [k \in Keys |-> None] /\ caller' = Restarted
    BY <1>8 DEF Wipe, Empty
  <2> QED
    BY <1>2, <1>3, <1>4, <2>1 DEF Shared!Wipe, Shared!Unsure
<1> QED
  BY <1>6, <1>7, <1>8

LEMMA SharedInit == Init => Shared!Init /\ SeenConsistent
  BY DEF Init, Empty, Shared!Init, SeenConsistent

LEMMA SharedStep ==
    ASSUME IInv, SeenConsistent, [Next]_vars
    PROVE  [Shared!Next]_(Shared!vars) /\ SeenConsistent'
<1> DEFINE Goal == [Shared!Next]_(Shared!vars) /\ SeenConsistent'
<1>1. ASSUME NEW c \in Callers, NEW k \in Keys, NEW now \in CallTimes, Get(c, k, now) PROVE Goal
  BY <1>1, GetShared DEF Shared!Next
<1>2. ASSUME NEW c \in Callers, NEW k \in Keys, NEW now \in CallTimes, NEW ttl \in Asked,
             GetExtends(c, k, now, ttl)
      PROVE  Goal
  BY <1>2, GetExtendsShared DEF Shared!Next
<1>3. ASSUME NEW k \in Keys, NEW now \in CallTimes, NEW ttl \in Asked, Overwrite(k, now, ttl) PROVE Goal
  <2>1. Written(k, now, ttl) /\ caller' = caller
    BY <1>3 DEF Overwrite
  <2>2. Shared!Overwrite(k) /\ SeenConsistent'
    BY <2>1, WrittenIsPut DEF Shared!Overwrite, SeenConsistent
  <2> QED
    BY <2>2 DEF Shared!Next
<1>4. ASSUME NEW k \in Keys, NEW now \in CallTimes, Delete(k, now) PROVE Goal
  <2>1. Shared!Delete(k) /\ SeenConsistent'
    BY <1>4 DEF Delete, Kept, Shared!Delete, SeenConsistent
  <2> QED
    BY <2>1 DEF Shared!Next
<1>5. ASSUME NEW c \in Callers, NEW now \in CallTimes, NEW ttl \in Asked, CasPut(c, now, ttl) PROVE Goal
  BY <1>5, CasPutShared DEF Shared!Next
<1>6. ASSUME NEW c \in Callers, NEW now \in CallTimes, CasDelete(c, now) PROVE Goal
  BY <1>6, CasDeleteShared DEF Shared!Next
<1>7. ASSUME NEW c \in Callers, NEW now \in CallTimes, NEW put \in BOOLEAN, Conflict(c, now, put) PROVE Goal
  BY <1>7, ConflictShared DEF Shared!Next
<1>8. ASSUME NEW c \in Callers, Ends(c) PROVE Goal
  <2>1. caller \in [Callers -> Caller \cup {None}]
    BY DEF IInv, TypeOK
  <2>2. Shared!Leave(c)
    BY <1>8 DEF Ends, Shared!Leave
  <2>3. SeenConsistent'
    BY <1>8, <2>1 DEF Ends, SeenConsistent
  <2> QED
    BY <2>2, <2>3 DEF Shared!Next
<1>9. CASE Alarm \/ Evict \/ Wipe
  BY <1>9, LifeShared DEF Shared!Next
<1>10. CASE Tick
  <2>1. Shared!Tick /\ SeenConsistent'
    BY <1>10 DEF Tick, Shared!Tick, SeenConsistent
  <2> QED
    BY <2>1 DEF Shared!Next
<1>11. ASSUME UNCHANGED <<entries, caller, clock, writes>> PROVE Goal
  BY <1>11 DEF Shared!vars, SeenConsistent
<1>12. ASSUME NEW r \in registering, RegisterArrives(r) \/ RegisterAnswered(r) \/ RegisterFails(r)
       PROVE  Goal
  BY <1>11, <1>12 DEF RegisterArrives, RegisterAnswered, RegisterFails
<1>13. CASE DeletionLists \/ forgetSessionInstances
  BY <1>11, <1>13 DEF DeletionLists, forgetSessionInstances
<1>14. CASE UNCHANGED vars
  BY <1>11, <1>14 DEF vars
<1> QED
  BY <1>1, <1>2, <1>3, <1>4, <1>5, <1>6, <1>7, <1>8, <1>9, <1>10, <1>12, <1>13, <1>14 DEF Next

\* The session state is shared entries: updateEntry is one step on the entry its caller
\* saw, which goes through only if the entry is as it was seen, or was seen to be gone and
\* is, and a read or a write of another key makes away with an entry only if its time is
\* up or there is no room for it; whatever expires, is swept, evicted or extended between.
THEOREM SessionEntriesShared == Spec => Shared!Spec
<1>1. Init => Shared!Init /\ SeenConsistent
  BY SharedInit
<1>2. IInv /\ SeenConsistent /\ [Next]_vars => [Shared!Next]_(Shared!vars) /\ SeenConsistent'
  BY SharedStep
<1> QED
  BY <1>1, <1>2, SessionInvariant, PTL DEF Spec, Shared!Spec

-----------------------------------------------------------------------------
(* The named leases (lease.ts).  HeldWhileAlive is not inductive alone: that a *)
(* release or a renewal of one worker leaves another's row alone needs that     *)
(* tokens are apart, and that a take-over spares a live holder needs that the    *)
(* row it reads is as old as the holder's last sign of life (RowAge).            *)

\* No lease is held at first.
LEMMA LeaseStarts == LeaseInit => LeaseIInv
  BY LeaseAssumption DEF LeaseInit, LeaseIInv, LeaseTypeOK, TokensApart,
         RowAge, HeldWhileAlive, LeaseRow, NoLease, Holds

\* What a renewal leaves alone: it changes no token, and a row's age only
\* together with its holder's last sign of life.
RenewKeeps ==
    /\ lease' \in [Names -> LeaseRow]
    /\ alive' \in [Workers -> Nat]
    /\ \A n \in Names :
        /\ lease'[n].token = lease[n].token
        /\ lease[n].token = 0 => lease'[n] = lease[n]
    /\ \A v \in Workers :
        work[v] # "idle" /\ Holds(v) => lease'[LeaseOf[v]].renewedAt = alive'[v]
    /\ \A v \in Workers : ~Holds(v) => alive'[v] = alive[v]

\* renew(token) touches the row of the token's holder only.
LEMMA LeaseRenewed ==
    ASSUME LeaseIInv, NEW w \in Workers, work[w] # "idle", RenewRow(w)
    PROVE  RenewKeeps
<1> USE LeaseAssumption DEF LeaseIInv, LeaseTypeOK, TokensApart, RowAge,
            LeaseRow, NoLease, Holds, RenewKeeps
<1>1. CASE Holds(w)
  <2>1. lease' = [lease EXCEPT ![LeaseOf[w]] = [token |-> token[w], renewedAt |-> leaseClock]]
    BY <1>1 DEF RenewRow
  <2>2. alive' = [alive EXCEPT ![w] = leaseClock]
    BY <1>1 DEF RenewRow
  <2>3. \A v \in Workers :
          work[v] # "idle" /\ Holds(v) => lease'[LeaseOf[v]].renewedAt = alive'[v]
    BY <1>1, <2>1, <2>2
  <2> QED
    BY <1>1, <2>1, <2>2, <2>3
<1>2. CASE ~Holds(w)
  BY <1>2 DEF RenewRow
<1> QED
  BY <1>1, <1>2

\* Every step of the lease's specification preserves the inductive invariant.
LEMMA LeaseSteps == LeaseIInv /\ [LeaseNext]_leaseVars => LeaseIInv'
<1> SUFFICES ASSUME LeaseIInv, [LeaseNext]_leaseVars PROVE LeaseIInv'
  OBVIOUS
<1> USE LeaseAssumption DEF LeaseIInv, LeaseTypeOK, TokensApart, RowAge,
            HeldWhileAlive, LeaseRow, NoLease, Holds
<1>1. CASE LeaseTick
  BY <1>1 DEF LeaseTick
<1>2. ASSUME NEW w \in Workers, Take(w) PROVE LeaseIInv'
  BY <1>2 DEF Take, TakeRow, mayTake
<1>3. ASSUME NEW w \in Workers, TakeAnswerLost(w) PROVE LeaseIInv'
  BY <1>3 DEF TakeAnswerLost, TakeRow, mayTake
<1>4. ASSUME NEW w \in Workers, RenewUnheard(w) PROVE LeaseIInv'
  <2>1. /\ work[w] # "idle" /\ RenewRow(w)
        /\ UNCHANGED <<leaseClock, issued, work, token>>
    BY <1>4 DEF RenewUnheard
  <2>2. RenewKeeps
    BY <2>1, LeaseRenewed
  <2> QED
    BY <2>1, <2>2 DEF RenewKeeps
<1>5. ASSUME NEW w \in Workers, RenewHeard(w) PROVE LeaseIInv'
  <2>1. /\ work[w] # "idle" /\ RenewRow(w) /\ UNCHANGED <<leaseClock, issued, token>>
        /\ work' \in [Workers -> {"idle", "running", "releasing"}]
        /\ \A v \in Workers : work'[v] # "idle" => work[v] # "idle"
    BY <1>5 DEF RenewHeard
  <2>2. RenewKeeps
    BY <2>1, LeaseRenewed
  <2> QED
    BY <2>1, <2>2 DEF RenewKeeps
<1>6. ASSUME NEW w \in Workers, EndWork(w) PROVE LeaseIInv'
  BY <1>6 DEF EndWork
<1>7. ASSUME NEW w \in Workers, Release(w) PROVE LeaseIInv'
  BY <1>7 DEF Release
<1>8. ASSUME NEW w \in Workers, Vanish(w) PROVE LeaseIInv'
  BY <1>8 DEF Vanish
<1>9. CASE UNCHANGED leaseVars
  BY <1>9 DEF leaseVars
<1> QED
  BY <1>1, <1>2, <1>3, <1>4, <1>5, <1>6, <1>7, <1>8, <1>9 DEF LeaseNext

\* The inductive invariant holds in every reachable state.
THEOREM LeaseInvariant == LeaseSpec => []LeaseIInv
  BY LeaseStarts, LeaseSteps, PTL DEF LeaseSpec

\* A worker at work holds its lease unless it went a whole TTL without being
\* marked alive, whatever the other workers take, renew or release.
THEOREM LeaseHeldWhileAlive == LeaseSpec => []HeldWhileAlive
<1>1. LeaseIInv => HeldWhileAlive
  BY DEF LeaseIInv
<1> QED
  BY <1>1, LeaseInvariant, PTL

\* Two workers of one lease name are never both at work within the TTL of their
\* last sign of life.
THEOREM LeaseExclusive == LeaseSpec => []OneLiveHolder
<1>1. LeaseIInv => OneLiveHolder
  BY LeaseAssumption DEF LeaseIInv, LeaseTypeOK, TokensApart, HeldWhileAlive,
         OneLiveHolder, Holds, LeaseRow
<1> QED
  BY <1>1, LeaseInvariant, PTL

\* A lease changes hands only once abandoned, and goes away only in the release
\* of the worker that holds it.
THEOREM LeaseTransferSafe == LeaseSpec => LeaseTransfer
<1> DEFINE Transfer == \A n \in Names :
        LET old == lease[n]
            new == lease'[n]
        IN /\ old.token # 0 /\ new.token \notin {0, old.token}
                => leaseClock - old.renewedAt >= TTL
           /\ old.token # 0 /\ new.token = 0
                => \E w \in Workers : token[w] = old.token /\ work[w] = "releasing"
<1>1. LeaseIInv /\ [LeaseNext]_leaseVars => [Transfer]_leaseVars
  <2> SUFFICES ASSUME LeaseIInv, LeaseNext PROVE Transfer
    OBVIOUS
  <2> USE LeaseAssumption DEF LeaseIInv, LeaseTypeOK, LeaseRow, NoLease
  <2>1. CASE LeaseTick
    BY <2>1 DEF LeaseTick
  <2>2. ASSUME NEW w \in Workers, Take(w) \/ TakeAnswerLost(w) PROVE Transfer
    BY <2>2 DEF Take, TakeAnswerLost, TakeRow, mayTake
  <2>3. ASSUME NEW w \in Workers, RenewUnheard(w) \/ RenewHeard(w) PROVE Transfer
    <3>1. work[w] # "idle" /\ RenewRow(w)
      BY <2>3 DEF RenewUnheard, RenewHeard
    <3>2. RenewKeeps
      BY <3>1, LeaseRenewed
    <3> QED
      BY <3>2 DEF RenewKeeps
  <2>4. ASSUME NEW w \in Workers, EndWork(w) \/ Vanish(w) PROVE Transfer
    BY <2>4 DEF EndWork, Vanish
  <2>5. ASSUME NEW w \in Workers, Release(w) PROVE Transfer
    BY <2>5 DEF Release, Holds
  <2> QED
    BY <2>1, <2>2, <2>3, <2>4, <2>5 DEF LeaseNext
<1> QED
  BY <1>1, LeaseInvariant, PTL DEF LeaseSpec, LeaseTransfer
=============================================================================
