-------------------------- MODULE SpendLedger_proofs --------------------------
(***************************************************************************)
(* The invariants of SpendLedger for all callers, limits, amounts, costs,     *)
(* calendars and numbers of requests under way at once.                       *)
(***************************************************************************)
EXTENDS SpendLedger, FiniteSetTheorems, TLAPS

\* No row is of a period to come.
RowsPast ==
    \A s \in Scopes, p \in Periods, t \in Times : counters[s][p][t] > 0 => t <= Start(p)

\* The ceiling is at least what the limits allow, and nothing is tallied without.
CeilingAbove ==
    \A s \in Scopes, p \in Periods :
        /\ Limited(limits, s, p) => Smallest(limits, s, p) <= ceiling[s][p]
        /\ ~Limited(limits, s, p) => tally[s][p] = 0

\* A lease's scopes are among those its request may be charged to.
LeasesWithin == \A x \in Slots : calls[x] # Idle => calls[x].spend \subseteq calls[x].may

\* The requests that may not be charged to s: one that may was let through when the
\* limits on s had room, so each that ends makes room for its cost in the bound.
Clear(s) == {x \in Slots : calls[x] = Idle \/ s \notin calls[x].may}

OverspendByEnded ==
    \A s \in Scopes, p \in Periods :
        tally[s][p] <= Larger(ceiling[s][p] - 1, 0) + MaxCost * Cardinality(Clear(s))

IInv ==
    /\ TypeOK
    /\ RowsPast /\ OneRowPerLimit /\ CountedExactly
    /\ CeilingAbove /\ LeasesWithin /\ OverspendByEnded

-----------------------------------------------------------------------------
(* Facts about the operators *)

\* Times are natural numbers.
LEMMA TimesFact == Times \subseteq Nat /\ 0 \in Times
BY SpendAssumption DEF Times

\* A scope and period has at most an admin's and a member's limit.
LEMMA AmountsFact ==
    ASSUME NEW book \in [Scopes -> [Periods -> [Sources -> Nat \cup {NoLimit}]]],
           NEW s \in Scopes, NEW p \in Periods
    PROVE  /\ Amounts(book, s, p) \subseteq Nat
           /\ \A a \in Amounts(book, s, p) :
                a = book[s][p]["admin"] \/ a = book[s][p]["member"]
BY DEF Amounts, Sources

\* The smallest of some limits is an amount.
LEMMA SmallestFact ==
    ASSUME NEW book \in [Scopes -> [Periods -> [Sources -> Nat \cup {NoLimit}]]],
           NEW s \in Scopes, NEW p \in Periods, Limited(book, s, p)
    PROVE  Smallest(book, s, p) \in Nat
<1> DEFINE A == Amounts(book, s, p)
<1>1. /\ A \subseteq Nat
      /\ \A a \in A : a = book[s][p]["admin"] \/ a = book[s][p]["member"]
  BY AmountsFact
<1>2. \E a \in A : \A b \in A : a <= b
  <2>1. PICK a \in A : TRUE
    BY DEF Limited
  <2>2. CASE \A b \in A : a <= b
    BY <2>1, <2>2
  <2>3. CASE \E b \in A : ~(a <= b)
    <3>1. PICK b \in A : ~(a <= b)
      BY <2>3
    <3> HIDE DEF A
    <3>2. ASSUME NEW e \in A
          PROVE  b <= e
      <4>1. e = a \/ e = b
        BY <1>1, <2>1, <3>1, SMT
      <4>2. a \in Nat /\ b \in Nat
        BY <1>1, <2>1, <3>1
      <4> QED BY <3>1, <4>1, <4>2, SMT
    <3> QED BY <3>1, <3>2
  <2> QED BY <2>2, <2>3
<1>3. Smallest(book, s, p) \in A
  BY <1>2 DEF Smallest
<1> QED BY <1>1, <1>3

\* A period starts at a time.
LEMMA StartFact ==
    ASSUME TypeOK, NEW p \in Periods
    PROVE  Start(p) \in Times
BY SpendAssumption DEF TypeOK, Start

\* There are finitely many requests.
LEMMA ClearFact ==
    ASSUME NEW s \in Scopes
    PROVE  /\ IsFiniteSet(Clear(s)) /\ Cardinality(Clear(s)) \in Nat
           /\ Cardinality(Clear(s)) <= Cardinality(Slots) /\ Cardinality(Slots) \in Nat
<1>1. Clear(s) \subseteq Slots /\ IsFiniteSet(Slots)
  BY SpendAssumption DEF Clear
<1>2. IsFiniteSet(Clear(s)) /\ Cardinality(Clear(s)) <= Cardinality(Slots)
  BY <1>1, FS_Subset
<1>3. Cardinality(Clear(s)) \in Nat /\ Cardinality(Slots) \in Nat
  BY <1>1, <1>2, FS_CardinalityType
<1> QED BY <1>2, <1>3

\* Arithmetic the bound on overspending needs.
LEMMA Monotone ==
    ASSUME NEW a \in Nat, NEW b \in Nat, NEW e \in Nat, b <= e
    PROVE  a * b <= a * e /\ a * b \in Nat /\ a * e \in Nat
OBVIOUS

\* Arithmetic: one more request.
LEMMA OneMore ==
    ASSUME NEW a \in Nat, NEW b \in Nat
    PROVE  a * (b + 1) = a * b + a /\ a * b \in Nat
OBVIOUS

-----------------------------------------------------------------------------
(* Limits and calendar *)

\* A scope without limits has none.
LEMMA UnlimitedFact ==
    /\ Unlimited \in [Periods -> [Sources -> Nat \cup {NoLimit}]]
    /\ \A p \in Periods, source \in Sources : Unlimited[p][source] = NoLimit
BY DEF Unlimited

\* Init preserves the invariant.
LEMMA InitInv ==
    ASSUME Init
    PROVE  IInv
<1>1. TypeOK
  BY SpendAssumption, TimesFact, UnlimitedFact DEF Init, TypeOK
<1>2. \A s \in Scopes, p \in Periods : ~Limited(limits, s, p)
  BY UnlimitedFact DEF Init, Limited, Amounts
<1>3. RowsPast /\ OneRowPerLimit
  BY TimesFact DEF Init, RowsPast, OneRowPerLimit
<1>4. CountedExactly
  BY <1>1, StartFact DEF Init, CountedExactly, spent
<1>5. CeilingAbove /\ LeasesWithin
  BY <1>2 DEF Init, CeilingAbove, LeasesWithin
<1>6. ASSUME NEW s \in Scopes, NEW p \in Periods
      PROVE  tally[s][p] <= Larger(ceiling[s][p] - 1, 0) + MaxCost * Cardinality(Clear(s))
  <2>1. tally[s][p] = 0 /\ ceiling[s][p] \in Nat
    BY <1>1 DEF Init, TypeOK
  <2>2. MaxCost * Cardinality(Clear(s)) \in Nat
    BY SpendAssumption, ClearFact, OneMore
  <2>3. Larger(ceiling[s][p] - 1, 0) \in Int /\ 0 <= Larger(ceiling[s][p] - 1, 0)
    BY <2>1 DEF Larger
  <2> QED BY <2>1, <2>2, <2>3
<1> QED BY <1>1, <1>3, <1>4, <1>5, <1>6 DEF IInv, OverspendByEnded

\* What a step that counts Q anew does to the history, where the limits that are gone
\* are in Q.
LEMMA RecountInv ==
    ASSUME IInv, NEW Q, Recount(Q), calls' = calls,
           limits' \in [Scopes -> [Periods -> [Sources -> Nat \cup {NoLimit}]]],
           \A s \in Scopes, p \in Periods : <<s, p>> \notin Q =>
               (Limited(limits, s, p) => Limited(limits', s, p))
    PROVE  /\ tally' \in [Scopes -> [Periods -> Nat]] /\ ceiling' \in [Scopes -> [Periods -> Nat]]
           /\ CeilingAbove' /\ LeasesWithin' /\ OverspendByEnded'
<1> USE DEF IInv, TypeOK
<1>1. ASSUME NEW s \in Scopes, NEW p \in Periods
      PROVE  /\ tally'[s][p] \in Nat /\ ceiling'[s][p] \in Nat
             /\ Limited(limits', s, p) => Smallest(limits', s, p) <= ceiling'[s][p]
             /\ ~Limited(limits', s, p) => tally'[s][p] = 0
             /\ tally'[s][p] = 0
                \/ (tally'[s][p] = tally[s][p] /\ ceiling[s][p] <= ceiling'[s][p])
  <2>1. tally'[s][p] = IF <<s, p>> \in Q THEN 0 ELSE tally[s][p]
    BY DEF Recount
  <2>2. ceiling'[s][p] = IF ~Limited(limits', s, p) THEN 0
                         ELSE IF <<s, p>> \in Q THEN Smallest(limits', s, p)
                         ELSE Larger(ceiling[s][p], Smallest(limits', s, p))
    BY DEF Recount
  <2>3. tally[s][p] \in Nat /\ ceiling[s][p] \in Nat
    OBVIOUS
  <2>4. CASE ~Limited(limits', s, p)
    BY <2>1, <2>2, <2>3, <2>4 DEF CeilingAbove
  <2>5. CASE Limited(limits', s, p)
    <3>1. Smallest(limits', s, p) \in Nat
      BY <2>5, SmallestFact
    <3>2. /\ Larger(ceiling[s][p], Smallest(limits', s, p)) \in Nat
          /\ ceiling[s][p] <= Larger(ceiling[s][p], Smallest(limits', s, p))
          /\ Smallest(limits', s, p) <= Larger(ceiling[s][p], Smallest(limits', s, p))
      BY <2>3, <3>1 DEF Larger
    <3> HIDE DEF IInv, TypeOK
    <3> QED BY <2>1, <2>2, <2>3, <2>5, <3>1, <3>2
  <2> QED BY <2>4, <2>5
<1>2. tally' \in [Scopes -> [Periods -> Nat]] /\ ceiling' \in [Scopes -> [Periods -> Nat]]
  <2>1. /\ tally' = [s \in Scopes |-> [p \in Periods |-> tally'[s][p]]]
        /\ ceiling' = [s \in Scopes |-> [p \in Periods |-> ceiling'[s][p]]]
    BY DEF Recount
  <2> QED BY <1>1, <2>1
<1>3. CeilingAbove'
  BY <1>1 DEF CeilingAbove
<1>4. LeasesWithin'
  BY DEF LeasesWithin
<1>5. ASSUME NEW s \in Scopes, NEW p \in Periods
      PROVE  (tally[s][p] <= Larger(ceiling[s][p] - 1, 0) + MaxCost * Cardinality(Clear(s)))'
  <2>1. Clear(s)' = Clear(s)
    BY DEF Clear
  <2>2. tally[s][p] <= Larger(ceiling[s][p] - 1, 0) + MaxCost * Cardinality(Clear(s))
    BY DEF OverspendByEnded
  <2>3. MaxCost * Cardinality(Clear(s)) \in Nat
    BY SpendAssumption, ClearFact, OneMore
  <2>4. tally[s][p] \in Nat /\ ceiling[s][p] \in Nat
    OBVIOUS
  <2> HIDE DEF IInv, TypeOK
  <2> DEFINE c == MaxCost * Cardinality(Clear(s))
  <2> HIDE DEF c
  <2>5. tally'[s][p] <= Larger(ceiling'[s][p] - 1, 0) + c
    BY <1>1, <2>2, <2>3, <2>4 DEF Larger, c
  <2> QED BY <2>1, <2>5 DEF c
<1> QED BY <1>2, <1>3, <1>4, <1>5 DEF OverspendByEnded

\* A step that drops the counters of Q and counts Q anew, where the limits that are
\* gone and the periods that start elsewhere are in Q.
LEMMA BookInv ==
    ASSUME IInv, NEW Q, Recount(Q), calls' = calls, now' = now, calendar' \in Calendars,
           counters' = Dropping(Q),
           limits' \in [Scopes -> [Periods -> [Sources -> Nat \cup {NoLimit}]]],
           \A s \in Scopes, p \in Periods : <<s, p>> \notin Q =>
               /\ Start(p)' = Start(p)
               /\ Limited(limits, s, p) => Limited(limits', s, p)
    PROVE  IInv'
<1>1. /\ tally' \in [Scopes -> [Periods -> Nat]] /\ ceiling' \in [Scopes -> [Periods -> Nat]]
      /\ CeilingAbove' /\ LeasesWithin' /\ OverspendByEnded'
  BY RecountInv
<1>2. TypeOK'
  <2>1. counters' \in [Scopes -> [Periods -> [Times -> Nat]]]
    BY DEF IInv, TypeOK, Dropping
  <2> QED BY <1>1, <2>1 DEF IInv, TypeOK
<1>3. ASSUME NEW s \in Scopes, NEW p \in Periods, NEW t \in Times
      PROVE  counters'[s][p][t] = IF <<s, p>> \in Q THEN 0 ELSE counters[s][p][t]
  BY DEF Dropping
<1>4. ASSUME NEW s \in Scopes, NEW p \in Periods, NEW t \in Times, counters'[s][p][t] > 0
      PROVE  /\ t <= Start(p)' /\ Limited(limits', s, p)
             /\ \A u \in Times \ {t} : counters'[s][p][u] = 0
  <2>1. <<s, p>> \notin Q
    BY <1>3, <1>4
  <2>2. counters[s][p][t] > 0 /\ \A u \in Times : counters'[s][p][u] = counters[s][p][u]
    BY <1>3, <1>4, <2>1
  <2>3. t <= Start(p) /\ Start(p)' = Start(p)
    BY <2>1, <2>2 DEF IInv, RowsPast
  <2>4. Limited(limits, s, p) /\ \A u \in Times \ {t} : counters[s][p][u] = 0
    BY <2>2 DEF IInv, OneRowPerLimit
  <2> QED BY <2>1, <2>2, <2>3, <2>4
<1>5. RowsPast' /\ OneRowPerLimit'
  BY <1>4 DEF RowsPast, OneRowPerLimit
<1>6. ASSUME NEW s \in Scopes, NEW p \in Periods
      PROVE  (spent(s, p) = tally[s][p])'
  <2>1. tally'[s][p] = IF <<s, p>> \in Q THEN 0 ELSE tally[s][p]
    BY DEF Recount
  <2>2. Start(p)' \in Times
    BY <1>2, SpendAssumption DEF TypeOK, Start
  <2>3. spent(s, p)' = IF <<s, p>> \in Q THEN 0 ELSE counters[s][p][Start(p)']
    BY <1>3, <2>2 DEF spent
  <2>4. spent(s, p) = tally[s][p]
    BY DEF IInv, CountedExactly
  <2> QED BY <2>1, <2>3, <2>4 DEF spent
<1> QED BY <1>1, <1>2, <1>5, <1>6 DEF IInv, CountedExactly

\* Nothing is dropped.
LEMMA DroppingNone ==
    ASSUME TypeOK
    PROVE  Dropping({}) = counters
BY DEF TypeOK, Dropping

\* Write preserves the invariant.
LEMMA WriteInv ==
    ASSUME IInv, NEW s \in Scopes, NEW p \in Periods, NEW source \in Sources, NEW amount \in Nat,
           limits' = [limits EXCEPT ![s][p][source] = amount],
           UNCHANGED <<counters, calendar, now, calls>>, Recount({})
    PROVE  IInv'
<1>1. limits' \in [Scopes -> [Periods -> [Sources -> Nat \cup {NoLimit}]]]
  BY DEF IInv, TypeOK
<1>2. ASSUME NEW r \in Scopes, NEW q \in Periods, Limited(limits, r, q)
      PROVE  Limited(limits', r, q)
  <2>1. PICK u \in Sources : limits[r][q][u] # NoLimit
    BY <1>2 DEF Limited, Amounts
  <2>2. limits'[r][q][u] # NoLimit
    BY <2>1, SpendAssumption DEF IInv, TypeOK
  <2> QED BY <2>2 DEF Limited, Amounts
<1>3. counters' = Dropping({})
  BY DroppingNone DEF IInv
<1>4. calendar' \in Calendars
  BY DEF IInv, TypeOK
<1> QED BY <1>1, <1>2, <1>3, <1>4, BookInv DEF Start

\* remove preserves the invariant.
LEMMA removeInv ==
    ASSUME IInv, NEW s \in Scopes, NEW p \in Periods, NEW source \in Sources,
           remove(s, p, source)
    PROVE  IInv'
<1> DEFINE gone == IF Limited(limits', s, p) THEN {} ELSE {<<s, p>>}
<1>1. /\ Recount(gone) /\ counters' = Dropping(gone) /\ calls' = calls /\ now' = now
      /\ calendar' = calendar /\ limits' = [limits EXCEPT ![s][p][source] = NoLimit]
  BY DEF remove
<1>2. limits' \in [Scopes -> [Periods -> [Sources -> Nat \cup {NoLimit}]]]
  BY <1>1 DEF IInv, TypeOK
<1>3. ASSUME NEW r \in Scopes, NEW q \in Periods, <<r, q>> \notin gone, Limited(limits, r, q)
      PROVE  Limited(limits', r, q)
  <2>1. CASE r = s /\ q = p
    BY <1>3, <2>1
  <2>2. CASE ~(r = s /\ q = p)
    <3>1. limits'[r][q] = limits[r][q]
      BY <1>1, <2>2 DEF IInv, TypeOK
    <3> QED BY <1>3, <3>1 DEF Limited, Amounts
  <2> QED BY <2>1, <2>2
<1>4. calendar' \in Calendars
  BY <1>1 DEF IInv, TypeOK
<1> HIDE DEF gone
<1> QED BY <1>1, <1>2, <1>3, <1>4, BookInv DEF Start

\* forget preserves the invariant.
LEMMA forgetInv ==
    ASSUME IInv, NEW s \in Scopes, forget(s)
    PROVE  IInv'
<1>1. limits' \in [Scopes -> [Periods -> [Sources -> Nat \cup {NoLimit}]]]
  BY UnlimitedFact DEF forget, IInv, TypeOK
<1>2. ASSUME NEW r \in Scopes, NEW q \in Periods, <<r, q>> \notin {s} \X Periods,
             Limited(limits, r, q)
      PROVE  Limited(limits', r, q)
  <2>1. r # s
    BY <1>2
  <2>2. limits'[r] = limits[r]
    BY <2>1 DEF forget, IInv, TypeOK
  <2> QED BY <1>2, <2>2 DEF Limited, Amounts
<1>3. calendar' \in Calendars
  BY DEF forget, IInv, TypeOK
<1> QED BY <1>1, <1>2, <1>3, BookInv DEF forget, Start

\* setSettings preserves the invariant.
LEMMA setSettingsInv ==
    ASSUME IInv, NEW c \in Calendars, setSettings(c)
    PROVE  IInv'
<1>1. limits' \in [Scopes -> [Periods -> [Sources -> Nat \cup {NoLimit}]]]
  BY DEF setSettings, IInv, TypeOK
<1>2. \A s \in Scopes, p \in Periods : <<s, p>> \in Counted
  BY DEF Counted
<1> QED BY <1>1, <1>2, BookInv DEF setSettings

\* Tick preserves the invariant.
LEMMA TickInv ==
    ASSUME IInv, Tick
    PROVE  IInv'
<1> DEFINE Q == {q \in Counted : periodStart[q[2]][calendar][now + 1] # Start(q[2])}
<1>1. Recount(Q) /\ UNCHANGED <<limits, counters, calendar, calls>>
  BY DEF Tick
<1>2. now' \in Times /\ now' = now + 1
  BY SpendAssumption DEF Tick, IInv, TypeOK, Times
<1>3. ASSUME NEW s \in Scopes, NEW p \in Periods
      PROVE  <<s, p>> \in Q <=> Start(p)' # Start(p)
  BY <1>1, <1>2 DEF Counted, Start
<1> HIDE DEF Q
<1>4. limits' \in [Scopes -> [Periods -> [Sources -> Nat \cup {NoLimit}]]]
  BY <1>1 DEF IInv, TypeOK
<1>5. /\ tally' \in [Scopes -> [Periods -> Nat]] /\ ceiling' \in [Scopes -> [Periods -> Nat]]
      /\ CeilingAbove' /\ LeasesWithin' /\ OverspendByEnded'
  BY <1>1, <1>4, RecountInv
<1>6. TypeOK'
  BY <1>1, <1>2, <1>5 DEF IInv, TypeOK
<1>7. ASSUME NEW p \in Periods
      PROVE  Start(p) \in Times /\ Start(p)' \in Times /\ Start(p) <= Start(p)'
  <2>1. now \in Times /\ calendar \in Calendars /\ now <= now'
    BY <1>2, TimesFact DEF IInv, TypeOK
  <2>2. /\ periodStart[p][calendar][now] \in Times /\ periodStart[p][calendar][now'] \in Times
        /\ periodStart[p][calendar][now] <= periodStart[p][calendar][now']
    BY <1>2, <2>1, SpendAssumption
  <2> QED BY <1>1, <2>2 DEF Start
<1>8. ASSUME NEW s \in Scopes, NEW p \in Periods, NEW t \in Times, counters'[s][p][t] > 0
      PROVE  t <= Start(p)'
  <2>1. t <= Start(p)
    BY <1>1, <1>8 DEF IInv, RowsPast
  <2>2. t \in Nat /\ Start(p) \in Nat /\ Start(p)' \in Nat /\ Start(p) <= Start(p)'
    BY <1>7, TimesFact
  <2> HIDE DEF Start
  <2> QED BY <2>1, <2>2
<1>9. OneRowPerLimit'
  BY <1>1 DEF IInv, OneRowPerLimit
<1>10. ASSUME NEW s \in Scopes, NEW p \in Periods
       PROVE  (spent(s, p) = tally[s][p])'
  <2>1. tally'[s][p] = IF <<s, p>> \in Q THEN 0 ELSE tally[s][p]
    BY <1>1 DEF Recount
  <2>2. spent(s, p)' = counters[s][p][Start(p)']
    BY <1>1 DEF spent
  <2>3. CASE Start(p)' = Start(p)
    BY <1>3, <2>1, <2>2, <2>3 DEF IInv, CountedExactly, spent
  <2>4. CASE Start(p)' # Start(p)
    <3>1. ~(Start(p)' <= Start(p))
      <4>1. Start(p) \in Nat /\ Start(p)' \in Nat /\ Start(p) <= Start(p)'
        BY <1>7, TimesFact
      <4> QED BY <2>4, <4>1
    <3>2. counters[s][p][Start(p)'] \in Nat
      BY <1>7 DEF IInv, TypeOK
    <3>3. ~(counters[s][p][Start(p)'] > 0)
      BY <1>7, <3>1 DEF IInv, RowsPast
    <3>4. counters[s][p][Start(p)'] = 0
      BY <3>2, <3>3
    <3> QED BY <1>3, <2>1, <2>2, <2>4, <3>4
  <2> QED BY <2>3, <2>4
<1> QED BY <1>5, <1>6, <1>8, <1>9, <1>10 DEF IInv, CountedExactly, RowsPast

-----------------------------------------------------------------------------
(* Requests *)

\* A request that is let through leaves the bound to the others.
LEMMA LetThrough ==
    ASSUME IInv, NEW x \in Slots, NEW call \in Call, calls[x] = Idle,
           call.spend \subseteq call.may, ~exhausted(call.may),
           calls' = [calls EXCEPT ![x] = call],
           UNCHANGED <<limits, counters, calendar, now, tally, ceiling>>
    PROVE  IInv'
<1>1. TypeOK'
  BY DEF IInv, TypeOK
<1>2. RowsPast' /\ OneRowPerLimit' /\ CountedExactly'
  BY DEF IInv, RowsPast, OneRowPerLimit, CountedExactly, spent, Start
<1>3. CeilingAbove'
  BY DEF IInv, CeilingAbove
<1>4. LeasesWithin'
  BY DEF IInv, TypeOK, LeasesWithin
<1>5. ASSUME NEW s \in Scopes, NEW p \in Periods
      PROVE  (tally[s][p] <= Larger(ceiling[s][p] - 1, 0) + MaxCost * Cardinality(Clear(s)))'
  <2>1. tally[s][p] \in Nat /\ ceiling[s][p] \in Nat
    BY DEF IInv, TypeOK
  <2>2. Larger(ceiling[s][p] - 1, 0) \in Nat /\ ceiling[s][p] - 1 <= Larger(ceiling[s][p] - 1, 0)
    BY <2>1 DEF Larger
  <2>3. CASE s \in call.may
    <3>1. tally[s][p] <= Larger(ceiling[s][p] - 1, 0)
      <4>1. CASE Limited(limits, s, p)
        <5>1. Smallest(limits, s, p) \in Nat /\ Smallest(limits, s, p) <= ceiling[s][p]
          BY <4>1, SmallestFact DEF IInv, TypeOK, CeilingAbove
        <5>2. ~(tally[s][p] >= Smallest(limits, s, p))
          BY <2>3, <4>1 DEF exhausted, IInv, CountedExactly
        <5>3. tally[s][p] <= ceiling[s][p] - 1
          BY <2>1, <5>1, <5>2
        <5> QED BY <2>1, <2>2, <5>3
      <4>2. CASE ~Limited(limits, s, p)
        BY <2>2, <4>2 DEF IInv, CeilingAbove
      <4> QED BY <4>1, <4>2
    <3>2. Clear(s)' \subseteq Slots /\ IsFiniteSet(Slots)
      BY SpendAssumption DEF Clear
    <3>3. Cardinality(Clear(s)') \in Nat
      BY <3>2, FS_Subset, FS_CardinalityType
    <3>4. MaxCost * Cardinality(Clear(s)') \in Nat
      BY <3>3, SpendAssumption, OneMore
    <3>5. tally[s][p] <= Larger(ceiling[s][p] - 1, 0) + MaxCost * Cardinality(Clear(s)')
      BY <2>1, <2>2, <3>1, <3>4
    <3> QED BY <3>5
  <2>4. CASE s \notin call.may
    <3>1. Clear(s)' = Clear(s)
      BY <2>4 DEF Clear, IInv, TypeOK
    <3>2. tally[s][p] <= Larger(ceiling[s][p] - 1, 0) + MaxCost * Cardinality(Clear(s))
      BY DEF IInv, OverspendByEnded
    <3> QED BY <3>1, <3>2
  <2> QED BY <2>3, <2>4
<1> QED BY <1>1, <1>2, <1>3, <1>4, <1>5 DEF IInv, OverspendByEnded

\* pick preserves the invariant.
LEMMA pickInv ==
    ASSUME IInv, NEW x \in Slots, NEW caller \in Callers, NEW credential \in Credentials,
           pick(x, caller, credential)
    PROVE  IInv'
<1> DEFINE call == [by |-> "model", may |-> chargedScopes(caller, credential),
                    spend |-> scopes(caller, credential)]
<1>1. chargedScopes(caller, credential) \subseteq Scopes
  BY SpendAssumption DEF chargedScopes
<1>2. scopes(caller, credential) \subseteq chargedScopes(caller, credential)
  BY DEF scopes
<1>3. call \in Call /\ call.spend \subseteq call.may
      /\ call.may = chargedScopes(caller, credential)
  BY <1>1, <1>2 DEF Call
<1>4. ~exhausted(chargedScopes(caller, credential))
  BY DEF pick, exhausted, chargedScopes
<1>5. /\ calls[x] = Idle /\ calls' = [calls EXCEPT ![x] = call]
      /\ UNCHANGED <<limits, counters, calendar, now, tally, ceiling>>
  BY DEF pick
<1> HIDE DEF call
<1>6. ~exhausted(call.may)
  BY <1>3, <1>4
<1> QED BY <1>3, <1>5, <1>6, LetThrough

\* callTool preserves the invariant.
LEMMA callToolInv ==
    ASSUME IInv, NEW x \in Slots, NEW caller \in Callers, NEW credential \in Credentials,
           callTool(x, caller, credential)
    PROVE  IInv'
<1> DEFINE call == [by |-> "tool", may |-> chargedScopes(caller, credential), spend |-> {}]
<1>1. chargedScopes(caller, credential) \subseteq Scopes
  BY SpendAssumption DEF chargedScopes
<1>2. call \in Call /\ call.spend \subseteq call.may
      /\ call.may = chargedScopes(caller, credential)
  BY <1>1 DEF Call
<1>3. /\ calls[x] = Idle /\ calls' = [calls EXCEPT ![x] = call]
      /\ ~exhausted(chargedScopes(caller, credential))
      /\ UNCHANGED <<limits, counters, calendar, now, tally, ceiling>>
  BY DEF callTool
<1> HIDE DEF call
<1>4. ~exhausted(call.may)
  BY <1>2, <1>3
<1> QED BY <1>2, <1>3, <1>4, LetThrough

\* A request that ends: its cost is within what its place among the Clear adds.
LEMMA reportInv ==
    ASSUME IInv, NEW x \in Slots, NEW cost \in 0..MaxCost, report(x, cost)
    PROVE  IInv'
<1> DEFINE S == IF calls[x].by = "model" THEN calls[x].spend ELSE calls[x].may
<1>1. /\ Charge(S, cost) /\ calls[x] # Idle /\ calls' = [calls EXCEPT ![x] = Idle]
      /\ UNCHANGED <<limits, calendar, now, ceiling>>
  BY DEF report
<1>2. S \subseteq calls[x].may
  BY <1>1 DEF IInv, LeasesWithin
<1>3. cost \in Nat /\ cost <= MaxCost /\ MaxCost \in Nat
  BY SpendAssumption
<1> HIDE DEF S
<1>4. ASSUME NEW s \in Scopes, NEW p \in Periods, NEW t \in Times
      PROVE  /\ counters'[s][p][t] =
                 IF ~charged(S, s, p) \/ cost = 0 THEN counters[s][p][t]
                 ELSE IF t = Start(p) THEN counters[s][p][t] + cost
                 ELSE IF t < Start(p) THEN 0
                 ELSE counters[s][p][t]
             /\ counters[s][p][t] \in Nat /\ counters'[s][p][t] \in Nat
  <2>1. counters[s][p][t] \in Nat
    BY DEF IInv, TypeOK
  <2> QED BY <1>1, <1>3, <2>1 DEF Charge
<1>5. ASSUME NEW s \in Scopes, NEW p \in Periods
      PROVE  /\ tally'[s][p] = IF charged(S, s, p) THEN tally[s][p] + cost ELSE tally[s][p]
             /\ tally[s][p] \in Nat /\ tally'[s][p] \in Nat
  <2>1. tally[s][p] \in Nat
    BY DEF IInv, TypeOK
  <2> QED BY <1>1, <1>3, <2>1 DEF Charge
<1>6. TypeOK'
  <2>1. counters' \in [Scopes -> [Periods -> [Times -> Nat]]]
    <3>1. counters' = [s \in Scopes |-> [p \in Periods |-> [t \in Times |-> counters'[s][p][t]]]]
      BY <1>1 DEF Charge
    <3> QED BY <1>4, <3>1
  <2>2. tally' \in [Scopes -> [Periods -> Nat]]
    <3>1. tally' = [s \in Scopes |-> [p \in Periods |-> tally'[s][p]]]
      BY <1>1 DEF Charge
    <3> QED BY <1>5, <3>1
  <2>3. calls' \in [Slots -> Call \cup {Idle}]
    BY <1>1 DEF IInv, TypeOK
  <2> QED BY <1>1, <2>1, <2>2, <2>3 DEF IInv, TypeOK
<1>7. ASSUME NEW p \in Periods
      PROVE  Start(p)' = Start(p) /\ Start(p) \in Times /\ Start(p) \in Nat
  BY <1>1, StartFact, TimesFact DEF IInv, Start
<1>8. ASSUME NEW s \in Scopes, NEW p \in Periods, NEW t \in Times, counters'[s][p][t] > 0
      PROVE  /\ t <= Start(p) /\ Limited(limits, s, p)
             /\ \A u \in Times \ {t} : counters'[s][p][u] = 0
  <2>1. ASSUME NEW u \in Times, counters[s][p][u] > 0
        PROVE  /\ u <= Start(p) /\ Limited(limits, s, p)
               /\ \A v \in Times \ {u} : counters[s][p][v] = 0
    BY <2>1 DEF IInv, RowsPast, OneRowPerLimit
  <2>2. CASE ~charged(S, s, p) \/ cost = 0
    BY <1>4, <1>8, <2>1, <2>2
  <2>3. CASE charged(S, s, p) /\ cost # 0
    <3>1. ASSUME NEW u \in Times, u # Start(p)
          PROVE  counters'[s][p][u] = 0
      <4>1. u \in Nat /\ Start(p) \in Nat
        BY <1>7, TimesFact
      <4>2. CASE u < Start(p)
        BY <1>4, <2>3, <3>1, <4>2
      <4>3. CASE ~(u < Start(p))
        <5>1. ~(u <= Start(p))
          BY <3>1, <4>1, <4>3
        <5>2. ~(counters[s][p][u] > 0)
          BY <2>1, <5>1
        <5>3. counters'[s][p][u] = counters[s][p][u] /\ counters[s][p][u] \in Nat
          BY <1>4, <2>3, <3>1, <4>3
        <5> QED BY <5>2, <5>3
      <4> QED BY <4>2, <4>3
    <3>2. t = Start(p)
      BY <1>8, <3>1
    <3> QED BY <1>7, <2>3, <3>1, <3>2 DEF charged
  <2> QED BY <2>2, <2>3
<1>9. RowsPast' /\ OneRowPerLimit'
  BY <1>1, <1>7, <1>8 DEF RowsPast, OneRowPerLimit
<1>10. ASSUME NEW s \in Scopes, NEW p \in Periods
       PROVE  (spent(s, p) = tally[s][p])'
  <2>1. counters[s][p][Start(p)] = tally[s][p] /\ tally[s][p] \in Nat
    BY <1>5 DEF IInv, CountedExactly, spent
  <2>2. spent(s, p)' = counters'[s][p][Start(p)]
    BY <1>7 DEF spent
  <2>3. counters'[s][p][Start(p)] =
            IF ~charged(S, s, p) \/ cost = 0 THEN counters[s][p][Start(p)]
            ELSE counters[s][p][Start(p)] + cost
    BY <1>4, <1>7
  <2> QED BY <1>3, <1>5, <2>1, <2>2, <2>3
<1>11. CeilingAbove'
  BY <1>1, <1>5 DEF IInv, CeilingAbove, charged
<1>12. LeasesWithin'
  BY <1>1 DEF IInv, TypeOK, LeasesWithin
<1>13. ASSUME NEW s \in Scopes, NEW p \in Periods
       PROVE  (tally[s][p] <= Larger(ceiling[s][p] - 1, 0) + MaxCost * Cardinality(Clear(s)))'
  <2> DEFINE n == Cardinality(Clear(s))
             m == Cardinality(Clear(s)')
             c == Larger(ceiling[s][p] - 1, 0)
  <2>1. tally[s][p] <= c + MaxCost * n
    BY DEF IInv, OverspendByEnded
  <2>2. c \in Nat
    BY DEF IInv, TypeOK, Larger
  <2>3. Clear(s)' \subseteq Slots /\ IsFiniteSet(Slots) /\ IsFiniteSet(Clear(s)) /\ n \in Nat
    BY SpendAssumption, ClearFact DEF Clear
  <2>4. IsFiniteSet(Clear(s)') /\ m \in Nat
    BY <2>3, FS_Subset, FS_CardinalityType
  <2>5. Clear(s)' = Clear(s) \cup {x}
    BY <1>1 DEF Clear, IInv, TypeOK
  <2>6. CASE charged(S, s, p)
    <3>1. x \notin Clear(s)
      BY <1>1, <1>2, <2>6 DEF charged, Clear
    <3>2. m = n + 1
      BY <2>3, <2>5, <3>1, FS_AddElement
    <3>3. MaxCost * m = MaxCost * n + MaxCost /\ MaxCost * n \in Nat
      BY <1>3, <2>3, <3>2, OneMore
    <3> DEFINE a == MaxCost * n
               b == MaxCost * m
    <3> HIDE DEF n, m, c, a, b
    <3>4. tally'[s][p] <= c + b
      BY <1>3, <1>5, <2>1, <2>2, <2>6, <3>3 DEF a, b
    <3> QED BY <1>1, <3>4 DEF b, m, c
  <2>7. CASE ~charged(S, s, p)
    <3>1. n <= m
      BY <2>4, <2>5, FS_Subset
    <3>2. MaxCost * n <= MaxCost * m /\ MaxCost * n \in Nat /\ MaxCost * m \in Nat
      BY <1>3, <2>3, <2>4, <3>1, Monotone
    <3> DEFINE a == MaxCost * n
               b == MaxCost * m
    <3> HIDE DEF n, m, c, a, b
    <3>3. tally'[s][p] <= c + b
      BY <1>5, <2>1, <2>2, <2>7, <3>2 DEF a, b
    <3> QED BY <1>1, <3>3 DEF b, m, c
  <2> QED BY <2>6, <2>7
<1> QED BY <1>6, <1>9, <1>10, <1>11, <1>12, <1>13 DEF IInv, CountedExactly, OverspendByEnded

-----------------------------------------------------------------------------

\* Every step preserves the invariant.
LEMMA NextInv ==
    ASSUME IInv, [Next]_vars
    PROVE  IInv'
<1>1. ASSUME NEW s \in Scopes, NEW p \in Periods, NEW source \in Sources,
             NEW amount \in 0..MaxAmount,
             create(s, p, source, amount) \/ update(s, p, source, amount)
      PROVE  IInv'
  <2>1. amount \in Nat
    BY SpendAssumption
  <2>2. /\ limits' = [limits EXCEPT ![s][p][source] = amount]
        /\ UNCHANGED <<counters, calendar, now, calls>> /\ Recount({})
    BY <1>1 DEF create, update
  <2> QED BY <2>1, <2>2, WriteInv
<1>2. CASE UNCHANGED vars
  <2>1. TypeOK'
    BY <1>2 DEF IInv, TypeOK, vars
  <2>2. RowsPast' /\ OneRowPerLimit' /\ CountedExactly'
    BY <1>2 DEF IInv, RowsPast, OneRowPerLimit, CountedExactly, spent, Start, vars
  <2>3. CeilingAbove' /\ LeasesWithin'
    BY <1>2 DEF IInv, CeilingAbove, LeasesWithin, vars
  <2>4. OverspendByEnded'
    BY <1>2 DEF IInv, OverspendByEnded, Clear, vars
  <2> QED BY <2>1, <2>2, <2>3, <2>4 DEF IInv
<1> QED BY <1>1, <1>2, removeInv, forgetInv, setSettingsInv, TickInv, pickInv, callToolInv,
           reportInv DEF Next

\* The inductive invariant holds throughout.
THEOREM Invariance == Spec => []IInv
BY InitInv, NextInv, PTL DEF Spec

\* Every step keeps the types of limits, counters, leases and clock.
THEOREM TypeCorrect == Spec => []TypeOK
<1>1. IInv => TypeOK
  BY DEF IInv
<1> QED BY <1>1, Invariance, PTL

\* For any limits, calendars and requests under way, a counter reads as what was
\* charged in its period (store.ts charge, setSettings, remove, forget).
THEOREM CountersExact == Spec => []CountedExactly
<1>1. IInv => CountedExactly
  BY DEF IInv
<1> QED BY <1>1, Invariance, PTL

\* No request that ends late leaves a row without a limit or a second row.
THEOREM NoRowLeft == Spec => []OneRowPerLimit
<1>1. IInv => OneRowPerLimit
  BY DEF IInv
<1> QED BY <1>1, Invariance, PTL

\* With n requests under way at once and each costing at most MaxCost, a limit is
\* exceeded by less than n times MaxCost, whatever is written and ends meanwhile.
THEOREM OverspendIsBounded == Spec => []OverspendBounded
<1>1. ASSUME IInv, NEW s \in Scopes, NEW p \in Periods
      PROVE  tally[s][p] <= Larger(ceiling[s][p] - 1, 0) + MaxCost * Cardinality(Slots)
  <2> DEFINE n == Cardinality(Clear(s))
             m == Cardinality(Slots)
             c == Larger(ceiling[s][p] - 1, 0)
             a == MaxCost * n
             b == MaxCost * m
  <2>1. tally[s][p] <= c + a
    BY <1>1 DEF IInv, OverspendByEnded
  <2>2. a <= b /\ a \in Nat /\ b \in Nat
    <3>1. n \in Nat /\ m \in Nat /\ n <= m /\ MaxCost \in Nat
      BY ClearFact, SpendAssumption
    <3> HIDE DEF n, m
    <3> QED BY <3>1, Monotone
  <2>3. c \in Nat /\ tally[s][p] \in Nat
    BY <1>1 DEF IInv, TypeOK, Larger
  <2> HIDE DEF a, b, c
  <2>4. tally[s][p] <= c + b
    BY <2>1, <2>2, <2>3
  <2> QED BY <2>4 DEF b, c
<1>2. IInv => OverspendBounded
  BY <1>1 DEF OverspendBounded
<1> QED BY <1>2, Invariance, PTL
=============================================================================
