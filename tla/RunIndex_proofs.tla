-------------------------- MODULE RunIndex_proofs --------------------------
(***************************************************************************)
(* Proofs about RunIndex, for any number of runs and agents and any bounds.  *)
(*                                                                         *)
(* Ending a run ends the runs below it: EndedClosed is inductive with TypeOK *)
(* because Ended(r) follows the edges to live child runs (ClosedEnd).        *)
(*                                                                         *)
(* Turns stay within MAX_CHAIN although a start may see a chain cut short by *)
(* a pruned run: a chain with a head is the whole ancestry (WholeChainIsAll), *)
(* and a start let through wrongly has a run above it that never comes back  *)
(* (ChainAccounted).                                                        *)
(***************************************************************************)
EXTENDS RunIndex, FiniteSetTheorems, TLAPS

USE RunIndexAssumption

(* Reach(S, E) holds S.                                                      *)
LEMMA ReachHolds ==
    ASSUME NEW S \in SUBSET Runs, NEW E, NEW x \in S
    PROVE  x \in Reach(S, E)
  BY DEF Reach

(* Reach(S, E) follows the edges of E.                                       *)
LEMMA ReachClosed ==
    ASSUME NEW S, NEW E, NEW e \in E, e[2] \in Runs, e[1] \in Reach(S, E)
    PROVE  e[2] \in Reach(S, E)
  BY DEF Reach

(* Reach(S, E) has runs only.                                                *)
LEMMA ReachRuns ==
    ASSUME NEW S, NEW E
    PROVE  Reach(S, E) \in SUBSET Runs
  BY DEF Reach

(* Reach(S, E) is in every set of runs that holds S and follows E.           *)
LEMMA ReachLeast ==
    ASSUME NEW S, NEW E, NEW T \in SUBSET Runs, S \subseteq T,
           \A e \in E : e[1] \in T => e[2] \in T
    PROVE  Reach(S, E) \subseteq T
  BY DEF Reach

LEMMA TypeInit == Init => TypeOK
  BY DEF Init, TypeOK, IndexType, ObjectType, FlightType

(* #end and abandon leave the index's rows well formed.                      *)
LEMMA SetEndedType ==
    ASSUME TypeOK, NEW S, SetEnded(S)
    PROVE  row' \in [Runs -> {"none", "idle", "running", "ended"}]
  BY DEF TypeOK, IndexType, SetEnded

(* Every step keeps the type invariant.                                      *)
LEMMA TypeStep == TypeOK /\ [Next]_vars => TypeOK'
<1> SUFFICES ASSUME TypeOK, [Next]_vars PROVE TypeOK'
  OBVIOUS
<1> USE DEF TypeOK, IndexType, ObjectType, FlightType
<1>1. ASSUME NEW r \in Runs, NEW a \in Agents, StartRun(r, a) PROVE TypeOK'
  BY <1>1 DEF StartRun, Insert, objects, harnesses
<1>2. ASSUME NEW p \in Runs, NEW r \in Runs, NEW a \in Agents, StartChild(p, r, a)
      PROVE  TypeOK'
  BY <1>2 DEF StartChild, Insert, objects, harnesses
<1>3. ASSUME NEW r \in Runs, GatewayCall(r) \/ CallReturns(r) PROVE TypeOK'
  BY <1>3 DEF GatewayCall, CallReturns, index, objects, harnesses
<1>4. ASSUME NEW r \in Runs, StartArrives(r) PROVE TypeOK'
  BY <1>4 DEF StartArrives, index, objects, harnesses
<1>5. ASSUME NEW r \in Runs, StartLost(r) PROVE TypeOK'
  BY <1>5 DEF StartLost, index, objects, harnesses
<1>6. ASSUME NEW r \in Runs, Abandon(r) PROVE TypeOK'
  <2>1. row' \in [Runs -> {"none", "idle", "running", "ended"}]
    BY <1>6, SetEndedType DEF Abandon
  <2> QED
    BY <2>1, <1>6 DEF Abandon, objects, harnesses
<1>7. ASSUME NEW r \in Runs, Message(r) \/ TurnUnavailable(r) PROVE TypeOK'
  BY <1>7 DEF Message, TurnUnavailable, index, harnesses, flight
<1>8. ASSUME NEW r \in Runs, TurnBegins(r) PROVE TypeOK'
  BY <1>8 DEF TurnBegins, harnesses, flight
<1>9. ASSUME NEW r \in Runs, TurnRefused(r) PROVE TypeOK'
  BY <1>9 DEF TurnRefused, index, harnesses
<1>10. ASSUME NEW r \in Runs, NEW heard \in BOOLEAN, TurnRecorded(r, heard) PROVE TypeOK'
  BY <1>10 DEF TurnRecorded, index, harnesses
<1>11. ASSUME NEW r \in Runs, Finish(r) PROVE TypeOK'
  BY <1>11 DEF Finish, index, harnesses
<1>24. ASSUME NEW r \in Runs, AnswerArrives(r) \/ HarnessOpens(r) PROVE TypeOK'
  BY <1>24 DEF AnswerArrives, HarnessOpens, index, flight
<1>12. ASSUME NEW m \in reports, NEW heard \in BOOLEAN, ReportArrives(m[1], m[2], heard)
       PROVE  TypeOK'
  <2>1. m[1] \in Runs /\ m[2] \in {"running", "idle", "ended"}
    OBVIOUS
  <2>2. row' \in [Runs -> {"none", "idle", "running", "ended"}]
    <3>1. CASE SetEnded(Ended(m[1]))
      BY <3>1, SetEndedType
    <3>2. CASE row' = [row EXCEPT ![m[1]] = m[2]]
      BY <3>2, <2>1
    <3>3. CASE UNCHANGED row
      BY <3>3
    <3> QED
      BY <1>12, <3>1, <3>2, <3>3 DEF ReportArrives
  <2>3. Ended(m[1]) \in SUBSET Runs
    BY ReachRuns DEF Ended
  <2>4. stops' \in SUBSET Runs
    BY <1>12, <2>3 DEF ReportArrives
  <2> QED
    BY <1>12, <2>2, <2>4 DEF ReportArrives, objects, harnesses
<1>13. ASSUME NEW m \in reports, ReportLost(m) PROVE TypeOK'
  BY <1>13 DEF ReportLost, index, objects, harnesses
<1>14. ASSUME NEW r \in Runs, StopArrives(r) PROVE TypeOK'
  BY <1>14 DEF StopArrives, index
<1>15. ASSUME NEW r \in Runs, StopLost(r) PROVE TypeOK'
  BY <1>15 DEF StopLost, index, objects, harnesses
<1>16. ASSUME NEW a \in Agents, SetEnabled(a) PROVE TypeOK'
  BY <1>16 DEF SetEnabled, index, objects, harnesses, flight
<1>17. ASSUME NEW a \in Agents, RemoveAgent(a) PROVE TypeOK'
  <2> DEFINE S == Doomed({r \in Runs : agent[r] = a /\ Present(r)})
  <2>1. S \in SUBSET Runs
    BY ReachRuns DEF Doomed
  <2> HIDE DEF S
  <2> QED
    BY <1>17, <2>1 DEF RemoveAgent, Discard, objects, harnesses, flight, S
<1>18. ASSUME NEW r \in Runs, DeleteRun(r) PROVE TypeOK'
  <2> Doomed({r}) \in SUBSET Runs
    BY ReachRuns DEF Doomed
  <2> QED
    BY <1>18 DEF DeleteRun, Discard, objects, harnesses, flight
<1>19. ASSUME NEW r \in Runs, Prune(r) PROVE TypeOK'
  BY <1>19 DEF Prune, Discard, objects, harnesses, flight
<1>20. ASSUME NEW r \in Runs, NEW captured \in BOOLEAN, NEW closed \in BOOLEAN,
              Purge(r, captured, closed)
       PROVE  TypeOK'
  BY <1>20 DEF Purge, index
<1>25. ASSUME NEW r \in Runs, PurgeBegins(r) PROVE TypeOK'
  <2>1. <<r, r \in open>> \in Runs \X BOOLEAN
    <3>1. CASE r \in open
      <4>1. (r \in open) = TRUE
        BY <3>1
      <4> QED
        BY <4>1
    <3>2. CASE r \notin open
      <4>1. (r \in open) = FALSE
        BY <3>2
      <4> QED
        BY <4>1
    <3> QED
      BY <3>1, <3>2
  <2>2. /\ purging' = purging \cup {<<r, r \in open>>}
        /\ UNCHANGED <<agents, index, meta, active, pc, wiped, open, closing, stray, flight>>
    BY <1>25 DEF PurgeBegins
  <2>3. purging' \in SUBSET (Runs \X BOOLEAN)
    BY <2>1, <2>2, Zenon
  <2> QED
    BY <2>2, <2>3 DEF index, flight
<1>26. ASSUME NEW r \in Runs, CloseEnds(r) PROVE TypeOK'
  BY <1>26 DEF CloseEnds, index, flight
<1>21. ASSUME NEW r \in Runs, Forget(r) PROVE TypeOK'
  BY <1>21 DEF Forget, objects, harnesses
<1>22. ASSUME NEW r \in Runs, Evict(r) PROVE TypeOK'
  BY <1>22 DEF Evict, index, flight
<1>23. CASE UNCHANGED vars
  BY <1>23 DEF vars, index, objects, harnesses, flight
<1> QED
  BY <1>1, <1>2, <1>3, <1>4, <1>5, <1>6, <1>7, <1>8, <1>9, <1>10, <1>11, <1>12, <1>13,
     <1>14, <1>15, <1>16, <1>17, <1>18, <1>19, <1>20, <1>21, <1>22, <1>23, <1>24, <1>25, <1>26
     DEF Next

-----------------------------------------------------------------------------

(* Rows that go away break nothing: the runs that stay keep their state.     *)
LEMMA ClosedDiscard ==
    ASSUME TypeOK, EndedClosed, UNCHANGED starter,
           \A r \in Runs : row'[r] \in {"none", row[r]}
    PROVE  EndedClosed'
  BY DEF TypeOK, IndexType, EndedClosed, Live, Present

(* #end: a live child of a run it ends is in Ended, so it ends as well.      *)
LEMMA ClosedEnd ==
    ASSUME TypeOK, EndedClosed, UNCHANGED starter, NEW r \in Runs, SetEnded(Ended(r))
    PROVE  EndedClosed'
<1> SUFFICES ASSUME NEW c \in Runs, Live(c)', starter[c] # NoRun, Present(starter[c])'
             PROVE  Live(starter[c])'
  BY DEF EndedClosed
<1>1. starter[c] \in Runs
  BY DEF TypeOK, IndexType
<1>2. c \notin Ended(r) /\ row'[c] = row[c] /\ Live(c)
  BY DEF SetEnded, Live, Present
<1>3. Present(starter[c])
  BY <1>1 DEF SetEnded, Present
<1>4. Live(starter[c])
  BY <1>1, <1>2, <1>3 DEF EndedClosed
<1>5. starter[c] \notin Ended(r)
  <2> DEFINE E == {e \in Edges : Live(e[2])}
  <2> SUFFICES ASSUME starter[c] \in Ended(r) PROVE FALSE
    OBVIOUS
  <2>1. <<starter[c], c>> \in E
    BY <1>1, <1>2 DEF Edges
  <2>2. starter[c] \in Reach({r}, E)
    BY DEF Ended
  <2> HIDE DEF E
  <2>3. c \in Reach({r}, E)
    BY <2>1, <2>2, ReachClosed
  <2> QED
    BY <2>3, <1>2 DEF Ended, E
<1> QED
  BY <1>1, <1>4, <1>5 DEF SetEnded, Live

(* A row that is live before and after, whatever its two states are, breaks  *)
(* nothing, and neither does a new live row whose starter is live.           *)
LEMMA ClosedLive ==
    ASSUME TypeOK, EndedClosed, NEW r \in Runs, NEW s \in Runs \cup {NoRun},
           NEW state \in {"idle", "running"},
           row' = [row EXCEPT ![r] = state],
           starter' = [starter EXCEPT ![r] = s],
           s # NoRun /\ Present(s) => Live(s)
    PROVE  EndedClosed'
  BY DEF TypeOK, IndexType, EndedClosed, Live, Present

(* Every step keeps EndedClosed.                                             *)
LEMMA ClosedStep == TypeOK /\ EndedClosed /\ [Next]_vars => EndedClosed'
<1> SUFFICES ASSUME TypeOK, EndedClosed, [Next]_vars PROVE EndedClosed'
  OBVIOUS
<1> USE DEF TypeOK, IndexType
<1>1. ASSUME NEW r \in Runs, NEW a \in Agents, StartRun(r, a) PROVE EndedClosed'
  BY <1>1, ClosedLive DEF StartRun, Insert
<1>2. ASSUME NEW p \in Runs, NEW r \in Runs, NEW a \in Agents, StartChild(p, r, a)
      PROVE  EndedClosed'
  BY <1>2, ClosedLive DEF StartChild, Insert
<1>3. ASSUME NEW r \in Runs, TurnBegins(r) PROVE EndedClosed'
  <2>1. starter' = [starter EXCEPT ![r] = starter[r]]
    BY <1>3 DEF TurnBegins
  <2>2. row' = [row EXCEPT ![r] = "running"] /\ starter[r] \in Runs \cup {NoRun} /\ Live(r)
    BY <1>3 DEF TurnBegins, MayTurn
  <2>3. starter[r] # NoRun /\ Present(starter[r]) => Live(starter[r])
    BY <2>2 DEF EndedClosed
  <2> QED
    BY <2>1, <2>2, <2>3, ClosedLive
<1>4. ASSUME NEW m \in reports, NEW heard \in BOOLEAN, ReportArrives(m[1], m[2], heard)
      PROVE  EndedClosed'
  <2>1. m[1] \in Runs /\ m[2] \in {"running", "idle", "ended"} /\ UNCHANGED starter
    BY <1>4 DEF ReportArrives, FlightType
  <2>2. CASE SetEnded(Ended(m[1]))
    BY <2>1, <2>2, ClosedEnd
  <2>3. CASE Live(m[1]) /\ m[2] # "ended" /\ row' = [row EXCEPT ![m[1]] = m[2]]
    <3>1. starter' = [starter EXCEPT ![m[1]] = starter[m[1]]]
      BY <2>1
    <3>2. starter[m[1]] # NoRun /\ Present(starter[m[1]]) => Live(starter[m[1]])
      BY <2>1, <2>3 DEF EndedClosed
    <3>3. starter[m[1]] \in Runs \cup {NoRun} /\ m[2] \in {"idle", "running"}
      BY <2>1, <2>3
    <3> QED
      BY <2>1, <2>3, <3>1, <3>2, <3>3, ClosedLive
  <2>4. CASE UNCHANGED row
    BY <2>1, <2>4, ClosedDiscard
  <2> QED
    BY <1>4, <2>2, <2>3, <2>4 DEF ReportArrives
<1>5. ASSUME NEW r \in Runs, Abandon(r) PROVE EndedClosed'
  <2>1. CASE Present(r)
    BY <1>5, <2>1, ClosedEnd DEF Abandon
  <2>2. CASE ~Present(r)
    <3>1. UNCHANGED starter /\ \A x \in Runs : row'[x] = row[x]
      BY <1>5, <2>2 DEF Abandon, SetEnded
    <3> QED
      BY <3>1, ClosedDiscard
  <2> QED
    BY <2>1, <2>2
<1>6. ASSUME NEW S, Discard(S) PROVE EndedClosed'
  <2>1. UNCHANGED starter /\ \A x \in Runs : row'[x] \in {"none", row[x]}
    BY <1>6 DEF Discard
  <2> QED
    BY <2>1, ClosedDiscard
<1>7. ASSUME NEW r \in Runs, Forget(r) PROVE EndedClosed'
  <2>1. UNCHANGED starter /\ \A x \in Runs : row'[x] \in {"none", row[x]}
    BY <1>7 DEF Forget
  <2> QED
    BY <2>1, ClosedDiscard
<1>8. CASE UNCHANGED <<row, starter>>
  BY <1>8, ClosedDiscard
<1>9. ASSUME NEW r \in Runs,
             \/ GatewayCall(r) \/ CallReturns(r) \/ StartArrives(r) \/ StartLost(r)
             \/ Message(r) \/ TurnRefused(r) \/ TurnUnavailable(r) \/ AnswerArrives(r)
             \/ HarnessOpens(r) \/ Finish(r) \/ StopArrives(r) \/ StopLost(r)
             \/ PurgeBegins(r) \/ CloseEnds(r) \/ Evict(r)
             \/ \E heard \in BOOLEAN : TurnRecorded(r, heard)
             \/ \E captured, closed \in BOOLEAN : Purge(r, captured, closed)
      PROVE  UNCHANGED <<row, starter>>
  BY <1>9 DEF GatewayCall, CallReturns, StartArrives, StartLost, Message, TurnRefused,
              TurnUnavailable, AnswerArrives, HarnessOpens, TurnRecorded, Finish,
              StopArrives, StopLost, PurgeBegins, Purge, CloseEnds, Evict, index
<1>10. ASSUME NEW a \in Agents, SetEnabled(a) PROVE UNCHANGED <<row, starter>>
  BY <1>10 DEF SetEnabled, index
<1>11. ASSUME NEW m \in reports, ReportLost(m) PROVE UNCHANGED <<row, starter>>
  BY <1>11 DEF ReportLost, index
<1>12. UNCHANGED vars => UNCHANGED <<row, starter>>
  BY DEF vars, index
<1> QED
  BY <1>1, <1>2, <1>3, <1>4, <1>5, <1>6, <1>7, <1>8, <1>9, <1>10, <1>11, <1>12
     DEF Next, RemoveAgent, DeleteRun, Prune

-----------------------------------------------------------------------------
(* Chains.                                                                  *)

(* Ancestry over any starter function, so that it serves both states of a    *)
(* step.                                                                    *)
Starters == [Runs -> Runs \cup {NoRun}]

Above(st, r) == Reach({r}, {<<x, st[x]>> : x \in {y \in Runs : st[y] # NoRun}})

(* The runs above a run: itself, and the starter of each that has one.       *)
LEMMA AboveFacts ==
    ASSUME NEW st \in Starters, NEW r \in Runs
    PROVE  /\ Above(st, r) \in SUBSET Runs
           /\ r \in Above(st, r)
           /\ \A x \in Above(st, r) : st[x] # NoRun => st[x] \in Above(st, r)
<1> DEFINE E == {<<x, st[x]>> : x \in {y \in Runs : st[y] # NoRun}}
<1>1. Above(st, r) = Reach({r}, E)
  BY DEF Above
<1>2. \A x \in Runs : st[x] # NoRun => st[x] \in Runs /\ <<x, st[x]>> \in E
  BY DEF Starters
<1> HIDE DEF E
<1>3. Reach({r}, E) \in SUBSET Runs /\ r \in Reach({r}, E)
  BY ReachRuns, ReachHolds
<1>4. ASSUME NEW x \in Reach({r}, E), st[x] # NoRun
      PROVE  st[x] \in Reach({r}, E)
  <2>1. x \in Runs /\ st[x] \in Runs /\ <<x, st[x]>> \in E
    BY <1>2, <1>3, <1>4
  <2> QED
    BY <2>1, ReachClosed
<1> QED
  BY <1>1, <1>3, <1>4

(* Any set that holds r and the starters of its members holds all above r.   *)
LEMMA AboveLeast ==
    ASSUME NEW st \in Starters, NEW r \in Runs, NEW T \in SUBSET Runs, r \in T,
           \A x \in T : st[x] # NoRun => st[x] \in T
    PROVE  Above(st, r) \subseteq T
<1> DEFINE E == {<<x, st[x]>> : x \in {y \in Runs : st[y] # NoRun}}
<1>1. \A e \in E : e[1] \in T => e[2] \in T
  BY RunIndexAssumption DEF Starters
<1>2. Above(st, r) = Reach({r}, E)
  BY DEF Above
<1> HIDE DEF E
<1> QED
  BY <1>1, <1>2, ReachLeast

LEMMA AncestryIsAbove ==
    ASSUME NEW r
    PROVE  Ancestry(r) = Above(starter, r) /\ Ancestry(r)' = Above(starter', r)
  BY DEF Ancestry, Above, Reach

LEMMA AncestryFacts ==
    ASSUME TypeOK, NEW r \in Runs
    PROVE  /\ Ancestry(r) \in SUBSET Runs
           /\ r \in Ancestry(r)
           /\ \A x \in Ancestry(r) : starter[x] # NoRun => starter[x] \in Ancestry(r)
  BY AboveFacts, AncestryIsAbove DEF TypeOK, IndexType, Starters

LEMMA AncestryLeast ==
    ASSUME TypeOK, NEW r \in Runs, NEW T \in SUBSET Runs, r \in T,
           \A x \in T : starter[x] # NoRun => starter[x] \in T
    PROVE  Ancestry(r) \subseteq T
  BY AboveLeast, AncestryIsAbove DEF TypeOK, IndexType, Starters

(* #chain: the run, and the starter of each that has a row.                  *)
LEMMA ChainFacts ==
    ASSUME TypeOK, NEW r \in Runs
    PROVE  /\ Chain(r) \in SUBSET Runs
           /\ r \in Chain(r)
           /\ \A x \in Chain(r) :
                 starter[x] # NoRun /\ Present(starter[x]) => starter[x] \in Chain(r)
<1> DEFINE E == {<<x, starter[x]>> : x \in {y \in Runs : starter[y] # NoRun /\ Present(starter[y])}}
<1>1. Chain(r) = Reach({r}, E)
  BY DEF Chain
<1>2. \A x \in Runs : starter[x] # NoRun /\ Present(starter[x]) =>
         starter[x] \in Runs /\ <<x, starter[x]>> \in E
  BY DEF TypeOK, IndexType
<1> HIDE DEF E
<1>3. Reach({r}, E) \in SUBSET Runs /\ r \in Reach({r}, E)
  BY ReachRuns, ReachHolds
<1>4. ASSUME NEW x \in Reach({r}, E), starter[x] # NoRun, Present(starter[x])
      PROVE  starter[x] \in Reach({r}, E)
  <2>1. x \in Runs /\ starter[x] \in Runs /\ <<x, starter[x]>> \in E
    BY <1>2, <1>3, <1>4
  <2> QED
    BY <2>1, ReachClosed
<1> QED
  BY <1>1, <1>3, <1>4

LEMMA ChainLeast ==
    ASSUME TypeOK, NEW r \in Runs, NEW T \in SUBSET Runs, r \in T,
           \A x \in T : starter[x] # NoRun /\ Present(starter[x]) => starter[x] \in T
    PROVE  Chain(r) \subseteq T
<1> DEFINE E == {<<x, starter[x]>> : x \in {y \in Runs : starter[y] # NoRun /\ Present(starter[y])}}
<1>1. \A e \in E : e[1] \in T => e[2] \in T
  BY RunIndexAssumption DEF TypeOK, IndexType
<1>2. Chain(r) = Reach({r}, E)
  BY DEF Chain
<1> HIDE DEF E
<1> QED
  BY <1>1, <1>2, ReachLeast

LEMMA ChainInAncestry ==
    ASSUME TypeOK, NEW r \in Runs
    PROVE  Chain(r) \subseteq Ancestry(r)
  BY AncestryFacts, ChainLeast

(* A run's ancestry is itself and its starter's.                             *)
LEMMA AncestryUp ==
    ASSUME TypeOK, NEW r \in Runs, starter[r] # NoRun
    PROVE  Ancestry(r) \subseteq {r} \cup Ancestry(starter[r])
<1>1. starter[r] \in Runs
  BY DEF TypeOK, IndexType
<1> DEFINE T == {r} \cup Ancestry(starter[r])
<1>2. T \in SUBSET Runs /\ r \in T /\ \A x \in T : starter[x] # NoRun => starter[x] \in T
  BY <1>1, AncestryFacts
<1> HIDE DEF T
<1>3. Ancestry(r) \subseteq T
  BY <1>2, AncestryLeast
<1> QED
  BY <1>3 DEF T

(* #starterMember: a chain that ends at a run no run started is the whole     *)
(* ancestry, and all of it has rows.                                        *)
LEMMA WholeChainIsAll ==
    ASSUME TypeOK, NEW r \in Runs, Present(r), WholeChain(r)
    PROVE  \A x \in Ancestry(r) : Present(x)
<1>1. PICK h \in Chain(r) : starter[h] = NoRun
  BY DEF WholeChain
<1>2. Chain(r) \in SUBSET Runs /\ r \in Chain(r)
  BY ChainFacts
<1>3. ASSUME NEW c \in Chain(r), starter[c] # NoRun, ~Present(starter[c])
      PROVE  FALSE
  <2> DEFINE T == {x \in Chain(r) : c \in Ancestry(x)}
  <2>1. T \in SUBSET Runs
    BY <1>2
  <2>2. r \in T
    BY <1>2, ChainInAncestry
  <2>3. ASSUME NEW x \in T, starter[x] # NoRun, Present(starter[x])
        PROVE  starter[x] \in T
    <3>1. x \in Runs /\ starter[x] \in Chain(r) /\ x # c
      BY <2>1, <2>3, <1>3, ChainFacts
    <3>2. c \in Ancestry(starter[x])
      BY <3>1, <2>3, AncestryUp
    <3> QED
      BY <3>1, <3>2
  <2>4. Chain(r) \subseteq T
    <3> HIDE DEF T
    <3> QED
      BY <2>1, <2>2, <2>3, ChainLeast
  <2>5. c \in Ancestry(h)
    BY <2>4, <1>1
  <2>6. Ancestry(h) \subseteq {h}
    <3>1. h \in Runs /\ {h} \in SUBSET Runs
      BY <1>2
    <3>2. \A x \in {h} : starter[x] # NoRun => starter[x] \in {h}
      BY <1>1
    <3> QED
      BY <3>1, <3>2, AncestryLeast
  <2> QED
    BY <2>5, <2>6, <1>1, <1>3
<1>4. Ancestry(r) \subseteq Chain(r)
  BY <1>2, <1>3, ChainFacts, AncestryLeast
<1>5. Chain(r) \subseteq {x \in Runs : Present(x)}
  <2> DEFINE T == {x \in Runs : Present(x)}
  <2>1. T \in SUBSET Runs /\ r \in T
    OBVIOUS
  <2>2. \A x \in T : starter[x] # NoRun /\ Present(starter[x]) => starter[x] \in T
    BY DEF TypeOK, IndexType
  <2> HIDE DEF T
  <2>3. Chain(r) \subseteq T
    BY <2>1, <2>2, ChainLeast
  <2> QED
    BY <2>3 DEF T
<1> QED
  BY <1>4, <1>5

(* Where a run and all above it have rows, a live run has only live ones     *)
(* above it.                                                                *)
LEMMA LiveUpwards ==
    ASSUME TypeOK, EndedClosed, NEW r \in Runs, Live(r), \A x \in Ancestry(r) : Present(x)
    PROVE  \A x \in Ancestry(r) : Live(x)
<1> DEFINE T == {x \in Ancestry(r) : Live(x)}
<1>1. T \in SUBSET Runs /\ r \in T
  BY AncestryFacts
<1>2. ASSUME NEW x \in T, starter[x] # NoRun PROVE starter[x] \in T
  <2>1. x \in Runs /\ starter[x] \in Ancestry(r)
    BY <1>1, <1>2, AncestryFacts
  <2> QED
    BY <2>1, <1>2 DEF EndedClosed
<1> HIDE DEF T
<1>3. Ancestry(r) \subseteq T
  BY <1>1, <1>2, AncestryLeast
<1> QED
  BY <1>3 DEF T

-----------------------------------------------------------------------------
(* Starts and turns keep chains bounded.                                    *)

(* A new run changes nothing above the runs that were started before it.     *)
LEMMA InsertKeepsAncestry ==
    ASSUME TypeOK, TypeOK', IdsKnown, NEW r \in Runs, agent[r] = NoAgent,
           \A x \in Runs \ {r} : starter'[x] = starter[x],
           NEW c \in Runs, agent[c] # NoAgent
    PROVE  Ancestry(c)' = Ancestry(c) /\ r \notin Ancestry(c)
<1>1. starter \in Starters /\ starter' \in Starters
  BY DEF TypeOK, IndexType, Starters
<1> DEFINE T == {x \in Runs : agent[x] # NoAgent}
<1>2. T \in SUBSET Runs /\ c \in T /\ r \notin T
  OBVIOUS
<1>3. \A x \in T : starter[x] # NoRun => starter[x] \in T
  BY DEF IdsKnown, TypeOK, IndexType
<1> HIDE DEF T
<1>4. r \notin Above(starter, c)
  BY <1>1, <1>2, <1>3, AboveLeast
<1>5. Above(starter', c) \subseteq Above(starter, c)
  <2> DEFINE A == Above(starter, c)
  <2>1. A \in SUBSET Runs /\ c \in A /\ \A x \in A : starter'[x] # NoRun => starter'[x] \in A
    BY <1>1, <1>4, AboveFacts
  <2> HIDE DEF A
  <2>2. Above(starter', c) \subseteq A
    BY <1>1, <2>1, AboveLeast
  <2> QED
    BY <2>2 DEF A
<1>6. Above(starter, c) \subseteq Above(starter', c)
  <2> DEFINE A == Above(starter', c)
  <2>1. A \in SUBSET Runs /\ c \in A /\ \A x \in A : starter[x] # NoRun => starter[x] \in A
    BY <1>1, <1>4, <1>5, AboveFacts
  <2> HIDE DEF A
  <2>2. Above(starter, c) \subseteq A
    BY <1>1, <2>1, AboveLeast
  <2> QED
    BY <2>2 DEF A
<1> QED
  BY <1>4, <1>5, <1>6, AncestryIsAbove

(* Above a new child run: itself, and what is above the run that started it. *)
LEMMA InsertAncestry ==
    ASSUME TypeOK, TypeOK', IdsKnown, NEW r \in Runs, agent[r] = NoAgent,
           NEW p \in Runs, agent[p] # NoAgent,
           \A x \in Runs \ {r} : starter'[x] = starter[x], starter'[r] = p
    PROVE  Ancestry(r)' = {r} \cup Ancestry(p)
<1>1. starter \in Starters /\ starter' \in Starters /\ p # NoRun
  BY RunIndexAssumption DEF TypeOK, IndexType, Starters
<1>2. Above(starter', p) = Above(starter, p)
  BY InsertKeepsAncestry, AncestryIsAbove
<1>3. Above(starter', r) \subseteq {r} \cup Above(starter', p)
  <2> DEFINE T == {r} \cup Above(starter', p)
  <2>1. T \in SUBSET Runs /\ r \in T /\ \A x \in T : starter'[x] # NoRun => starter'[x] \in T
    BY <1>1, AboveFacts
  <2> HIDE DEF T
  <2>2. Above(starter', r) \subseteq T
    BY <1>1, <2>1, AboveLeast
  <2> QED
    BY <2>2 DEF T
<1>4. {r} \cup Above(starter', p) \subseteq Above(starter', r)
  <2> DEFINE A == Above(starter', r)
  <2>1. A \in SUBSET Runs /\ r \in A /\ \A x \in A : starter'[x] # NoRun => starter'[x] \in A
    BY <1>1, AboveFacts
  <2>2. p \in A
    BY <2>1, <1>1
  <2> HIDE DEF A
  <2>3. Above(starter', p) \subseteq A
    BY <1>1, <2>1, <2>2, AboveLeast
  <2> QED
    BY <2>1, <2>3 DEF A
<1> QED
  BY <1>2, <1>3, <1>4, AncestryIsAbove

(* Where all the runs above p have rows, #chain finds them all.              *)
LEMMA ChainIsAncestry ==
    ASSUME TypeOK, NEW p \in Runs, \A x \in Ancestry(p) : Present(x)
    PROVE  Chain(p) = Ancestry(p)
<1>1. \A x \in Chain(p) : starter[x] # NoRun => starter[x] \in Chain(p)
  BY ChainInAncestry, ChainFacts, AncestryFacts
<1>2. Ancestry(p) \subseteq Chain(p)
  BY <1>1, ChainFacts, AncestryLeast
<1> QED
  BY <1>2, ChainInAncestry

(* Steps that start no run leave every ancestry, and bring no row back.      *)
LEMMA AccountedKept ==
    ASSUME TypeOK, ChainAccounted, UNCHANGED <<starter, agent>>,
           \A x \in Runs : ~Present(x) => ~Present(x)'
    PROVE  ChainAccounted'
<1> SUFFICES ASSUME NEW r \in Runs, agent[r] # NoAgent
             PROVE  Bounded(r)' \/ \E x \in Ancestry(r)' : ~Present(x)'
  BY DEF ChainAccounted
<1>1. Ancestry(r)' = Ancestry(r) /\ Ancestry(r) \in SUBSET Runs
  BY AncestryIsAbove, AncestryFacts
<1>2. CASE Bounded(r)
  BY <1>1, <1>2 DEF Bounded
<1>3. CASE \E x \in Ancestry(r) : ~Present(x)
  BY <1>1, <1>3
<1> QED
  BY <1>2, <1>3 DEF ChainAccounted

(* A started run is bounded, or a run above it is gone already.              *)
LEMMA AccountedStart ==
    ASSUME TypeOK, TypeOK', IdsKnown, ChainAccounted,
           NEW r \in Runs, NEW a \in Agents, agent[r] = NoAgent,
           NEW s \in Runs \cup {NoRun}, NEW state \in {"idle", "running"},
           row' = [row EXCEPT ![r] = state],
           starter' = [starter EXCEPT ![r] = s],
           agent' = [agent EXCEPT ![r] = a],
           s # NoRun => /\ agent[s] # NoAgent
                        /\ Cardinality(Chain(s)) < MaxChain
                        /\ \A x \in Chain(s) : agent[x] # a
    PROVE  ChainAccounted'
<1> USE DEF TypeOK, IndexType
<1>1. \A x \in Runs \ {r} : starter'[x] = starter[x] /\ agent'[x] = agent[x]
  OBVIOUS
<1>2. ASSUME NEW c \in Runs, c # r, agent'[c] # NoAgent
      PROVE  Bounded(c)' \/ \E x \in Ancestry(c)' : ~Present(x)'
  <2>1. agent[c] # NoAgent
    BY <1>1, <1>2
  <2>2. Ancestry(c)' = Ancestry(c) /\ r \notin Ancestry(c) /\ Ancestry(c) \in SUBSET Runs
    BY <1>1, <2>1, InsertKeepsAncestry, AncestryFacts
  <2>3. CASE Bounded(c)
    BY <1>1, <2>2, <2>3 DEF Bounded
  <2>4. CASE \E x \in Ancestry(c) : ~Present(x)
    BY <2>2, <2>4 DEF Present
  <2> QED
    BY <2>1, <2>3, <2>4 DEF ChainAccounted
<1>3. Bounded(r)' \/ \E x \in Ancestry(r)' : ~Present(x)'
  <2>1. CASE s = NoRun
    <3>1. starter' \in Starters /\ starter'[r] = NoRun
      BY <2>1 DEF Starters
    <3> DEFINE T == {r}
    <3>2. T \in SUBSET Runs /\ r \in T /\ \A x \in T : starter'[x] # NoRun => starter'[x] \in T
      BY <3>1
    <3> HIDE DEF T
    <3>3. Above(starter', r) \subseteq T /\ r \in Above(starter', r)
      BY <3>1, <3>2, AboveLeast, AboveFacts
    <3>4. Ancestry(r)' = {r}
      <4>1. Ancestry(r)' = Above(starter', r)
        BY AncestryIsAbove
      <4>2. \A X : X \subseteq {r} /\ r \in X => X = {r}
        OBVIOUS
      <4>3. Above(starter', r) \subseteq {r} /\ r \in Above(starter', r)
        BY <3>3 DEF T
      <4> QED
        BY <4>1, <4>2, <4>3
    <3>5. Cardinality({r}) = 1
      BY FS_Singleton
    <3>6. Cardinality(Ancestry(r)') <= MaxChain
      BY <3>4, <3>5, RunIndexAssumption
    <3> QED
      BY <3>4, <3>6 DEF Bounded
  <2>2. CASE s # NoRun /\ \E x \in Ancestry(s) : ~Present(x)
    <3>1. s \in Runs /\ agent[s] # NoAgent
      BY <2>2
    <3>2. Ancestry(r)' = {r} \cup Ancestry(s)
      BY <1>1, <3>1, InsertAncestry
    <3>3. r \notin Ancestry(s) /\ Ancestry(s) \in SUBSET Runs
      BY <1>1, <3>1, InsertKeepsAncestry, AncestryFacts
    <3> QED
      BY <2>2, <3>2, <3>3 DEF Present
  <2>3. CASE s # NoRun /\ \A x \in Ancestry(s) : Present(x)
    <3>1. s \in Runs /\ agent[s] # NoAgent
      BY <2>3
    <3>2. Ancestry(r)' = {r} \cup Ancestry(s)
      BY <1>1, <3>1, InsertAncestry
    <3>3. r \notin Ancestry(s) /\ Ancestry(s) \in SUBSET Runs
      BY <1>1, <3>1, InsertKeepsAncestry, AncestryFacts
    <3>4. Chain(s) = Ancestry(s)
      BY <2>3, <3>1, ChainIsAncestry
    <3>5. Bounded(s)
      BY <2>3, <3>1 DEF ChainAccounted
    <3>6. \A x, y \in Ancestry(r)' : x # y => agent'[x] # agent'[y]
      BY <1>1, <2>3, <3>2, <3>3, <3>4, <3>5 DEF Bounded
    <3>7. IsFiniteSet(Ancestry(s))
      BY <3>3, FS_Subset, RunIndexAssumption
    <3>8. Cardinality({r} \cup Ancestry(s)) = Cardinality(Ancestry(s)) + 1
      <4>1. Cardinality(Ancestry(s) \cup {r}) = Cardinality(Ancestry(s)) + 1
        BY <3>3, <3>7, FS_AddElement
      <4>2. Ancestry(s) \cup {r} = {r} \cup Ancestry(s)
        OBVIOUS
      <4> QED
        BY <4>1, <4>2
    <3>9. Cardinality(Ancestry(s)) \in Nat
      BY <3>7, FS_CardinalityType
    <3>10. Cardinality(Ancestry(r)') <= MaxChain
      BY <2>3, <3>2, <3>4, <3>8, <3>9, RunIndexAssumption
    <3> QED
      BY <3>6, <3>10 DEF Bounded
  <2> QED
    BY <2>1, <2>2, <2>3
<1> QED
  BY <1>2, <1>3 DEF ChainAccounted

(* Every step starts a run, begins a turn, or does neither; only a start     *)
(* gives a run a row it had not.                                             *)
Quiet ==
    /\ UNCHANGED <<starter, agent>>
    /\ \A x \in Runs : row[x] = "none" => row'[x] = "none"

LEMMA StepKinds ==
    ASSUME TypeOK, [Next]_vars
    PROVE  \/ \E r \in Runs, a \in Agents : StartRun(r, a)
           \/ \E p, r \in Runs, a \in Agents : StartChild(p, r, a)
           \/ Quiet /\ \E r \in Runs : TurnBegins(r)
           \/ Quiet /\ UNCHANGED turned
<1> USE DEF TypeOK, IndexType, Quiet
<1>1. ASSUME NEW r \in Runs, TurnBegins(r) PROVE Quiet
  BY <1>1 DEF TurnBegins, MayTurn, Live
<1>2. ASSUME NEW S, SetEnded(S) PROVE \A x \in Runs : row[x] = "none" => row'[x] = "none"
  BY <1>2 DEF SetEnded, Present
<1>3. ASSUME NEW m \in reports, NEW heard \in BOOLEAN, ReportArrives(m[1], m[2], heard)
      PROVE  Quiet /\ UNCHANGED turned
  <2>1. \A x \in Runs : row[x] = "none" => row'[x] = "none"
    <3>1. CASE SetEnded(Ended(m[1]))
      BY <3>1, <1>2
    <3>2. CASE Live(m[1]) /\ row' = [row EXCEPT ![m[1]] = m[2]]
      BY <3>2 DEF Live
    <3>3. CASE UNCHANGED row
      BY <3>3
    <3> QED
      BY <1>3, <3>1, <3>2, <3>3 DEF ReportArrives
  <2> QED
    BY <1>3, <2>1 DEF ReportArrives
<1>4. ASSUME NEW r \in Runs, Abandon(r) PROVE Quiet /\ UNCHANGED turned
  BY <1>4, <1>2 DEF Abandon
<1>5. ASSUME NEW S, Discard(S) PROVE Quiet /\ UNCHANGED turned
  BY <1>5 DEF Discard
<1>6. ASSUME NEW r \in Runs, Forget(r) PROVE Quiet /\ UNCHANGED turned
  BY <1>6 DEF Forget
<1>7. UNCHANGED index => Quiet /\ UNCHANGED turned
  BY DEF index
<1>8. ASSUME NEW r \in Runs,
             \/ GatewayCall(r) \/ CallReturns(r) \/ StartArrives(r) \/ StartLost(r)
             \/ Message(r) \/ TurnRefused(r) \/ TurnUnavailable(r) \/ AnswerArrives(r)
             \/ HarnessOpens(r) \/ Finish(r) \/ StopArrives(r) \/ StopLost(r)
             \/ PurgeBegins(r) \/ CloseEnds(r) \/ Evict(r)
             \/ \E heard \in BOOLEAN : TurnRecorded(r, heard)
             \/ \E captured, closed \in BOOLEAN : Purge(r, captured, closed)
      PROVE  UNCHANGED index
  BY <1>8 DEF GatewayCall, CallReturns, StartArrives, StartLost, Message, TurnRefused,
              TurnUnavailable, AnswerArrives, HarnessOpens, TurnRecorded, Finish,
              StopArrives, StopLost, PurgeBegins, Purge, CloseEnds, Evict
<1>9. ASSUME NEW a \in Agents, SetEnabled(a) PROVE UNCHANGED index
  BY <1>9 DEF SetEnabled
<1>10. ASSUME NEW m \in reports, ReportLost(m) PROVE UNCHANGED index
  BY <1>10 DEF ReportLost
<1>11. UNCHANGED vars => UNCHANGED index
  BY DEF vars
<1> HIDE DEF TypeOK, IndexType, Quiet
<1> QED
  BY <1>1, <1>3, <1>4, <1>5, <1>6, <1>7, <1>8, <1>9, <1>10, <1>11
     DEF Next, RemoveAgent, DeleteRun, Prune

(* Every step keeps the rest of the inductive invariant.                     *)
LEMMA ChainStep ==
    TypeOK /\ IdsKnown /\ ChainAccounted /\ TurnChainBounded /\ TypeOK' /\ [Next]_vars
        => (IdsKnown /\ ChainAccounted /\ TurnChainBounded)'
<1> SUFFICES ASSUME TypeOK, IdsKnown, ChainAccounted, TurnChainBounded, TypeOK', [Next]_vars
             PROVE  (IdsKnown /\ ChainAccounted /\ TurnChainBounded)'
  OBVIOUS
<1> DEFINE Starts(r, a, s, state) ==
      /\ agent[r] = NoAgent
      /\ row' = [row EXCEPT ![r] = state]
      /\ starter' = [starter EXCEPT ![r] = s]
      /\ agent' = [agent EXCEPT ![r] = a]
      /\ UNCHANGED turned
      /\ s # NoRun => /\ agent[s] # NoAgent
                      /\ Cardinality(Chain(s)) < MaxChain
                      /\ \A x \in Chain(s) : agent[x] # a
<1>1. ASSUME NEW r \in Runs, NEW a \in Agents, NEW s \in Runs \cup {NoRun},
             NEW state \in {"idle", "running"}, Starts(r, a, s, state)
      PROVE  (IdsKnown /\ ChainAccounted /\ TurnChainBounded)'
  <2>1. ChainAccounted'
    BY <1>1, AccountedStart
  <2>2. IdsKnown'
    BY <1>1, RunIndexAssumption DEF IdsKnown, TypeOK, IndexType
  <2>3. TurnChainBounded'
    <3> SUFFICES ASSUME NEW c \in turned PROVE Bounded(c)'
      BY <1>1 DEF TurnChainBounded
    <3>1. c \in Runs /\ agent[c] # NoAgent /\ Bounded(c)
      BY DEF TypeOK, IndexType, IdsKnown, TurnChainBounded
    <3>2. \A x \in Runs \ {r} : starter'[x] = starter[x] /\ agent'[x] = agent[x]
      BY <1>1 DEF TypeOK, IndexType
    <3>3. Ancestry(c)' = Ancestry(c) /\ r \notin Ancestry(c) /\ Ancestry(c) \in SUBSET Runs
      BY <1>1, <3>1, <3>2, InsertKeepsAncestry, AncestryFacts
    <3> QED
      BY <3>1, <3>2, <3>3 DEF Bounded
  <2> QED
    BY <2>1, <2>2, <2>3
<1>2. ASSUME NEW r \in Runs, NEW a \in Agents, StartRun(r, a)
      PROVE  (IdsKnown /\ ChainAccounted /\ TurnChainBounded)'
  BY <1>1, <1>2 DEF StartRun, Insert
<1>3. ASSUME NEW p \in Runs, NEW r \in Runs, NEW a \in Agents, StartChild(p, r, a)
      PROVE  (IdsKnown /\ ChainAccounted /\ TurnChainBounded)'
  <2>1. agent[p] # NoAgent
    BY <1>3 DEF StartChild, Live, IdsKnown
  <2> QED
    BY <1>1, <1>3, <2>1 DEF StartChild, Insert
<1>4. ASSUME Quiet PROVE ChainAccounted'
  BY <1>4, AccountedKept DEF Quiet, Present
<1>5. ASSUME Quiet, NEW c \in Runs, Bounded(c) PROVE Bounded(c)'
  <2>1. Ancestry(c)' = Ancestry(c)
    BY <1>5, AncestryIsAbove DEF Quiet
  <2> QED
    BY <1>5, <2>1 DEF Bounded, Quiet
<1>6. CASE Quiet /\ UNCHANGED turned
  <2>1. IdsKnown'
    BY <1>6 DEF Quiet, IdsKnown
  <2>2. TurnChainBounded'
    BY <1>5, <1>6 DEF TurnChainBounded, TypeOK, IndexType
  <2> QED
    BY <1>4, <1>6, <2>1, <2>2
<1>7. ASSUME Quiet, NEW r \in Runs, TurnBegins(r)
      PROVE  (IdsKnown /\ ChainAccounted /\ TurnChainBounded)'
  <2>1. Live(r) /\ WholeChain(r) /\ turned' = turned \cup {r}
    BY <1>7 DEF TurnBegins, MayTurn
  <2>2. agent[r] # NoAgent
    BY <2>1 DEF Live, IdsKnown
  <2>3. Bounded(r)
    BY <2>1, <2>2, WholeChainIsAll DEF ChainAccounted, Live, Present
  <2>4. IdsKnown'
    BY <1>7, <2>1, <2>2 DEF Quiet, IdsKnown
  <2>5. TurnChainBounded'
    BY <1>5, <1>7, <2>1, <2>3 DEF TurnChainBounded, TypeOK, IndexType
  <2> QED
    BY <1>4, <1>7, <2>4, <2>5
<1> QED
  BY <1>2, <1>3, <1>6, <1>7, StepKinds

-----------------------------------------------------------------------------

(* RunIndex's variables keep their types: in particular a run's state in the  *)
(* index is one of those store.ts knows.                                    *)
THEOREM TypeCorrect == Spec => []TypeOK
  BY TypeInit, TypeStep, PTL DEF Spec

(* For any number of runs, any MAX_CHAIN and any order of reports, turns,     *)
(* starts, abandonments and deletions: no live run of the index was started   *)
(* by a run that ended (Runs.#end).                                         *)
THEOREM RunsEndWithTheirStarter == Spec => []EndedClosed
<1>1. Init => EndedClosed
  BY DEF Init, EndedClosed, Live
<1> QED
  BY <1>1, TypeInit, TypeStep, ClosedStep, PTL DEF Spec

LEMMA IInvInvariant == Spec => []IInv
<1>1. Init => IInv
  BY TypeInit DEF Init, IInv, EndedClosed, IdsKnown, ChainAccounted, TurnChainBounded, Live
<1>2. IInv /\ [Next]_vars => IInv'
  BY TypeStep, ClosedStep, ChainStep DEF IInv
<1> QED
  BY <1>1, <1>2, PTL DEF Spec

(* For any MAX_CHAIN: no run of a chain deeper than it, and no run of an      *)
(* agent that already runs above it, ever begins a turn (Runs.beginTurn),     *)
(* whatever rows were pruned while it was being started.                      *)
THEOREM TurnsStayInTheirChain == Spec => []TurnChainBounded
  BY IInvInvariant, PTL DEF IInv

(* The index lets a turn begin, and the gateway a turn's call pass, only      *)
(* under a chain of live runs, though beginTurn looks at the state of the run *)
(* and of its starter only, turnContext at the run's own, and a turn that a   *)
(* late steering message begins asks neither (AgentRunObject.#message).       *)
THEOREM WorksUnderLiveRuns == Spec => WorkUnderLiveChain
<1> DEFINE A == \A r \in Runs :
                    (pc[r] = "asking" /\ pc'[r] = "answered") \/ r \in calls' \ calls =>
                        \A x \in Ancestry(r) : Live(x)
<1>1. IInv /\ [Next]_vars => [A]_vars
  <2> SUFFICES ASSUME IInv, Next, NEW r \in Runs,
                      (pc[r] = "asking" /\ pc'[r] = "answered") \/ r \in calls' \ calls
               PROVE  \A x \in Ancestry(r) : Live(x)
    OBVIOUS
  <2> USE DEF IInv, TypeOK, ObjectType, FlightType
  <2>1. ASSUME NEW x \in Runs, TurnBegins(x) \/ GatewayCall(x) PROVE x = r
    BY <2>1 DEF TurnBegins, GatewayCall, objects, flight
  <2>2. ASSUME NEW x \in Runs,
               \/ StartArrives(x) \/ Message(x) \/ TurnRefused(x) \/ TurnUnavailable(x)
               \/ AnswerArrives(x) \/ HarnessOpens(x) \/ Finish(x) \/ StopArrives(x)
               \/ \E heard \in BOOLEAN : TurnRecorded(x, heard)
        PROVE  FALSE
    <3>1. calls' = calls
      BY <2>2 DEF StartArrives, Message, TurnRefused, TurnUnavailable, AnswerArrives,
                  HarnessOpens, Finish, StopArrives, TurnRecorded, flight
    <3>2. pc' = pc \/ \E v \in {"idle", "asking", "submitting"} : pc' = [pc EXCEPT ![x] = v]
      BY <2>2 DEF StartArrives, Message, TurnRefused, TurnUnavailable, AnswerArrives,
                  HarnessOpens, Finish, StopArrives, TurnRecorded, objects
    <3> QED
      BY <3>1, <3>2
  <2>3. ASSUME NEW x \in Runs,
               \/ CallReturns(x) \/ StartLost(x) \/ Abandon(x) \/ StopLost(x) \/ DeleteRun(x)
               \/ Prune(x) \/ PurgeBegins(x) \/ Forget(x)
        PROVE  FALSE
    BY <2>3 DEF CallReturns, StartLost, Abandon, StopLost, DeleteRun, Prune, Discard,
                PurgeBegins, Forget, objects, flight
  <2>4. ASSUME NEW x \in Runs,
               \/ CloseEnds(x) \/ Evict(x)
               \/ \E captured, closed \in BOOLEAN : Purge(x, captured, closed)
        PROVE  FALSE
    <3>1. calls' = calls
      BY <2>4 DEF CloseEnds, Evict, Purge, flight
    <3>2. \E v \in {"idle", pc[x]} : pc' = [pc EXCEPT ![x] = v]
      BY <2>4 DEF CloseEnds, Evict, Purge
    <3> QED
      BY <3>1, <3>2
  <2>5. ASSUME \/ \E x \in Runs, a \in Agents : StartRun(x, a)
               \/ \E p, x \in Runs, a \in Agents : StartChild(p, x, a)
               \/ \E m \in reports, heard \in BOOLEAN : ReportArrives(m[1], m[2], heard)
               \/ \E m \in reports : ReportLost(m)
               \/ \E a \in Agents : SetEnabled(a) \/ RemoveAgent(a)
        PROVE  FALSE
    BY <2>5 DEF StartRun, StartChild, Insert, ReportArrives, ReportLost, SetEnabled,
                RemoveAgent, Discard, objects, flight
  <2>6. TurnBegins(r) \/ GatewayCall(r)
    BY <2>1, <2>2, <2>3, <2>4, <2>5 DEF Next
  <2>7. Live(r) /\ Present(r) /\ WholeChain(r)
    BY <2>6 DEF TurnBegins, MayTurn, GatewayCall, MayCall, Live, Present
  <2> QED
    BY <2>7, WholeChainIsAll, LiveUpwards
<1> QED
  BY <1>1, IInvInvariant, PTL DEF Spec, WorkUnderLiveChain

(* A run that had a row and has none.                                        *)
Gone(r) == agent[r] # NoAgent /\ ~Present(r)

(* A harness of the run is left that purge did not close.                    *)
Left(r) == r \in stray \cup closing

(* The storage has no turn and the object records none it asked about, but   *)
(* through such a harness.                                                  *)
Stilled(r) ==
    /\ r \in active \/ pc[r] = "submitting" => Left(r)
    /\ pc[r] = "answered" => r \in wiped

(* What is purged is gone for good, and once purged stays still: only an     *)
(* instance that knows it was purged still has a turn to begin.              *)
PurgesStill ==
    /\ \A r \in Runs : pc[r] = "submitting" => r \in open \/ Left(r)
    /\ \A r \in purges \cup swept : Gone(r)
    /\ \A e \in purging : Gone(e[1])
    /\ \A r \in swept : Stilled(r)
    /\ \A r \in Runs : Gone(r) /\ r \notin purges => Stilled(r)

(* discard queues runs that had rows.                                        *)
LEMMA DoomedPresent ==
    ASSUME TypeOK, NEW S, S \subseteq {r \in Runs : Present(r)}
    PROVE  Doomed(S) \subseteq {r \in Runs : Present(r)}
<1> DEFINE T == {r \in Runs : Present(r)}
           E == {e \in Edges : Present(e[2])}
<1>1. \A e \in E : e[2] \in T
  BY DEF Edges
<1>2. T \in SUBSET Runs
  OBVIOUS
<1> HIDE DEF T, E
<1>3. Reach(S, E) \subseteq T
  <2>1. S \subseteq T
    BY DEF T
  <2> QED
    BY <1>1, <1>2, <2>1, ReachLeast
<1> QED
  BY <1>3 DEF Doomed, T, E

(* Queueing them keeps what is purged still.                                 *)
LEMMA StillDiscard ==
    ASSUME TypeOK, IdsKnown, PurgesStill, NEW S \in SUBSET {r \in Runs : Present(r)}, Discard(S)
    PROVE  PurgesStill'
<1>1. \A r \in S : agent[r] # NoAgent
  BY DEF IdsKnown, Present
<1>2. \A r \in Runs : Gone(r)' <=> r \in S \/ Gone(r)
  BY <1>1 DEF Gone, Present, Discard, TypeOK, IndexType
<1>3. \A r \in Runs : Stilled(r)' <=> Stilled(r)
  BY DEF Discard, Stilled, Left, objects, harnesses
<1>4. /\ purges' = purges \cup S
      /\ swept' = swept /\ purging' = purging /\ S \subseteq Runs
  BY DEF Discard, objects, harnesses, flight
<1>5. \A r \in Runs : (pc[r] = "submitting" => r \in open \/ Left(r))'
  BY DEF PurgesStill, Discard, Left, objects, harnesses
<1>6. purges \cup swept \subseteq Runs /\ \A e \in purging : e[1] \in Runs
  BY DEF TypeOK, IndexType, ObjectType, FlightType
<1> HIDE DEF Gone, Stilled, Left
<1> QED
  BY <1>2, <1>3, <1>4, <1>5, <1>6 DEF PurgesStill

(* A step that starts no run and queues, sweeps and forgets nothing.         *)
LEMMA StillKept ==
    ASSUME TypeOK, PurgesStill,
           \A r \in Runs : Gone(r)' <=> Gone(r),
           \A r \in Runs : Stilled(r) /\ Gone(r) => Stilled(r)',
           \A r \in Runs : (pc[r] = "submitting" => r \in open \/ Left(r))',
           purges' = purges, swept' = swept,
           \A e \in purging' : e[1] \in Runs /\ Gone(e[1])
    PROVE  PurgesStill'
<1>1. purges \cup swept \subseteq Runs
  BY DEF TypeOK, IndexType, FlightType
<1> HIDE DEF Gone, Stilled, Left
<1> QED
  BY <1>1 DEF PurgesStill

(* Such a step that leaves the objects alone.                                *)
LEMMA StillIndex ==
    ASSUME TypeOK, PurgesStill, \A r \in Runs : Gone(r)' <=> Gone(r),
           UNCHANGED <<objects, purges, swept>>
    PROVE  PurgesStill'
<1>1. \A e \in purging' : e[1] \in Runs /\ Gone(e[1])
  BY DEF PurgesStill, objects, harnesses, TypeOK, ObjectType
<1>2. \A r \in Runs : Stilled(r)' <=> Stilled(r)
  BY DEF Stilled, Left, objects, harnesses
<1>3. \A r \in Runs : (pc[r] = "submitting" => r \in open \/ Left(r))'
  BY DEF PurgesStill, Left, objects, harnesses
<1> QED
  BY <1>1, <1>2, <1>3, StillKept

(* A start keeps it too.                                                     *)
LEMMA StillInsert ==
    ASSUME TypeOK, IdsKnown, PurgesStill, NEW r \in Runs, NEW a \in Agents, NEW s \in Runs \cup {NoRun},
           NEW state \in {"idle", "running"}, Insert(r, a, s, state)
    PROVE  PurgesStill'
<1>1. Present(r)' /\ \A x \in Runs \ {r} : row'[x] = row[x] /\ agent'[x] = agent[x]
  BY DEF Insert, Present, TypeOK, IndexType
<1>2. \A x \in Runs : Gone(x)' <=> Gone(x)
  BY <1>1 DEF Gone, Present, Insert
<1> QED
  BY <1>2, StillIndex DEF Insert

(* A step of one object that leaves the index alone.                         *)
LEMMA StillObject ==
    ASSUME TypeOK, PurgesStill, NEW r \in Runs, UNCHANGED <<index, swept>>,
           /\ \A x \in Runs \ {r} :
                  /\ (x \in active') = (x \in active) /\ (x \in wiped') = (x \in wiped)
                  /\ (x \in open') = (x \in open) /\ (x \in stray') = (x \in stray)
                  /\ (x \in closing') = (x \in closing) /\ pc'[x] = pc[x],
           Stilled(r) /\ Gone(r) => Stilled(r)',
           (pc[r] = "submitting" => r \in open \/ Left(r))',
           \A e \in purging' : e \in purging \/ (e[1] = r /\ r \in purges)
    PROVE  PurgesStill'
<1>1. \A x \in Runs : Gone(x)' <=> Gone(x)
  BY DEF Gone, Present, index
<1>2. \A x \in Runs \ {r} : Left(x)' <=> Left(x)
  BY DEF Left
<1>3. \A x \in Runs : Stilled(x) /\ Gone(x) => Stilled(x)'
  BY <1>2 DEF Stilled
<1>4. \A x \in Runs : (pc[x] = "submitting" => x \in open \/ Left(x))'
  BY <1>2 DEF PurgesStill
<1>5. purges' = purges /\ swept' = swept
  BY DEF index
<1>6. \A e \in purging' : e[1] \in Runs /\ Gone(e[1])
  BY DEF PurgesStill, TypeOK, ObjectType
<1> QED
  BY <1>1, <1>3, <1>4, <1>5, <1>6, StillKept

(* So does every step.                                                       *)
LEMMA StillStep ==
    TypeOK /\ IdsKnown /\ PurgesStill /\ [Next]_vars => PurgesStill'
<1> SUFFICES ASSUME TypeOK, IdsKnown, PurgesStill, [Next]_vars PROVE PurgesStill'
  OBVIOUS
<1>1. ASSUME NEW r \in Runs, NEW a \in Agents, StartRun(r, a) PROVE PurgesStill'
  BY <1>1, StillInsert DEF StartRun
<1>2. ASSUME NEW p \in Runs, NEW r \in Runs, NEW a \in Agents, StartChild(p, r, a)
      PROVE  PurgesStill'
  BY <1>2, StillInsert DEF StartChild
<1>3. ASSUME NEW S, SetEnded(S) PROVE \A x \in Runs : Present(x)' <=> Present(x)
  BY <1>3 DEF SetEnded, Present
<1>4. ASSUME \A x \in Runs : Present(x)' <=> Present(x), agent' = agent,
             UNCHANGED <<objects, purges, swept>>
      PROVE  PurgesStill'
  <2>1. \A x \in Runs : Gone(x)' <=> Gone(x)
    BY <1>4 DEF Gone
  <2> QED
    BY <1>4, <2>1, StillIndex
<1>5. ASSUME NEW r \in Runs, Abandon(r) PROVE PurgesStill'
  BY <1>3, <1>4, <1>5 DEF Abandon
<1>6. ASSUME NEW m \in reports, NEW heard \in BOOLEAN, ReportArrives(m[1], m[2], heard)
      PROVE  PurgesStill'
  <2>1. m[1] \in Runs /\ m[2] \in {"running", "idle", "ended"}
    BY DEF TypeOK, FlightType
  <2>2. \A x \in Runs : Present(x)' <=> Present(x)
    <3>1. CASE SetEnded(Ended(m[1]))
      BY <1>3, <3>1
    <3>2. CASE Live(m[1]) /\ row' = [row EXCEPT ![m[1]] = m[2]]
      BY <2>1, <3>2 DEF Live, Present, TypeOK, IndexType
    <3>3. CASE UNCHANGED row
      BY <3>3 DEF Present
    <3> QED
      BY <1>6, <3>1, <3>2, <3>3 DEF ReportArrives
  <2> QED
    BY <1>4, <1>6, <2>2 DEF ReportArrives
<1>7. ASSUME UNCHANGED <<index, objects, swept>> PROVE PurgesStill'
  BY <1>4, <1>7 DEF index, Present
<1>8. ASSUME NEW r \in Runs,
             GatewayCall(r) \/ CallReturns(r) \/ StartLost(r) \/ StopLost(r)
      PROVE  PurgesStill'
  BY <1>7, <1>8 DEF GatewayCall, CallReturns, StartLost, StopLost
<1>9. ASSUME NEW r \in Runs,
             StartArrives(r) \/ TurnRefused(r) \/ TurnUnavailable(r) \/ Finish(r)
      PROVE  PurgesStill'
  <2>1. CASE UNCHANGED objects
    BY <1>7, <1>9, <2>1 DEF StartArrives, TurnRefused, TurnUnavailable, Finish, flight
  <2>2. CASE ~UNCHANGED objects
    <3>1. UNCHANGED <<index, swept, harnesses>>
      BY <1>9, <2>2 DEF StartArrives, TurnRefused, TurnUnavailable, Finish, flight
    <3>2. \A x \in Runs \ {r} : (x \in active') = (x \in active) /\ pc'[x] = pc[x]
      BY <1>9, <2>2, <3>1 DEF StartArrives, TurnRefused, TurnUnavailable, Finish,
                              TypeOK, ObjectType
    <3>3. /\ pc'[r] \in {"idle", "asking"} \/ pc'[r] = pc[r]
          /\ r \in active' => r \in active
      BY <1>9, <2>2 DEF StartArrives, TurnRefused, TurnUnavailable, Finish, TypeOK, ObjectType
    <3>4. Stilled(r) => Stilled(r)'
      BY <3>1, <3>3 DEF Stilled, Left, harnesses
    <3>5. (pc[r] = "submitting" => r \in open \/ Left(r))'
      BY <3>1, <3>3 DEF PurgesStill, Left, harnesses
    <3> QED
      BY <3>1, <3>2, <3>4, <3>5, StillObject DEF harnesses
  <2> QED
    BY <2>1, <2>2
<1>10. ASSUME NEW r \in Runs,
              \/ Message(r) \/ AnswerArrives(r) \/ HarnessOpens(r) \/ StopArrives(r)
              \/ \E heard \in BOOLEAN : TurnRecorded(r, heard)
       PROVE  PurgesStill'
  <2>1. UNCHANGED <<index, swept, wiped, purging, closing, stray>>
    BY <1>10 DEF Message, AnswerArrives, HarnessOpens, StopArrives, TurnRecorded, harnesses, flight
  <2>2. \A x \in Runs \ {r} : /\ (x \in active') = (x \in active) /\ pc'[x] = pc[x]
                              /\ (x \in open') = (x \in open)
    BY <1>10 DEF Message, AnswerArrives, HarnessOpens, StopArrives, TurnRecorded, harnesses,
                 TypeOK, ObjectType
  <2>3. /\ pc'[r] # "answered" \/ pc'[r] = pc[r]
        /\ r \in active' \/ pc'[r] = "submitting" =>
               \/ r \in active \/ pc[r] = "submitting"
               \/ pc[r] = "answered" /\ r \notin wiped
    BY <1>10 DEF Message, AnswerArrives, HarnessOpens, StopArrives, TurnRecorded,
                 TypeOK, ObjectType
  <2>4. Stilled(r) => Stilled(r)'
    BY <2>1, <2>3 DEF Stilled, Left
  <2>5. (pc[r] = "submitting" => r \in open \/ Left(r))'
    BY <1>10, <2>1 DEF Message, AnswerArrives, HarnessOpens, StopArrives, TurnRecorded,
                       TypeOK, ObjectType, PurgesStill, Left, harnesses
  <2> QED
    BY <2>1, <2>2, <2>4, <2>5, StillObject
<1>11. ASSUME NEW r \in Runs, PurgeBegins(r) \/ CloseEnds(r) \/ Evict(r) PROVE PurgesStill'
  <2>1. UNCHANGED <<index, swept>>
    BY <1>11 DEF PurgeBegins, CloseEnds, Evict, flight
  <2>2. \A x \in Runs \ {r} :
            /\ (x \in active') = (x \in active) /\ (x \in wiped') = (x \in wiped)
            /\ (x \in open') = (x \in open) /\ (x \in stray') = (x \in stray)
            /\ (x \in closing') = (x \in closing) /\ pc'[x] = pc[x]
    BY <1>11 DEF PurgeBegins, CloseEnds, Evict, TypeOK, ObjectType
  <2>3. Stilled(r) => Stilled(r)'
    BY <1>11 DEF PurgeBegins, CloseEnds, Evict, Stilled, Left, TypeOK, ObjectType
  <2>4. (pc[r] = "submitting" => r \in open \/ Left(r))'
    BY <1>11 DEF PurgeBegins, CloseEnds, Evict, PurgesStill, Left, TypeOK, ObjectType
  <2>5. \A e \in purging' : e \in purging \/ (e[1] = r /\ r \in purges)
    BY <1>11 DEF PurgeBegins, CloseEnds, Evict
  <2> QED
    BY <2>1, <2>2, <2>3, <2>4, <2>5, StillObject
<1>12. ASSUME NEW r \in Runs, TurnBegins(r) PROVE PurgesStill'
  <2>1. Present(r) /\ \A x \in Runs : Present(x)' <=> Present(x)
    BY <1>12 DEF TurnBegins, MayTurn, Live, Present, TypeOK, IndexType
  <2>2. \A x \in Runs : Gone(x)' <=> Gone(x)
    BY <1>12, <2>1 DEF TurnBegins, Gone
  <2>3. \A x \in Runs \ {r} : pc'[x] = pc[x]
    BY <1>12 DEF TurnBegins, TypeOK, ObjectType
  <2>4. UNCHANGED <<active, harnesses, purges, swept>> /\ pc'[r] # "submitting"
    BY <1>12 DEF TurnBegins, flight, TypeOK, ObjectType
  <2>5. \A x \in Runs : Stilled(x) /\ Gone(x) => Stilled(x)'
    BY <2>1, <2>3, <2>4 DEF Stilled, Left, Gone, harnesses
  <2>6. \A x \in Runs : (pc[x] = "submitting" => x \in open \/ Left(x))'
    BY <2>3, <2>4 DEF PurgesStill, Left, harnesses
  <2>7. \A e \in purging' : e[1] \in Runs /\ Gone(e[1])
    BY <2>4 DEF PurgesStill, harnesses, TypeOK, ObjectType
  <2> QED
    BY <2>2, <2>4, <2>5, <2>6, <2>7, StillKept
<1>13. ASSUME NEW a \in Agents, RemoveAgent(a) PROVE PurgesStill'
  BY <1>13, DoomedPresent, StillDiscard DEF RemoveAgent
<1>14. ASSUME NEW r \in Runs, DeleteRun(r) \/ Prune(r) PROVE PurgesStill'
  BY <1>14, DoomedPresent, StillDiscard DEF DeleteRun, Prune, Present
<1>15. ASSUME NEW r \in Runs, NEW captured \in BOOLEAN, NEW closed \in BOOLEAN,
              Purge(r, captured, closed)
       PROVE  PurgesStill'
  <2>1. UNCHANGED index /\ swept' = swept \cup {r} /\ purging' \subseteq purging
    BY <1>15 DEF Purge
  <2>2. Gone(r) /\ \A x \in Runs : Gone(x)' <=> Gone(x)
    <3>1. r \in purges \/ \E e \in purging : e[1] = r
      BY <1>15 DEF Purge
    <3>2. Gone(r)
      BY <3>1 DEF PurgesStill
    <3> QED
      BY <2>1, <3>2 DEF Gone, Present, index
  <2>3. /\ r \in wiped' /\ r \notin active'
        /\ pc'[r] = IF captured /\ closed /\ pc[r] = "submitting" THEN "idle" ELSE pc[r]
    BY <1>15 DEF Purge, TypeOK, ObjectType
  <2>4. /\ ~closed => r \in closing'
        /\ closing \subseteq closing'
        /\ ~captured => stray \cup ({r} \cap open) \subseteq stray'
    BY <1>15 DEF Purge
  <2>5. pc'[r] = "submitting" => Left(r)'
    BY <2>3, <2>4 DEF Left, PurgesStill
  <2>6. Stilled(r)'
    BY <2>3, <2>5 DEF Stilled
  <2>7. \A x \in Runs \ {r} :
            /\ (x \in active') = (x \in active) /\ (x \in wiped') = (x \in wiped)
            /\ (x \in open') = (x \in open) /\ (x \in stray') = (x \in stray)
            /\ (x \in closing') = (x \in closing) /\ pc'[x] = pc[x]
    BY <1>15 DEF Purge, TypeOK, ObjectType
  <2>8. \A x \in Runs : Stilled(x) => Stilled(x)'
    BY <2>6, <2>7 DEF Stilled, Left
  <2>9. \A x \in Runs : (pc[x] = "submitting" => x \in open \/ Left(x))'
    BY <2>5, <2>7 DEF PurgesStill, Left
  <2>10. /\ purges' = purges /\ purges \cup swept \subseteq Runs
         /\ \A e \in purging : e[1] \in Runs
    BY <2>1 DEF index, TypeOK, IndexType, ObjectType, FlightType
  <2> HIDE DEF Gone, Stilled, Left
  <2> QED
    BY <2>1, <2>2, <2>6, <2>8, <2>9, <2>10 DEF PurgesStill
<1>16. ASSUME NEW r \in Runs, Forget(r) PROVE PurgesStill'
  <2>1. r \in swept /\ Stilled(r) /\ Gone(r)
    BY <1>16 DEF Forget, PurgesStill
  <2>2. \A x \in Runs : Gone(x)' <=> Gone(x)
    BY <1>16, <2>1 DEF Forget, Gone, Present, TypeOK, IndexType
  <2>3. \A x \in Runs : Stilled(x)' <=> Stilled(x)
    BY <1>16 DEF Forget, Stilled, Left, objects, harnesses
  <2>4. \A x \in Runs : (pc[x] = "submitting" => x \in open \/ Left(x))'
    BY <1>16 DEF Forget, PurgesStill, Left, objects, harnesses
  <2>5. /\ purging' = purging /\ purges' = purges \ {r} /\ swept' = swept \ {r}
        /\ purges \cup swept \subseteq Runs
        /\ \A e \in purging : e[1] \in Runs
    BY <1>16 DEF Forget, objects, harnesses, TypeOK, IndexType, ObjectType, FlightType
  <2> HIDE DEF Gone, Stilled, Left
  <2> QED
    BY <2>1, <2>2, <2>3, <2>4, <2>5 DEF PurgesStill
<1>17. ASSUME NEW a \in Agents, SetEnabled(a) PROVE PurgesStill'
  BY <1>7, <1>17 DEF SetEnabled, flight
<1>18. ASSUME NEW m \in reports, ReportLost(m) PROVE PurgesStill'
  BY <1>7, <1>18 DEF ReportLost
<1>19. CASE UNCHANGED vars
  BY <1>7, <1>19 DEF vars, flight
<1> QED
  BY <1>1, <1>2, <1>5, <1>6, <1>8, <1>9, <1>10, <1>11, <1>12, <1>13, <1>14, <1>15, <1>16,
     <1>17, <1>18, <1>19 DEF Next

(* A forgotten run has no turn left in its storage, though a purge waits for *)
(* no call under way (AgentRunObject.purge, #purged): a call that goes on in *)
(* the purged instance writes nothing, but through a harness that was opened *)
(* while the purge waited, or that closes late.                              *)
THEOREM ForgottenRunsAreQuiet == Spec => []ForgottenIsQuiet
<1>1. Init => PurgesStill
  BY DEF Init, PurgesStill, Gone
<1>2. IInv /\ PurgesStill /\ [Next]_vars => PurgesStill'
  BY StillStep DEF IInv
<1>3. PurgesStill => ForgottenIsQuiet
  BY DEF PurgesStill, ForgottenIsQuiet, Gone, Stilled, Left
<1> QED
  BY <1>1, <1>2, <1>3, IInvInvariant, PTL DEF Spec
=============================================================================
