-------------------------- MODULE ChildRun_proofs --------------------------
(***************************************************************************)
(* ChildRun for every number of turns, tries, delivery loops and claims.    *)
(*                                                                         *)
(* IInv is inductive.  Each lemma XStep shows that a step preserves one part *)
(* X of it: a step that leaves X's variables alone does at once, and each    *)
(* action that may change them has a step of its own.                       *)
(***************************************************************************)
EXTENDS ChildRun, TLAPS

\* The turns are the numbers the turn-valued variables have besides 0.
LEMMA TurnFacts ==
    /\ 0 \in 0..MaxTurns
    /\ Turns \subseteq 0..MaxTurns
    /\ \A n \in 0..MaxTurns : n # 0 => n \in Turns
    /\ 0 \notin Turns
BY ChildRunAssumption DEF Turns

\* A delivery loop's name is none of the two other values of `ending`.
LEMMA LoopNames == "no" \notin Loops /\ "message" \notin Loops
BY ChildRunAssumption

\* Type correctness of the child's claims (claim, its leaving, evictions).
LEMMA ClaimTypeStep ==
    ASSUME TypeOK, [Next]_vars
    PROVE  ClaimType'
<1>. USE TurnFacts DEF TypeOK, ClaimType, childMemory, childStore, claimVars, loopVars, serialVars, parentVars, history
<1>1. CASE UNCHANGED <<claimVars>>
  BY <1>1 DEF claimVars
<1>2. ASSUME NEW k \in Claims, NEW t \in Turns, ClaimRunning(k, t)
      PROVE  ClaimType'
  BY <1>2 DEF ClaimRunning, Claimable
<1>3. ASSUME NEW k \in Claims, ClaimReturns(k)
      PROVE  ClaimType'
  BY <1>3 DEF ClaimReturns, Hand, Leave
<1>4. ASSUME NEW k \in Claims, ClaimTimesOut(k)
      PROVE  ClaimType'
  BY <1>4 DEF ClaimTimesOut, Leave
<1>5. ASSUME NEW k \in Claims, ClaimFails(k)
      PROVE  ClaimType'
  BY <1>5 DEF ClaimFails, Leave
<1>6. CASE EvictChild
  BY <1>6 DEF EvictChild
<1>7. CASE EvictParent
  BY <1>7 DEF EvictParent
<1>8. QED
  BY <1>1, <1>2, <1>3, <1>4, <1>5, <1>6, <1>7 DEF Next, vars, childStore, childMemory, claimVars, loopVars, serialVars, parentVars, history,
      MessageBegins, MessageStarts, MessageEndsChild, TurnSettles, ClaimFinished, Alarm, LoopSends, LoopEnds, ParentTakes, ParentRefuses, DeliverFails, StrayArrives, Forget, ParentEnds, EndReturns, StopIdle, AbortActive, AbortSettles, SerialReturns

\* Type correctness of the child's serialised call.
LEMMA SerialTypeStep ==
    ASSUME TypeOK, [Next]_vars
    PROVE  SerialType'
<1>. USE TurnFacts DEF TypeOK, SerialType, Steps, childMemory, childStore, claimVars, loopVars, serialVars, parentVars, history
<1>1. CASE UNCHANGED <<serialVars>>
  BY <1>1 DEF serialVars
<1>2. CASE MessageBegins
  BY <1>2 DEF MessageBegins
<1>3. ASSUME NEW t \in Turns, MessageStarts(t)
      PROVE  SerialType'
  BY <1>3 DEF MessageStarts
<1>4. ASSUME NEW l \in Loops, LoopEnds(l)
      PROVE  SerialType'
  BY <1>4 DEF LoopEnds, Ready, Rest, Recorded, Outcome, Read, Tried, StillPending, AlarmAfter, LoopOff
<1>5. ASSUME NEW call \in {"stop", "cancel"}, AbortActive(call)
      PROVE  SerialType'
  BY <1>5 DEF AbortActive, ChildStoreType
<1>6. CASE AbortSettles
  BY <1>6 DEF AbortSettles, FinishTurn, LoopBegins
<1>7. CASE SerialReturns
  BY <1>7 DEF SerialReturns
<1>8. CASE EvictChild
  BY <1>8 DEF EvictChild
<1>9. QED
  BY <1>1, <1>2, <1>3, <1>4, <1>5, <1>6, <1>7, <1>8 DEF Next, vars, childStore, childMemory, claimVars, loopVars, serialVars, parentVars, history,
      MessageEndsChild, TurnSettles, ClaimFinished, ClaimRunning, ClaimReturns, ClaimTimesOut, ClaimFails, Alarm, LoopSends, ParentTakes, ParentRefuses, DeliverFails, StrayArrives, Forget, ParentEnds, EndReturns, StopIdle, EvictParent

\* Type correctness of the #deliverPending calls: `tried` takes a turn from `at`
\* only when the call stands at one.
LEMMA LoopTypeStep ==
    ASSUME TypeOK, LoopsConsistent, [Next]_vars
    PROVE  LoopType'
<1>. USE TurnFacts DEF TypeOK, LoopType, Phases, childMemory, childStore, claimVars, loopVars, serialVars, parentVars, history
<1>1. CASE UNCHANGED <<loopVars>>
  BY <1>1 DEF loopVars
<1>2. CASE TurnSettles
  BY <1>2 DEF TurnSettles, FinishTurn, LoopBegins
<1>3. ASSUME NEW l \in Loops, Alarm(l)
      PROVE  LoopType'
  BY <1>3 DEF Alarm, LoopBegins
<1>4. ASSUME NEW l \in Loops, NEW t \in Turns, LoopSends(l, t)
      PROVE  LoopType'
  <2>1. Rest(l) \in SUBSET Turns
    BY DEF Rest, ChildStoreType
  <2>2. Read(l) \in [Turns -> Nat]
    BY DEF Read, ChildStoreType
  <2>3. Tried(l) \in SUBSET Turns
    BY <1>4 DEF Tried, LoopSends, Ready, LoopsConsistent
  <2>4. QED
    BY <1>4, <2>1, <2>2, <2>3 DEF LoopSends
<1>5. ASSUME NEW l \in Loops, LoopEnds(l)
      PROVE  LoopType'
  BY <1>5 DEF LoopEnds, Ready, Rest, Recorded, Outcome, Read, Tried, StillPending, AlarmAfter, LoopOff
<1>6. ASSUME NEW l \in Loops, ParentTakes(l)
      PROVE  LoopType'
  BY <1>6 DEF ParentTakes, Answer
<1>7. ASSUME NEW l \in Loops, ParentRefuses(l)
      PROVE  LoopType'
  BY <1>7 DEF ParentRefuses, Answer
<1>8. ASSUME NEW l \in Loops, DeliverFails(l)
      PROVE  LoopType'
  BY <1>8 DEF DeliverFails, Answer
<1>9. CASE EndReturns
  BY <1>9 DEF EndReturns
<1>10. CASE AbortSettles
  BY <1>10 DEF AbortSettles, FinishTurn, LoopBegins
<1>11. CASE EvictChild
  BY <1>11 DEF EvictChild
<1>12. CASE EvictParent
  BY <1>12 DEF EvictParent
<1>13. QED
  BY <1>1, <1>2, <1>3, <1>4, <1>5, <1>6, <1>7, <1>8, <1>9, <1>10, <1>11, <1>12 DEF Next, vars, childStore, childMemory, claimVars, loopVars, serialVars, parentVars, history,
      MessageBegins, MessageStarts, MessageEndsChild, ClaimFinished, ClaimRunning, ClaimReturns, ClaimTimesOut, ClaimFails, StrayArrives, Forget, ParentEnds, StopIdle, AbortActive, SerialReturns

\* #finish keeps the child's storage well typed, whichever caller runs it.
LEMMA FinishTurnType ==
    ASSUME ChildStoreType, NEW t \in Turns, NEW who, FinishTurn(t, who)
    PROVE  ChildStoreType'
<1>. USE TurnFacts DEF ChildStoreType
<1>1. /\ status' \in [Turns -> {"none", "running", "finished"}]
      /\ active' = 0 /\ alarm' = FALSE /\ childEnded' = childEnded
  BY DEF FinishTurn
<1>2. CASE /\ claimed' = [claimed EXCEPT ![t] = TRUE]
           /\ UNCHANGED <<delivery, listed, attempts>>
  BY <1>1, <1>2
<1>3. CASE /\ delivery' = [delivery EXCEPT ![t] = "pending"]
           /\ listed' = listed \cup {t}
           /\ attempts' = [attempts EXCEPT ![t] = 0]
           /\ UNCHANGED claimed
  BY <1>1, <1>3
<1>4. QED
  BY <1>2, <1>3 DEF FinishTurn

\* Type correctness of the child's storage.
LEMMA ChildStoreTypeStep ==
    ASSUME TypeOK, SerialConsistent, [Next]_vars
    PROVE  ChildStoreType'
<1>. USE TurnFacts DEF TypeOK, ChildStoreType, childMemory, childStore, claimVars, loopVars, serialVars, parentVars, history
<1>1. CASE UNCHANGED <<childStore>>
  BY <1>1 DEF childStore
<1>2. ASSUME NEW t \in Turns, MessageStarts(t)
      PROVE  ChildStoreType'
  BY <1>2 DEF MessageStarts
<1>3. CASE MessageEndsChild
  BY <1>3 DEF MessageEndsChild
<1>4. CASE TurnSettles
  BY <1>4, FinishTurnType DEF TurnSettles
<1>5. ASSUME NEW k \in Claims, NEW t \in Turns, ClaimFinished(k, t)
      PROVE  ChildStoreType'
  BY <1>5 DEF ClaimFinished, Hand, Claimable
<1>6. ASSUME NEW k \in Claims, ClaimReturns(k)
      PROVE  ChildStoreType'
  BY <1>6 DEF ClaimReturns, Hand, Leave
<1>7. ASSUME NEW l \in Loops, Alarm(l)
      PROVE  ChildStoreType'
  BY <1>7 DEF Alarm, LoopBegins
<1>8. ASSUME NEW l \in Loops, NEW t \in Turns, LoopSends(l, t)
      PROVE  ChildStoreType'
  BY <1>8 DEF LoopSends, Ready, Rest, Recorded, Outcome, Read, Tried
<1>9. ASSUME NEW l \in Loops, LoopEnds(l)
      PROVE  ChildStoreType'
  <2>1. Recorded(l) \in [Turns -> {"none", "pending", "delivered", "dropped"}]
    BY DEF Recorded, Outcome
  <2>2. StillPending(l) \in SUBSET Turns
    BY DEF StillPending
  <2>3. Read(l) \in [Turns -> Nat]
    BY DEF Read, LoopType
  <2>4. QED
    BY <1>9, <2>1, <2>2, <2>3 DEF LoopEnds, AlarmAfter
<1>10. CASE StopIdle
  BY <1>10 DEF StopIdle
<1>11. CASE AbortSettles
  BY <1>11, FinishTurnType DEF AbortSettles, SerialType, SerialConsistent
<1>12. CASE SerialReturns
  BY <1>12 DEF SerialReturns
<1>13. CASE EvictChild
  BY <1>13 DEF EvictChild
<1>14. QED
  BY <1>1, <1>2, <1>3, <1>4, <1>5, <1>6, <1>7, <1>8, <1>9, <1>10, <1>11, <1>12, <1>13 DEF Next, vars, childStore, childMemory, claimVars, loopVars, serialVars, parentVars, history,
      MessageBegins, ClaimRunning, ClaimTimesOut, ClaimFails, ParentTakes, ParentRefuses, DeliverFails, StrayArrives, Forget, ParentEnds, EndReturns, AbortActive, EvictParent

\* Type correctness of the parent and the histories.
LEMMA ParentTypeStep ==
    ASSUME TypeOK, LoopsConsistent, [Next]_vars
    PROVE  ParentType'
<1>. USE TurnFacts DEF TypeOK, ParentType, ClaimType, LoopType, LoopsConsistent, childMemory, childStore, claimVars, loopVars, serialVars, parentVars, history
<1>1. CASE UNCHANGED <<parentVars, history>>
  BY <1>1 DEF parentVars, history
<1>2. ASSUME NEW k \in Claims, NEW t \in Turns, ClaimFinished(k, t)
      PROVE  ParentType'
  BY <1>2 DEF ClaimFinished, Hand, Claimable
<1>3. ASSUME NEW k \in Claims, ClaimReturns(k)
      PROVE  ParentType'
  BY <1>3 DEF ClaimReturns, Hand, Leave
<1>4. ASSUME NEW k \in Claims, ClaimFails(k)
      PROVE  ParentType'
  BY <1>4 DEF ClaimFails, Leave
<1>5. ASSUME NEW l \in Loops, ParentTakes(l)
      PROVE  ParentType'
  BY <1>5 DEF ParentTakes, Answer
<1>6. ASSUME NEW l \in Loops, DeliverFails(l)
      PROVE  ParentType'
  BY <1>6 DEF DeliverFails, Answer
<1>7. ASSUME NEW t \in Turns, StrayArrives(t)
      PROVE  ParentType'
  BY <1>7 DEF StrayArrives
<1>8. CASE Forget
  BY <1>8 DEF Forget
<1>9. ASSUME NEW m \in {"message"} \cup Loops, ParentEnds(m)
      PROVE  ParentType'
  BY <1>9 DEF ParentEnds
<1>10. CASE EndReturns
  BY <1>10 DEF EndReturns
<1>11. CASE StopIdle
  BY <1>11 DEF StopIdle
<1>12. CASE SerialReturns
  BY <1>12 DEF SerialReturns
<1>13. CASE EvictChild
  <2>1. {claims[k] : k \in {j \in Claims : claims[j] # 0 /\ status[claims[j]] = "finished"}}
          \in SUBSET Turns
    OBVIOUS
  <2>2. {at[l] : l \in {j \in Loops : phase[j] = "sent" /\ j # ending}} \in SUBSET Turns
    OBVIOUS
  <2>3. QED
    BY <1>13, <2>1, <2>2 DEF EvictChild
<1>14. CASE EvictParent
  BY <1>14 DEF EvictParent
<1>15. QED
  BY <1>1, <1>2, <1>3, <1>4, <1>5, <1>6, <1>7, <1>8, <1>9, <1>10, <1>11, <1>12, <1>13, <1>14 DEF Next, vars, childStore, childMemory, claimVars, loopVars, serialVars, parentVars, history,
      MessageBegins, MessageStarts, MessageEndsChild, TurnSettles, ClaimRunning, ClaimTimesOut, Alarm, LoopSends, LoopEnds, ParentRefuses, AbortActive, AbortSettles

\* A step records a delivery as made only for an answer "ok", of a turn taken.
LEMMA DeliveredWasTakenStep ==
    ASSUME IInv, [Next]_vars
    PROVE  DeliveredWasTaken'
<1>. USE TurnFacts DEF IInv, TypeOK, ChildStoreType, DeliveredWasTaken, LoopType, LoopsConsistent, childMemory, childStore, claimVars, loopVars, serialVars, parentVars, history
<1>1. CASE UNCHANGED <<delivery, taken>>
  BY <1>1 
<1>2. CASE TurnSettles
  BY <1>2 DEF TurnSettles, FinishTurn, LoopBegins
<1>3. ASSUME NEW k \in Claims, NEW t \in Turns, ClaimFinished(k, t)
      PROVE  DeliveredWasTaken'
  BY <1>3 DEF ClaimFinished, Hand, Claimable
<1>4. ASSUME NEW k \in Claims, ClaimReturns(k)
      PROVE  DeliveredWasTaken'
  BY <1>4 DEF ClaimReturns, Hand, Leave
<1>5. ASSUME NEW l \in Loops, NEW t \in Turns, LoopSends(l, t)
      PROVE  DeliveredWasTaken'
  BY <1>5 DEF LoopSends, Ready, Rest, Recorded, Outcome, Read, Tried
<1>6. ASSUME NEW l \in Loops, LoopEnds(l)
      PROVE  DeliveredWasTaken'
  BY <1>6 DEF LoopEnds, Ready, Rest, Recorded, Outcome, Read, Tried, StillPending, AlarmAfter, LoopOff
<1>7. CASE AbortSettles
  BY <1>7 DEF AbortSettles, FinishTurn, LoopBegins
<1>8. ASSUME NEW l \in Loops, ParentTakes(l)
      PROVE  DeliveredWasTaken'
  BY <1>8 DEF ParentTakes, Answer
<1>9. ASSUME NEW t \in Turns, StrayArrives(t)
      PROVE  DeliveredWasTaken'
  BY <1>9 DEF StrayArrives
<1>10. QED
  BY <1>1, <1>2, <1>3, <1>4, <1>5, <1>6, <1>7, <1>8, <1>9 DEF Next, vars, childStore, childMemory, claimVars, loopVars, serialVars, parentVars, history,
      MessageBegins, MessageStarts, MessageEndsChild, ClaimRunning, ClaimTimesOut, ClaimFails, Alarm, ParentRefuses, DeliverFails, Forget, ParentEnds, EndReturns, StopIdle, AbortActive, SerialReturns, EvictChild, EvictParent

\* A step keeps every pending delivery in DELIVERIES with tries left.
LEMMA PendingListedStep ==
    ASSUME IInv, [Next]_vars
    PROVE  PendingListed'
<1>. USE TurnFacts DEF IInv, TypeOK, ChildStoreType, PendingListed, childMemory, childStore, claimVars, loopVars, serialVars, parentVars, history
<1>1. CASE UNCHANGED <<delivery, listed, attempts>>
  BY <1>1 
<1>2. CASE TurnSettles
  BY <1>2, ChildRunAssumption DEF TurnSettles, FinishTurn, LoopBegins
<1>3. ASSUME NEW k \in Claims, NEW t \in Turns, ClaimFinished(k, t)
      PROVE  PendingListed'
  BY <1>3 DEF ClaimFinished, Hand, Claimable
<1>4. ASSUME NEW k \in Claims, ClaimReturns(k)
      PROVE  PendingListed'
  BY <1>4 DEF ClaimReturns, Hand, Leave
<1>5. ASSUME NEW l \in Loops, NEW t \in Turns, LoopSends(l, t)
      PROVE  PendingListed'
  BY <1>5 DEF LoopSends, Ready, Rest, Recorded, Outcome, Read, Tried
<1>6. ASSUME NEW l \in Loops, LoopEnds(l)
      PROVE  PendingListed'
  BY <1>6 DEF LoopEnds, Ready, Rest, Recorded, Outcome, Read, Tried, StillPending, AlarmAfter, LoopOff
<1>7. CASE AbortSettles
  BY <1>7, ChildRunAssumption DEF AbortSettles, FinishTurn, LoopBegins
<1>8. QED
  BY <1>1, <1>2, <1>3, <1>4, <1>5, <1>6, <1>7 DEF Next, vars, childStore, childMemory, claimVars, loopVars, serialVars, parentVars, history,
      MessageBegins, MessageStarts, MessageEndsChild, ClaimRunning, ClaimTimesOut, ClaimFails, Alarm, ParentTakes, ParentRefuses, DeliverFails, StrayArrives, Forget, ParentEnds, EndReturns, StopIdle, AbortActive, SerialReturns, EvictChild, EvictParent

\* A step never leaves a claimed result to be delivered.
LEMMA ClaimedNotPendingStep ==
    ASSUME IInv, [Next]_vars
    PROVE  ClaimedNotPending'
<1>. USE TurnFacts DEF IInv, TypeOK, ChildStoreType, ClaimedNotPending, TurnsConsistent, childMemory, childStore, claimVars, loopVars, serialVars, parentVars, history
<1>1. CASE UNCHANGED <<claimed, delivery>>
  BY <1>1 
<1>2. CASE TurnSettles
  BY <1>2 DEF TurnSettles, FinishTurn, LoopBegins
<1>3. ASSUME NEW k \in Claims, NEW t \in Turns, ClaimFinished(k, t)
      PROVE  ClaimedNotPending'
  BY <1>3 DEF ClaimFinished, Hand, Claimable
<1>4. ASSUME NEW k \in Claims, ClaimReturns(k)
      PROVE  ClaimedNotPending'
  BY <1>4 DEF ClaimReturns, Hand, Leave
<1>5. ASSUME NEW l \in Loops, NEW t \in Turns, LoopSends(l, t)
      PROVE  ClaimedNotPending'
  BY <1>5 DEF LoopSends, Ready, Rest, Recorded, Outcome, Read, Tried
<1>6. ASSUME NEW l \in Loops, LoopEnds(l)
      PROVE  ClaimedNotPending'
  BY <1>6 DEF LoopEnds, Ready, Rest, Recorded, Outcome, Read, Tried, StillPending, AlarmAfter, LoopOff
<1>7. CASE AbortSettles
  BY <1>7 DEF AbortSettles, FinishTurn, LoopBegins
<1>8. QED
  BY <1>1, <1>2, <1>3, <1>4, <1>5, <1>6, <1>7 DEF Next, vars, childStore, childMemory, claimVars, loopVars, serialVars, parentVars, history,
      MessageBegins, MessageStarts, MessageEndsChild, ClaimRunning, ClaimTimesOut, ClaimFails, Alarm, ParentTakes, ParentRefuses, DeliverFails, StrayArrives, Forget, ParentEnds, EndReturns, StopIdle, AbortActive, SerialReturns, EvictChild, EvictParent

\* A step keeps ACTIVE and the turns' statuses in agreement.
LEMMA TurnsConsistentStep ==
    ASSUME IInv, [Next]_vars
    PROVE  TurnsConsistent'
<1>. USE TurnFacts DEF IInv, TypeOK, ChildStoreType, TurnsConsistent, SerialConsistent, childMemory, childStore, claimVars, loopVars, serialVars, parentVars, history
<1>1. CASE UNCHANGED <<status, active, claimed, delivery>>
  BY <1>1 
<1>2. ASSUME NEW t \in Turns, MessageStarts(t)
      PROVE  TurnsConsistent'
  BY <1>2 DEF MessageStarts
<1>3. CASE TurnSettles
  BY <1>3 DEF TurnSettles, FinishTurn, LoopBegins
<1>4. ASSUME NEW k \in Claims, NEW t \in Turns, ClaimFinished(k, t)
      PROVE  TurnsConsistent'
  BY <1>4 DEF ClaimFinished, Hand, Claimable
<1>5. ASSUME NEW k \in Claims, ClaimReturns(k)
      PROVE  TurnsConsistent'
  BY <1>5 DEF ClaimReturns, Hand, Leave
<1>6. ASSUME NEW l \in Loops, NEW t \in Turns, LoopSends(l, t)
      PROVE  TurnsConsistent'
  BY <1>6 DEF LoopSends, Ready, Rest, Recorded, Outcome, Read, Tried
<1>7. ASSUME NEW l \in Loops, LoopEnds(l)
      PROVE  TurnsConsistent'
  BY <1>7 DEF LoopEnds, Ready, Rest, Recorded, Outcome, Read, Tried, StillPending, AlarmAfter, LoopOff
<1>8. CASE AbortSettles
  BY <1>8 DEF AbortSettles, FinishTurn, LoopBegins
<1>9. QED
  BY <1>1, <1>2, <1>3, <1>4, <1>5, <1>6, <1>7, <1>8 DEF Next, vars, childStore, childMemory, claimVars, loopVars, serialVars, parentVars, history,
      MessageBegins, MessageEndsChild, ClaimRunning, ClaimTimesOut, ClaimFails, Alarm, ParentTakes, ParentRefuses, DeliverFails, StrayArrives, Forget, ParentEnds, EndReturns, StopIdle, AbortActive, SerialReturns, EvictChild, EvictParent

\* A step never ends the child under a running turn, nor starts one after.
LEMMA EndedIsQuietStep ==
    ASSUME IInv, [Next]_vars
    PROVE  EndedIsQuiet'
<1>. USE TurnFacts DEF IInv, TypeOK, ChildStoreType, EndedIsQuiet, SerialConsistent, childMemory, childStore, claimVars, loopVars, serialVars, parentVars, history
<1>1. CASE UNCHANGED <<childEnded, active>>
  BY <1>1 
<1>2. ASSUME NEW t \in Turns, MessageStarts(t)
      PROVE  EndedIsQuiet'
  BY <1>2 DEF MessageStarts
<1>3. CASE MessageEndsChild
  BY <1>3 DEF MessageEndsChild
<1>4. CASE TurnSettles
  BY <1>4 DEF TurnSettles, FinishTurn, LoopBegins
<1>5. CASE StopIdle
  BY <1>5 DEF StopIdle
<1>6. CASE AbortSettles
  BY <1>6 DEF AbortSettles, FinishTurn, LoopBegins
<1>7. CASE SerialReturns
  BY <1>7 DEF SerialReturns
<1>8. QED
  BY <1>1, <1>2, <1>3, <1>4, <1>5, <1>6, <1>7 DEF Next, vars, childStore, childMemory, claimVars, loopVars, serialVars, parentVars, history,
      MessageBegins, ClaimFinished, ClaimRunning, ClaimReturns, ClaimTimesOut, ClaimFails, Alarm, LoopSends, LoopEnds, ParentTakes, ParentRefuses, DeliverFails, StrayArrives, Forget, ParentEnds, EndReturns, AbortActive, EvictChild, EvictParent

\* While a serialised call lasts, only it starts, aborts or ends.
LEMMA SerialConsistentStep ==
    ASSUME IInv, [Next]_vars
    PROVE  SerialConsistent'
<1>. USE TurnFacts DEF IInv, TypeOK, ChildStoreType, SerialType, Steps, LoopsConsistent, TurnsConsistent, EndedIsQuiet, SerialConsistent, childMemory, childStore, claimVars, loopVars, serialVars, parentVars, history
<1>1. CASE UNCHANGED <<serialVars, childEnded, active>>
  BY <1>1 
<1>2. CASE MessageBegins
  BY <1>2 DEF MessageBegins
<1>3. ASSUME NEW t \in Turns, MessageStarts(t)
      PROVE  SerialConsistent'
  BY <1>3 DEF MessageStarts
<1>4. CASE MessageEndsChild
  BY <1>4 DEF MessageEndsChild
<1>5. CASE TurnSettles
  BY <1>5 DEF TurnSettles, FinishTurn, LoopBegins
<1>6. ASSUME NEW l \in Loops, LoopEnds(l)
      PROVE  SerialConsistent'
  BY <1>6 DEF LoopEnds, Ready, Rest, Recorded, Outcome, Read, Tried, StillPending, AlarmAfter, LoopOff
<1>7. CASE StopIdle
  BY <1>7 DEF StopIdle
<1>8. ASSUME NEW call \in {"stop", "cancel"}, AbortActive(call)
      PROVE  SerialConsistent'
  BY <1>8 DEF AbortActive
<1>9. CASE AbortSettles
  BY <1>9 DEF AbortSettles, FinishTurn, LoopBegins
<1>10. CASE SerialReturns
  BY <1>10 DEF SerialReturns
<1>11. CASE EvictChild
  BY <1>11 DEF EvictChild
<1>12. QED
  BY <1>1, <1>2, <1>3, <1>4, <1>5, <1>6, <1>7, <1>8, <1>9, <1>10, <1>11 DEF Next, vars, childStore, childMemory, claimVars, loopVars, serialVars, parentVars, history,
      ClaimFinished, ClaimRunning, ClaimReturns, ClaimTimesOut, ClaimFails, Alarm, LoopSends, ParentTakes, ParentRefuses, DeliverFails, StrayArrives, Forget, ParentEnds, EndReturns, EvictParent

\* A step keeps a call behind each registered claim of a running turn.
LEMMA ClaimsConsistentStep ==
    ASSUME IInv, [Next]_vars
    PROVE  ClaimsConsistent'
<1>. USE TurnFacts DEF IInv, TypeOK, ChildStoreType, ClaimType, ClaimsConsistent, childMemory, childStore, claimVars, loopVars, serialVars, parentVars, history
<1>1. CASE UNCHANGED <<claiming, status, claims>>
  BY <1>1 
<1>2. ASSUME NEW t \in Turns, MessageStarts(t)
      PROVE  ClaimsConsistent'
  BY <1>2 DEF MessageStarts
<1>3. CASE TurnSettles
  BY <1>3 DEF TurnSettles, FinishTurn, LoopBegins
<1>4. ASSUME NEW k \in Claims, NEW t \in Turns, ClaimRunning(k, t)
      PROVE  ClaimsConsistent'
  BY <1>4 DEF ClaimRunning, Claimable
<1>5. ASSUME NEW k \in Claims, ClaimReturns(k)
      PROVE  ClaimsConsistent'
  BY <1>5 DEF ClaimReturns, Hand, Leave
<1>6. ASSUME NEW k \in Claims, ClaimTimesOut(k)
      PROVE  ClaimsConsistent'
  BY <1>6 DEF ClaimTimesOut, Leave
<1>7. ASSUME NEW k \in Claims, ClaimFails(k)
      PROVE  ClaimsConsistent'
  BY <1>7 DEF ClaimFails, Leave
<1>8. CASE AbortSettles
  BY <1>8 DEF AbortSettles, FinishTurn, LoopBegins
<1>9. CASE EvictChild
  BY <1>9 DEF EvictChild
<1>10. QED
  BY <1>1, <1>2, <1>3, <1>4, <1>5, <1>6, <1>7, <1>8, <1>9 DEF Next, vars, childStore, childMemory, claimVars, loopVars, serialVars, parentVars, history,
      MessageBegins, MessageEndsChild, ClaimFinished, Alarm, LoopSends, LoopEnds, ParentTakes, ParentRefuses, DeliverFails, StrayArrives, Forget, ParentEnds, EndReturns, StopIdle, AbortActive, SerialReturns, EvictParent

\* A step keeps the #deliverPending calls consistent.
LEMMA LoopsConsistentStep ==
    ASSUME IInv, [Next]_vars
    PROVE  LoopsConsistent'
<1>. USE TurnFacts DEF IInv, TypeOK, ChildStoreType, LoopType, Phases, SerialType, Steps, ParentType, LoopsConsistent, childMemory, childStore, claimVars, loopVars, serialVars, parentVars, history
<1>1. CASE UNCHANGED <<loopVars, serial, step, taken, parentEnded, ending, index>>
  BY <1>1 
<1>2. CASE MessageBegins
  BY <1>2 DEF MessageBegins
<1>3. ASSUME NEW t \in Turns, MessageStarts(t)
      PROVE  LoopsConsistent'
  BY <1>3 DEF MessageStarts
<1>4. CASE TurnSettles
  BY <1>4 DEF TurnSettles, FinishTurn, LoopBegins
<1>5. ASSUME NEW l \in Loops, Alarm(l)
      PROVE  LoopsConsistent'
  BY <1>5 DEF Alarm, LoopBegins
<1>6. ASSUME NEW l \in Loops, NEW t \in Turns, LoopSends(l, t)
      PROVE  LoopsConsistent'
  BY <1>6 DEF LoopSends, Ready, Rest, Recorded, Outcome, Read, Tried
<1>7. ASSUME NEW l \in Loops, LoopEnds(l)
      PROVE  LoopsConsistent'
  BY <1>7 DEF LoopEnds, Ready, Rest, Recorded, Outcome, Read, Tried, StillPending, AlarmAfter, LoopOff
<1>8. ASSUME NEW l \in Loops, ParentTakes(l)
      PROVE  LoopsConsistent'
  BY <1>8, LoopNames DEF ParentTakes, Answer
<1>9. ASSUME NEW l \in Loops, ParentRefuses(l)
      PROVE  LoopsConsistent'
  BY <1>9, LoopNames DEF ParentRefuses, Answer
<1>10. ASSUME NEW l \in Loops, DeliverFails(l)
      PROVE  LoopsConsistent'
  BY <1>10 DEF DeliverFails, Answer
<1>11. ASSUME NEW t \in Turns, StrayArrives(t)
      PROVE  LoopsConsistent'
  BY <1>11 DEF StrayArrives
<1>12. CASE Forget
  BY <1>12 DEF Forget
<1>13. ASSUME NEW m \in {"message"} \cup Loops, ParentEnds(m)
      PROVE  LoopsConsistent'
  BY <1>13, LoopNames DEF ParentEnds
<1>14. CASE EndReturns
  BY <1>14, LoopNames DEF EndReturns
<1>15. ASSUME NEW call \in {"stop", "cancel"}, AbortActive(call)
      PROVE  LoopsConsistent'
  BY <1>15 DEF AbortActive
<1>16. CASE AbortSettles
  BY <1>16 DEF AbortSettles, FinishTurn, LoopBegins
<1>17. CASE SerialReturns
  BY <1>17 DEF SerialReturns
<1>18. CASE EvictChild
  BY <1>18, LoopNames DEF EvictChild
<1>19. CASE EvictParent
  BY <1>19, LoopNames DEF EvictParent
<1>20. QED
  BY <1>1, <1>2, <1>3, <1>4, <1>5, <1>6, <1>7, <1>8, <1>9, <1>10, <1>11, <1>12, <1>13, <1>14, <1>15, <1>16, <1>17, <1>18, <1>19 DEF Next, vars, childStore, childMemory, claimVars, loopVars, serialVars, parentVars, history,
      MessageEndsChild, ClaimFinished, ClaimRunning, ClaimReturns, ClaimTimesOut, ClaimFails, StopIdle

\* A step never loses a finished turn's result: where a step changes how a
\* result is accounted for, it moves to another of the ways.
LEMMA ResultAccountedStep ==
    ASSUME IInv, [Next]_vars
    PROVE  ResultAccounted'
<1>. USE TurnFacts DEF IInv, TypeOK, ChildStoreType, ClaimType, ClaimsConsistent, DeliveredWasTaken, PendingListed, LoopType, LoopsConsistent, ResultAccounted, childMemory, childStore, claimVars, loopVars, serialVars, parentVars, history
<1>1. CASE UNCHANGED <<status, byClaim, taken, cutOff, claims, delivery, listed>>
  BY <1>1 
<1>2. ASSUME NEW t \in Turns, MessageStarts(t)
      PROVE  ResultAccounted'
  BY <1>2 DEF MessageStarts
<1>3. CASE TurnSettles
  BY <1>3 DEF TurnSettles, FinishTurn, LoopBegins
<1>4. ASSUME NEW k \in Claims, NEW t \in Turns, ClaimFinished(k, t)
      PROVE  ResultAccounted'
  BY <1>4 DEF ClaimFinished, Hand, Claimable
<1>5. ASSUME NEW k \in Claims, ClaimReturns(k)
      PROVE  ResultAccounted'
  BY <1>5 DEF ClaimReturns, Hand, Leave
<1>6. ASSUME NEW l \in Loops, NEW t \in Turns, LoopSends(l, t)
      PROVE  ResultAccounted'
  BY <1>6 DEF LoopSends, Ready, Rest, Recorded, Outcome, Read, Tried
<1>7. ASSUME NEW l \in Loops, LoopEnds(l)
      PROVE  ResultAccounted'
  BY <1>7 DEF LoopEnds, Ready, Rest, Recorded, Outcome, Read, Tried, StillPending, AlarmAfter, LoopOff
<1>8. CASE AbortSettles
  BY <1>8 DEF AbortSettles, FinishTurn, LoopBegins
<1>9. ASSUME NEW k \in Claims, NEW t \in Turns, ClaimRunning(k, t)
      PROVE  ResultAccounted'
  BY <1>9 DEF ClaimRunning, Claimable
<1>10. ASSUME NEW k \in Claims, ClaimTimesOut(k)
      PROVE  ResultAccounted'
  BY <1>10 DEF ClaimTimesOut, Leave
<1>11. ASSUME NEW k \in Claims, ClaimFails(k)
      PROVE  ResultAccounted'
  BY <1>11 DEF ClaimFails, Leave
<1>12. ASSUME NEW l \in Loops, ParentTakes(l)
      PROVE  ResultAccounted'
  BY <1>12 DEF ParentTakes, Answer
<1>13. ASSUME NEW t \in Turns, StrayArrives(t)
      PROVE  ResultAccounted'
  BY <1>13 DEF StrayArrives
<1>14. CASE EvictChild
  BY <1>14 DEF EvictChild
<1>15. QED
  BY <1>1, <1>2, <1>3, <1>4, <1>5, <1>6, <1>7, <1>8, <1>9, <1>10, <1>11, <1>12, <1>13, <1>14 DEF Next, vars, childStore, childMemory, claimVars, loopVars, serialVars, parentVars, history,
      MessageBegins, MessageEndsChild, Alarm, ParentRefuses, DeliverFails, Forget, ParentEnds, EndReturns, StopIdle, AbortActive, SerialReturns, EvictParent

-----------------------------------------------------------------------------

\* The initial state satisfies the invariant: nothing was started.
LEMMA InitIInv == Init => IInv
<1>. SUFFICES ASSUME Init PROVE IInv
  OBVIOUS
<1>. USE TurnFacts, LoopNames DEF Init
<1>1. ChildStoreType
  BY DEF ChildStoreType
<1>2. ClaimType /\ SerialType /\ ParentType
  BY DEF ClaimType, SerialType, Steps, ParentType
<1>3. LoopType
  BY DEF LoopType, Phases
<1>4. ResultAccounted /\ DeliveredWasTaken /\ PendingListed /\ ClaimedNotPending /\ EndedIsQuiet
  BY DEF ResultAccounted, DeliveredWasTaken, PendingListed, ClaimedNotPending, EndedIsQuiet
<1>5. TurnsConsistent
  BY DEF TurnsConsistent
<1>6. LoopsConsistent /\ ClaimsConsistent /\ SerialConsistent
  BY DEF LoopsConsistent, ClaimsConsistent, SerialConsistent
<1>7. QED
  BY <1>1, <1>2, <1>3, <1>4, <1>5, <1>6 DEF IInv, TypeOK

\* Every step preserves it.
LEMMA NextIInv == IInv /\ [Next]_vars => IInv'
<1>. SUFFICES ASSUME IInv, [Next]_vars PROVE IInv'
  OBVIOUS
<1>1. TypeOK /\ LoopsConsistent /\ SerialConsistent
  BY DEF IInv
<1>2. TypeOK'
  BY <1>1, ClaimTypeStep, SerialTypeStep, LoopTypeStep, ChildStoreTypeStep, ParentTypeStep DEF TypeOK
<1>3. QED
  BY <1>2, ResultAccountedStep, DeliveredWasTakenStep, PendingListedStep, ClaimedNotPendingStep,
     EndedIsQuietStep, TurnsConsistentStep, LoopsConsistentStep, ClaimsConsistentStep,
     SerialConsistentStep DEF IInv

\* The inductive invariant holds in every behaviour.
LEMMA InductiveInvariant == Spec => []IInv
<1>. QED
  BY InitIInv, NextIInv, PTL DEF Spec

\* Type correctness: the objects' storage and memory hold what the source's
\* types say.
THEOREM TypeCorrect == Spec => []TypeOK
<1>1. IInv => TypeOK
  BY DEF IInv
<1>. QED
  BY <1>1, InductiveInvariant, PTL

\* A finished turn's result is never lost, however claims, deliveries, endings
\* and evictions interleave: the parent has it, will be offered it, or it was
\* given up, or the answer of the claim that took it was lost.
THEOREM ResultsAreAccounted == Spec => []ResultAccounted
<1>1. IInv => ResultAccounted
  BY DEF IInv
<1>. QED
  BY <1>1, InductiveInvariant, PTL

\* The child records as delivered only what the parent took (#deliverPending).
THEOREM DeliveredResultsWereTaken == Spec => []DeliveredWasTaken
<1>1. IInv => DeliveredWasTaken
  BY DEF IInv
<1>. QED
  BY <1>1, InductiveInvariant, PTL

\* Overlapping #deliverPending calls, finishing turns and claims never drop a
\* pending delivery from the list they all rewrite, nor overrun its tries.
THEOREM PendingStaysListed == Spec => []PendingListed
<1>1. IInv => PendingListed
  BY DEF IInv
<1>. QED
  BY <1>1, InductiveInvariant, PTL

\* A result the parent claimed is no longer to be delivered (#hand, #finish).
THEOREM ClaimedLeavesDeliveries == Spec => []ClaimedNotPending
<1>1. IInv => ClaimedNotPending
  BY DEF IInv
<1>. QED
  BY <1>1, InductiveInvariant, PTL

\* An ended child runs no turn (stop, #end, #message).
THEOREM EndedChildIsQuiet == Spec => []EndedIsQuiet
<1>1. IInv => EndedIsQuiet
  BY DEF IInv
<1>. QED
  BY <1>1, InductiveInvariant, PTL

\* #deliverPending drops a delivery only when the parent ended or is not its
\* parent any more, or after MaxAttempts tries.
THEOREM DropsAreForCause == Spec => DroppedForCause
<1>. DEFINE Cause ==
       \A t \in Turns : delivery[t] = "pending" /\ delivery'[t] = "dropped" =>
         \/ parentEnded \/ index = "gone"
         \/ \E l \in Loops : t \in Tried(l) /\ Read(l)[t] + 1 >= MaxAttempts
<1>1. ASSUME IInv, [Next]_vars PROVE Cause
  <2>. USE TurnFacts DEF IInv, TypeOK, ChildStoreType, LoopType, Phases, LoopsConsistent, PendingListed
  <2>1. CASE UNCHANGED delivery
    BY <2>1
  <2>2. ASSUME NEW t \in Turns, NEW who, FinishTurn(t, who) PROVE Cause
    <3>1. UNCHANGED delivery \/ delivery' = [delivery EXCEPT ![t] = "pending"]
      BY <2>2 DEF FinishTurn
    <3>2. QED
      BY <1>1, <3>1
  <2>3. ASSUME NEW t \in Turns, Hand(t) PROVE Cause
    BY <2>3 DEF Hand
  <2>4. ASSUME NEW l \in Loops, NEW t \in Turns, LoopSends(l, t) PROVE Cause
    <3>1. delivery' = Recorded(l)
      BY <2>4 DEF LoopSends
    <3>2. \A u \in Turns : Recorded(l)[u] = "dropped" =>
            delivery[u] = "dropped" \/ phase[l] = "refused"
      BY <1>1 DEF Recorded, Outcome
    <3>3. QED
      BY <1>1, <3>1, <3>2
  <2>5. ASSUME NEW l \in Loops, LoopEnds(l) PROVE Cause
    <3>1. \A u \in Turns : Recorded(l)[u] = "dropped" =>
            delivery[u] = "dropped" \/ phase[l] = "refused"
      BY <1>1 DEF Recorded, Outcome
    <3>2. \A u \in Turns : Recorded(l)[u] = "pending" => delivery[u] = "pending"
      BY <1>1 DEF Recorded, Outcome
    <3>3. ASSUME NEW u \in Turns, delivery[u] = "pending", delivery'[u] = "dropped",
                 Recorded(l)[u] # "dropped"
          PROVE  u \in Tried(l) /\ Read(l)[u] + 1 >= MaxAttempts
      <4>. DEFINE count == [t \in Turns |-> IF t \in Tried(l) THEN Read(l)[t] + 1 ELSE attempts[t]]
      <4>1. u \in StillPending(l) /\ ~(count[u] < MaxAttempts)
        BY <2>5, <3>3 DEF LoopEnds
      <4>2. attempts[u] \in Nat /\ attempts[u] < MaxAttempts
        BY <1>1, <3>3
      <4>3. Read(l)[u] \in Nat
        BY <1>1 DEF Read
      <4>4. QED
        BY <4>1, <4>2, <4>3, ChildRunAssumption
    <3>4. QED
      BY <1>1, <3>1, <3>3
  <2>6. QED
    BY <1>1, <2>1, <2>2, <2>3, <2>4, <2>5
    DEF Next, vars, childStore, TurnSettles, AbortSettles, SerialConsistent, ClaimFinished, ClaimReturns,
        ClaimType, MessageBegins, MessageStarts, MessageEndsChild, ClaimRunning, ClaimTimesOut, ClaimFails, Alarm,
        ParentTakes, ParentRefuses, DeliverFails, StrayArrives, Forget, ParentEnds, EndReturns, StopIdle,
        AbortActive, SerialReturns, EvictChild, EvictParent
<1>. QED
  BY <1>1, InductiveInvariant, PTL DEF Spec, DroppedForCause

-----------------------------------------------------------------------------
(* The hand-over of results: ChildRun implements ResultHandover *)

\* #finish leaves the turn's result claimed or pending, and lists it.
LEMMA FinishTurnDelivers ==
    ASSUME TypeOK, LoopsConsistent, DeliveriesFinished, NEW t \in Turns, NEW who, FinishTurn(t, who),
           strays' = strays
    PROVE  DeliveriesFinished'
<1>. USE DEF TypeOK, ChildStoreType, LoopType, ParentType, LoopsConsistent, DeliveriesFinished
<1>1. /\ status' = [status EXCEPT ![t] = "finished"]
      /\ \/ /\ claimed' = [claimed EXCEPT ![t] = TRUE]
            /\ UNCHANGED <<delivery, listed, phase, at, todo>>
         \/ /\ claimed' = claimed /\ delivery' = [delivery EXCEPT ![t] = "pending"]
            /\ listed' = listed \cup {t}
            /\ \E l \in Loops : /\ phase[l] = "off" /\ phase' = [phase EXCEPT ![l] = "start"]
                                /\ at' = at /\ todo' = todo
  BY DEF FinishTurn, LoopBegins, loopVars
<1>2. \A u \in Turns : status[u] = "finished" => status'[u] = "finished"
  BY <1>1
<1>3. \A u \in Turns : status'[u] = "finished" /\ ~claimed'[u] => delivery'[u] # "none"
  BY <1>1
<1>4. \A u \in listed' \cup strays' : status'[u] = "finished"
  BY <1>1, <1>2
<1>5. ASSUME NEW l \in Loops
      PROVE  /\ todo'[l] = todo[l] /\ at'[l] = at[l]
             /\ phase'[l] # phase[l] => phase'[l] = "start"
  BY <1>1
<1>6. QED
  BY <1>2, <1>3, <1>4, <1>5

\* Every step keeps what the hand-over needs.
LEMMA DeliveriesFinishedStep ==
    ASSUME IInv, DeliveriesFinished, [Next]_vars
    PROVE  DeliveriesFinished'
<1>. USE TurnFacts DEF IInv, TypeOK, ChildStoreType, LoopType, ParentType, DeliveriesFinished, childMemory, childStore, claimVars, loopVars, serialVars, parentVars, history
<1>1. CASE UNCHANGED <<status, claimed, delivery, listed, phase, at, todo, strays>>
  BY <1>1
<1>2. ASSUME NEW t \in Turns, MessageStarts(t)
      PROVE  DeliveriesFinished'
  <2>1. /\ \A u \in Turns : status'[u] = "finished" <=> status[u] = "finished"
        /\ UNCHANGED <<claimed, delivery, listed, phase, at, todo, strays>>
    BY <1>2 DEF MessageStarts
  <2>2. QED
    BY <2>1 DEF LoopsConsistent
<1>3. CASE TurnSettles
  BY <1>3, FinishTurnDelivers DEF TurnSettles
<1>4. ASSUME NEW k \in Claims, NEW t \in Turns, ClaimFinished(k, t)
      PROVE  DeliveriesFinished'
  BY <1>4 DEF ClaimFinished, Hand
<1>5. ASSUME NEW k \in Claims, ClaimReturns(k)
      PROVE  DeliveriesFinished'
  BY <1>5 DEF ClaimReturns, Hand, Leave, ClaimType
<1>6. ASSUME NEW l \in Loops, Alarm(l)
      PROVE  DeliveriesFinished'
  BY <1>6 DEF Alarm, LoopBegins
<1>7. ASSUME NEW l \in Loops, NEW t \in Turns, LoopSends(l, t)
      PROVE  DeliveriesFinished'
  <2>1. /\ delivery' = Recorded(l) /\ phase' = [phase EXCEPT ![l] = "sent"]
        /\ at' = [at EXCEPT ![l] = t] /\ todo' = [todo EXCEPT ![l] = Rest(l) \ {t}]
        /\ t \in Rest(l) /\ UNCHANGED <<status, claimed, listed, strays>>
    BY <1>7 DEF LoopSends
  <2>2. \A u \in Rest(l) : u \in Turns /\ status[u] = "finished"
    BY <1>7 DEF LoopSends, Ready, Rest
  <2>3. \A u \in Turns : Recorded(l)[u] = "none" => delivery[u] = "none"
    BY DEF Recorded, Outcome
  <2>4. QED
    BY <2>1, <2>2, <2>3
<1>8. ASSUME NEW l \in Loops, LoopEnds(l)
      PROVE  DeliveriesFinished'
  <2>1. /\ \A u \in Turns : delivery'[u] \in {"dropped", Recorded(l)[u]}
        /\ listed' \subseteq StillPending(l) /\ LoopOff(l)
        /\ UNCHANGED <<status, claimed, strays>>
    BY <1>8 DEF LoopEnds
  <2>2. \A u \in Turns : Recorded(l)[u] = "none" => delivery[u] = "none"
    BY DEF Recorded, Outcome
  <2>3. StillPending(l) \subseteq listed
    BY DEF StillPending
  <2>4. QED
    BY <2>1, <2>2, <2>3 DEF LoopOff
<1>9. ASSUME NEW l \in Loops, ParentTakes(l) \/ ParentRefuses(l)
      PROVE  DeliveriesFinished'
  <2>1. /\ UNCHANGED <<status, claimed, delivery, listed, strays, at, todo>>
        /\ phase[l] = "sent"
        /\ \E how \in {"ok", "refused"} : phase' = [phase EXCEPT ![l] = how]
    BY <1>9 DEF ParentTakes, ParentRefuses, Answer
  <2>2. \A k \in Loops : phase'[k] = phase[k] \/ (k = l /\ phase[k] = "sent")
    BY <2>1
  <2> QED
    BY <2>1, <2>2
<1>10. ASSUME NEW l \in Loops, DeliverFails(l)
      PROVE  DeliveriesFinished'
  BY <1>10 DEF DeliverFails, Answer
<1>11. ASSUME NEW t \in Turns, StrayArrives(t)
      PROVE  DeliveriesFinished'
  BY <1>11 DEF StrayArrives
<1>12. CASE EndReturns
  BY <1>12, LoopNames DEF EndReturns, LoopsConsistent
<1>13. CASE AbortSettles
  BY <1>13, FinishTurnDelivers DEF AbortSettles, SerialType, SerialConsistent
<1>14. CASE EvictChild
  BY <1>14 DEF EvictChild
<1>15. CASE EvictParent
  BY <1>15 DEF EvictParent
<1>16. QED
  BY <1>1, <1>2, <1>3, <1>4, <1>5, <1>6, <1>7, <1>8, <1>9, <1>10, <1>11, <1>12, <1>13, <1>14, <1>15
  DEF Next, vars, MessageBegins, MessageEndsChild, ClaimRunning, ClaimTimesOut, Leave, ClaimFails, Forget,
      ParentEnds, StopIdle, AbortActive, SerialReturns

\* A result's fate is read from the child's storage alone.
LEMMA FateFacts ==
    ASSUME TypeOK, NEW t \in Turns
    PROVE  /\ Fate(t) = "open" <=> status[t] # "finished"
           /\ status[t] = "finished" /\ claimed[t] => Fate(t) = "claimed"
           /\ status[t] = "finished" /\ ~claimed[t] /\ delivery[t] = "pending" => Fate(t) = "owed"
           /\ status[t] = "finished" /\ ~claimed[t] /\ delivery[t] # "pending" => Fate(t) = delivery[t]
  BY DEF TypeOK, ChildStoreType, Fate

\* A step that changes no result's fate, and a step that changes one.
LEMMA SameFate ==
    ASSUME TypeOK, TypeOK', claimed' = claimed, delivery' = delivery,
           \A t \in Turns : status'[t] = "finished" <=> status[t] = "finished"
    PROVE  [t \in Turns |-> Fate(t)]' = [t \in Turns |-> Fate(t)]
<1>1. ASSUME NEW t \in Turns PROVE Fate(t)' = Fate(t)
  BY DEF Fate
<1>2. QED
  BY <1>1

LEMMA FinishIsFinish ==
    ASSUME TypeOK, TurnsConsistent, NEW t \in Turns, NEW who, FinishTurn(t, who),
           UNCHANGED <<taken, parentEnded>>
    PROVE  Handover!Finish
<1>. USE DEF TypeOK, ChildStoreType
<1>1. /\ status[t] = "running" /\ status' = [status EXCEPT ![t] = "finished"]
      /\ \/ claimed' = [claimed EXCEPT ![t] = TRUE] /\ delivery' = delivery
         \/ claimed' = claimed /\ delivery' = [delivery EXCEPT ![t] = "pending"]
  BY DEF FinishTurn
<1>2. ~claimed[t]
  BY <1>1 DEF TurnsConsistent
<1>3. Fate(t) = "open"
  BY <1>1 DEF Fate
<1>4. \A u \in Turns \ {t} : Fate(u)' = Fate(u)
  BY <1>1 DEF Fate
<1>5. Fate(t)' \in {"owed", "claimed"}
  <2>1. status'[t] = "finished" /\ (claimed'[t] \/ (~claimed'[t] /\ delivery'[t] = "pending"))
    BY <1>1, <1>2
  <2>2. QED
    BY <2>1 DEF Fate
<1>6. [u \in Turns |-> Fate(u)]' = [[u \in Turns |-> Fate(u)] EXCEPT ![t] = Fate(t)']
  BY <1>4
<1>7. QED
  BY <1>3, <1>5, <1>6 DEF Handover!Finish

LEMMA HandIsClaim ==
    ASSUME TypeOK, NEW t \in Turns, status[t] = "finished", Hand(t),
           UNCHANGED <<status, taken, parentEnded>>
    PROVE  Handover!Claim
<1>. USE DEF TypeOK, ChildStoreType
<1>1. /\ claimed' = [claimed EXCEPT ![t] = TRUE]
      /\ \A u \in Turns \ {t} : delivery'[u] = delivery[u]
  BY DEF Hand
<1>2. \A u \in Turns \ {t} : Fate(u)' = Fate(u)
  BY <1>1 DEF Fate
<1>3. Fate(t)' = "claimed" /\ Fate(t) # "open"
  BY <1>1, FateFacts DEF Fate
<1>4. [u \in Turns |-> Fate(u)]' = [[u \in Turns |-> Fate(u)] EXCEPT ![t] = "claimed"]
  BY <1>2, <1>3
<1>5. QED
  BY <1>3, <1>4 DEF Handover!Claim

\* What #deliverPending records, at once or when it ends: a pending delivery becomes
\* delivered if the parent took it, or is dropped.
LEMMA RecordIsSettle ==
    ASSUME TypeOK, TypeOK', ClaimedNotPending, DeliveriesFinished',
           UNCHANGED <<status, claimed, taken, parentEnded>>,
           \A t \in Turns : \/ delivery'[t] = delivery[t]
                            \/ /\ delivery[t] = "pending"
                               /\ delivery'[t] = "dropped" \/ (delivery'[t] = "delivered" /\ t \in taken)
    PROVE  Handover!Settle
<1>. USE DEF TypeOK, ChildStoreType
<1>1. ASSUME NEW t \in Turns
      PROVE  /\ Fate(t)' \in Handover!Fates
             /\ \/ Fate(t)' = Fate(t)
                \/ Fate(t) = "owed" /\ Fate(t)' = "delivered" /\ t \in taken
                \/ Fate(t) = "owed" /\ Fate(t)' = "dropped"
  <2>1. CASE status[t] # "finished"
    BY <2>1 DEF Fate, Handover!Fates
  <2>2. CASE status[t] = "finished" /\ claimed[t]
    BY <2>2 DEF Fate, Handover!Fates
  <2>3. CASE status[t] = "finished" /\ ~claimed[t]
    <3>1. delivery'[t] # "none" /\ delivery'[t] \in {"none", "pending", "delivered", "dropped"}
      BY <2>3 DEF DeliveriesFinished
    <3>2. Fate(t) = (IF delivery[t] = "pending" THEN "owed" ELSE delivery[t])
      BY <2>3 DEF Fate
    <3>3. Fate(t)' = (IF delivery'[t] = "pending" THEN "owed" ELSE delivery'[t])
      BY <2>3 DEF Fate
    <3>4. QED
      BY <3>1, <3>2, <3>3 DEF Handover!Fates
  <2>4. QED
    BY <2>1, <2>2, <2>3
<1>2. [t \in Turns |-> Fate(t)]' \in [Turns -> Handover!Fates]
  BY <1>1
<1>3. QED
  BY <1>1, <1>2 DEF Handover!Settle

\* Every step of the child and its parent is one of the hand-over, or none.
LEMMA HandoverStep ==
    ASSUME IInv, IInv', DeliveriesFinished, DeliveriesFinished', [Next]_vars
    PROVE  [Handover!Next]_(Handover!vars)
<1>. USE TurnFacts DEF childMemory, childStore, claimVars, loopVars, serialVars, parentVars, history
<1>1. /\ TypeOK /\ TypeOK' /\ TurnsConsistent /\ ClaimedNotPending /\ LoopsConsistent /\ SerialConsistent
  BY DEF IInv
<1>2. ASSUME UNCHANGED <<claimed, delivery, taken, parentEnded>>,
             \A t \in Turns : status'[t] = "finished" <=> status[t] = "finished"
      PROVE  UNCHANGED Handover!vars
  BY <1>1, <1>2, SameFate DEF Handover!vars
<1>3. ASSUME NEW t \in Turns, MessageStarts(t) PROVE UNCHANGED Handover!vars
  <2>1. \A u \in Turns : status'[u] = "finished" <=> status[u] = "finished"
    BY <1>1, <1>3 DEF MessageStarts, TypeOK, ChildStoreType
  <2>2. QED
    BY <1>2, <1>3, <2>1 DEF MessageStarts
<1>4. CASE TurnSettles
  <2>1. active \in Turns /\ FinishTurn(active, "watch") /\ UNCHANGED <<taken, parentEnded>>
    BY <1>1, <1>4 DEF TurnSettles, TypeOK, ChildStoreType
  <2>2. QED
    BY <1>1, <2>1, FinishIsFinish DEF Handover!Next
<1>5. ASSUME NEW k \in Claims, NEW t \in Turns, ClaimFinished(k, t) PROVE Handover!Next
  BY <1>1, <1>5, HandIsClaim DEF ClaimFinished, Handover!Next
<1>6. ASSUME NEW k \in Claims, ClaimReturns(k) PROVE Handover!Next
  <2>1. claims[k] \in Turns
    BY <1>1, <1>6 DEF ClaimReturns, TypeOK, ClaimType
  <2>2. QED
    BY <1>1, <1>6, <2>1, HandIsClaim DEF ClaimReturns, Handover!Next
<1>7. ASSUME NEW l \in Loops, Ready(l), NEW t \in Turns
      PROVE  \/ Recorded(l)[t] = delivery[t]
             \/ /\ delivery[t] = "pending"
                /\ Recorded(l)[t] = "dropped" \/ (Recorded(l)[t] = "delivered" /\ t \in taken)
  BY <1>1, <1>7 DEF Ready, Recorded, Outcome, LoopsConsistent
<1>8. ASSUME NEW l \in Loops, NEW t \in Turns, LoopSends(l, t) PROVE Handover!Next
  <2>1. delivery' = Recorded(l) /\ Ready(l) /\ UNCHANGED <<status, claimed, taken, parentEnded>>
    BY <1>8 DEF LoopSends
  <2>2. \A u \in Turns : \/ delivery'[u] = delivery[u]
                         \/ /\ delivery[u] = "pending"
                            /\ delivery'[u] = "dropped" \/ (delivery'[u] = "delivered" /\ u \in taken)
    BY <1>7, <2>1
  <2>3. QED
    BY <1>1, <2>1, <2>2, RecordIsSettle DEF Handover!Next
<1>9. ASSUME NEW l \in Loops, LoopEnds(l) PROVE Handover!Next
  <2>1. Ready(l) /\ UNCHANGED <<status, claimed, taken, parentEnded>>
    BY <1>9 DEF LoopEnds
  <2>2. \A u \in Turns : \/ delivery'[u] = Recorded(l)[u]
                         \/ delivery'[u] = "dropped" /\ Recorded(l)[u] = "pending"
    BY <1>9 DEF LoopEnds, StillPending
  <2>3. \A u \in Turns : \/ delivery'[u] = delivery[u]
                         \/ /\ delivery[u] = "pending"
                            /\ delivery'[u] = "dropped" \/ (delivery'[u] = "delivered" /\ u \in taken)
    BY <1>7, <2>1, <2>2
  <2>4. QED
    BY <1>1, <2>1, <2>3, RecordIsSettle DEF Handover!Next
<1>10. ASSUME NEW l \in Loops, ParentTakes(l) PROVE [Handover!Next]_(Handover!vars)
  <2>1. /\ UNCHANGED <<status, claimed, delivery, parentEnded>>
        /\ taken' = taken \cup {at[l]} /\ (~parentEnded \/ at[l] \in taken)
    BY <1>10 DEF ParentTakes
  <2>2. at[l] \in Turns /\ status[at[l]] = "finished"
    BY <1>1, <1>10 DEF ParentTakes, LoopsConsistent, DeliveriesFinished
  <2>3. [t \in Turns |-> Fate(t)]' = [t \in Turns |-> Fate(t)] /\ Fate(at[l]) # "open"
    BY <1>1, <2>1, <2>2, SameFate, FateFacts
  <2>4. CASE ~parentEnded
    BY <2>1, <2>2, <2>3, <2>4 DEF Handover!Next, Handover!Take
  <2>5. CASE at[l] \in taken
    <3>1. taken' = taken
      BY <2>1, <2>5
    <3>2. QED
      BY <2>1, <2>3, <3>1 DEF Handover!vars
  <2>6. QED
    BY <2>1, <2>4, <2>5
<1>11. ASSUME NEW t \in Turns, StrayArrives(t) PROVE [Handover!Next]_(Handover!vars)
  <2>1. /\ UNCHANGED <<status, claimed, delivery, parentEnded>> /\ t \in strays
        /\ taken' = taken \/ (~parentEnded /\ taken' = taken \cup {t})
    BY <1>11 DEF StrayArrives
  <2>2. [u \in Turns |-> Fate(u)]' = [u \in Turns |-> Fate(u)] /\ Fate(t) # "open"
    BY <1>1, <2>1, SameFate, FateFacts DEF DeliveriesFinished
  <2>3. QED
    BY <2>1, <2>2 DEF Handover!Next, Handover!Take, Handover!vars
<1>12. ASSUME NEW m \in {"message"} \cup Loops, ParentEnds(m) PROVE Handover!Next
  <2>1. UNCHANGED <<status, claimed, delivery, taken>> /\ parentEnded' = TRUE
    BY <1>12 DEF ParentEnds
  <2>2. [u \in Turns |-> Fate(u)]' = [u \in Turns |-> Fate(u)]
    BY <1>1, <2>1, SameFate
  <2>3. QED
    BY <2>1, <2>2 DEF Handover!Next, Handover!Close
<1>13. CASE AbortSettles
  <2>1. CASE FinishTurn(aborting, "serial")
    <3>1. aborting \in Turns /\ UNCHANGED <<taken, parentEnded>>
      BY <1>1, <1>13 DEF AbortSettles, SerialConsistent
    <3>2. QED
      BY <1>1, <2>1, <3>1, FinishIsFinish DEF Handover!Next
  <2>2. CASE UNCHANGED childStore
    BY <1>2, <1>13, <2>2 DEF AbortSettles
  <2>3. QED
    BY <1>13, <2>1, <2>2 DEF AbortSettles
<1>14. QED
  BY <1>2, <1>3, <1>4, <1>5, <1>6, <1>8, <1>9, <1>10, <1>11, <1>12, <1>13
  DEF Next, vars, MessageBegins, MessageEndsChild, ClaimRunning, ClaimTimesOut, ClaimFails, Alarm, ParentRefuses,
      DeliverFails, Forget, EndReturns, StopIdle, AbortActive, SerialReturns, EvictChild, EvictParent

\* ChildRun implements ResultHandover: a child's result ends once, claimed, delivered or
\* dropped, whatever loops overlap and whichever answers are lost (#finish, #hand,
\* #deliverPending, deliver).
THEOREM ResultsAreHandedOver == Spec => ResultsHandedOver
<1>1. Init => IInv /\ DeliveriesFinished /\ Handover!Init
  <2>1. ASSUME Init PROVE DeliveriesFinished
    BY <2>1 DEF Init, DeliveriesFinished
  <2>2. ASSUME Init PROVE Handover!Init
    <3>1. \A t \in Turns : Fate(t) = "open"
      BY <2>2 DEF Init, Fate
    <3>2. QED
      BY <2>2, <3>1 DEF Init, Handover!Init
  <2>3. QED
    BY <2>1, <2>2, InitIInv
<1>2. IInv /\ DeliveriesFinished /\ [Next]_vars =>
        IInv' /\ DeliveriesFinished' /\ [Handover!Next]_(Handover!vars)
  BY NextIInv, DeliveriesFinishedStep, HandoverStep
<1>3. QED
  BY <1>1, <1>2, PTL DEF Spec, ResultsHandedOver, Handover!Spec
=============================================================================
