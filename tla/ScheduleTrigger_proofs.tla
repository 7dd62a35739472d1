----------------------- MODULE ScheduleTrigger_proofs -----------------------
(***************************************************************************)
(* IInv of ScheduleTrigger is inductive: one lemma per action, one step per  *)
(* conjunct.  The safety properties of the schedule follow from it for every *)
(* set of schedules, every bound on time and any number of calls under way.  *)
(***************************************************************************)
EXTENDS ScheduleTrigger, TLAPS

\* A schedule's next tick is one of its ticks.
LEMMA NextTickIsTick ==
    ASSUME NEW s \in Schedules, NEW t \in Times
    PROVE  nextTick(s, t) \in s /\ nextTick(s, t) \in Nat \ {0}
<1>1. \E u \in s : u > t /\ \A v \in s : v > t => u <= v
  BY NextTickAssumption
<1>2. nextTick(s, t) \in s
  BY <1>1 DEF nextTick
<1> QED
  BY <1>2, ScheduleTriggerAssumption

-----------------------------------------------------------------------------
(* Each action preserves IInv                                               *)

\* A schedule is added: nothing is promised until it is armed.
LEMMA CreatePreserves ==
    ASSUME IInv, NEW c \in Calls, Create(c)
    PROVE  IInv'
<1>0. TypeOK /\ ScheduleWakes /\ TickWakes /\ RunsFollowed
      /\ CallConsistent /\ AnswerFresh /\ SweepConsistent
  BY DEF IInv
<1> USE DEF Create, Goes, clock, controlPlane, storage, callVars
<1>1. TypeOK'
  BY <1>0, ScheduleTriggerAssumption DEF TypeOK, Times, Arming
<1>2. ScheduleWakes'
  BY <1>0, ScheduleTriggerAssumption DEF ScheduleWakes, ArmPending, ArmServed,
      Arming, isTick, TypeOK, Times, CallConsistent
<1>3. TickWakes'
  BY <1>0, ScheduleTriggerAssumption DEF TickWakes
<1>4. RunsFollowed'
  BY <1>0, ScheduleTriggerAssumption DEF RunsFollowed
<1>5. CallConsistent'
  BY <1>0, ScheduleTriggerAssumption DEF CallConsistent, ArmServed, Arming
<1>6. AnswerFresh'
  BY <1>0, ScheduleTriggerAssumption DEF AnswerFresh, Arming, isTick, TypeOK,
      Times, CallConsistent, ArmServed
<1>7. SweepConsistent'
  BY <1>0, ScheduleTriggerAssumption DEF SweepConsistent, Silent, Exists
<1> QED
  BY <1>1, <1>2, <1>3, <1>4, <1>5, <1>6, <1>7 DEF IInv

\* An edit leaves its arm to come.
LEMMA EditPreserves ==
    ASSUME IInv, NEW c \in Calls, Edit(c)
    PROVE  IInv'
<1>0. TypeOK /\ ScheduleWakes /\ TickWakes /\ RunsFollowed
      /\ CallConsistent /\ AnswerFresh /\ SweepConsistent
  BY DEF IInv
<1> USE DEF Edit, Goes, clock, controlPlane, storage, callVars
<1>1. TypeOK'
  BY <1>0, ScheduleTriggerAssumption DEF TypeOK, Times, Arming
<1>2. ScheduleWakes'
  BY <1>0, ScheduleTriggerAssumption DEF ScheduleWakes, ArmPending, ArmServed,
      Arming, isTick, TypeOK, Times, CallConsistent
<1>3. TickWakes'
  BY <1>0, ScheduleTriggerAssumption DEF TickWakes
<1>4. RunsFollowed'
  BY <1>0, ScheduleTriggerAssumption DEF RunsFollowed
<1>5. CallConsistent'
  BY <1>0, ScheduleTriggerAssumption DEF CallConsistent, ArmServed, Arming
<1>6. AnswerFresh'
  BY <1>0, ScheduleTriggerAssumption DEF AnswerFresh, Arming, isTick, TypeOK,
      Times, CallConsistent, ArmServed
<1>7. SweepConsistent'
  BY <1>0, ScheduleTriggerAssumption DEF SweepConsistent, Silent, Exists
<1> QED
  BY <1>1, <1>2, <1>3, <1>4, <1>5, <1>6, <1>7 DEF IInv

\* A schedule is removed.
LEMMA RemovePreserves ==
    ASSUME IInv, NEW c \in Calls, Remove(c)
    PROVE  IInv'
<1>0. TypeOK /\ ScheduleWakes /\ TickWakes /\ RunsFollowed
      /\ CallConsistent /\ AnswerFresh /\ SweepConsistent
  BY DEF IInv
<1> USE DEF Remove, Goes, clock, controlPlane, storage, callVars
<1>1. TypeOK'
  BY <1>0, ScheduleTriggerAssumption DEF TypeOK, Times, Arming
<1>2. ScheduleWakes'
  BY <1>0, ScheduleTriggerAssumption DEF ScheduleWakes, ArmPending, ArmServed,
      Arming, isTick
<1>3. TickWakes'
  BY <1>0, ScheduleTriggerAssumption DEF TickWakes
<1>4. RunsFollowed'
  BY <1>0, ScheduleTriggerAssumption DEF RunsFollowed
<1>5. CallConsistent'
  BY <1>0, ScheduleTriggerAssumption DEF CallConsistent, ArmServed, Arming
<1>6. AnswerFresh'
  BY <1>0, ScheduleTriggerAssumption DEF AnswerFresh, Arming, isTick
<1>7. SweepConsistent'
  BY <1>0, ScheduleTriggerAssumption DEF SweepConsistent, Silent, Exists
<1> QED
  BY <1>1, <1>2, <1>3, <1>4, <1>5, <1>6, <1>7 DEF IInv

\* create takes the trigger back.
LEMMA UndoPreserves ==
    ASSUME IInv, NEW c \in Calls, Undo(c)
    PROVE  IInv'
<1>0. TypeOK /\ ScheduleWakes /\ TickWakes /\ RunsFollowed
      /\ CallConsistent /\ AnswerFresh /\ SweepConsistent
  BY DEF IInv
<1> USE DEF Undo, Goes, clock, controlPlane, storage, callVars
<1>1. TypeOK'
  BY <1>0, ScheduleTriggerAssumption DEF TypeOK, Times, Arming
<1>2. ScheduleWakes'
  BY <1>0, ScheduleTriggerAssumption DEF ScheduleWakes, ArmPending, ArmServed,
      Arming, isTick
<1>3. TickWakes'
  BY <1>0, ScheduleTriggerAssumption DEF TickWakes
<1>4. RunsFollowed'
  BY <1>0, ScheduleTriggerAssumption DEF RunsFollowed
<1>5. CallConsistent'
  BY <1>0, ScheduleTriggerAssumption DEF CallConsistent, ArmServed, Arming
<1>6. AnswerFresh'
  BY <1>0, ScheduleTriggerAssumption DEF AnswerFresh, Arming, isTick
<1>7. SweepConsistent'
  BY <1>0, ScheduleTriggerAssumption DEF SweepConsistent, Silent, Exists,
      TypeOK, Times, CallConsistent, Arming, ArmServed, ScheduleWakes,
      TickWakes, RunsFollowed, AnswerFresh, ArmPending, isTick
<1> QED
  BY <1>1, <1>2, <1>3, <1>4, <1>5, <1>6, <1>7 DEF IInv

\* A sweep of the org begins.
LEMMA SweepBeginsPreserves ==
    ASSUME IInv, NEW c \in Calls, SweepBegins(c)
    PROVE  IInv'
<1>0. TypeOK /\ ScheduleWakes /\ TickWakes /\ RunsFollowed
      /\ CallConsistent /\ AnswerFresh /\ SweepConsistent
  BY DEF IInv
<1> USE DEF SweepBegins, Goes, clock, controlPlane, storage, callVars
<1>1. TypeOK'
  BY <1>0, ScheduleTriggerAssumption DEF TypeOK, Times, Arming
<1>2. ScheduleWakes'
  BY <1>0, ScheduleTriggerAssumption DEF ScheduleWakes, ArmPending, ArmServed,
      Arming, isTick
<1>3. TickWakes'
  BY <1>0, ScheduleTriggerAssumption DEF TickWakes
<1>4. RunsFollowed'
  BY <1>0, ScheduleTriggerAssumption DEF RunsFollowed
<1>5. CallConsistent'
  BY <1>0, ScheduleTriggerAssumption DEF CallConsistent, ArmServed, Arming
<1>6. AnswerFresh'
  BY <1>0, ScheduleTriggerAssumption DEF AnswerFresh, Arming, isTick
<1>7. SweepConsistent'
  BY <1>0, ScheduleTriggerAssumption DEF SweepConsistent, Silent, Exists
<1> QED
  BY <1>1, <1>2, <1>3, <1>4, <1>5, <1>6, <1>7 DEF IInv

\* A sweep lists what is gone.
LEMMA SweepListsPreserves ==
    ASSUME IInv, NEW c \in Calls, SweepLists(c)
    PROVE  IInv'
<1>0. TypeOK /\ ScheduleWakes /\ TickWakes /\ RunsFollowed
      /\ CallConsistent /\ AnswerFresh /\ SweepConsistent
  BY DEF IInv
<1> USE DEF SweepLists, Goes, clock, controlPlane, storage, callVars
<1>1. TypeOK'
  BY <1>0, ScheduleTriggerAssumption DEF TypeOK, Times, Arming
<1>2. ScheduleWakes'
  BY <1>0, ScheduleTriggerAssumption DEF ScheduleWakes, ArmPending, ArmServed,
      Arming, isTick, TypeOK, Times, CallConsistent
<1>3. TickWakes'
  BY <1>0, ScheduleTriggerAssumption DEF TickWakes
<1>4. RunsFollowed'
  BY <1>0, ScheduleTriggerAssumption DEF RunsFollowed
<1>5. CallConsistent'
  BY <1>0, ScheduleTriggerAssumption DEF CallConsistent, ArmServed, Arming,
      TypeOK, Times
<1>6. AnswerFresh'
  BY <1>0, ScheduleTriggerAssumption DEF AnswerFresh, Arming, isTick, TypeOK,
      Times, CallConsistent, ArmServed
<1>7. SweepConsistent'
  BY <1>0, ScheduleTriggerAssumption DEF SweepConsistent, Silent, Exists,
      TypeOK, Times, CallConsistent, Arming, ArmServed
<1> QED
  BY <1>1, <1>2, <1>3, <1>4, <1>5, <1>6, <1>7 DEF IInv

\* A sweep forgets what it purged: it is silent.
LEMMA SweepForgetsPreserves ==
    ASSUME IInv, NEW c \in Calls, SweepForgets(c)
    PROVE  IInv'
<1>0. TypeOK /\ ScheduleWakes /\ TickWakes /\ RunsFollowed
      /\ CallConsistent /\ AnswerFresh /\ SweepConsistent
  BY DEF IInv
<1> USE DEF SweepForgets, Goes, clock, controlPlane, storage, callVars
<1>1. TypeOK'
  <2>1. listed' \in BOOLEAN
    BY <1>0 DEF TypeOK
  <2>2. phase' \in [Calls -> Arming \cup {"off", "undo", "sweep", "purge", "forget"}]
    BY <1>0 DEF TypeOK
  <2> QED
    BY <2>1, <2>2, <1>0 DEF TypeOK
<1>2. ScheduleWakes'
  BY <1>0, ScheduleTriggerAssumption DEF ScheduleWakes, ArmPending, ArmServed,
      Arming, isTick
<1>3. TickWakes'
  BY <1>0, ScheduleTriggerAssumption DEF TickWakes
<1>4. RunsFollowed'
  BY <1>0, ScheduleTriggerAssumption DEF RunsFollowed
<1>5. CallConsistent'
  BY <1>0, ScheduleTriggerAssumption DEF CallConsistent, ArmServed, Arming
<1>6. AnswerFresh'
  BY <1>0, ScheduleTriggerAssumption DEF AnswerFresh, Arming, isTick
<1>7. SweepConsistent'
  BY <1>0, ScheduleTriggerAssumption DEF SweepConsistent, Silent, Exists
<1> QED
  BY <1>1, <1>2, <1>3, <1>4, <1>5, <1>6, <1>7 DEF IInv

\* A call fails for its caller and may still arrive.
LEMMA CallFailsPreserves ==
    ASSUME IInv, NEW c \in Calls, CallFails(c)
    PROVE  IInv'
<1>0. TypeOK /\ ScheduleWakes /\ TickWakes /\ RunsFollowed
      /\ CallConsistent /\ AnswerFresh /\ SweepConsistent
  BY DEF IInv
<1> USE DEF CallFails, Goes, AfterFailedArm, clock, controlPlane, storage,
      callVars
<1>1. TypeOK'
  BY <1>0, ScheduleTriggerAssumption DEF TypeOK, Times, Arming
<1>2. ScheduleWakes'
  BY <1>0, ScheduleTriggerAssumption DEF ScheduleWakes, ArmPending, ArmServed,
      Arming, isTick, TypeOK, Times, CallConsistent, TickWakes, RunsFollowed,
      AnswerFresh, SweepConsistent, Silent, Exists
<1>3. TickWakes'
  BY <1>0, ScheduleTriggerAssumption DEF TickWakes
<1>4. RunsFollowed'
  BY <1>0, ScheduleTriggerAssumption DEF RunsFollowed
<1>5. CallConsistent'
  BY <1>0, ScheduleTriggerAssumption DEF CallConsistent, ArmServed, Arming
<1>6. AnswerFresh'
  BY <1>0, ScheduleTriggerAssumption DEF AnswerFresh, Arming, isTick, TypeOK,
      Times, CallConsistent, ArmServed, ScheduleWakes, TickWakes,
      RunsFollowed, SweepConsistent, ArmPending, Silent, Exists
<1>7. SweepConsistent'
  BY <1>0, ScheduleTriggerAssumption DEF SweepConsistent, Silent, Exists
<1> QED
  BY <1>1, <1>2, <1>3, <1>4, <1>5, <1>6, <1>7 DEF IInv

\* The agent is enabled or disabled.
LEMMA SetAgentEnabledPreserves ==
    ASSUME IInv, SetAgentEnabled
    PROVE  IInv'
<1>0. TypeOK /\ ScheduleWakes /\ TickWakes /\ RunsFollowed
      /\ CallConsistent /\ AnswerFresh /\ SweepConsistent
  BY DEF IInv
<1> USE DEF SetAgentEnabled, clock, controlPlane, storage, callVars
<1>1. TypeOK'
  BY <1>0, ScheduleTriggerAssumption DEF TypeOK, Times, Arming
<1>2. ScheduleWakes'
  BY <1>0, ScheduleTriggerAssumption DEF ScheduleWakes, ArmPending, ArmServed,
      Arming, isTick
<1>3. TickWakes'
  BY <1>0, ScheduleTriggerAssumption DEF TickWakes
<1>4. RunsFollowed'
  BY <1>0, ScheduleTriggerAssumption DEF RunsFollowed
<1>5. CallConsistent'
  BY <1>0, ScheduleTriggerAssumption DEF CallConsistent, ArmServed, Arming
<1>6. AnswerFresh'
  BY <1>0, ScheduleTriggerAssumption DEF AnswerFresh, Arming, isTick
<1>7. SweepConsistent'
  BY <1>0, ScheduleTriggerAssumption DEF SweepConsistent, Silent, Exists
<1> QED
  BY <1>1, <1>2, <1>3, <1>4, <1>5, <1>6, <1>7 DEF IInv

\* arm writes META and asks.
LEMMA ArmBeginsPreserves ==
    ASSUME IInv, NEW w \in Armers, ArmBegins(w)
    PROVE  IInv'
<1>0. TypeOK /\ ScheduleWakes /\ TickWakes /\ RunsFollowed
      /\ CallConsistent /\ AnswerFresh /\ SweepConsistent
  BY DEF IInv
<1> USE DEF ArmBegins, Armers, clock, controlPlane, storage, callVars
<1>1. TypeOK'
  BY <1>0, ScheduleTriggerAssumption DEF TypeOK, Times, Arming
<1>2. ScheduleWakes'
  BY <1>0, ScheduleTriggerAssumption DEF ScheduleWakes, ArmPending, ArmServed,
      Arming, isTick
<1>3. TickWakes'
  BY <1>0, ScheduleTriggerAssumption DEF TickWakes
<1>4. RunsFollowed'
  BY <1>0, ScheduleTriggerAssumption DEF RunsFollowed
<1>5. CallConsistent'
  BY <1>0, ScheduleTriggerAssumption DEF CallConsistent, ArmServed, Arming
<1>6. AnswerFresh'
  BY <1>0, ScheduleTriggerAssumption DEF AnswerFresh, Arming, isTick, TypeOK,
      Times, CallConsistent, ArmServed, ScheduleWakes, TickWakes,
      RunsFollowed, SweepConsistent, ArmPending, Silent, Exists
<1>7. SweepConsistent'
  BY <1>0, ScheduleTriggerAssumption DEF SweepConsistent, Silent, Exists
<1> QED
  BY <1>1, <1>2, <1>3, <1>4, <1>5, <1>6, <1>7 DEF IInv

\* The ControlPlane's answer is of the schedule as last edited.
LEMMA ArmSchedulePreserves ==
    ASSUME IInv, ArmSchedule
    PROVE  IInv'
<1>0. TypeOK /\ ScheduleWakes /\ TickWakes /\ RunsFollowed
      /\ CallConsistent /\ AnswerFresh /\ SweepConsistent
  BY DEF IInv
<1> USE DEF ArmSchedule, ArmServed, NextKept, clock, controlPlane, storage,
      callVars
<1>n. trigger = "enabled" => next' \in Nat \ {0} /\ next' \in spec
  BY <1>0, NextTickIsTick DEF TypeOK, SweepConsistent, Exists
<1>1. TypeOK'
  BY <1>0, <1>n, ScheduleTriggerAssumption DEF TypeOK, Times, Arming,
      CallConsistent, ScheduleWakes, TickWakes, RunsFollowed, AnswerFresh,
      SweepConsistent, ArmPending, isTick, Silent, Exists
<1>2. ScheduleWakes'
  BY <1>0, <1>n, ScheduleTriggerAssumption DEF ScheduleWakes, ArmPending,
      Arming, isTick
<1>3. TickWakes'
  BY <1>0, <1>n, ScheduleTriggerAssumption DEF TickWakes
<1>4. RunsFollowed'
  BY <1>0, <1>n, ScheduleTriggerAssumption DEF RunsFollowed
<1>5. CallConsistent'
  BY <1>0, <1>n, ScheduleTriggerAssumption DEF CallConsistent, Arming
<1>6. AnswerFresh'
  BY <1>0, <1>n, ScheduleTriggerAssumption DEF AnswerFresh, Arming, isTick,
      TypeOK, Times, CallConsistent, ScheduleWakes, TickWakes, RunsFollowed,
      SweepConsistent, ArmPending, Silent, Exists
<1>7. SweepConsistent'
  BY <1>0, <1>n, ScheduleTriggerAssumption DEF SweepConsistent, Silent, Exists
<1> QED
  BY <1>1, <1>2, <1>3, <1>4, <1>5, <1>6, <1>7 DEF IInv

\* arm keeps the answered tick.
LEMMA ArmReturnsPreserves ==
    ASSUME IInv, ArmReturns
    PROVE  IInv'
<1>0. TypeOK /\ ScheduleWakes /\ TickWakes /\ RunsFollowed
      /\ CallConsistent /\ AnswerFresh /\ SweepConsistent
  BY DEF IInv
<1> USE DEF ArmReturns, ArmServed, Forget, Keep, Returns, Goes, LeavesRun,
      AfterFailedArm, clock, controlPlane, storage, callVars
<1>1. TypeOK'
  <2>1. now' \in Times /\ spec' \in Schedules \cup {{}} /\ trigger' \in {"none", "enabled", "disabled", "gone"}
    BY <1>0, ScheduleTriggerAssumption DEF TypeOK, CallConsistent, Arming, Times
  <2>2. phase' \in [Calls -> Arming \cup {"off", "undo", "sweep", "purge", "forget"}]
    BY <1>0, ScheduleTriggerAssumption DEF TypeOK, CallConsistent, Arming, Times
  <2>3. tick' \in Nat /\ alarm' \in Nat /\ next' \in Nat
    BY <1>0, ScheduleTriggerAssumption DEF TypeOK, CallConsistent, Arming, Times
  <2>4. runs' \in [Times -> {"none", "created", "started", "ended"}] /\ run' \in Times \cup {0}
    BY <1>0, ScheduleTriggerAssumption DEF TypeOK, CallConsistent, Arming, Times
  <2>5. orphans' \subseteq Times
    BY <1>0, ScheduleTriggerAssumption DEF TypeOK, CallConsistent, Arming, Times
  <2>6. strays' \subseteq {"arm", "purge"}
    BY <1>0, ScheduleTriggerAssumption DEF TypeOK, CallConsistent, Arming, Times
  <2>7. agentOn' \in BOOLEAN /\ listed' \in BOOLEAN /\ meta' \in BOOLEAN
    BY <1>0, ScheduleTriggerAssumption DEF TypeOK, CallConsistent, Arming, Times
  <2>8. created' \in BOOLEAN /\ told' \in BOOLEAN
    BY <1>0, ScheduleTriggerAssumption DEF TypeOK, CallConsistent, Arming, Times
  <2>9. serving' \in Calls \cup {"none", "stray", "alarm"} /\ step' \in {"idle", "asked", "answered", "start", "started", "abandon", "keep"}
    BY <1>0, ScheduleTriggerAssumption DEF TypeOK, CallConsistent, Arming, Times
  <2>10. answer' \in {"none", "gone", "early", "fired"}
    BY <1>0, ScheduleTriggerAssumption DEF TypeOK, CallConsistent, Arming, Times
  <2> QED
    BY <2>1, <2>2, <2>3, <2>4, <2>5, <2>6, <2>7, <2>8, <2>9, <2>10 DEF TypeOK
<1>2. ScheduleWakes'
  BY <1>0, ScheduleTriggerAssumption DEF ScheduleWakes, ArmPending, Arming,
      isTick, TypeOK, Times, CallConsistent, TickWakes, RunsFollowed,
      AnswerFresh, SweepConsistent, Silent, Exists
<1>3. TickWakes'
  BY <1>0, ScheduleTriggerAssumption DEF TickWakes
<1>4. RunsFollowed'
  BY <1>0, ScheduleTriggerAssumption DEF RunsFollowed
<1>5. CallConsistent'
  BY <1>0, ScheduleTriggerAssumption DEF CallConsistent, Arming, TypeOK, Times
<1>6. AnswerFresh'
  BY <1>0, ScheduleTriggerAssumption DEF AnswerFresh, Arming, isTick
<1>7. SweepConsistent'
  BY <1>0, ScheduleTriggerAssumption DEF SweepConsistent, Silent, Exists,
      TypeOK, Times, CallConsistent, Arming
<1> QED
  BY <1>1, <1>2, <1>3, <1>4, <1>5, <1>6, <1>7 DEF IInv

\* arm throws.
LEMMA ArmFailsPreserves ==
    ASSUME IInv, ArmFails
    PROVE  IInv'
<1>0. TypeOK /\ ScheduleWakes /\ TickWakes /\ RunsFollowed
      /\ CallConsistent /\ AnswerFresh /\ SweepConsistent
  BY DEF IInv
<1> USE DEF ArmFails, ArmServed, Returns, Goes, AfterFailedArm, clock,
      controlPlane, storage, callVars
<1>1. TypeOK'
  <2>1. now' \in Times /\ spec' \in Schedules \cup {{}} /\ trigger' \in {"none", "enabled", "disabled", "gone"}
    BY <1>0, ScheduleTriggerAssumption DEF TypeOK, CallConsistent, Arming, Times
  <2>2. phase' \in [Calls -> Arming \cup {"off", "undo", "sweep", "purge", "forget"}]
    BY <1>0, ScheduleTriggerAssumption DEF TypeOK, CallConsistent, Arming, Times
  <2>3. tick' \in Nat /\ alarm' \in Nat /\ next' \in Nat
    BY <1>0, ScheduleTriggerAssumption DEF TypeOK, CallConsistent, Arming, Times
  <2>4. runs' \in [Times -> {"none", "created", "started", "ended"}] /\ run' \in Times \cup {0}
    BY <1>0, ScheduleTriggerAssumption DEF TypeOK, CallConsistent, Arming, Times
  <2>5. orphans' \subseteq Times
    BY <1>0, ScheduleTriggerAssumption DEF TypeOK, CallConsistent, Arming, Times
  <2>6. strays' \subseteq {"arm", "purge"}
    BY <1>0, ScheduleTriggerAssumption DEF TypeOK, CallConsistent, Arming, Times
  <2>7. agentOn' \in BOOLEAN /\ listed' \in BOOLEAN /\ meta' \in BOOLEAN
    BY <1>0, ScheduleTriggerAssumption DEF TypeOK, CallConsistent, Arming, Times
  <2>8. created' \in BOOLEAN /\ told' \in BOOLEAN
    BY <1>0, ScheduleTriggerAssumption DEF TypeOK, CallConsistent, Arming, Times
  <2>9. serving' \in Calls \cup {"none", "stray", "alarm"} /\ step' \in {"idle", "asked", "answered", "start", "started", "abandon", "keep"}
    BY <1>0, ScheduleTriggerAssumption DEF TypeOK, CallConsistent, Arming, Times
  <2>10. answer' \in {"none", "gone", "early", "fired"}
    BY <1>0, ScheduleTriggerAssumption DEF TypeOK, CallConsistent, Arming, Times
  <2> QED
    BY <2>1, <2>2, <2>3, <2>4, <2>5, <2>6, <2>7, <2>8, <2>9, <2>10 DEF TypeOK
<1>2. ScheduleWakes'
  BY <1>0, ScheduleTriggerAssumption DEF ScheduleWakes, ArmPending, Arming,
      isTick
<1>3. TickWakes'
  BY <1>0, ScheduleTriggerAssumption DEF TickWakes
<1>4. RunsFollowed'
  BY <1>0, ScheduleTriggerAssumption DEF RunsFollowed
<1>5. CallConsistent'
  BY <1>0, ScheduleTriggerAssumption DEF CallConsistent, Arming
<1>6. AnswerFresh'
  BY <1>0, ScheduleTriggerAssumption DEF AnswerFresh, Arming, isTick
<1>7. SweepConsistent'
  BY <1>0, ScheduleTriggerAssumption DEF SweepConsistent, Silent, Exists,
      TypeOK, Times, CallConsistent, Arming
<1> QED
  BY <1>1, <1>2, <1>3, <1>4, <1>5, <1>6, <1>7 DEF IInv

\* purge empties the object.
LEMMA PurgePreserves ==
    ASSUME IInv, NEW w \in Calls \cup {"stray"}, Purge(w)
    PROVE  IInv'
<1>0. TypeOK /\ ScheduleWakes /\ TickWakes /\ RunsFollowed
      /\ CallConsistent /\ AnswerFresh /\ SweepConsistent
  BY DEF IInv
<1> USE DEF Purge, Forget, Goes, LeavesRun, clock, controlPlane, storage,
      callVars
<1>1. TypeOK'
  <2>1. now' \in Times /\ spec' \in Schedules \cup {{}} /\ trigger' \in {"none", "enabled", "disabled", "gone"}
    BY <1>0, ScheduleTriggerAssumption DEF TypeOK, CallConsistent, Arming, Times, ArmServed
  <2>2. phase' \in [Calls -> Arming \cup {"off", "undo", "sweep", "purge", "forget"}]
    BY <1>0, ScheduleTriggerAssumption DEF TypeOK, CallConsistent, Arming, Times, ArmServed
  <2>3. tick' \in Nat /\ alarm' \in Nat /\ next' \in Nat
    BY <1>0, ScheduleTriggerAssumption DEF TypeOK, CallConsistent, Arming, Times, ArmServed
  <2>4. runs' \in [Times -> {"none", "created", "started", "ended"}] /\ run' \in Times \cup {0}
    BY <1>0, ScheduleTriggerAssumption DEF TypeOK, CallConsistent, Arming, Times, ArmServed
  <2>5. orphans' \subseteq Times
    BY <1>0, ScheduleTriggerAssumption DEF TypeOK, CallConsistent, Arming, Times, ArmServed
  <2>6. strays' \subseteq {"arm", "purge"}
    BY <1>0 DEF TypeOK
  <2>7. agentOn' \in BOOLEAN /\ listed' \in BOOLEAN /\ meta' \in BOOLEAN
    BY <1>0, ScheduleTriggerAssumption DEF TypeOK, CallConsistent, Arming, Times, ArmServed
  <2>8. created' \in BOOLEAN /\ told' \in BOOLEAN
    BY <1>0, ScheduleTriggerAssumption DEF TypeOK, CallConsistent, Arming, Times, ArmServed
  <2>9. serving' \in Calls \cup {"none", "stray", "alarm"} /\ step' \in {"idle", "asked", "answered", "start", "started", "abandon", "keep"}
    BY <1>0, ScheduleTriggerAssumption DEF TypeOK, CallConsistent, Arming, Times, ArmServed
  <2>10. answer' \in {"none", "gone", "early", "fired"}
    BY <1>0, ScheduleTriggerAssumption DEF TypeOK, CallConsistent, Arming, Times, ArmServed
  <2> QED
    BY <2>1, <2>2, <2>3, <2>4, <2>5, <2>6, <2>7, <2>8, <2>9, <2>10 DEF TypeOK
<1>2. ScheduleWakes'
  BY <1>0, ScheduleTriggerAssumption DEF ScheduleWakes, ArmPending, ArmServed,
      Arming, isTick, TypeOK, Times, CallConsistent, TickWakes, RunsFollowed,
      AnswerFresh, SweepConsistent, Silent, Exists
<1>3. TickWakes'
  BY <1>0, ScheduleTriggerAssumption DEF TickWakes
<1>4. RunsFollowed'
  BY <1>0, ScheduleTriggerAssumption DEF RunsFollowed
<1>5. CallConsistent'
  BY <1>0, ScheduleTriggerAssumption DEF CallConsistent, ArmServed, Arming
<1>6. AnswerFresh'
  BY <1>0, ScheduleTriggerAssumption DEF AnswerFresh, Arming, isTick, TypeOK,
      Times, CallConsistent, ArmServed
<1>7. SweepConsistent'
  BY <1>0, ScheduleTriggerAssumption DEF SweepConsistent, Silent, Exists,
      TypeOK, Times, CallConsistent, Arming, ArmServed, ScheduleWakes,
      TickWakes, RunsFollowed, AnswerFresh, ArmPending, isTick
<1> QED
  BY <1>1, <1>2, <1>3, <1>4, <1>5, <1>6, <1>7 DEF IInv

\* The alarm handler begins.
LEMMA AlarmFiresPreserves ==
    ASSUME IInv, AlarmFires
    PROVE  IInv'
<1>0. TypeOK /\ ScheduleWakes /\ TickWakes /\ RunsFollowed
      /\ CallConsistent /\ AnswerFresh /\ SweepConsistent
  BY DEF IInv
<1> USE DEF AlarmFires, clock, controlPlane, storage, callVars
<1>1. TypeOK'
  BY <1>0, ScheduleTriggerAssumption DEF TypeOK, Times, Arming
<1>2. ScheduleWakes'
  BY <1>0, ScheduleTriggerAssumption DEF ScheduleWakes, ArmPending, ArmServed,
      Arming, isTick, TypeOK, Times, CallConsistent, TickWakes, RunsFollowed,
      AnswerFresh, SweepConsistent, Silent, Exists
<1>3. TickWakes'
  BY <1>0, ScheduleTriggerAssumption DEF TickWakes, TypeOK, Times,
      CallConsistent, Arming, ArmServed, ScheduleWakes, RunsFollowed,
      AnswerFresh, SweepConsistent, ArmPending, isTick, Silent, Exists
<1>4. RunsFollowed'
  BY <1>0, ScheduleTriggerAssumption DEF RunsFollowed, TypeOK, Times,
      CallConsistent, Arming, ArmServed, ScheduleWakes, TickWakes,
      AnswerFresh, SweepConsistent, ArmPending, isTick, Silent, Exists
<1>5. CallConsistent'
  BY <1>0, ScheduleTriggerAssumption DEF CallConsistent, ArmServed, Arming
<1>6. AnswerFresh'
  BY <1>0, ScheduleTriggerAssumption DEF AnswerFresh, Arming, isTick
<1>7. SweepConsistent'
  BY <1>0, ScheduleTriggerAssumption DEF SweepConsistent, Silent, Exists
<1> QED
  BY <1>1, <1>2, <1>3, <1>4, <1>5, <1>6, <1>7 DEF IInv

\* The ControlPlane fires the tick.
LEMMA FireSchedulePreserves ==
    ASSUME IInv, FireSchedule
    PROVE  IInv'
<1>0. TypeOK /\ ScheduleWakes /\ TickWakes /\ RunsFollowed
      /\ CallConsistent /\ AnswerFresh /\ SweepConsistent
  BY DEF IInv
<1> USE DEF FireSchedule, NextKept, Exists, clock, controlPlane, storage,
      callVars
<1>n. trigger = "enabled" => next' \in Nat \ {0} /\ next' \in spec
  BY <1>0, NextTickIsTick DEF TypeOK, SweepConsistent, Exists
<1>1. TypeOK'
  <2>1. now' \in Times /\ spec' \in Schedules \cup {{}} /\ trigger' \in {"none", "enabled", "disabled", "gone"}
    BY <1>0, <1>n, ScheduleTriggerAssumption DEF TypeOK, CallConsistent, Arming, Times, ArmServed
  <2>2. phase' \in [Calls -> Arming \cup {"off", "undo", "sweep", "purge", "forget"}]
    BY <1>0, <1>n, ScheduleTriggerAssumption DEF TypeOK, CallConsistent, Arming, Times, ArmServed
  <2>3. tick' \in Nat /\ alarm' \in Nat /\ next' \in Nat
    BY <1>0, <1>n, ScheduleTriggerAssumption DEF TypeOK, CallConsistent, Arming, Times, ArmServed
  <2>a. run' \in Times \cup {0}
    BY <1>0, ScheduleTriggerAssumption DEF TypeOK, CallConsistent, Times
  <2>b. created' => run' = tick /\ run' # 0
    BY <1>0, ZenonT(30) DEF TypeOK, CallConsistent
  <2>c. created' => runs' \in [Times -> {"none", "created", "started", "ended"}]
    BY <2>a, <2>b, <1>0 DEF TypeOK, Times
  <2>d. ~created' => runs' \in [Times -> {"none", "created", "started", "ended"}]
    BY <1>0 DEF TypeOK
  <2>4. runs' \in [Times -> {"none", "created", "started", "ended"}] /\ run' \in Times \cup {0}
    BY <2>a, <2>c, <2>d
  <2>5. orphans' \subseteq Times
    BY <1>0, <1>n, ScheduleTriggerAssumption DEF TypeOK, CallConsistent, Arming, Times, ArmServed
  <2>6. strays' \subseteq {"arm", "purge"}
    BY <1>0, <1>n, ScheduleTriggerAssumption DEF TypeOK, CallConsistent, Arming, Times, ArmServed
  <2>7. agentOn' \in BOOLEAN /\ listed' \in BOOLEAN /\ meta' \in BOOLEAN
    BY <1>0, <1>n, ScheduleTriggerAssumption DEF TypeOK, CallConsistent, Arming, Times, ArmServed
  <2>8. created' \in BOOLEAN /\ told' \in BOOLEAN
    BY <1>0, <1>n, ScheduleTriggerAssumption DEF TypeOK, CallConsistent, Arming, Times, ArmServed
  <2>9. serving' \in Calls \cup {"none", "stray", "alarm"} /\ step' \in {"idle", "asked", "answered", "start", "started", "abandon", "keep"}
    BY <1>0, <1>n, ScheduleTriggerAssumption DEF TypeOK, CallConsistent, Arming, Times, ArmServed
  <2>10. answer' \in {"none", "gone", "early", "fired"}
    BY <1>0, <1>n, ScheduleTriggerAssumption DEF TypeOK, CallConsistent, Arming, Times, ArmServed
  <2> QED
    BY <2>1, <2>2, <2>3, <2>4, <2>5, <2>6, <2>7, <2>8, <2>9, <2>10 DEF TypeOK
<1>2. ScheduleWakes'
  BY <1>0, <1>n, ScheduleTriggerAssumption DEF ScheduleWakes, ArmPending,
      ArmServed, Arming, isTick
<1>3. TickWakes'
  BY <1>0, <1>n, ScheduleTriggerAssumption DEF TickWakes
<1>4. RunsFollowed'
  BY <1>0, <1>n, ScheduleTriggerAssumption DEF RunsFollowed
<1>5. CallConsistent'
  BY <1>0, <1>n, ScheduleTriggerAssumption DEF CallConsistent, ArmServed,
      Arming, TypeOK, Times
<1>6. AnswerFresh'
  BY <1>0, <1>n, ScheduleTriggerAssumption DEF AnswerFresh, Arming, isTick
<1>7. SweepConsistent'
  BY <1>0, <1>n, ScheduleTriggerAssumption DEF SweepConsistent, Silent
<1> QED
  BY <1>1, <1>2, <1>3, <1>4, <1>5, <1>6, <1>7 DEF IInv

\* The same tick is asked for later.
LEMMA FireFailsPreserves ==
    ASSUME IInv, FireFails
    PROVE  IInv'
<1>0. TypeOK /\ ScheduleWakes /\ TickWakes /\ RunsFollowed
      /\ CallConsistent /\ AnswerFresh /\ SweepConsistent
  BY DEF IInv
<1> USE DEF FireFails, Returns, clock, controlPlane, storage, callVars
<1>1. TypeOK'
  <2>1. now' \in Times /\ spec' \in Schedules \cup {{}} /\ trigger' \in {"none", "enabled", "disabled", "gone"}
    BY <1>0, ScheduleTriggerAssumption DEF TypeOK, CallConsistent, Arming, Times, ArmServed
  <2>2. phase' \in [Calls -> Arming \cup {"off", "undo", "sweep", "purge", "forget"}]
    BY <1>0, ScheduleTriggerAssumption DEF TypeOK, CallConsistent, Arming, Times, ArmServed
  <2>3. tick' \in Nat /\ alarm' \in Nat /\ next' \in Nat
    BY <1>0, ScheduleTriggerAssumption DEF TypeOK, CallConsistent, Arming, Times, ArmServed
  <2>4. runs' \in [Times -> {"none", "created", "started", "ended"}] /\ run' \in Times \cup {0}
    BY <1>0, ScheduleTriggerAssumption DEF TypeOK, CallConsistent, Arming, Times, ArmServed
  <2>5. orphans' \subseteq Times
    BY <1>0, ScheduleTriggerAssumption DEF TypeOK, CallConsistent, Arming, Times, ArmServed
  <2>6. strays' \subseteq {"arm", "purge"}
    BY <1>0, ScheduleTriggerAssumption DEF TypeOK, CallConsistent, Arming, Times, ArmServed
  <2>7. agentOn' \in BOOLEAN /\ listed' \in BOOLEAN /\ meta' \in BOOLEAN
    BY <1>0, ScheduleTriggerAssumption DEF TypeOK, CallConsistent, Arming, Times, ArmServed
  <2>8. created' \in BOOLEAN /\ told' \in BOOLEAN
    BY <1>0, ScheduleTriggerAssumption DEF TypeOK, CallConsistent, Arming, Times, ArmServed
  <2>9. serving' \in Calls \cup {"none", "stray", "alarm"} /\ step' \in {"idle", "asked", "answered", "start", "started", "abandon", "keep"}
    BY <1>0, ScheduleTriggerAssumption DEF TypeOK, CallConsistent, Arming, Times, ArmServed
  <2>10. answer' \in {"none", "gone", "early", "fired"}
    BY <1>0, ScheduleTriggerAssumption DEF TypeOK, CallConsistent, Arming, Times, ArmServed
  <2> QED
    BY <2>1, <2>2, <2>3, <2>4, <2>5, <2>6, <2>7, <2>8, <2>9, <2>10 DEF TypeOK
<1>2. ScheduleWakes'
  BY <1>0, ScheduleTriggerAssumption DEF ScheduleWakes, ArmPending, ArmServed,
      Arming, isTick, TypeOK, Times, CallConsistent
<1>3. TickWakes'
  BY <1>0, ScheduleTriggerAssumption DEF TickWakes, TypeOK, Times,
      CallConsistent, Arming, ArmServed
<1>4. RunsFollowed'
  BY <1>0, ScheduleTriggerAssumption DEF RunsFollowed, TypeOK, Times,
      CallConsistent, Arming, ArmServed
<1>5. CallConsistent'
  BY <1>0, ScheduleTriggerAssumption DEF CallConsistent, ArmServed, Arming
<1>6. AnswerFresh'
  BY <1>0, ScheduleTriggerAssumption DEF AnswerFresh, Arming, isTick
<1>7. SweepConsistent'
  BY <1>0, ScheduleTriggerAssumption DEF SweepConsistent, Silent, Exists,
      TypeOK, Times, CallConsistent, Arming, ArmServed
<1> QED
  BY <1>1, <1>2, <1>3, <1>4, <1>5, <1>6, <1>7 DEF IInv

\* gone, early or fired without a run.
LEMMA AlarmReturnsPreserves ==
    ASSUME IInv, AlarmReturns
    PROVE  IInv'
<1>0. TypeOK /\ ScheduleWakes /\ TickWakes /\ RunsFollowed
      /\ CallConsistent /\ AnswerFresh /\ SweepConsistent
  BY DEF IInv
<1> USE DEF AlarmReturns, Forget, Keep, Returns, LeavesRun, clock,
      controlPlane, storage, callVars
<1>1. TypeOK'
  <2>1. now' \in Times /\ spec' \in Schedules \cup {{}} /\ trigger' \in {"none", "enabled", "disabled", "gone"}
    BY <1>0, ScheduleTriggerAssumption DEF TypeOK, CallConsistent, Arming, Times, ArmServed
  <2>2. phase' \in [Calls -> Arming \cup {"off", "undo", "sweep", "purge", "forget"}]
    BY <1>0, ScheduleTriggerAssumption DEF TypeOK, CallConsistent, Arming, Times, ArmServed
  <2>3. tick' \in Nat /\ alarm' \in Nat /\ next' \in Nat
    <3>1. CASE answer = "gone"
      BY <3>1, <1>0, ScheduleTriggerAssumption DEF TypeOK, CallConsistent, Times
    <3>2. CASE answer = "fired"
      BY <3>2, <1>0, ScheduleTriggerAssumption DEF TypeOK, CallConsistent, Times
    <3>3. CASE answer = "early"
      BY <3>3, <1>0, ScheduleTriggerAssumption DEF TypeOK, CallConsistent, Times
    <3> QED
      BY <3>1, <3>2, <3>3, <1>0 DEF TypeOK, CallConsistent
  <2>4. runs' \in [Times -> {"none", "created", "started", "ended"}] /\ run' \in Times \cup {0}
    BY <1>0, ScheduleTriggerAssumption DEF TypeOK, CallConsistent, Arming, Times, ArmServed
  <2>5. orphans' \subseteq Times
    <3>1. orphans' \in {orphans, orphans \cup {tick}}
      OBVIOUS
    <3>2. orphans' # orphans => tick \in Times
      OBVIOUS
    <3> QED
      BY <3>1, <3>2, <1>0 DEF TypeOK
  <2>6. strays' \subseteq {"arm", "purge"}
    BY <1>0, ScheduleTriggerAssumption DEF TypeOK, CallConsistent, Arming, Times, ArmServed
  <2>7. agentOn' \in BOOLEAN /\ listed' \in BOOLEAN /\ meta' \in BOOLEAN
    BY <1>0, ScheduleTriggerAssumption DEF TypeOK, CallConsistent, Arming, Times, ArmServed
  <2>8. created' \in BOOLEAN /\ told' \in BOOLEAN
    BY <1>0, ScheduleTriggerAssumption DEF TypeOK, CallConsistent, Arming, Times, ArmServed
  <2>9. serving' \in Calls \cup {"none", "stray", "alarm"} /\ step' \in {"idle", "asked", "answered", "start", "started", "abandon", "keep"}
    BY <1>0, ScheduleTriggerAssumption DEF TypeOK, CallConsistent, Arming, Times, ArmServed
  <2>10. answer' \in {"none", "gone", "early", "fired"}
    BY <1>0, ScheduleTriggerAssumption DEF TypeOK, CallConsistent, Arming, Times, ArmServed
  <2> QED
    BY <2>1, <2>2, <2>3, <2>4, <2>5, <2>6, <2>7, <2>8, <2>9, <2>10 DEF TypeOK
<1>2. ScheduleWakes'
  <2>1. CASE answer = "gone"
    BY <2>1, <1>0, ScheduleTriggerAssumption DEF ScheduleWakes, ArmPending, ArmServed, Arming, isTick, AnswerFresh, TypeOK, CallConsistent, Times
  <2>2. CASE answer = "fired"
    BY <2>2, <1>0, ScheduleTriggerAssumption DEF ScheduleWakes, ArmPending, ArmServed, Arming, isTick, AnswerFresh, TypeOK, CallConsistent, Times
  <2>3. CASE answer = "early"
    BY <2>3, <1>0, ScheduleTriggerAssumption DEF ScheduleWakes, ArmPending, ArmServed, Arming, isTick, AnswerFresh, TypeOK, CallConsistent, Times
  <2> QED
    BY <2>1, <2>2, <2>3, <1>0 DEF TypeOK, CallConsistent
<1>3. TickWakes'
  <2>1. CASE answer = "gone"
    BY <2>1, <1>0, ScheduleTriggerAssumption DEF TickWakes, TypeOK, CallConsistent, Times
  <2>2. CASE answer = "fired"
    BY <2>2, <1>0, ScheduleTriggerAssumption DEF TickWakes, TypeOK, CallConsistent, Times
  <2>3. CASE answer = "early"
    BY <2>3, <1>0, ScheduleTriggerAssumption DEF TickWakes, TypeOK, CallConsistent, Times
  <2> QED
    BY <2>1, <2>2, <2>3, <1>0 DEF TypeOK, CallConsistent
<1>4. RunsFollowed'
  <2>1. CASE answer = "gone"
    BY <2>1, <1>0, ScheduleTriggerAssumption DEF RunsFollowed, TypeOK, CallConsistent, Times
  <2>2. CASE answer = "fired"
    BY <2>2, <1>0, ScheduleTriggerAssumption DEF RunsFollowed, TypeOK, CallConsistent, Times
  <2>3. CASE answer = "early"
    BY <2>3, <1>0, ScheduleTriggerAssumption DEF RunsFollowed, TypeOK, CallConsistent, Times
  <2> QED
    BY <2>1, <2>2, <2>3, <1>0 DEF TypeOK, CallConsistent
<1>5. CallConsistent'
  BY <1>0, ScheduleTriggerAssumption DEF CallConsistent, ArmServed, Arming
<1>6. AnswerFresh'
  BY <1>0, ScheduleTriggerAssumption DEF AnswerFresh, Arming, isTick
<1>7. SweepConsistent'
  BY <1>0, ScheduleTriggerAssumption DEF SweepConsistent, Silent, Exists,
      TypeOK, Times, CallConsistent, Arming, ArmServed
<1> QED
  BY <1>1, <1>2, <1>3, <1>4, <1>5, <1>6, <1>7 DEF IInv

\* The handler goes on to start the run.
LEMMA AlarmStartsPreserves ==
    ASSUME IInv, AlarmStarts
    PROVE  IInv'
<1>0. TypeOK /\ ScheduleWakes /\ TickWakes /\ RunsFollowed
      /\ CallConsistent /\ AnswerFresh /\ SweepConsistent
  BY DEF IInv
<1> USE DEF AlarmStarts, clock, controlPlane, storage, callVars
<1>1. TypeOK'
  BY <1>0, ScheduleTriggerAssumption DEF TypeOK, Times, Arming
<1>2. ScheduleWakes'
  BY <1>0, ScheduleTriggerAssumption DEF ScheduleWakes, ArmPending, ArmServed,
      Arming, isTick
<1>3. TickWakes'
  BY <1>0, ScheduleTriggerAssumption DEF TickWakes
<1>4. RunsFollowed'
  BY <1>0, ScheduleTriggerAssumption DEF RunsFollowed
<1>5. CallConsistent'
  BY <1>0, ScheduleTriggerAssumption DEF CallConsistent, ArmServed, Arming
<1>6. AnswerFresh'
  BY <1>0, ScheduleTriggerAssumption DEF AnswerFresh, Arming, isTick
<1>7. SweepConsistent'
  BY <1>0, ScheduleTriggerAssumption DEF SweepConsistent, Silent, Exists
<1> QED
  BY <1>1, <1>2, <1>3, <1>4, <1>5, <1>6, <1>7 DEF IInv

\* The run's object answers the start.
LEMMA RunTakesPreserves ==
    ASSUME IInv, RunTakes
    PROVE  IInv'
<1>0. TypeOK /\ ScheduleWakes /\ TickWakes /\ RunsFollowed
      /\ CallConsistent /\ AnswerFresh /\ SweepConsistent
  BY DEF IInv
<1> USE DEF RunTakes, LeavesThisRun, clock, controlPlane, storage, callVars
<1>1. TypeOK'
  BY <1>0, ScheduleTriggerAssumption DEF TypeOK, Times, Arming,
      CallConsistent, ArmServed
<1>2. ScheduleWakes'
  BY <1>0, ScheduleTriggerAssumption DEF ScheduleWakes, ArmPending, ArmServed,
      Arming, isTick
<1>3. TickWakes'
  BY <1>0, ScheduleTriggerAssumption DEF TickWakes
<1>4. RunsFollowed'
  BY <1>0, ScheduleTriggerAssumption DEF RunsFollowed, TypeOK, Times,
      CallConsistent, Arming, ArmServed
<1>5. CallConsistent'
  BY <1>0, ScheduleTriggerAssumption DEF CallConsistent, ArmServed, Arming,
      TypeOK, Times
<1>6. AnswerFresh'
  BY <1>0, ScheduleTriggerAssumption DEF AnswerFresh, Arming, isTick
<1>7. SweepConsistent'
  BY <1>0, ScheduleTriggerAssumption DEF SweepConsistent, Silent, Exists
<1> QED
  BY <1>1, <1>2, <1>3, <1>4, <1>5, <1>6, <1>7 DEF IInv

\* The start throws.
LEMMA StartFailsPreserves ==
    ASSUME IInv, StartFails
    PROVE  IInv'
<1>0. TypeOK /\ ScheduleWakes /\ TickWakes /\ RunsFollowed
      /\ CallConsistent /\ AnswerFresh /\ SweepConsistent
  BY DEF IInv
<1> USE DEF StartFails, clock, controlPlane, storage, callVars
<1>1. TypeOK'
  BY <1>0, ScheduleTriggerAssumption DEF TypeOK, Times, Arming,
      CallConsistent, ArmServed
<1>2. ScheduleWakes'
  BY <1>0, ScheduleTriggerAssumption DEF ScheduleWakes, ArmPending, ArmServed,
      Arming, isTick
<1>3. TickWakes'
  BY <1>0, ScheduleTriggerAssumption DEF TickWakes
<1>4. RunsFollowed'
  BY <1>0, ScheduleTriggerAssumption DEF RunsFollowed
<1>5. CallConsistent'
  BY <1>0, ScheduleTriggerAssumption DEF CallConsistent, ArmServed, Arming
<1>6. AnswerFresh'
  BY <1>0, ScheduleTriggerAssumption DEF AnswerFresh, Arming, isTick
<1>7. SweepConsistent'
  BY <1>0, ScheduleTriggerAssumption DEF SweepConsistent, Silent, Exists
<1> QED
  BY <1>1, <1>2, <1>3, <1>4, <1>5, <1>6, <1>7 DEF IInv

\* The run is ended.
LEMMA AbandonPreserves ==
    ASSUME IInv, Abandon
    PROVE  IInv'
<1>0. TypeOK /\ ScheduleWakes /\ TickWakes /\ RunsFollowed
      /\ CallConsistent /\ AnswerFresh /\ SweepConsistent
  BY DEF IInv
<1> USE DEF Abandon, LeavesThisRun, clock, controlPlane, storage, callVars
<1>1. TypeOK'
  BY <1>0, ScheduleTriggerAssumption DEF TypeOK, Times, Arming,
      CallConsistent, ArmServed
<1>2. ScheduleWakes'
  BY <1>0, ScheduleTriggerAssumption DEF ScheduleWakes, ArmPending, ArmServed,
      Arming, isTick
<1>3. TickWakes'
  BY <1>0, ScheduleTriggerAssumption DEF TickWakes
<1>4. RunsFollowed'
  BY <1>0, ScheduleTriggerAssumption DEF RunsFollowed, TypeOK, Times,
      CallConsistent, Arming, ArmServed
<1>5. CallConsistent'
  BY <1>0, ScheduleTriggerAssumption DEF CallConsistent, ArmServed, Arming,
      TypeOK, Times
<1>6. AnswerFresh'
  BY <1>0, ScheduleTriggerAssumption DEF AnswerFresh, Arming, isTick
<1>7. SweepConsistent'
  BY <1>0, ScheduleTriggerAssumption DEF SweepConsistent, Silent, Exists
<1> QED
  BY <1>1, <1>2, <1>3, <1>4, <1>5, <1>6, <1>7 DEF IInv

\* The handler keeps the next tick.
LEMMA AlarmKeepsPreserves ==
    ASSUME IInv, AlarmKeeps
    PROVE  IInv'
<1>0. TypeOK /\ ScheduleWakes /\ TickWakes /\ RunsFollowed
      /\ CallConsistent /\ AnswerFresh /\ SweepConsistent
  BY DEF IInv
<1> USE DEF AlarmKeeps, Keep, Returns, clock, controlPlane, storage, callVars
<1>1. TypeOK'
  BY <1>0, ScheduleTriggerAssumption DEF TypeOK, Times, Arming,
      CallConsistent, ArmServed, ScheduleWakes, TickWakes, RunsFollowed,
      AnswerFresh, SweepConsistent, ArmPending, isTick, Silent, Exists
<1>2. ScheduleWakes'
  BY <1>0, ScheduleTriggerAssumption DEF ScheduleWakes, ArmPending, ArmServed,
      Arming, isTick, TypeOK, Times, CallConsistent, TickWakes, RunsFollowed,
      AnswerFresh, SweepConsistent, Silent, Exists
<1>3. TickWakes'
  BY <1>0, ScheduleTriggerAssumption DEF TickWakes
<1>4. RunsFollowed'
  BY <1>0, ScheduleTriggerAssumption DEF RunsFollowed, TypeOK, Times,
      CallConsistent, Arming, ArmServed
<1>5. CallConsistent'
  BY <1>0, ScheduleTriggerAssumption DEF CallConsistent, ArmServed, Arming
<1>6. AnswerFresh'
  BY <1>0, ScheduleTriggerAssumption DEF AnswerFresh, Arming, isTick
<1>7. SweepConsistent'
  BY <1>0, ScheduleTriggerAssumption DEF SweepConsistent, Silent, Exists,
      TypeOK, Times, CallConsistent, Arming, ArmServed
<1> QED
  BY <1>1, <1>2, <1>3, <1>4, <1>5, <1>6, <1>7 DEF IInv

\* An eviction: the alarm handler runs again, an arm fails.
LEMMA EvictPreserves ==
    ASSUME IInv, Evict
    PROVE  IInv'
<1>0. TypeOK /\ ScheduleWakes /\ TickWakes /\ RunsFollowed
      /\ CallConsistent /\ AnswerFresh /\ SweepConsistent
  BY DEF IInv
<1> USE DEF Evict, Returns, Goes, AfterFailedArm, clock, controlPlane,
      storage, callVars
<1>1. TypeOK'
  <2>1. now' \in Times /\ spec' \in Schedules \cup {{}} /\ trigger' \in {"none", "enabled", "disabled", "gone"}
    BY <1>0, ScheduleTriggerAssumption DEF TypeOK, CallConsistent, Arming, Times, ArmServed
  <2>2. phase' \in [Calls -> Arming \cup {"off", "undo", "sweep", "purge", "forget"}]
    BY <1>0, ScheduleTriggerAssumption DEF TypeOK, CallConsistent, Arming, Times, ArmServed
  <2>3. tick' \in Nat /\ alarm' \in Nat /\ next' \in Nat
    BY <1>0, ScheduleTriggerAssumption DEF TypeOK, CallConsistent, Arming, Times, ArmServed
  <2>4. runs' \in [Times -> {"none", "created", "started", "ended"}] /\ run' \in Times \cup {0}
    BY <1>0, ScheduleTriggerAssumption DEF TypeOK, CallConsistent, Arming, Times, ArmServed
  <2>5. orphans' \subseteq Times
    BY <1>0, ScheduleTriggerAssumption DEF TypeOK, CallConsistent, Arming, Times, ArmServed
  <2>6. strays' \subseteq {"arm", "purge"}
    BY <1>0, ScheduleTriggerAssumption DEF TypeOK, CallConsistent, Arming, Times, ArmServed
  <2>7. agentOn' \in BOOLEAN /\ listed' \in BOOLEAN /\ meta' \in BOOLEAN
    BY <1>0, ScheduleTriggerAssumption DEF TypeOK, CallConsistent, Arming, Times, ArmServed
  <2>8. created' \in BOOLEAN /\ told' \in BOOLEAN
    BY <1>0, ScheduleTriggerAssumption DEF TypeOK, CallConsistent, Arming, Times, ArmServed
  <2>9. serving' \in Calls \cup {"none", "stray", "alarm"} /\ step' \in {"idle", "asked", "answered", "start", "started", "abandon", "keep"}
    BY <1>0, ScheduleTriggerAssumption DEF TypeOK, CallConsistent, Arming, Times, ArmServed
  <2>10. answer' \in {"none", "gone", "early", "fired"}
    BY <1>0, ScheduleTriggerAssumption DEF TypeOK, CallConsistent, Arming, Times, ArmServed
  <2> QED
    BY <2>1, <2>2, <2>3, <2>4, <2>5, <2>6, <2>7, <2>8, <2>9, <2>10 DEF TypeOK
<1>2. ScheduleWakes'
  <2>1. CASE serving = "alarm"
    BY <2>1, <1>0, ScheduleTriggerAssumption
    DEF ScheduleWakes, ArmPending, ArmServed, Arming, isTick, TypeOK, Times
  <2>2. CASE serving # "alarm"
    BY <2>2, <1>0 DEF ScheduleWakes, ArmPending, TypeOK
  <2> QED
    BY <2>1, <2>2
<1>3. TickWakes'
  BY <1>0, ScheduleTriggerAssumption DEF TickWakes, TypeOK, Times,
      CallConsistent, Arming, ArmServed
<1>4. RunsFollowed'
  BY <1>0, ScheduleTriggerAssumption DEF RunsFollowed, TypeOK, Times,
      CallConsistent, Arming, ArmServed
<1>5. CallConsistent'
  BY <1>0, ScheduleTriggerAssumption DEF CallConsistent, ArmServed, Arming
<1>6. AnswerFresh'
  BY <1>0, ScheduleTriggerAssumption DEF AnswerFresh, Arming, isTick
<1>7. SweepConsistent'
  BY <1>0, ScheduleTriggerAssumption DEF SweepConsistent, Silent, Exists,
      TypeOK, Times, CallConsistent, Arming, ArmServed
<1> QED
  BY <1>1, <1>2, <1>3, <1>4, <1>5, <1>6, <1>7 DEF IInv

\* Time.
LEMMA TimePassesPreserves ==
    ASSUME IInv, TimePasses
    PROVE  IInv'
<1>0. TypeOK /\ ScheduleWakes /\ TickWakes /\ RunsFollowed
      /\ CallConsistent /\ AnswerFresh /\ SweepConsistent
  BY DEF IInv
<1> USE DEF TimePasses, clock, controlPlane, storage, callVars
<1>1. TypeOK'
  BY <1>0, ScheduleTriggerAssumption DEF TypeOK, Times, Arming
<1>2. ScheduleWakes'
  BY <1>0, ScheduleTriggerAssumption DEF ScheduleWakes, ArmPending, ArmServed,
      Arming, isTick
<1>3. TickWakes'
  BY <1>0, ScheduleTriggerAssumption DEF TickWakes
<1>4. RunsFollowed'
  BY <1>0, ScheduleTriggerAssumption DEF RunsFollowed
<1>5. CallConsistent'
  BY <1>0, ScheduleTriggerAssumption DEF CallConsistent, ArmServed, Arming
<1>6. AnswerFresh'
  BY <1>0, ScheduleTriggerAssumption DEF AnswerFresh, Arming, isTick
<1>7. SweepConsistent'
  BY <1>0, ScheduleTriggerAssumption DEF SweepConsistent, Silent, Exists
<1> QED
  BY <1>1, <1>2, <1>3, <1>4, <1>5, <1>6, <1>7 DEF IInv

-----------------------------------------------------------------------------
(* The invariant holds in every reachable state                             *)

\* Init establishes IInv.
LEMMA InitIInv == Init => IInv
<1> SUFFICES ASSUME Init PROVE IInv
  OBVIOUS
<1>1. TypeOK
  <2>1. now \in Times
    BY ScheduleTriggerAssumption DEF Init, Times
  <2>2. /\ runs \in [Times -> {"none", "created", "started", "ended"}]
        /\ phase \in [Calls -> Arming \cup {"off", "undo", "sweep", "purge", "forget"}]
    BY DEF Init
  <2> QED
    BY <2>1, <2>2 DEF Init, TypeOK
<1>2. ScheduleWakes /\ TickWakes /\ RunsFollowed
  BY DEF Init, ScheduleWakes, TickWakes, RunsFollowed
<1>3. CallConsistent
  BY ScheduleTriggerAssumption DEF Init, CallConsistent, ArmServed
<1>4. AnswerFresh /\ SweepConsistent
  BY DEF Init, AnswerFresh, SweepConsistent, Silent, Exists
<1> QED
  BY <1>1, <1>2, <1>3, <1>4 DEF IInv

\* A step that changes nothing changes no part of IInv.
LEMMA StutterPreserves ==
    ASSUME IInv, UNCHANGED vars
    PROVE  IInv'
<1> USE DEF vars, clock, controlPlane, storage, callVars
<1>1. TypeOK'
  BY DEF IInv, TypeOK
<1>2. ScheduleWakes' /\ TickWakes' /\ RunsFollowed'
  BY DEF IInv, ScheduleWakes, ArmPending, ArmServed, isTick, TickWakes, RunsFollowed
<1>3. CallConsistent' /\ AnswerFresh'
  BY DEF IInv, CallConsistent, ArmServed, AnswerFresh, isTick
<1>4. SweepConsistent'
  BY DEF IInv, SweepConsistent, Silent, Exists
<1> QED
  BY <1>1, <1>2, <1>3, <1>4 DEF IInv

\* Every step preserves IInv.
LEMMA NextPreserves == IInv /\ [Next]_vars => IInv'
<1> SUFFICES ASSUME IInv, [Next]_vars PROVE IInv'
  OBVIOUS
<1>1. CASE UNCHANGED vars
  BY <1>1, StutterPreserves
<1>2. ASSUME NEW c \in Calls,
             \/ Create(c) \/ Edit(c) \/ Remove(c) \/ Undo(c)
             \/ SweepBegins(c) \/ SweepLists(c) \/ SweepForgets(c) \/ CallFails(c)
      PROVE  IInv'
  BY <1>2, CreatePreserves, EditPreserves, RemovePreserves, UndoPreserves,
     SweepBeginsPreserves, SweepListsPreserves, SweepForgetsPreserves,
     CallFailsPreserves
<1>3. ASSUME NEW w \in Armers, ArmBegins(w) PROVE IInv'
  BY <1>3, ArmBeginsPreserves
<1>4. ASSUME NEW w \in Calls \cup {"stray"}, Purge(w) PROVE IInv'
  BY <1>4, PurgePreserves
<1>5. CASE SetAgentEnabled \/ ArmSchedule \/ ArmReturns \/ ArmFails
  BY <1>5, SetAgentEnabledPreserves, ArmSchedulePreserves, ArmReturnsPreserves,
     ArmFailsPreserves
<1>6. CASE AlarmFires \/ FireSchedule \/ FireFails \/ AlarmReturns \/ AlarmStarts
  BY <1>6, AlarmFiresPreserves, FireSchedulePreserves, FireFailsPreserves,
     AlarmReturnsPreserves, AlarmStartsPreserves
<1>7. CASE RunTakes \/ StartFails \/ Abandon \/ AlarmKeeps \/ Evict \/ TimePasses
  BY <1>7, RunTakesPreserves, StartFailsPreserves, AbandonPreserves,
     AlarmKeepsPreserves, EvictPreserves, TimePassesPreserves
<1> QED
  BY <1>1, <1>2, <1>3, <1>4, <1>5, <1>6, <1>7 DEF Next

LEMMA AlwaysIInv == Spec => []IInv
<1> QED
  BY InitIInv, NextPreserves, PTL DEF Spec

\* Every reachable state is well typed.
THEOREM TypeCorrect == Spec => []TypeOK
<1>1. IInv => TypeOK
  BY DEF IInv
<1> QED
  BY <1>1, AlwaysIInv, PTL

\* An enabled schedule whose last arm succeeded always waits for a tick of its
\* own, as last edited, or fires it: for any schedules, any number of management
\* calls under way, and any order of edits, alarms, retries and evictions.
THEOREM EnabledSchedulesWake == Spec => []ScheduleWakes
<1>1. IInv => ScheduleWakes
  BY DEF IInv
<1> QED
  BY <1>1, AlwaysIInv, PTL

\* An object that holds a tick wakes for it, so that of a schedule that is gone
\* finds it out without a sweep.
THEOREM HeldTicksWake == Spec => []TickWakes
<1>1. IInv => TickWakes
  BY DEF IInv
<1> QED
  BY <1>1, AlwaysIInv, PTL

\* The object a sweep forgot holds no tick and no alarm, whatever arms and purges
\* reach it late.
THEOREM ForgottenObjectsAreSilent == Spec => []ForgottenIsSilent
<1>1. IInv => ForgottenIsSilent
  BY DEF IInv, SweepConsistent, Silent, ForgottenIsSilent
<1> QED
  BY <1>1, AlwaysIInv, PTL

\* A run a tick created is not lost between its creation and its start: the
\* object holds its tick until it tried to start it.
THEOREM TickRunsAreFollowed == Spec => []RunsFollowed
<1>1. IInv => RunsFollowed
  BY DEF IInv
<1> QED
  BY <1>1, AlwaysIInv, PTL
=============================================================================
