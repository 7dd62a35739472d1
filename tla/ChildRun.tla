------------------------------ MODULE ChildRun ------------------------------
(***************************************************************************)
(* A child run and the run that started it: how a child's finished turns    *)
(* reach its parent (packages/agents/src/runs/run-object.ts, "Claims and    *)
(* child runs").  The parent either claims a turn's result (the agents      *)
(* toolkit's wait) or is delivered it as a message; a run that ends stops    *)
(* its child.                                                               *)
(*                                                                         *)
(* Two Durable Objects, the child's and the parent's.  An action is what one *)
(* of them does between two awaits, so whatever JavaScript lets interleave   *)
(* does: several #deliverPending loops, several claims, the alarm, and one   *)
(* serialised call (#serial) at a time in each object.  An eviction (every   *)
(* deploy evicts) drops everything an object holds in memory and keeps its   *)
(* storage.  The org's index and the harness are outside: they appear as     *)
(* the answers they may give.                                               *)
(***************************************************************************)
EXTENDS Integers, FiniteSets

CONSTANTS
    MaxTurns,       \* bound: turns of the child
    MaxAttempts,    \* MAX_DELIVERY_ATTEMPTS
    Loops,          \* bound: #deliverPending calls in flight at once
    Claims,         \* bound: the parent's claim calls in flight at once
    NamedClaims,    \* whether the parent claims turns by id
    Evictions,      \* whether objects are evicted
    Endings         \* whether the parent may end, and the child be cancelled

Turns == 1..MaxTurns

ASSUME ChildRunAssumption ==
    /\ MaxTurns \in Nat
    /\ MaxAttempts \in Nat \ {0}
    /\ Loops \cap {"no", "message"} = {}
    /\ {NamedClaims, Evictions, Endings} \subseteq BOOLEAN

VARIABLES
    \* the child's storage
    status,         \* each turn: "none", "running" or "finished"
    claimed,        \* each turn: its claimedBy names the parent
    delivery,       \* each turn's delivery ("none": absent)
    listed,         \* the turns DELIVERIES lists
    attempts,       \* the tries it counts for each
    active,         \* ACTIVE, or 0
    alarm,          \* whether the alarm is set
    childEnded,     \* META's `ended` is set
    \* the child's memory
    claiming,       \* the running turns the parent is registered as claiming
    claims,         \* each claim call: the turn it waits on, or 0
    heard,          \* the claim calls whose caller still waits for the answer
    \* ... each #deliverPending call in flight there:
    phase,          \* where it stands
    by,             \* who awaits it
    at,             \* the turn its deliver call is of, or 0
    todo,           \* the rest of the list it read
    read,           \* the attempts it read with it
    tried,          \* the turns it could not deliver
    \* ... and its serialised call:
    serial,         \* which one, "none" when there is none
    step,           \* where a stop or a cancel stands
    aborting,       \* the turn it aborts, or 0
    \* the parent
    taken,          \* the turns it took as a message (their idempotency keys)
    parentEnded,    \* its META's `ended` is set
    ending,         \* its serialised call is in #end, which waits for the stop
    stopping,       \* its stop call to the child is not answered
    strays,         \* deliver calls on their way whose caller gave up on them
    index,          \* the child's row in the org's index: live, ended, or gone
    \* history
    byClaim,        \* the turns whose result a claim's answer brought to it
    cutOff          \* the turns whose claim failed, or its answer was lost

childStore == <<status, claimed, delivery, listed, attempts, active, alarm, childEnded>>
claimVars == <<claiming, claims, heard>>
loopVars == <<phase, by, at, todo, read, tried>>
serialVars == <<serial, step, aborting>>
childMemory == <<claimVars, loopVars, serialVars>>
parentVars == <<taken, parentEnded, ending, stopping, strays, index>>
history == <<byClaim, cutOff>>
vars == <<childStore, childMemory, parentVars, history>>

\* A #deliverPending call: "start" (the awaits before it reads the list),
\* "sent" (its deliver call of turn `at` is not answered), or how that call was
\* answered, the answer not handled yet.
Phases == {"off", "start", "sent", "ok", "refused", "failed"}

\* A stop or cancel waits for the aborted turn to settle ("settle"), or for the
\* deliveries its #finish makes ("deliver"), or is done with both.
Steps == {"settle", "deliver", "done"}

ChildStoreType ==
    /\ status \in [Turns -> {"none", "running", "finished"}]
    /\ claimed \in [Turns -> BOOLEAN]
    /\ delivery \in [Turns -> {"none", "pending", "delivered", "dropped"}]
    /\ listed \in SUBSET Turns
    /\ attempts \in [Turns -> Nat]
    /\ active \in 0..MaxTurns
    /\ alarm \in BOOLEAN
    /\ childEnded \in BOOLEAN

ClaimType ==
    /\ claiming \in SUBSET Turns
    /\ claims \in [Claims -> 0..MaxTurns]
    /\ heard \in SUBSET Claims

LoopType ==
    /\ phase \in [Loops -> Phases]
    /\ by \in [Loops -> {"watch", "alarm", "serial"}]
    /\ at \in [Loops -> 0..MaxTurns]
    /\ todo \in [Loops -> SUBSET Turns]
    /\ read \in [Loops -> [Turns -> Nat]]
    /\ tried \in [Loops -> SUBSET Turns]

SerialType ==
    /\ serial \in {"none", "message", "stop", "cancel"}
    /\ step \in Steps
    /\ aborting \in 0..MaxTurns

ParentType ==
    /\ taken \in SUBSET Turns
    /\ parentEnded \in BOOLEAN
    /\ ending \in {"no", "message"} \cup Loops
    /\ stopping \in BOOLEAN
    /\ strays \in SUBSET Turns
    /\ index \in {"live", "ended", "gone"}
    /\ byClaim \in SUBSET Turns
    /\ cutOff \in SUBSET Turns

TypeOK == ChildStoreType /\ ClaimType /\ LoopType /\ SerialType /\ ParentType

Init ==
    /\ status = [t \in Turns |-> "none"]
    /\ claimed = [t \in Turns |-> FALSE]
    /\ delivery = [t \in Turns |-> "none"]
    /\ listed = {}
    /\ attempts = [t \in Turns |-> 0]
    /\ active = 0
    /\ alarm = FALSE
    /\ childEnded = FALSE
    /\ claiming = {}
    /\ claims = [k \in Claims |-> 0]
    /\ heard = {}
    /\ phase = [l \in Loops |-> "off"]
    /\ by = [l \in Loops |-> "watch"]
    /\ at = [l \in Loops |-> 0]
    /\ todo = [l \in Loops |-> {}]
    /\ read = [l \in Loops |-> [t \in Turns |-> 0]]
    /\ tried = [l \in Loops |-> {}]
    /\ serial = "none"
    /\ step = "done"
    /\ aborting = 0
    /\ taken = {}
    /\ parentEnded = FALSE
    /\ ending = "no"
    /\ stopping = FALSE
    /\ strays = {}
    /\ index = "live"
    /\ byClaim = {}
    /\ cutOff = {}

-----------------------------------------------------------------------------
(* The child's turns *)

\* A message to the idle child: the index lets it go on (beginTurn).
MessageBegins ==
    /\ active = 0
    /\ ~childEnded
    /\ index = "live"
    /\ serial = "none"
    /\ \E t \in Turns : status[t] = "none"
    /\ serial' = "message"
    /\ UNCHANGED <<childStore, claimVars, loopVars, step, aborting, parentVars, history>>

\* It starts turn t, whatever the index says by now: ACTIVE, and the heartbeat's
\* alarm.  (Or the harness fails it.)
MessageStarts(t) ==
    /\ serial = "message"
    /\ status[t] = "none"
    /\ \A u \in Turns : u < t => status[u] # "none"
    /\ \/ /\ status' = [status EXCEPT ![t] = "running"]
          /\ active' = t
          /\ alarm' = TRUE
       \/ UNCHANGED <<status, active, alarm>>
    /\ serial' = "none"
    /\ UNCHANGED <<claimed, delivery, listed, attempts, childEnded>>
    /\ UNCHANGED <<claimVars, loopVars, step, aborting, parentVars, history>>

\* A message to the idle child once the index ended or forgot it: #end.
MessageEndsChild ==
    /\ active = 0
    /\ ~childEnded
    /\ index # "live"
    /\ serial = "none"
    /\ childEnded' = TRUE
    /\ UNCHANGED <<status, claimed, delivery, listed, attempts, active, alarm>>
    /\ UNCHANGED <<childMemory, parentVars, history>>

\* A #deliverPending call begins, in a free slot, and ends.
LoopBegins(l, who) ==
    /\ phase[l] = "off"
    /\ phase' = [phase EXCEPT ![l] = "start"]
    /\ by' = [by EXCEPT ![l] = who]
    /\ UNCHANGED <<at, todo, read, tried>>

LoopOff(l) ==
    /\ phase' = [phase EXCEPT ![l] = "off"]
    /\ by' = [by EXCEPT ![l] = "watch"]
    /\ at' = [at EXCEPT ![l] = 0]
    /\ todo' = [todo EXCEPT ![l] = {}]
    /\ read' = [read EXCEPT ![l] = [t \in Turns |-> 0]]
    /\ tried' = [tried EXCEPT ![l] = {}]

\* #finish, once per turn: the claimants registered now have the result;
\* otherwise it is to be delivered, by a #deliverPending call that `who` awaits.
\* The heartbeat's alarm is deleted with ACTIVE.
FinishTurn(t, who) ==
    /\ status[t] = "running"
    /\ status' = [status EXCEPT ![t] = "finished"]
    /\ active' = 0
    /\ alarm' = FALSE
    /\ UNCHANGED childEnded
    /\ \/ /\ t \in claiming
          /\ claimed' = [claimed EXCEPT ![t] = TRUE]
          /\ UNCHANGED <<delivery, listed, attempts, loopVars>>
       \/ /\ t \notin claiming
          /\ delivery' = [delivery EXCEPT ![t] = "pending"]
          /\ listed' = listed \cup {t}
          /\ attempts' = [attempts EXCEPT ![t] = 0]
          /\ \E l \in Loops : LoopBegins(l, who)
          /\ UNCHANGED claimed

\* The running turn settles and whoever watches it (#watch, a claim) sees it.
TurnSettles ==
    /\ active # 0
    /\ FinishTurn(active, "watch")
    /\ UNCHANGED <<claimVars, serialVars, parentVars, history>>

-----------------------------------------------------------------------------
(* The parent's claims *)

\* The parent has turn t's result, as the child knows it (hasResult).
hasResult(t) == claimed[t] \/ delivery[t] = "delivered"

\* The turn a claim is about: the one it names, or the oldest finished one the
\* parent does not have, or the running one.
Claimable(t) ==
    LET unread == {u \in Turns : status[u] = "finished" /\ ~hasResult(u)}
    IN \/ NamedClaims /\ status[t] # "none"
       \/ t \in unread /\ \A u \in unread : t <= u
       \/ unread = {} /\ t = active

\* Mutant of Hand: the claim leaves the result in the deliveries.
HandKeepsDelivery(t) ==
    /\ claimed' = [claimed EXCEPT ![t] = TRUE]
    /\ UNCHANGED <<delivery, listed>>

\* #hand: the parent has the result now; one not delivered yet is taken from
\* the deliveries.
Hand(t) ==
    /\ claimed' = [claimed EXCEPT ![t] = TRUE]
    /\ delivery' = [delivery EXCEPT ![t] = IF @ = "pending" THEN "none" ELSE @]
    /\ listed' = IF delivery[t] = "pending" THEN listed \ {t} ELSE listed

\* A claim of a finished turn: answered at once (or the answer is lost).
ClaimFinished(k, t) ==
    /\ claims[k] = 0
    /\ ~parentEnded
    /\ Claimable(t)
    /\ status[t] = "finished"
    /\ Hand(t)
    /\ \/ byClaim' = byClaim \cup {t} /\ UNCHANGED cutOff
       \/ Evictions /\ cutOff' = cutOff \cup {t} /\ UNCHANGED byClaim
    /\ UNCHANGED <<status, attempts, active, alarm, childEnded, childMemory, parentVars>>

\* A claim of the running turn registers the parent and waits.
ClaimRunning(k, t) ==
    /\ claims[k] = 0
    /\ ~parentEnded
    /\ Claimable(t)
    /\ status[t] = "running"
    /\ claims' = [claims EXCEPT ![k] = t]
    /\ claiming' = claiming \cup {t}
    /\ heard' = heard \cup {k}
    /\ UNCHANGED <<childStore, loopVars, serialVars, parentVars, history>>

\* Mutant of Leave: a claim that gave up stays registered.
LeaveRegistered(k) ==
    /\ claims' = [claims EXCEPT ![k] = 0]
    /\ heard' = heard \ {k}
    /\ UNCHANGED claiming

\* The claim leaves the registry.  The claimant is one entry of a set: with two
\* calls of the parent waiting, the first to leave removes it for both.
Leave(k) ==
    /\ claims' = [claims EXCEPT ![k] = 0]
    /\ claiming' = claiming \ {claims[k]}
    /\ heard' = heard \ {k}

\* The turn finished: the claim hands it to the parent and returns.
ClaimReturns(k) ==
    /\ claims[k] # 0
    /\ status[claims[k]] = "finished"
    /\ Hand(claims[k])
    /\ Leave(k)
    /\ byClaim' = IF k \in heard THEN byClaim \cup {claims[k]} ELSE byClaim
    /\ cutOff' = IF k \in heard THEN cutOff ELSE cutOff \cup {claims[k]}
    /\ UNCHANGED <<status, attempts, active, alarm, childEnded, loopVars, serialVars, parentVars>>

\* The claim's time is up (or the run parked on something its caller answers).
ClaimTimesOut(k) ==
    /\ claims[k] # 0
    /\ status[claims[k]] = "running"
    /\ Leave(k)
    /\ UNCHANGED <<childStore, loopVars, serialVars, parentVars, history>>

\* An abort of the turn that did not settle in time closes the harness (#drop)
\* under the claim's wait and records the turn: the claim fails, the turn
\* finished, maybe with the parent as a claimant.
ClaimFails(k) ==
    /\ claims[k] # 0
    /\ status[claims[k]] = "finished"
    /\ serial \in {"stop", "cancel"} /\ step # "settle" /\ aborting = claims[k]
    /\ Leave(k)
    /\ cutOff' = cutOff \cup {claims[k]}
    /\ UNCHANGED <<childStore, loopVars, serialVars, parentVars, byClaim>>

-----------------------------------------------------------------------------
(* #deliverPending *)

\* The alarm: the heartbeat is set again while a turn runs, and the deliveries
\* that wait are tried.  The platform runs one alarm handler at a time.
Alarm(l) ==
    /\ alarm
    /\ \A j \in Loops : phase[j] = "off" \/ by[j] # "alarm"
    /\ alarm' = (active # 0)
    /\ LoopBegins(l, "alarm")
    /\ UNCHANGED <<status, claimed, delivery, listed, attempts, active, childEnded>>
    /\ UNCHANGED <<claimVars, serialVars, parentVars, history>>

\* Mutant of Outcome: every answer that is no refusal counts as taken.
OutcomeUnheard(answer) ==
    CASE answer \in {"ok", "failed"} -> "delivered"
      [] answer = "refused" -> "dropped"
      [] OTHER -> "pending"

\* Mutant of Outcome: a try that failed is the last one.
OutcomeGivesUp(answer) ==
    CASE answer = "ok" -> "delivered"
      [] answer \in {"refused", "failed"} -> "dropped"
      [] OTHER -> "pending"

\* What an answer makes of a pending delivery.
Outcome(answer) ==
    CASE answer = "ok" -> "delivered"
      [] answer = "refused" -> "dropped"
      [] OTHER -> "pending"

\* A call that does not wait for the parent's answer goes on: the answer it had
\* is recorded (#delivered, if the delivery is still pending), ...
Ready(l) == phase[l] \in {"start", "ok", "refused", "failed"}

\* Mutant of Recorded: the answer is recorded whatever became of the delivery.
RecordedLate(l) ==
    [t \in Turns |-> IF t = at[l] /\ phase[l] \in {"ok", "refused"}
                       THEN Outcome(phase[l]) ELSE delivery[t]]

Recorded(l) ==
    [t \in Turns |-> IF t = at[l] /\ delivery[t] = "pending"
                       THEN Outcome(phase[l]) ELSE delivery[t]]

\* ... the rest of the list it read, without those claimed meanwhile, and the
\* tries it counted.
Rest(l) ==
    {t \in IF phase[l] = "start" THEN listed ELSE todo[l] :
        Recorded(l)[t] = "pending"}

Read(l) == IF phase[l] = "start" THEN attempts ELSE read[l]

Tried(l) == IF phase[l] = "failed" THEN tried[l] \cup {at[l]} ELSE tried[l]

\* The oldest turn of the rest: its deliver call goes out.
LoopSends(l, t) ==
    /\ Ready(l)
    /\ t \in Rest(l)
    /\ \A u \in Rest(l) : t <= u
    /\ delivery' = Recorded(l)
    /\ phase' = [phase EXCEPT ![l] = "sent"]
    /\ at' = [at EXCEPT ![l] = t]
    /\ todo' = [todo EXCEPT ![l] = Rest(l) \ {t}]
    /\ read' = [read EXCEPT ![l] = Read(l)]
    /\ tried' = [tried EXCEPT ![l] = Tried(l)]
    /\ UNCHANGED by
    /\ UNCHANGED <<status, claimed, listed, attempts, active, alarm, childEnded>>
    /\ UNCHANGED <<claimVars, serialVars, parentVars, history>>

\* Mutant of StillPending: the list read at the start, so a turn that finished
\* meanwhile is lost from it.
StillPendingStale(l) == {t \in Tried(l) : Recorded(l)[t] = "pending"}

\* The list as it is when the loop ends.
StillPending(l) == {t \in listed : Recorded(l)[t] = "pending"}

\* Mutant of AlarmAfter: the retry is left to the next finished turn.
AlarmAfterNone(left) == alarm

\* The alarm tries again what is left, unless it is set already.
AlarmAfter(left) == alarm \/ left # {}

\* None is left: the list is read again, and what is still pending stays with
\* its tries counted, or is given up after MaxAttempts; the alarm is set while
\* any stays.
LoopEnds(l) ==
    LET count == [t \in Turns |-> IF t \in Tried(l) THEN Read(l)[t] + 1 ELSE attempts[t]]
        left == {t \in StillPending(l) : count[t] < MaxAttempts}
    IN /\ Ready(l)
       /\ Rest(l) = {}
       /\ delivery' = [t \in Turns |-> IF t \in StillPending(l) \ left
                                          THEN "dropped" ELSE Recorded(l)[t]]
       /\ listed' = left
       /\ attempts' = [t \in Turns |-> IF t \in left THEN count[t] ELSE 0]
       /\ alarm' = AlarmAfter(left)
       /\ LoopOff(l)
       /\ step' = IF by[l] = "serial" THEN "done" ELSE step
       /\ UNCHANGED <<status, claimed, active, childEnded>>
       /\ UNCHANGED <<claimVars, serial, aborting, parentVars, history>>

-----------------------------------------------------------------------------
(* The parent takes deliveries, one serialised call at a time *)

Answer(l, how) ==
    /\ phase' = [phase EXCEPT ![l] = how]
    /\ UNCHANGED <<by, at, todo, read, tried>>

\* deliver: the message is taken once (its idempotency key finds it again),
\* from a child the index knows.
ParentTakes(l) ==
    /\ phase[l] = "sent"
    /\ ending = "no"
    /\ index # "gone"
    /\ ~parentEnded \/ at[l] \in taken
    /\ taken' = taken \cup {at[l]}
    /\ Answer(l, "ok")
    /\ UNCHANGED <<childStore, claimVars, serialVars, history>>
    /\ UNCHANGED <<parentEnded, ending, stopping, strays, index>>

\* The parent ended (`run_ended`), or the index has no such child (`forbidden`).
ParentRefuses(l) ==
    /\ phase[l] = "sent"
    /\ ending = "no"
    /\ index = "gone" \/ (parentEnded /\ at[l] \notin taken)
    /\ Answer(l, "refused")
    /\ UNCHANGED <<childStore, claimVars, serialVars, parentVars, history>>

\* The call does not arrive or the index cannot be reached (`unavailable`); or
\* the answer is lost, the call itself taken already or still on its way.
DeliverFails(l) ==
    /\ \/ phase[l] = "sent" /\ ending # l
       \/ phase[l] = "ok"
    /\ strays' \in IF phase[l] = "sent" THEN {strays, strays \cup {at[l]}}
                                             ELSE {strays}
    /\ Answer(l, "failed")
    /\ UNCHANGED <<childStore, claimVars, serialVars, history>>
    /\ UNCHANGED <<taken, parentEnded, ending, stopping, index>>

\* A deliver call nobody waits for any more reaches the parent.
StrayArrives(t) ==
    /\ t \in strays
    /\ ending = "no"
    /\ strays' = strays \ {t}
    /\ taken' = IF parentEnded \/ index = "gone" THEN taken ELSE taken \cup {t}
    /\ UNCHANGED <<childStore, childMemory, parentEnded, ending, stopping, index, history>>

\* #message on the idle parent: the index says it can no longer go on, so #end
\* ends it, ends the child in the index, and waits for the child's stop (the
\* index not reached, or without the child: no stop).  `m` is the message:
\* another's, or the delivery of loop m.
ParentEnds(m) ==
    /\ Endings
    /\ ending = "no"
    /\ ~parentEnded
    /\ heard = {}
    /\ m \in Loops => phase[m] = "sent" /\ at[m] \notin taken /\ index # "gone"
    /\ parentEnded' = TRUE
    /\ ending' = m
    /\ \/ index = "live" /\ index' = "ended" /\ stopping' = TRUE
       \/ UNCHANGED <<index, stopping>>
    /\ UNCHANGED <<childStore, childMemory, taken, strays, history>>

\* The child's row is deleted from the index (its own deletion, or another's).
Forget ==
    /\ Endings
    /\ index # "gone"
    /\ index' = "gone"
    /\ UNCHANGED <<childStore, childMemory, taken, parentEnded, ending, stopping, strays, history>>

\* #end returns once the stop was answered: the message is refused.
EndReturns ==
    /\ ending # "no"
    /\ ~stopping
    /\ ending' = "no"
    /\ phase' = IF ending \in Loops THEN [phase EXCEPT ![ending] = "refused"] ELSE phase
    /\ UNCHANGED <<by, at, todo, read, tried>>
    /\ UNCHANGED <<childStore, claimVars, serialVars, history>>
    /\ UNCHANGED <<taken, parentEnded, stopping, strays, index>>

-----------------------------------------------------------------------------
(* The child's serialised stop and cancel *)

\* Mutant of StopIdle: the running turn is left to the harness.
StopWithoutAbort ==
    /\ stopping
    /\ serial = "none"
    /\ childEnded' = TRUE
    /\ stopping' = FALSE
    /\ UNCHANGED <<status, claimed, delivery, listed, attempts, active, alarm>>
    /\ UNCHANGED <<childMemory, taken, parentEnded, ending, strays, index, history>>

\* stop on a child with no running turn (or already ended).
StopIdle ==
    /\ stopping
    /\ serial = "none"
    /\ childEnded \/ active = 0
    /\ childEnded' = TRUE
    /\ stopping' = FALSE
    /\ UNCHANGED <<status, claimed, delivery, listed, attempts, active, alarm>>
    /\ UNCHANGED <<childMemory, taken, parentEnded, ending, strays, index, history>>

\* stop or cancel (#abortActive): the running turn is aborted.
AbortActive(call) ==
    /\ Endings
    /\ call = "stop" => stopping /\ ~childEnded
    /\ serial = "none"
    /\ active # 0
    /\ serial' = call
    /\ step' = "settle"
    /\ aborting' = active
    /\ UNCHANGED <<childStore, claimVars, loopVars, parentVars, history>>

\* The abort settled, or did not in time: the call itself finishes the turn,
\* unless the turn's watcher did first, and waits for the deliveries it makes.
AbortSettles ==
    /\ serial \in {"stop", "cancel"}
    /\ step = "settle"
    /\ \/ /\ status[aborting] = "running"
          /\ FinishTurn(aborting, "serial")
          /\ step' = IF aborting \in claiming THEN "done" ELSE "deliver"
       \/ /\ status[aborting] = "finished"
          /\ step' = "done"
          /\ UNCHANGED <<childStore, loopVars>>
    /\ UNCHANGED <<claimVars, serial, aborting, parentVars, history>>

\* The call returns; a stop ends the child.
SerialReturns ==
    /\ serial \in {"stop", "cancel"}
    /\ step = "done"
    /\ childEnded' = (childEnded \/ serial = "stop")
    /\ stopping' = (stopping /\ serial # "stop")
    /\ serial' = "none" /\ aborting' = 0
    /\ UNCHANGED <<status, claimed, delivery, listed, attempts, active, alarm>>
    /\ UNCHANGED <<claimVars, loopVars, step, taken, parentEnded, ending, strays, index, history>>

-----------------------------------------------------------------------------
(* Evictions *)

\* The child's memory is gone: its claims and its stop fail at their callers.
\* A running alarm handler is run again by the platform.
EvictChild ==
    /\ Evictions
    /\ alarm' = (alarm \/ \E l \in Loops : phase[l] # "off" /\ by[l] = "alarm")
    /\ claiming' = {}
    /\ claims' = [k \in Claims |-> 0]
    /\ heard' = {}
    /\ phase' = [l \in Loops |-> "off"]
    /\ by' = [l \in Loops |-> "watch"]
    /\ at' = [l \in Loops |-> 0]
    /\ todo' = [l \in Loops |-> {}]
    /\ read' = [l \in Loops |-> [t \in Turns |-> 0]]
    /\ tried' = [l \in Loops |-> {}]
    /\ serial' = "none" /\ step' = "done" /\ aborting' = 0
    /\ stopping' = FALSE
    /\ ending' = IF ending \in Loops THEN "message" ELSE ending
    /\ cutOff' = cutOff \cup {claims[k] : k \in {j \in Claims : claims[j] # 0
                                                  /\ status[claims[j]] = "finished"}}
    /\ UNCHANGED <<status, claimed, delivery, listed, attempts, active, childEnded>>
    /\ strays' = strays \cup {at[l] : l \in {j \in Loops : phase[j] = "sent" /\ j # ending}}
    /\ UNCHANGED <<taken, parentEnded, index, byClaim>>

\* The parent's memory is gone: nobody hears its claims, its deliver calls fail,
\* and a stop it has not sent yet is never sent.
EvictParent ==
    /\ Evictions
    /\ heard' = {}
    /\ ending' = "no"
    /\ phase' = [l \in Loops |-> IF phase[l] = "sent" THEN "failed" ELSE phase[l]]
    /\ UNCHANGED <<by, at, todo, read, tried>>
    /\ strays' = {}
    /\ stopping' \in {stopping, FALSE}
    /\ UNCHANGED <<childStore, claiming, claims, serialVars, history>>
    /\ UNCHANGED <<taken, parentEnded, index>>

-----------------------------------------------------------------------------

Next ==
    \/ MessageBegins
    \/ \E t \in Turns : MessageStarts(t)
    \/ MessageEndsChild
    \/ TurnSettles
    \/ \E k \in Claims, t \in Turns : ClaimFinished(k, t)
    \/ \E k \in Claims, t \in Turns : ClaimRunning(k, t)
    \/ \E k \in Claims : ClaimReturns(k)
    \/ \E k \in Claims : ClaimTimesOut(k)
    \/ \E k \in Claims : ClaimFails(k)
    \/ \E l \in Loops : Alarm(l)
    \/ \E l \in Loops, t \in Turns : LoopSends(l, t)
    \/ \E l \in Loops : LoopEnds(l)
    \/ \E l \in Loops : ParentTakes(l)
    \/ \E l \in Loops : ParentRefuses(l)
    \/ \E l \in Loops : DeliverFails(l)
    \/ \E t \in Turns : StrayArrives(t)
    \/ Forget
    \/ \E m \in {"message"} \cup Loops : ParentEnds(m)
    \/ EndReturns
    \/ StopIdle
    \/ \E call \in {"stop", "cancel"} : AbortActive(call)
    \/ AbortSettles
    \/ SerialReturns
    \/ EvictChild
    \/ EvictParent

Spec == Init /\ [][Next]_vars

\* What the objects do on their own: #deliverPending calls go on, alarms fire, and
\* an object takes the calls that wait for it once its serialised call is done.
\* That a turn settles or a claim returns, new messages and claims, failed calls,
\* endings and evictions are not promised.
Fairness ==
    /\ WF_vars(\E l \in Loops : Alarm(l))
    /\ \A l \in Loops : WF_vars(LoopEnds(l) \/ \E t \in Turns : LoopSends(l, t))
    /\ \A l \in Loops : WF_vars(ParentTakes(l) \/ ParentRefuses(l))
    /\ WF_vars(\E t \in Turns : MessageStarts(t))
    /\ WF_vars(EndReturns)
    /\ WF_vars(StopIdle \/ AbortActive("stop"))
    /\ WF_vars(AbortSettles)
    /\ WF_vars(SerialReturns)

FairSpec == Spec /\ Fairness

-----------------------------------------------------------------------------
(* Correctness *)

\* A finished turn's result is never lost: the parent got it (as a claim's
\* answer or as a message), or will (a claim of it is about to return, or it is
\* listed for delivery), or it was given up (`dropped`), or the claim that
\* took it failed or its answer was lost on its way.
ResultAccounted ==
    \A t \in Turns : status[t] = "finished" =>
        \/ t \in byClaim \cup taken \cup cutOff
        \/ \E k \in Claims : claims[k] = t
        \/ delivery[t] = "pending" /\ t \in listed
        \/ delivery[t] = "dropped"

\* What the child records as delivered, the parent took: however answers are
\* lost and loops overlap, a failed delivery is never recorded as made.
DeliveredWasTaken ==
    \A t \in Turns : delivery[t] = "delivered" => t \in taken

\* Every pending delivery is in the list the next try reads, with tries left:
\* loops that overlap with a finishing turn, a claim or one another never lose
\* an entry of the list they rewrite.
PendingListed ==
    \A t \in Turns : delivery[t] = "pending" => t \in listed /\ attempts[t] < MaxAttempts

\* A result the parent claimed is no longer to be delivered (#hand takes it from
\* the deliveries, #finish never adds it), whichever claim or loop came first.
ClaimedNotPending ==
    \A t \in Turns : claimed[t] => delivery[t] # "pending"

\* An ended child runs no turn: a stop that meets a running turn, or a turn that
\* starts while the stop is on its way, ends with the turn aborted.
EndedIsQuiet == childEnded => active = 0

\* #deliverPending never gives a delivery up on its own before its tries are
\* spent: it is dropped because the parent ended or the index has no such child,
\* or after MaxAttempts tries failed.
DroppedForCause ==
    [][\A t \in Turns : delivery[t] = "pending" /\ delivery'[t] = "dropped" =>
         \/ parentEnded \/ index = "gone"
         \/ \E l \in Loops : t \in Tried(l) /\ Read(l)[t] + 1 >= MaxAttempts]_vars

\* The child's hand-over of results: each turn's fate, as the child's storage has it.
Fate(t) ==
    CASE status[t] # "finished" -> "open"
      [] status[t] = "finished" /\ claimed[t] -> "claimed"
      [] status[t] = "finished" /\ ~claimed[t] /\ delivery[t] = "pending" -> "owed"
      [] OTHER -> delivery[t]

Handover == INSTANCE ResultHandover WITH
    fate <- [t \in Turns |-> Fate(t)],
    inbox <- taken,
    closed <- parentEnded

\* However loops overlap, answers are lost or come late and objects are evicted, a
\* result ends once (claimed, delivered or dropped), a late answer reopens or rewrites
\* nothing, and the parent takes results of finished turns only, and none once ended.
ResultsHandedOver == Handover!Spec

\* Every pending delivery ends (claimed, delivered or given up), as long as no
\* object is evicted and turns are claimed oldest first: the alarm keeps trying.
DeliveryEnds ==
    \A t \in Turns : delivery[t] = "pending" ~> delivery[t] # "pending"

-----------------------------------------------------------------------------
(* The inductive invariant *)

\* ACTIVE names the running turn, and only a finished turn is claimed or has a
\* delivery.
TurnsConsistent ==
    \A t \in Turns :
        /\ status[t] = "running" <=> active = t
        /\ claimed[t] \/ delivery[t] # "none" => status[t] = "finished"

\* A call that stands at a turn stands at one; an answer "ok" is of a turn the
\* parent took, a refusal one of a parent that ended or has no such child; the
\* call the parent ends at is not answered; a call that a stop or cancel awaits
\* is the only such one.
LoopsConsistent ==
    /\ ending \in Loops => phase[ending] = "sent"
    /\ ending # "no" => parentEnded
    /\ \A l \in Loops :
          /\ phase[l] \in {"sent", "ok", "refused", "failed"} => at[l] \in Turns
          /\ phase[l] = "ok" => at[l] \in taken
          /\ phase[l] = "refused" => parentEnded \/ index = "gone"
          /\ phase[l] # "off" /\ by[l] = "serial" =>
                serial \in {"stop", "cancel"} /\ step = "deliver"
    /\ \A l, m \in Loops :
          phase[l] # "off" /\ by[l] = "serial" /\ phase[m] # "off" /\ by[m] = "serial"
            => l = m

\* Only turns that were started are claimed, and a registered claim of a running
\* turn is some call's.
ClaimsConsistent ==
    \A t \in claiming :
        /\ status[t] # "none"
        /\ status[t] = "running" => \E k \in Claims : claims[k] = t

\* While the child's serialised call lasts no other one starts or ends the run.
SerialConsistent ==
    /\ serial = "message" => ~childEnded /\ active = 0
    /\ serial \in {"stop", "cancel"} =>
          /\ aborting \in Turns
          /\ active \in {0, aborting}
          /\ step # "settle" => active = 0

\* Together: what every step preserves.
IInv ==
    /\ TypeOK
    /\ ResultAccounted
    /\ DeliveredWasTaken
    /\ PendingListed
    /\ ClaimedNotPending
    /\ EndedIsQuiet
    /\ TurnsConsistent
    /\ LoopsConsistent
    /\ ClaimsConsistent
    /\ SerialConsistent

\* What the hand-over needs besides: a finished turn that no claim took has a delivery,
\* and only finished turns are listed, tried or on their way.
DeliveriesFinished ==
    /\ \A t \in Turns : status[t] = "finished" /\ ~claimed[t] => delivery[t] # "none"
    /\ \A t \in listed \cup strays : status[t] = "finished"
    /\ \A l \in Loops :
          /\ \A t \in todo[l] : status[t] = "finished"
          /\ phase[l] \in {"sent", "ok", "refused", "failed"} => status[at[l]] = "finished"

-----------------------------------------------------------------------------
(* What the source's comments say and the code does not do *)

\* stop: "aborts its running turn, recorded as cancelled, and ends it".
StopEnds == stopping ~> childEnded

=============================================================================
