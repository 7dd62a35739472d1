--------------------------- MODULE ScheduleTrigger ---------------------------
(***************************************************************************)
(* A schedule trigger and its Durable Object (packages/agents/src/triggers/  *)
(* schedule-object.ts over triggers.ts): the management routes that add,     *)
(* edit and remove a schedule and arm its object, the alarm that fires a     *)
(* tick, starts the tick's run and keeps the next tick, and the sweep that   *)
(* deletes the object of a schedule that is gone.                           *)
(*                                                                         *)
(* The org's ControlPlane answers each call in one synchronous transaction.  *)
(* The object runs one call at a time (#serial); an action is what it does   *)
(* between two awaits.  Any call may fail, before or after it was answered,  *)
(* and reach its object after its caller gave up; an eviction drops the      *)
(* object's call, and the platform runs an alarm handler that did not end    *)
(* again.  The org exists throughout: the alarm's question to the Platform   *)
(* registry fails like a call of the ControlPlane, and never answers no.     *)
(***************************************************************************)
EXTENDS Integers, FiniteSets

CONSTANTS
    Schedules,      \* the schedules, each as the set of its ticks
    Calls,          \* bound: management calls under way at once
    Retry,          \* SCHEDULE_RETRY_MS
    EarlyRetry,     \* EARLY_RETRY_MS
    Skew,           \* how early an alarm may wake by the ControlPlane's clock
    MaxTime,        \* bound: the last time
    Faults          \* whether calls fail and the object is evicted

ASSUME ScheduleTriggerAssumption ==
    /\ Schedules \subseteq SUBSET (Nat \ {0})
    /\ Calls \cap {"none", "stray", "alarm"} = {}
    /\ Retry \in Nat \ {0}
    /\ EarlyRetry \in Nat \ {0}
    /\ Skew \in Nat
    /\ MaxTime \in Nat \ {0}
    /\ Faults \in BOOLEAN

Times == 1..MaxTime

\* parseSchedule refuses a schedule that matches no date: one always has a next
\* tick.
ASSUME NextTickAssumption ==
    \A s \in Schedules, t \in Times :
        \E u \in s : u > t /\ \A v \in s : v > t => u <= v

VARIABLES
    now,
    \* the ControlPlane
    trigger,        \* the schedule: not added yet, "enabled", "disabled" or "gone"
    spec,           \* its ticks
    agentOn,        \* whether its agent is enabled
    listed,         \* agent_schedule_objects has it
    runs,           \* the run of each tick: its row's fate
    \* the management calls
    phase,          \* where each stands
    strays,         \* calls of the object on their way that nobody waits for
    \* the object's storage
    meta,           \* META is there
    tick,           \* TICK, or 0
    alarm,          \* the alarm's time, or 0
    \* the object's call
    serving,        \* whose: a management call, a stray arm, the alarm, or none
    step,           \* where it stands
    answer,         \* the ControlPlane's answer
    next,           \* ... its next tick, or 0 for null
    run,            \* ... the tick whose run it started or found, or 0
    created,        \* ... and whether it created it
    \* history
    told,           \* an arm failed, and none has asked since
    orphans         \* the ticks whose run was left unstarted for a cause

clock == <<now>>
controlPlane == <<trigger, spec, agentOn, listed, runs>>
storage == <<meta, tick, alarm>>
callVars == <<serving, step, answer, next, run, created>>
vars == <<clock, controlPlane, phase, strays, storage, callVars, told, orphans>>

Arming == {"armNew", "armEdit"}

TypeOK ==
    /\ now \in Times
    /\ trigger \in {"none", "enabled", "disabled", "gone"}
    /\ spec \in Schedules \cup {{}}
    /\ agentOn \in BOOLEAN /\ listed \in BOOLEAN /\ meta \in BOOLEAN
    /\ created \in BOOLEAN /\ told \in BOOLEAN
    /\ runs \in [Times -> {"none", "created", "started", "ended"}]
    /\ phase \in [Calls -> Arming \cup {"off", "undo", "sweep", "purge", "forget"}]
    /\ strays \subseteq {"arm", "purge"}
    /\ tick \in Nat /\ alarm \in Nat /\ next \in Nat
    /\ serving \in Calls \cup {"none", "stray", "alarm"}
    /\ step \in {"idle", "asked", "answered", "start", "started", "abandon", "keep"}
    /\ answer \in {"none", "gone", "early", "fired"}
    /\ run \in Times \cup {0}
    /\ orphans \subseteq Times

Init ==
    /\ now = 1
    /\ trigger = "none"
    /\ spec = {}
    /\ agentOn = TRUE
    /\ listed = FALSE
    /\ runs = [t \in Times |-> "none"]
    /\ phase = [c \in Calls |-> "off"]
    /\ strays = {}
    /\ meta = FALSE
    /\ tick = 0
    /\ alarm = 0
    /\ serving = "none"
    /\ step = "idle"
    /\ answer = "none"
    /\ next = 0
    /\ run = 0
    /\ created = FALSE
    /\ told = FALSE
    /\ orphans = {}

-----------------------------------------------------------------------------
(* Ticks                                                                    *)

\* The ticks of a cron expression in its time zone.
nextTick(s, t) == CHOOSE u \in s : u > t /\ \A v \in s : v > t => u <= v
isTick(s, t) == t \in s

Exists == trigger \in {"enabled", "disabled"}

\* The next tick the ControlPlane answers: none while the trigger is disabled.
NextKept == IF trigger = "enabled" THEN nextTick(spec, now) ELSE 0

-----------------------------------------------------------------------------
(* The management routes                                                    *)

Goes(c, to) == phase' = [phase EXCEPT ![c] = to]

\* create: the trigger's row, the note that its object may exist, then the arm.
Create(c) ==
    /\ trigger = "none"
    /\ phase[c] = "off"
    /\ trigger' \in {"enabled", "disabled"}
    /\ spec' \in Schedules
    /\ listed' = TRUE
    /\ Goes(c, "armNew")
    /\ UNCHANGED <<clock, agentOn, runs, strays, storage, callVars, told, orphans>>

\* Mutant: only an edit of `enabled` arms the object.
EditArmsEnabled(c) ==
    /\ Exists
    /\ phase[c] = "off"
    /\ trigger' \in {"enabled", "disabled"}
    /\ spec' \in Schedules
    /\ Goes(c, IF trigger' # trigger THEN "armEdit" ELSE "off")
    /\ UNCHANGED <<clock, agentOn, listed, runs, strays, storage, callVars, told, orphans>>

\* update of `enabled` or the schedule, then the arm.
Edit(c) ==
    /\ Exists
    /\ phase[c] = "off"
    /\ trigger' \in {"enabled", "disabled"}
    /\ spec' \in Schedules
    /\ Goes(c, "armEdit")
    /\ UNCHANGED <<clock, agentOn, listed, runs, strays, storage, callVars, told, orphans>>

\* The trigger, or its agent with it, is removed, then a sweep.
Remove(c) ==
    /\ Exists
    /\ phase[c] = "off"
    /\ trigger' = "gone"
    /\ Goes(c, "sweep")
    /\ UNCHANGED <<clock, spec, agentOn, listed, runs, strays, storage, callVars, told, orphans>>

\* create's arm failed: the trigger is removed again (a failure is ignored, so is
\* the refusal where it was edited meanwhile), then a sweep.
Undo(c) ==
    /\ phase[c] = "undo"
    /\ trigger' \in {"gone"} \cup (IF Faults \/ ~Exists THEN {trigger} ELSE {})
    /\ Goes(c, "sweep")
    /\ UNCHANGED <<clock, spec, agentOn, listed, runs, strays, storage, callVars, told, orphans>>

\* Another removal in the org sweeps too.
SweepBegins(c) ==
    /\ phase[c] = "off"
    /\ trigger = "gone"
    /\ listed
    /\ Goes(c, "sweep")
    /\ UNCHANGED <<clock, controlPlane, strays, storage, callVars, told, orphans>>

\* retiredSchedules: a schedule that is gone is to be purged (or the call fails).
SweepLists(c) ==
    /\ phase[c] = "sweep"
    /\ \/ trigger = "gone" /\ listed /\ Goes(c, "purge")
       \/ (Faults \/ trigger # "gone" \/ ~listed) /\ Goes(c, "off")
    /\ UNCHANGED <<clock, controlPlane, strays, storage, callVars, told, orphans>>

\* forgetScheduleObjects, once the purge succeeded.
SweepForgets(c) ==
    /\ phase[c] = "forget"
    /\ listed' = FALSE \/ (Faults /\ UNCHANGED listed)
    /\ Goes(c, "off")
    /\ UNCHANGED <<clock, trigger, spec, agentOn, runs, strays, storage, callVars, told, orphans>>

SetAgentEnabled ==
    /\ agentOn' = ~agentOn
    /\ UNCHANGED <<clock, trigger, spec, listed, runs, phase, strays, storage, callVars, told, orphans>>

\* Where an arm that failed, or found no schedule, leaves its route.
AfterFailedArm(c) == IF phase[c] = "armNew" THEN "undo" ELSE "off"

\* Mutant: a sweep forgets an object it could not delete.
CallFailsForgets(c) ==
    /\ Faults
    /\ phase[c] \in Arming \cup {"purge"}
    /\ serving # c
    /\ Goes(c, IF phase[c] = "purge" THEN "forget" ELSE AfterFailedArm(c))
    /\ told' = (told \/ phase[c] \in Arming)
    /\ strays' \in {strays, strays \cup {IF phase[c] = "purge" THEN "purge" ELSE "arm"}}
    /\ UNCHANGED <<clock, controlPlane, storage, callVars, orphans>>

\* A call that waits for the object fails, and may reach it all the same: the
\* user is told the schedule is not armed, or the sweep stops.
CallFails(c) ==
    /\ Faults
    /\ phase[c] \in Arming \cup {"purge"}
    /\ serving # c
    /\ Goes(c, IF phase[c] = "purge" THEN "off" ELSE AfterFailedArm(c))
    /\ told' = (told \/ phase[c] \in Arming)
    /\ strays' \in {strays, strays \cup {IF phase[c] = "purge" THEN "purge" ELSE "arm"}}
    /\ UNCHANGED <<clock, controlPlane, storage, callVars, orphans>>

-----------------------------------------------------------------------------
(* The object's storage                                                     *)

\* The run of the tick the object holds is left behind unstarted.
LeavesRun == IF tick \in Times /\ runs[tick] = "created" THEN orphans \cup {tick} ELSE orphans

\* #keep
Keep(t) ==
    /\ tick' = t
    /\ alarm' = t
    /\ UNCHANGED meta

\* #forget
Forget ==
    /\ meta' = FALSE
    /\ tick' = 0
    /\ alarm' = 0

\* The object's call ends.
Returns ==
    /\ serving' = "none"
    /\ step' = "idle"
    /\ answer' = "none"
    /\ next' = 0
    /\ run' = 0
    /\ created' = FALSE

-----------------------------------------------------------------------------
(* arm and purge                                                            *)

Armers == {c \in Calls : phase[c] \in Arming} \cup {"stray"}

ArmServed == serving \in Calls \cup {"stray"}

\* arm: META, then the question to the ControlPlane.
ArmBegins(w) ==
    /\ serving = "none"
    /\ w = "stray" => "arm" \in strays
    /\ strays' = IF w = "stray" THEN strays \ {"arm"} ELSE strays
    /\ meta' = TRUE
    /\ serving' = w
    /\ step' = "asked"
    /\ UNCHANGED <<clock, controlPlane, phase, tick, alarm, answer, next, run, created, told, orphans>>

\* armSchedule.
ArmSchedule ==
    /\ ArmServed
    /\ step = "asked"
    /\ step' = "answered"
    /\ answer' = IF Exists THEN "fired" ELSE "gone"
    /\ next' = NextKept
    /\ told' = FALSE
    /\ UNCHANGED <<clock, controlPlane, phase, strays, storage, serving, run, created, orphans>>

\* The answer: the next tick is kept, or the object of a gone schedule deletes
\* its storage.
ArmReturns ==
    /\ ArmServed
    /\ step = "answered"
    /\ IF answer = "gone" THEN Forget ELSE Keep(next)
    /\ orphans' = LeavesRun
    /\ Returns
    /\ IF serving = "stray" THEN UNCHANGED phase
         ELSE Goes(serving, IF answer = "gone" THEN AfterFailedArm(serving) ELSE "off")
    /\ UNCHANGED <<clock, controlPlane, strays, told>>

\* The ControlPlane is not reached, or its answer is lost: arm throws.
ArmFails ==
    /\ Faults
    /\ ArmServed
    /\ Returns
    /\ told' = TRUE
    /\ IF serving = "stray" THEN UNCHANGED phase
         ELSE Goes(serving, AfterFailedArm(serving))
    /\ UNCHANGED <<clock, controlPlane, strays, storage, orphans>>

\* purge, for a sweep or one that gave up on it.
Purge(w) ==
    /\ serving = "none"
    /\ IF w = "stray"
         THEN /\ "purge" \in strays
              /\ strays' = strays \ {"purge"}
              /\ UNCHANGED phase
         ELSE /\ phase[w] = "purge"
              /\ Goes(w, "forget")
              /\ UNCHANGED strays
    /\ Forget
    /\ orphans' = LeavesRun
    /\ UNCHANGED <<clock, controlPlane, callVars, told>>

-----------------------------------------------------------------------------
(* alarm                                                                    *)

\* The alarm wakes the object; without META or TICK the handler does nothing.
AlarmFires ==
    /\ serving = "none"
    /\ alarm # 0
    /\ alarm <= now + Skew
    /\ alarm' = 0
    /\ IF meta /\ tick # 0
         THEN serving' = "alarm" /\ step' = "asked"
         ELSE UNCHANGED <<serving, step>>
    /\ UNCHANGED <<clock, controlPlane, phase, strays, meta, tick, answer, next, run, created>>
    /\ UNCHANGED <<told, orphans>>

\* fireSchedule: the tick's run is created, or found by its key, unless the tick
\* is still to come, the trigger or the agent is disabled, or the schedule no
\* longer has the tick.
FireSchedule ==
    /\ serving = "alarm"
    /\ step = "asked"
    /\ step' = "answered"
    /\ LET fires == tick <= now /\ trigger = "enabled" /\ agentOn /\ isTick(spec, tick)
       IN /\ answer' = IF ~Exists THEN "gone" ELSE IF tick > now THEN "early" ELSE "fired"
          /\ next' = NextKept
          /\ run' = IF fires THEN tick ELSE 0
          /\ created' = (fires /\ runs[tick] = "none")
          /\ runs' = IF created' THEN [runs EXCEPT ![tick] = "created"] ELSE runs
    /\ UNCHANGED <<clock, trigger, spec, agentOn, listed, phase, strays, storage, serving>>
    /\ UNCHANGED <<told, orphans>>

\* Mutant: the object goes to sleep until it is armed again.
FireFailsSleeps ==
    /\ Faults
    /\ serving = "alarm"
    /\ step \in {"asked", "answered"}
    /\ Returns
    /\ UNCHANGED <<clock, controlPlane, phase, strays, storage, told, orphans>>

\* The call fails, or its answer is lost: the same tick is asked for later.
FireFails ==
    /\ Faults
    /\ serving = "alarm"
    /\ step \in {"asked", "answered"}
    /\ alarm' = now + Retry
    /\ Returns
    /\ UNCHANGED <<clock, controlPlane, phase, strays, meta, tick, told, orphans>>

\* gone, early, or fired without a run.
AlarmReturns ==
    /\ serving = "alarm"
    /\ step = "answered"
    /\ run = 0
    /\ \/ answer = "gone" /\ Forget /\ orphans' = LeavesRun
       \/ answer = "fired" /\ Keep(next) /\ orphans' = LeavesRun
       \/ /\ answer = "early"
          /\ alarm' = IF tick > now + EarlyRetry THEN tick ELSE now + EarlyRetry
          /\ UNCHANGED <<meta, tick, orphans>>
    /\ Returns
    /\ UNCHANGED <<clock, controlPlane, phase, strays, told>>

\* Mutant: the next tick is kept before the run is started.
AlarmStartsKept ==
    /\ serving = "alarm"
    /\ step = "answered"
    /\ run # 0
    /\ step' = "start"
    /\ Keep(next)
    /\ UNCHANGED <<clock, controlPlane, phase, strays, serving, answer, next, run, created>>
    /\ UNCHANGED <<told, orphans>>

\* fired with a run: #start.
AlarmStarts ==
    /\ serving = "alarm"
    /\ step = "answered"
    /\ run # 0
    /\ step' = "start"
    /\ UNCHANGED <<clock, controlPlane, phase, strays, storage, serving, answer, next, run, created>>
    /\ UNCHANGED <<told, orphans>>

\* The tick's run as it is now stays behind unstarted.
LeavesThisRun == IF runs'[run] = "created" THEN orphans \cup {run} ELSE orphans

\* The run's object takes the start (again: it finds its first turn), or refuses
\* it: the run ended, or its object could not ask the index.
RunTakes ==
    /\ step = "start"
    /\ \/ /\ runs' = [runs EXCEPT ![run] = IF @ = "created" THEN "started" ELSE @]
          /\ step' = "started"
       \/ /\ runs' \in {runs, [runs EXCEPT ![run] = "ended"]}
          /\ step' = "keep"
    /\ orphans' = LeavesThisRun
    /\ UNCHANGED <<clock, trigger, spec, agentOn, listed, phase, strays, storage, told>>
    /\ UNCHANGED <<serving, answer, next, run, created>>

\* The start failed, or its answer was lost: a run this attempt created is ended.
StartFails ==
    /\ Faults
    /\ step \in {"start", "started"}
    /\ step' = IF created THEN "abandon" ELSE "keep"
    /\ orphans' = IF created \/ runs[run] # "created" THEN orphans ELSE orphans \cup {run}
    /\ UNCHANGED <<clock, controlPlane, phase, strays, storage, told>>
    /\ UNCHANGED <<serving, answer, next, run, created>>

\* abandonTriggeredRun; a failure of it is only logged.
Abandon ==
    /\ step = "abandon"
    /\ runs' \in {runs, [runs EXCEPT ![run] = "ended"]}
    /\ orphans' = LeavesThisRun
    /\ step' = "keep"
    /\ UNCHANGED <<clock, trigger, spec, agentOn, listed, phase, strays, storage, told>>
    /\ UNCHANGED <<serving, answer, next, run, created>>

\* The next tick is kept once the run was started.
AlarmKeeps ==
    /\ step \in {"started", "keep"}
    /\ Keep(next)
    /\ Returns
    /\ UNCHANGED <<clock, controlPlane, phase, strays, told, orphans>>

-----------------------------------------------------------------------------

\* The object's call is lost with its memory; an alarm handler runs again.
Evict ==
    /\ Faults
    /\ serving # "none"
    /\ alarm' = IF serving = "alarm" /\ alarm = 0 THEN now ELSE alarm
    /\ told' = (told \/ serving # "alarm")
    /\ IF serving \in Calls THEN Goes(serving, AfterFailedArm(serving)) ELSE UNCHANGED phase
    /\ Returns
    /\ UNCHANGED <<clock, controlPlane, strays, meta, tick, orphans>>

TimePasses ==
    /\ now < MaxTime
    /\ now' = now + 1
    /\ UNCHANGED <<controlPlane, phase, strays, storage, callVars, told, orphans>>

Next ==
    \/ \E c \in Calls :
         \/ Create(c)
         \/ Edit(c)
         \/ Remove(c)
         \/ Undo(c)
         \/ SweepBegins(c)
         \/ SweepLists(c)
         \/ SweepForgets(c)
         \/ CallFails(c)
    \/ SetAgentEnabled
    \/ \E w \in Armers : ArmBegins(w)
    \/ ArmSchedule
    \/ ArmReturns
    \/ ArmFails
    \/ \E w \in Calls \cup {"stray"} : Purge(w)
    \/ AlarmFires
    \/ FireSchedule
    \/ FireFails
    \/ AlarmReturns
    \/ AlarmStarts
    \/ RunTakes
    \/ StartFails
    \/ Abandon
    \/ AlarmKeeps
    \/ Evict
    \/ TimePasses

Spec == Init /\ [][Next]_vars

-----------------------------------------------------------------------------
(* Correctness                                                              *)

\* An arm is under way or the user was told that the schedule is not armed.
ArmPending == told \/ ArmServed \/ \E c \in Calls : phase[c] \in Arming

\* An enabled schedule waits for a tick of its own, as last edited, or fires one
\* now, unless an arm is under way or the user was told that it is not armed:
\* whatever edits, alarms, retries and evictions overlap.
ScheduleWakes ==
    trigger = "enabled" /\ ~ArmPending =>
        /\ tick # 0
        /\ isTick(spec, tick)
        /\ alarm # 0 \/ serving = "alarm"

\* An object that holds a tick wakes: so the object of a schedule that is gone
\* finds it out by itself where no sweep reaches it.
TickWakes == tick # 0 => alarm # 0 \/ serving = "alarm"

\* Once a sweep forgot the object of a schedule that is gone, it holds no tick
\* and no alarm, though arms and alarms may still reach it: nothing would delete
\* it any more.
ForgottenIsSilent == trigger = "gone" /\ ~listed => tick = 0 /\ alarm = 0

\* The run a tick created is started or ended, or the object still holds its
\* tick and will try again, however answers are lost and handlers evicted.  It is
\* left behind only where its start was refused or failed on a second attempt,
\* its abandonment failed, or the schedule was armed, disabled, edited or removed
\* under it.
RunsFollowed ==
    \A t \in Times : runs[t] = "created" =>
        t \in orphans \/ (tick = t /\ (alarm # 0 \/ serving = "alarm"))

-----------------------------------------------------------------------------
(* The inductive invariant                                                  *)

\* What the object's call holds between its awaits.
CallConsistent ==
    /\ serving = "none" => step = "idle" /\ run = 0
    /\ ArmServed => step \in {"asked", "answered"} /\ run = 0 /\ answer # "early" /\ meta
    /\ serving \in Calls => phase[serving] \in Arming
    /\ serving = "alarm" => step # "idle" /\ tick # 0 /\ alarm = 0
    /\ tick # 0 => meta
    /\ answer = "none" <=> step \in {"idle", "asked"}
    /\ run # 0 => run = tick /\ answer = "fired" /\ runs[run] # "none"
    /\ step \in {"start", "started", "abandon", "keep"} => run # 0
    /\ step = "started" => runs[run] # "created"
    /\ step = "keep" => runs[run] # "created" \/ run \in orphans

\* An answer not handled yet is of the schedule as last edited, unless an arm of
\* another call is still to come.
AnswerFresh ==
    /\ trigger = "enabled"
    /\ ~told
    /\ \A c \in Calls : phase[c] \in Arming => c = serving
    /\ answer # "none"
    => answer # "gone" /\ next # 0 /\ isTick(spec, next)

\* What a sweep purges is gone, and once purged is silent for good.
Silent == tick = 0 /\ alarm = 0 /\ (answer # "none" => answer = "gone")

SweepConsistent ==
    /\ "purge" \in strays => trigger = "gone"
    /\ \A c \in Calls :
          /\ phase[c] # "off" => trigger # "none"
          /\ phase[c] = "purge" => trigger = "gone"
          /\ phase[c] = "forget" => trigger = "gone" /\ Silent
    /\ trigger = "gone" /\ ~listed => Silent
    /\ Exists => spec \in Schedules /\ listed

\* What ScheduleTrigger_proofs shows inductive.
IInv ==
    /\ TypeOK
    /\ ScheduleWakes
    /\ TickWakes
    /\ RunsFollowed
    /\ CallConsistent
    /\ AnswerFresh
    /\ SweepConsistent
=============================================================================
