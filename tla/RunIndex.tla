------------------------------ MODULE RunIndex ------------------------------
(***************************************************************************)
(* The org's index of agent runs (packages/agents/src/runs/runs.ts over      *)
(* store.ts) and the run objects that act on it: starting runs and child     *)
(* runs, the check a turn passes when it begins, the state objects report,    *)
(* ending a run with the runs below it, deleting and pruning runs, and the    *)
(* sweep that deletes their objects.                                        *)
(*                                                                         *)
(* The index is a part of the org's ControlPlane: each of its methods is one *)
(* synchronous transaction, so an action.  Each run's Durable Object calls   *)
(* it over RPC and is called by Workers: a call may be delayed, its answer   *)
(* may be lost, and two calls of one object may pass each other.  A run's     *)
(* rights beyond the state of its agent (grants, scopes, members who leave)   *)
(* appear as a free choice to refuse.  A start its idempotency key finds      *)
(* again changes nothing in the index and is left out.                       *)
(***************************************************************************)
EXTENDS Integers, FiniteSets

CONSTANTS
    Runs,           \* run ids: freshRunId never gives one twice
    Agents,         \* the org's agents
    NoRun,          \* the starter of a run a member or a trigger started
    NoAgent,        \* the agent of an id not given out yet
    MaxChain,       \* MAX_CHAIN
    MaxChildren,    \* MAX_ACTIVE_CHILDREN
    MaxReports,     \* bound: state reports on their way at once
    MaxCalls,       \* bound: calls past the gateway at once
    MaxStarts,      \* bound: starts under way at once
    MaxPurges,      \* bound: purge calls that wait at once
    Edits,          \* whether agents change, and runs and their objects are deleted
    Faults          \* whether calls and answers are lost, and objects evicted

ASSUME RunIndexAssumption ==
    /\ NoRun \notin Runs
    /\ NoAgent \notin Agents
    /\ IsFiniteSet(Runs)
    /\ MaxChain \in Nat \ {0}
    /\ MaxChildren \in Nat
    /\ MaxReports \in Nat
    /\ MaxCalls \in Nat
    /\ MaxStarts \in Nat
    /\ MaxPurges \in Nat
    /\ {Edits, Faults} \subseteq BOOLEAN

VARIABLES
    \* the index (a deleted row's starter, agent and turned stay as history)
    agents,         \* each agent: "enabled", "disabled" or "removed"
    row,            \* each run's state in agent_runs, "none" when it has no row
    starter,        \* the run that started it, or NoRun
    agent,          \* its agent
    turned,         \* the runs with a turn_definition: a turn of theirs began
    purges,         \* agent_run_purges: deleted runs whose objects are not
    \* the run objects
    meta,           \* META in the object's storage: "none", "open" or "ended"
    active,         \* the runs with an ACTIVE turn in their storage
    pc,             \* the message it handles: none, its beginTurn asked or
                    \* answered, or being submitted to the harness
    wiped,          \* the objects whose instance has #purged set
    open,           \* the objects whose instance has a harness (#pi)
    purging,        \* purge calls that wait for the run's parent, each with
                    \* whether it found a harness to close
    closing,        \* purged objects whose harness did not close in time
    stray,          \* purged objects with a harness, or a turn it left, that
                    \* no purge is to close
    \* calls on their way
    starts,         \* start calls to run objects
    callers,        \* the runs whose starter waits for the start call's answer
    calls,          \* the runs with a call the gateway let in
    reports,        \* runStateChanged calls
    stops,          \* stop calls to run objects
    swept           \* the runs a sweep deleted the object of and is to forget

index == <<row, starter, agent, turned, purges>>
harnesses == <<wiped, open, purging, closing, stray>>
objects == <<meta, active, pc, harnesses>>
flight == <<starts, callers, calls, reports, stops, swept>>
vars == <<agents, index, objects, flight>>

IndexType ==
    /\ agents \in [Agents -> {"enabled", "disabled", "removed"}]
    /\ row \in [Runs -> {"none", "idle", "running", "ended"}]
    /\ starter \in [Runs -> Runs \cup {NoRun}]
    /\ agent \in [Runs -> Agents \cup {NoAgent}]
    /\ turned \in SUBSET Runs
    /\ purges \in SUBSET Runs

ObjectType ==
    /\ meta \in [Runs -> {"none", "open", "ended"}]
    /\ pc \in [Runs -> {"idle", "asking", "answered", "submitting"}]
    /\ {active, wiped, open, closing, stray} \subseteq SUBSET Runs
    /\ purging \in SUBSET (Runs \X BOOLEAN)

FlightType ==
    /\ {starts, callers, calls, stops, swept} \subseteq SUBSET Runs
    /\ reports \in SUBSET (Runs \X {"running", "idle", "ended"})

TypeOK == IndexType /\ ObjectType /\ FlightType

Init ==
    /\ agents = [a \in Agents |-> "enabled"]
    /\ row = [r \in Runs |-> "none"]
    /\ starter = [r \in Runs |-> NoRun]
    /\ agent = [r \in Runs |-> NoAgent]
    /\ turned = {}
    /\ purges = {}
    /\ meta = [r \in Runs |-> "none"]
    /\ active = {}
    /\ pc = [r \in Runs |-> "idle"]
    /\ wiped = {}
    /\ open = {}
    /\ purging = {}
    /\ closing = {}
    /\ stray = {}
    /\ starts = {}
    /\ callers = {}
    /\ calls = {}
    /\ reports = {}
    /\ stops = {}
    /\ swept = {}

-----------------------------------------------------------------------------
(* The tree of runs.                                                        *)

Present(r) == row[r] # "none"
Live(r) == row[r] \in {"idle", "running"}

\* The least set that holds S and follows the edges E.
Reach(S, E) ==
    {x \in Runs : \A T \in SUBSET Runs :
        (S \subseteq T /\ \A e \in E : e[1] \in T => e[2] \in T) => x \in T}

Edges == {<<starter[x], x>> : x \in {y \in Runs : starter[y] # NoRun}}

\* #chain: the run and the runs that started it, up to one that has no row.
\* (Its cut-off at one more than MAX_CHAIN hides no run: only a run that worked
\* a turn starts another, see TurnChainBounded.)
Chain(r) ==
    Reach({r}, {<<x, starter[x]>> : x \in {y \in Runs : starter[y] # NoRun /\ Present(starter[y])}})

\* Mutant: a chain whose head is gone counts as one no one started.
AnyChain(r) == TRUE

\* #starterMember is not "gone": the last run of the chain is no run's child.
WholeChain(r) == \E h \in Chain(r) : starter[h] = NoRun

\* #end: a run and, below each run it ends, the child runs not ended yet.
Ended(r) == Reach({r}, {e \in Edges : Live(e[2])})

\* discard's doomed: the runs and every child run below them.
Doomed(S) == Reach(S, {e \in Edges : Present(e[2])})

RunningChildren(p) == {c \in Runs : starter[c] = p /\ row[c] = "running"}

\* #mayRun, as far as the index decides it: a turn of the run that calls read a
\* definition, and the agent is enabled.
MayRun(p, a) == p \in turned /\ agents[a] = "enabled"

-----------------------------------------------------------------------------
(* Starting runs.                                                           *)

Insert(r, a, s, state) ==
    /\ agent[r] = NoAgent
    /\ Cardinality(starts \cup callers) < MaxStarts
    /\ row' = [row EXCEPT ![r] = state]
    /\ starter' = [starter EXCEPT ![r] = s]
    /\ agent' = [agent EXCEPT ![r] = a]
    /\ starts' = starts \cup {r}
    /\ callers' = callers \cup {r}
    /\ UNCHANGED <<agents, turned, purges, objects, reports, stops, swept>>

\* start, startTriggered and a member's startFromToolkit.
StartRun(r, a) ==
    /\ agents[a] = "enabled"
    /\ Insert(r, a, NoRun, "idle")
    /\ UNCHANGED calls

\* Mutant: the gateway asks only whether the run itself ended.
MayCallAlone(r) == Live(r) /\ r \in turned

\* turnContext's conditions.
MayCall(r) == Live(r) /\ r \in turned /\ WholeChain(r)

\* A call of a run's turn, to a model or a tool, passes the gateway.
GatewayCall(r) ==
    /\ r \in active \cap open
    /\ MayCall(r)
    /\ Cardinality(calls) < MaxCalls
    /\ calls' = calls \cup {r}
    /\ UNCHANGED <<agents, index, objects, starts, callers, reports, stops, swept>>

\* startFromToolkit, called by run p, whose call passed the gateway before.
StartChild(p, r, a) ==
    /\ p \in calls
    /\ Live(p)
    /\ MayRun(p, a)
    /\ Cardinality(Chain(p)) < MaxChain
    /\ \A x \in Chain(p) : agent[x] # a
    /\ Cardinality(RunningChildren(p)) < MaxChildren
    /\ Insert(r, a, p, "running")
    /\ calls' = calls \ {p}

\* The call was another, or was refused.
CallReturns(r) ==
    /\ r \in calls
    /\ calls' = calls \ {r}
    /\ UNCHANGED <<agents, index, objects, starts, callers, reports, stops, swept>>

\* start: the object keeps the run's META unless it has it, and sends itself the
\* first turn's input.  An instance that was purged answers an unknown run.
StartArrives(r) ==
    /\ r \in starts
    /\ pc[r] = "idle"
    /\ starts' = starts \ {r}
    /\ IF r \in wiped
         THEN UNCHANGED objects
         ELSE /\ meta' = [meta EXCEPT ![r] = IF @ = "none" THEN "open" ELSE @]
              /\ pc' = [pc EXCEPT ![r] = IF meta[r] = "ended" THEN "idle" ELSE "asking"]
              /\ UNCHANGED <<active, harnesses>>
    /\ UNCHANGED <<agents, index, callers, calls, reports, stops, swept>>

StartLost(r) ==
    /\ Faults
    /\ r \in starts
    /\ starts' = starts \ {r}
    /\ UNCHANGED <<agents, index, objects, callers, calls, reports, stops, swept>>

SetEnded(S) == row' = [r \in Runs |-> IF r \in S /\ Present(r) THEN "ended" ELSE row[r]]

\* The start call failed for its caller (its object refused it, or the call or
\* its answer was lost): abandon, abandonFromToolkit, abandonTriggered.
Abandon(r) ==
    /\ r \in callers
    /\ Faults \/ (r \notin starts /\ pc[r] = "idle")
    /\ SetEnded(IF Present(r) THEN Ended(r) ELSE {})
    /\ callers' = callers \ {r}
    /\ UNCHANGED <<agents, starter, agent, turned, purges, objects, starts, calls,
                   reports, stops, swept>>

-----------------------------------------------------------------------------
(* Turns.                                                                   *)

\* message and deliver: #message asks the index before it starts a turn.  One
\* that sees an ACTIVE turn asks nothing: it goes to the harness as steering.
\* (An ended run refuses it.)
Message(r) ==
    /\ meta[r] = "open"
    /\ r \notin wiped
    /\ pc[r] = "idle"
    /\ pc' = [pc EXCEPT ![r] = IF r \in active THEN "submitting" ELSE "asking"]
    /\ open' = IF r \in active THEN open \cup {r} ELSE open
    /\ UNCHANGED <<agents, index, meta, active, wiped, purging, closing, stray, flight>>

\* Mutant: a child run's turn asks nothing of the run that started it.
MayTurnAlone(r) ==
    /\ Live(r)
    /\ agents[agent[r]] = "enabled"

\* beginTurn's conditions, as far as the index decides them.
MayTurn(r) ==
    /\ Live(r)
    /\ agents[agent[r]] = "enabled"
    /\ starter[r] # NoRun => Live(starter[r]) /\ MayRun(starter[r], agent[r])
    /\ WholeChain(r)

\* beginTurn lets the turn begin.
TurnBegins(r) ==
    /\ pc[r] = "asking"
    /\ MayTurn(r)
    /\ row' = [row EXCEPT ![r] = "running"]
    /\ turned' = turned \cup {r}
    /\ pc' = [pc EXCEPT ![r] = "answered"]
    /\ UNCHANGED <<agents, starter, agent, purges, meta, active, harnesses, flight>>

\* beginTurn answers run_ended or not_found (always when its conditions fail,
\* and for want of rights otherwise): #end records it and reports the run ended.
TurnRefused(r) ==
    /\ pc[r] = "asking"
    /\ Cardinality(reports) < MaxReports
    /\ pc' = [pc EXCEPT ![r] = "idle"]
    /\ meta' = [meta EXCEPT ![r] = "ended"]
    /\ reports' = reports \cup {<<r, "ended">>}
    /\ UNCHANGED <<agents, index, active, harnesses, starts, callers, calls, stops, swept>>

\* The index cannot be reached, its answer is lost and the row stays running, or
\* the harness takes no message: #message answers unavailable or throws.
TurnUnavailable(r) ==
    /\ Faults
    /\ pc[r] # "idle"
    /\ pc' = [pc EXCEPT ![r] = "idle"]
    /\ UNCHANGED <<agents, index, meta, active, harnesses, flight>>

\* Mutant: a purged instance opens its harness again.
AnswerArrivesAnyway(r) ==
    /\ pc[r] = "answered"
    /\ pc' = [pc EXCEPT ![r] = "submitting"]
    /\ open' = open \cup {r}
    /\ UNCHANGED <<agents, index, meta, active, wiped, purging, closing, stray, flight>>

\* beginTurn's answer: #message opens the harness, which a purged instance does
\* not, and submits the message.
AnswerArrives(r) ==
    /\ pc[r] = "answered"
    /\ IF r \in wiped
         THEN pc' = [pc EXCEPT ![r] = "idle"] /\ UNCHANGED open
         ELSE pc' = [pc EXCEPT ![r] = "submitting"] /\ open' = open \cup {r}
    /\ UNCHANGED <<agents, index, meta, active, wiped, purging, closing, stray, flight>>

\* alarm, and any call that reads the run: the harness of an instance that has
\* none is opened, and goes on with the ACTIVE turn.
HarnessOpens(r) ==
    /\ meta[r] # "none"
    /\ r \in active \ (wiped \cup open)
    /\ open' = open \cup {r}
    /\ UNCHANGED <<agents, index, meta, active, pc, wiped, purging, closing, stray, flight>>

\* The harness took the message.  #message writes META and reads ACTIVE again:
\* the message steers the running turn; or it is a turn, also where it was to
\* steer one that finished meanwhile, recorded as ACTIVE and reported, and
\* whoever waits for the start hears of it (`heard`).
TurnRecorded(r, heard) ==
    /\ heard \/ Faults
    /\ pc[r] = "submitting"
    /\ pc' = [pc EXCEPT ![r] = "idle"]
    /\ meta' = [meta EXCEPT ![r] = "open"]
    /\ callers' = IF heard THEN callers \ {r} ELSE callers
    /\ \/ r \in active /\ UNCHANGED <<active, reports>>
       \/ /\ r \notin active
          /\ Cardinality(reports) < MaxReports
          /\ active' = active \cup {r}
          /\ reports' = reports \cup {<<r, "running">>}
    /\ UNCHANGED <<agents, index, harnesses, starts, calls, stops, swept>>

\* #finish, which waits for no other call: the run has no ACTIVE turn and reports
\* it is idle.  A purged instance records nothing.
Finish(r) ==
    /\ r \in (active \cap open) \ wiped
    /\ Cardinality(reports) < MaxReports
    /\ active' = active \ {r}
    /\ reports' = reports \cup {<<r, "idle">>}
    /\ UNCHANGED <<agents, index, meta, pc, harnesses, starts, callers, calls, stops, swept>>

\* Mutant: a late report brings an ended run back.
ReportRevives(r, state, heard) ==
    /\ heard \/ Faults
    /\ <<r, state>> \in reports
    /\ reports' = reports \ {<<r, state>>}
    /\ \/ /\ Present(r)
          /\ state = "ended"
          /\ SetEnded(Ended(r))
          /\ stops' = IF heard THEN stops \cup (Ended(r) \ {r}) ELSE stops
       \/ /\ Present(r)
          /\ state # "ended"
          /\ row' = [row EXCEPT ![r] = state]
          /\ UNCHANGED stops
       \/ ~Present(r) /\ UNCHANGED <<row, stops>>
    /\ UNCHANGED <<agents, starter, agent, turned, purges, objects, starts, callers,
                   calls, swept>>

\* runStateChanged.  An ended run stays ended; one that ends ends the runs below
\* it, whose objects the run's object stops if it hears the answer.
ReportArrives(r, state, heard) ==
    /\ heard \/ Faults
    /\ <<r, state>> \in reports
    /\ reports' = reports \ {<<r, state>>}
    /\ \/ /\ Live(r)
          /\ state = "ended"
          /\ SetEnded(Ended(r))
          /\ stops' = IF heard THEN stops \cup (Ended(r) \ {r}) ELSE stops
       \/ /\ Live(r)
          /\ state # "ended"
          /\ row' = [row EXCEPT ![r] = state]
          /\ UNCHANGED stops
       \/ ~Live(r) /\ UNCHANGED <<row, stops>>
    /\ UNCHANGED <<agents, starter, agent, turned, purges, objects, starts, callers,
                   calls, swept>>

\* A report that failed is only logged.
ReportLost(m) ==
    /\ Faults
    /\ m \in reports
    /\ reports' = reports \ {m}
    /\ UNCHANGED <<agents, index, objects, starts, callers, calls, stops, swept>>

\* stop, between the object's other serialised calls: its running turn is
\* aborted and it ends.  Its report changes nothing: its row is not live.
StopArrives(r) ==
    /\ r \in stops
    /\ pc[r] = "idle"
    /\ stops' = stops \ {r}
    /\ IF meta[r] = "open" /\ r \notin wiped
         THEN /\ meta' = [meta EXCEPT ![r] = "ended"]
              /\ active' = active \ {r}
              /\ open' = IF r \in active THEN open \cup {r} ELSE open
         ELSE UNCHANGED <<meta, active, open>>
    /\ UNCHANGED <<agents, index, pc, wiped, purging, closing, stray, starts, callers,
                   calls, reports, swept>>

StopLost(r) ==
    /\ Faults
    /\ r \in stops
    /\ stops' = stops \ {r}
    /\ UNCHANGED <<agents, index, objects, starts, callers, calls, reports, swept>>

-----------------------------------------------------------------------------
(* Agents, deletion, retention.                                             *)

\* Bound: agents are changed once they have runs, and one at a time.
Edited(a) ==
    /\ Edits
    /\ agents[a] # "removed"
    /\ \E r \in Runs : agent[r] = a /\ Present(r)
    /\ \A b \in Agents \ {a} : agents[b] = "enabled"

\* An agent is disabled or enabled again.
SetEnabled(a) ==
    /\ Edited(a)
    /\ agents' = [agents EXCEPT ![a] = IF @ = "enabled" THEN "disabled" ELSE "enabled"]
    /\ UNCHANGED <<index, objects, flight>>

\* RunStore.discard: the rows go and their objects are queued.
Discard(S) ==
    /\ purges' = purges \cup S
    /\ row' = [r \in Runs |-> IF r \in S THEN "none" ELSE row[r]]
    /\ UNCHANGED <<starter, agent, turned, objects, flight>>

\* An agent is removed, and its runs with the runs below them.
RemoveAgent(a) ==
    /\ Edited(a)
    /\ agents' = [agents EXCEPT ![a] = "removed"]
    /\ Discard(Doomed({r \in Runs : agent[r] = a /\ Present(r)}))

\* deleteBy, and for each run they started, a member who leaves.
DeleteRun(r) ==
    /\ Edits
    /\ Present(r)
    /\ Discard(Doomed({r}))
    /\ UNCHANGED agents

\* expireRuns: a run past the retention period that runs no turn goes alone.
Prune(r) ==
    /\ row[r] \in {"idle", "ended"}
    /\ Discard({r})
    /\ UNCHANGED agents

\* purge takes note of the harness that is open, and a child run's first tells
\* its parent it waits on nothing (childWaiting), for PURGE_CLOSE_MS at most.
PurgeBegins(r) ==
    /\ Edits
    /\ r \in purges
    /\ Cardinality(purging) < MaxPurges
    /\ starter[r] # NoRun
    /\ meta[r] # "none"
    /\ r \notin wiped
    /\ purging' = purging \cup {<<r, r \in open>>}
    /\ UNCHANGED <<agents, index, meta, active, pc, wiped, open, closing, stray, flight>>

\* purge goes on: the instance is marked as purged, the harness it took note of
\* (`captured`) is closed, if it does so in time (`closed`), and the storage is
\* deleted.  It waits for no other call: one that asked the index goes on when it
\* is answered.  A harness opened while purge waited is left to itself.  (Closing
\* late matters only where a message is on its way into the harness: without one
\* nothing is written that the second deletion would delete.)
Purge(r, captured, closed) ==
    /\ Edits
    /\ \/ <<r, captured>> \in purging
       \/ /\ r \in purges
          /\ starter[r] = NoRun \/ meta[r] = "none" \/ r \in wiped
          /\ captured = (r \in open)
    /\ closed \/ (captured /\ Faults /\ pc[r] = "submitting")
    /\ purging' = purging \ {<<r, captured>>}
    /\ wiped' = wiped \cup {r}
    /\ open' = open \ {r}
    /\ closing' = IF closed THEN closing ELSE closing \cup {r}
    /\ stray' = IF captured THEN stray \ {r} ELSE stray \cup ({r} \cap open)
    /\ meta' = [meta EXCEPT ![r] = "none"]
    /\ active' = active \ {r}
    /\ pc' = [pc EXCEPT ![r] = IF captured /\ closed /\ @ = "submitting" THEN "idle" ELSE @]
    /\ swept' = swept \cup {r}
    /\ UNCHANGED <<agents, index, starts, callers, calls, reports, stops>>

\* The harness closed after purge answered: the storage is deleted again.
CloseEnds(r) ==
    /\ r \in closing
    /\ closing' = closing \ {r}
    /\ meta' = [meta EXCEPT ![r] = "none"]
    /\ active' = active \ {r}
    /\ pc' = [pc EXCEPT ![r] = IF @ = "submitting" THEN "idle" ELSE @]
    /\ UNCHANGED <<agents, index, wiped, open, purging, stray, flight>>

\* forgetRuns, by the sweep whose purge of the object succeeded.
Forget(r) ==
    /\ r \in swept
    /\ swept' = swept \ {r}
    /\ purges' = purges \ {r}
    /\ row' = [row EXCEPT ![r] = "none"]
    /\ UNCHANGED <<agents, starter, agent, turned, objects, starts, callers, calls,
                   reports, stops>>

\* The platform drops the object's instance, its harness and the calls under way
\* in it; a new one has #purged unset and takes up the turn its storage says is
\* ACTIVE, also one that was written after the purge.
Evict(r) ==
    /\ Faults
    /\ r \in wiped \cup open \/ pc[r] # "idle" \/ \E e \in purging : e[1] = r
    /\ wiped' = wiped \ {r}
    /\ open' = open \ {r}
    /\ purging' = {e \in purging : e[1] # r}
    /\ closing' = closing \ {r}
    /\ stray' = (stray \ {r}) \cup ({r} \cap active \cap (stray \cup closing))
    /\ pc' = [pc EXCEPT ![r] = "idle"]
    /\ UNCHANGED <<agents, index, meta, active, flight>>

Next ==
    \/ \E r \in Runs, a \in Agents : StartRun(r, a)
    \/ \E p, r \in Runs, a \in Agents : StartChild(p, r, a)
    \/ \E r \in Runs :
         \/ GatewayCall(r)
         \/ CallReturns(r)
         \/ StartArrives(r)
         \/ StartLost(r)
         \/ Abandon(r)
         \/ Message(r)
         \/ TurnBegins(r)
         \/ TurnRefused(r)
         \/ TurnUnavailable(r)
         \/ AnswerArrives(r)
         \/ HarnessOpens(r)
         \/ Finish(r)
         \/ StopArrives(r)
         \/ StopLost(r)
         \/ DeleteRun(r)
         \/ Prune(r)
         \/ PurgeBegins(r)
         \/ CloseEnds(r)
         \/ Forget(r)
         \/ Evict(r)
    \/ \E r \in Runs, heard \in BOOLEAN : TurnRecorded(r, heard)
    \/ \E r \in Runs, captured, closed \in BOOLEAN : Purge(r, captured, closed)
    \/ \E m \in reports, heard \in BOOLEAN : ReportArrives(m[1], m[2], heard)
    \/ \E m \in reports : ReportLost(m)
    \/ \E a \in Agents : SetEnabled(a) \/ RemoveAgent(a)

Spec == Init /\ [][Next]_vars

-----------------------------------------------------------------------------
(* What the index keeps true.                                               *)

\* "A run that ends ends its child runs, and theirs": in the index no run that
\* is still live was started by one that ended, whatever reports arrive late,
\* and whatever turns began meanwhile.
EndedClosed ==
    \A r \in Runs : Live(r) /\ starter[r] # NoRun /\ Present(starter[r]) => Live(starter[r])

\* The runs above r as they were started, whether or not they still have rows.
Ancestry(r) == Reach({r}, {<<x, starter[x]>> : x \in {y \in Runs : starter[y] # NoRun}})

Bounded(r) ==
    /\ Cardinality(Ancestry(r)) <= MaxChain
    /\ \A x, y \in Ancestry(r) : x # y => agent[x] # agent[y]

\* "A chain of runs is at most MAX_CHAIN deep, an agent already in the chain is
\* refused": no run ever worked a turn with more runs above it, or with its agent
\* above it, even where a run of the chain was pruned between the check at the
\* gateway and the start, so that the index saw a shorter chain.
TurnChainBounded == \A r \in turned : Bounded(r)

\* A child run's turns check that the run that started it is still there, and
\* only that one, and a turn that a late steering message begins checks nothing:
\* still the index lets a turn begin, and the gateway a turn's call pass, only
\* where every run above it is there and has not ended.
WorkUnderLiveChain ==
    [][\A r \in Runs :
           (pc[r] = "asking" /\ pc'[r] = "answered") \/ r \in calls' \ calls =>
               \A x \in Ancestry(r) : Live(x)]_vars

\* A run the sweep forgot has no turn in its storage, though purge waits for no
\* call under way: nothing lists its object any more.  The exceptions are a
\* harness opened while purge waited for the run's parent, and one that takes
\* longer to close than purge waits.
ForgottenIsQuiet ==
    \A r \in Runs : agent[r] # NoAgent /\ ~Present(r) /\ r \notin purges =>
        r \notin active \ (stray \cup closing)

\* Only ids given out have rows, turns and child runs.
IdsKnown ==
    \A r \in Runs :
        /\ agent[r] = NoAgent => row[r] = "none" /\ r \notin turned
        /\ starter[r] # NoRun => agent[starter[r]] # NoAgent

\* A start let through a chain that is too long, or an agent twice in it, only
\* where a run above it is gone for good: its turns are refused.
ChainAccounted ==
    \A r \in Runs : agent[r] # NoAgent =>
        Bounded(r) \/ \E x \in Ancestry(r) : ~Present(x)

\* What RunIndex_proofs shows inductive.
IInv == TypeOK /\ EndedClosed /\ IdsKnown /\ ChainAccounted /\ TurnChainBounded
=============================================================================
