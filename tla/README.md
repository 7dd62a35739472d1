# Verification of Commissary

TLA+ models of the parts of Commissary in which several actors share state:
Durable Objects that call one another, alarms, retries, evictions and leases.
Each model is translated from the TypeScript under `src/`, is checked by TLC on a
small instance, and its main properties are proved by TLAPS for every value of
its constants. `PROJECT.json` maps every definition to the lines it models.

1. [The system](#the-system)
2. [How the models read the code](#how-the-models-read-the-code)
3. [Modules and the code](#modules-and-the-code)
4. [Runs, bounds and what they show](#runs-bounds-and-what-they-show)
5. [Fairness](#fairness)
6. [Proofs](#proofs)
7. [Where the code and its comments part](#where-the-code-and-its-comments-part)
8. [What is not modelled](#what-is-not-modelled)
9. [Plan](#plan)

## The system

Commissary is a service on Cloudflare Workers through which an org reaches
models, tools, a browser and hosted agents. Workers keep no state; the state is in
Durable Objects, each of which has its own storage, runs one JavaScript thread,
and may be evicted (every deploy evicts) with what it held in memory. The parts,
what each keeps, and what must be true of it:

| Part | State | Operations | What makes it correct |
|---|---|---|---|
| **Named leases** (`packages/state/src/lease.ts`) | one row per name: token, time of the last renewal | take, renew, release; the work under a lease (quota sweep, catalog refresh) | one piece of work at a time; a late release or renewal leaves a new holder alone |
| **Run object** (`packages/agents/src/runs/run-object.ts`) | META, the turns, ACTIVE, DELIVERIES, idempotency keys, one alarm; in memory the harness, claimants, a serial queue | start, message, claim, deliver, cancel, stop, purge, alarm | a child's finished turn reaches its parent once it can, and is not lost; an ended run runs nothing |
| **Run index** (`packages/agents/src/runs/runs.ts`, `store.ts`) | a row per run (state, starter, agent, the definition its turns read), the queue of objects to purge | start, startFromToolkit, beginTurn, runStateChanged, abandon, delete, expire, forget | a run that ends takes the runs below it with it; chains are bounded; a deleted run does nothing |
| **Schedule triggers** (`packages/agents/src/triggers/`) | the trigger's row, the list of objects that may exist; in the object META, TICK and an alarm | add, edit, remove, arm, fire, abandon, purge, sweep | an enabled schedule keeps waking for its ticks; a tick has one run, which is started or ended; a removed one falls silent |
| **Spend limits** (`packages/state/src/spend/`) | limits of admins and members, a counter per subject and period, the calendar | gate before a request, charge after it, change limits and calendar | counters are exact; a limit is passed by no more than the requests under way |
| **Session state** (`packages/state/src/session-state/`) | entries with an expiry and a generation, an alarm; in memory the last generation and registration | get, put, compare-and-swap, delete, sweep, wipe, register | no lost update; the object cleans itself up and an org's deletion finds it |
| **Tool approvals** (`packages/tools/src/approvals/`) | a row per asked call | ask, decide, repeat, expire | an approval lets one call through |
| **Org deletion** (`packages/state/src/platform/`, `apps/app/src/platform/org-deletion.ts`) | the registry's entry, a deletion under way | steps within a budget, repeated after a failure | nothing of the org is left once its entry is gone |
| **Credentials** (`packages/models/src/credentials/`) | tokens, errors, back-offs; in memory the refreshes under way; one alarm | log in, edit, remove, report a result, refresh by hand, alarm or cron | a late refresh undoes nothing newer; no rotated token is dropped; what is due is tried |
| **Quota reset grants** (`packages/models/src/quota/`) | a claim journal per auth file | read the grants, start a claim, send, settle, resend | no reset is spent that nobody decided to spend |
| **Billing** (`packages/billing/`) | the plan, use, what was sent of it, the pending batch | count, apply a webhook, switch, take a batch, send, note it sent | use on Pay as you go is billed, once; nothing else is |
| **Sandbox and browser sessions**, **OAuth sign-ins** (`packages/tools/`) | session objects, flow records | open, meter, close; begin, take once | no session is left running |
| Translation, executors, auth, contract, workers, web panel | none of their own | conversion, I/O, decisions per request | the conversion agrees with its reference |

**How they interact.** A run's object asks the org's *ControlPlane*, the object
that holds the run index, before each turn (`beginTurn`) and reports its state
afterwards (`runStateChanged`). A run that works calls tools through the gateway;
one of them starts child runs, which makes a row in the index and then calls the
child's object. The child's object sends its parent's object the results of its
turns (`deliver`), and the parent's object stops its children when it ends. The
schedule object's alarm asks the ControlPlane to fire a tick and calls the new
run's object. Sweeps run by Workers delete objects whose rows are gone. A request
to a model or a tool asks the ControlPlane for a credential and room under the
spend limits, is served by a Worker, and reports what it cost and whether it
failed; meanwhile the ControlPlane's alarm refreshes credentials at their
providers. Billing's cron and the provider's webhooks, and a claim of a reset, are
Workers that call the ControlPlane, an outside service, and the ControlPlane again.

**What is hard.** Each method of the ControlPlane is one synchronous transaction,
so nothing interleaves inside it; everything hard is *between* calls: a value
read before an `await` and used after it (the deliveries list, the chain, a
schedule's answer), a call whose answer is lost after it took effect, a report
overtaken by another, an object evicted between two writes, one alarm that serves
two purposes, two serial queues that wait for each other. `PROJECT.json` lists
these as hazards at the lines where they bite, with the properties that watch
them.

## How the models read the code

* An action is what an object does between two awaits. What a Durable Object
  serialises (`#serial`) is one call at a time in the model too; what it does not
  (`claim`, `purge`, `#deliverPending`) interleaves.
* A call to another object is a step of its own where its delay matters. It may
  not arrive, or arrive and its answer be lost, or be given up by the caller and
  arrive later (*strays*).
* An eviction drops the variables that stand for memory and keeps those that stand
  for storage; the platform runs an alarm handler again that did not end.
* Data is reduced to what the properties tell apart. A turn is a number, a
  schedule the set of its ticks, a right that is not in the model a free choice to
  refuse. Wording, views, usage figures and payloads are left out.
* Definitions named after a private method (`#finish`, `#hand`, ...) or a public
  one model the whole of it. Definitions marked *Mutant* are wrong on purpose:
  each is a mistake the code could have had, and TLC finds the property it breaks.
* Variables under *history* are not in the code. They record what happened so that
  a property can speak of it, and no guard reads them.

## Modules and the code

### NamedLease

`lease` is the table of `LeaseStore`: a row has a token and the time it was last
renewed. `mayTake` is the store's condition, `TakeRow`, `RenewRow` and `Release`
its three statements. A *worker* is one invocation of a quota sweep, which renews
its lease while it works (`keepLease`, and each recorded report), or of a catalog
refresh, which does not. Around the calls: `TakeAnswerLost`, `RenewUnheard`,
`Vanish` (the isolate dies or the release never arrives) and the clock. `alive`
is history: when the object last marked the worker alive. A token is the number
of its take, which stands for `crypto.randomUUID()`.

Properties: `HeldWhileAlive`, `OneLiveHolder`, `LeaseTransfer`. A worker that went
a whole TTL without a renewal that arrived may overlap with another; the code
accepts this, and so do the properties.

### ChildRun

One child run and its parent. The child's storage (`status`, `claimed`,
`delivery`, `listed`, `attempts`, `active`, `alarm`, `childEnded`), its memory
(`claiming`, the claim calls, the `#deliverPending` calls in flight, the
serialised call), and of the parent what a delivery meets: the results it took by
idempotency key, whether it ended, and whether its serial queue is held by `#end`.

| Code (`run-object.ts`) | Actions |
|---|---|
| `#message`, `#begin`, `#finish` | `MessageBegins`, `MessageStarts`, `MessageEndsChild`, `TurnSettles`, `FinishTurn` |
| `claim`, `#hand` | `ClaimFinished`, `ClaimRunning`, `ClaimReturns`, `ClaimTimesOut`, `ClaimFails` |
| `alarm`, `#deliverPending`, `#delivered` | `Alarm`, `LoopSends`, `LoopEnds` |
| `deliver` | `ParentTakes`, `ParentRefuses`, `DeliverFails`, `StrayArrives` |
| `#end`, `stop`, `cancel`, `#abortActive` | `ParentEnds`, `EndReturns`, `StopIdle`, `AbortActive`, `AbortSettles`, `SerialReturns` |
| evictions, the index | `EvictChild`, `EvictParent`, `Forget` |

A `#deliverPending` call reads the list once, sends the turns one after another,
and at its end reads the list again and rewrites it; two such calls, a claim and a
finishing turn may all fall between. `todo`, `read` and `tried` are the local
variables of the call. Nothing of the turn's conversation is modelled: it starts,
and it settles.

Properties: `ResultAccounted`, `DeliveredWasTaken`, `PendingListed`,
`ClaimedNotPending`, `EndedIsQuiet`, `DroppedForCause`, `DeliveryEnds`,
`ResultsHandedOver`.

**ResultHandover** is what a child run promises of its results, without objects, loops,
tries, lost answers or evictions: a turn finishes once; its result is claimed or owed;
what is owed ends once, claimed, in the parent's inbox and recorded so, or given up; and
only a claim takes up again what ended. `Fate` maps a turn's status, its claim and its
delivery to that, the results the parent took are the inbox, and `ResultsHandedOver` is
the specification.

### RunIndex

The index and the run objects as far as they act on it. `row`, `starter`, `agent`,
`turned` and `purges` are its tables. Of each run object there are META (`meta`) and the
ACTIVE turn (`active`) in its storage, and in its memory the message it handles (`pc`),
its harness (`open`) and `#purged` (`wiped`); the rest are calls on their way. `Reach`
is the least set closed under some edges, which stands for the loops that walk the tree:
`Chain` (`#chain`), `Ended` (`#end`) and `Doomed` (`RunStore.discard`).

| Code (`run-object.ts`, `runs.ts`) | Actions |
|---|---|
| `start`, `startFromToolkit`, `abandon` | `StartRun`, `GatewayCall`, `StartChild`, `CallReturns`, `StartArrives`, `StartLost`, `Abandon` |
| `#message`, `#begin`, `beginTurn` | `Message`, `TurnBegins`, `TurnRefused`, `TurnUnavailable`, `AnswerArrives`, `TurnRecorded` |
| `alarm`, `#finish`, `stop` | `HarnessOpens`, `Finish`, `StopArrives`, `StopLost` |
| `runStateChanged` | `ReportArrives`, `ReportLost` |
| agents, `deleteBy`, `expireRuns` | `SetEnabled`, `RemoveAgent`, `DeleteRun`, `Prune` |
| `purge`, `forgetRuns` | `PurgeBegins`, `Purge`, `CloseEnds`, `Forget` |

A message that finds an ACTIVE turn asks the index nothing and steers it; when that
turn finishes before the harness took the message, `TurnRecorded` records a new one all
the same, as the code does. A purge takes note of the harness it is to close, waits for
the run's parent where there is one (`PurgeBegins`), and only then marks the instance
(`Purge`); a harness opened meanwhile is in `stray`, one that does not close in time in
`closing` until it does.

Properties: `EndedClosed`, `TurnChainBounded`, `WorkUnderLiveChain`,
`ForgottenIsQuiet`. `WorkUnderLiveChain` speaks of what the index lets begin and what
the gateway lets pass: the turn a late steering message begins asks nothing, and it is
the gateway that keeps it from working under a run that ended.

### ScheduleTrigger

One schedule, its object, and the management calls that add, edit and remove it.
`tick` and `alarm` are kept apart as in the object: TICK is what it will ask for,
the alarm when. `ArmBegins`, `ArmSchedule`, `ArmReturns` are one `arm` call with the
ControlPlane's answer in between; `AlarmFires`, `FireSchedule`, `AlarmReturns` or
`AlarmStarts`, `RunTakes`, `AlarmKeeps` one alarm. `SweepLists`, `Purge`,
`SweepForgets` are the sweep of retired schedules. `nextTick` and `isTick` stand
for the cron library; that a schedule always has a next tick is
`NextTickAssumption`, which `parseSchedule` sees to. The alarm may wake up to
`Skew` early by the ControlPlane's clock, which is why the code has the answer
`early`.

History: `told` (an arm failed, so the user or nobody knows that the schedule is
armed) and `orphans` (runs of a tick that were left unstarted for a cause the code
accepts). Properties: `ScheduleWakes`, `TickWakes`, `ForgottenIsSilent`,
`RunsFollowed`.

### Billing and UsageInvoice

The Billing part's tables (`used`, `sent`, `batch` with `events`, the account, the
admin's mark) and the Workers around them. `admit`, `refund` and `addTime` count;
`applySubscription` is a webhook, of the current or of an old subscription, late or
again; `setUnbilled` an admin's mark. A call that sends goes through `meterBatch`,
`sendMeterEvents`, `meterBatchSent`; one that leaves Pay as you go (an owner's switch,
the org's deletion) goes on with `cancelSubscription` and `endSubscription`; any call
may fail between two steps (`CallFails`). `PolarChanges` is the provider. `NewBatch`,
`CloseUsage` and `WriteOffUnsent` are the store's private methods. Amounts are whole
numbers, and use is counted one unit at a time.

**UsageInvoice** says what Billing promises without batches, ids, retries or plans: use
above free usage is claimed, a claim is invoiced whole and once, or use is forgiven, and
nothing that was invoiced or forgiven is claimed again. Under the mapping in Billing a
pending batch is a claim until the provider took it and settled from then on, noted or
not; `InvoicedOnce` is that specification. `BilledForUse` is what the abstract
specification cannot say: *which* use may be billed.

### CredentialRefresh

The refreshes of an org's OAuth credentials in the ControlPlane. `file`, `token` and
`state` are the stored credential, `refresh` the map `#inflight`, `runs` the two
`runDue` loops (the alarm's and the cron's) with their queues, and `alarm` with
`watch` the alarm and the credentials it is early enough for. A refresh begins
(`refreshNow`, `WorkerTakes`), is answered by the provider (`Granted`: the old refresh
token is dead from then on) and ends as `#execute` ends it: `Refreshed`, `Failed`,
`Dropped`, `PersistFails`. Meanwhile users log in, disable, reset and remove, and
requests report. Times are abstracted to their order.

Properties: `LoginKept`, `SettingKept`, `RotatedKept`, `Watched`, `UnauthorizedStays`,
`DueTried`. `slipped` and `lost` are history: what the code leaves to the cron, and
tokens lost with an answer or a write. A success keeps an error that came up while its
refresh was out only if the error's message is not empty and not the one the refresh
began with (`hasNewConcurrentError`); `noted` says whether it is, and is a free choice
where a request fails. A 401 that says nothing new is cleared, and `UnauthorizedStays`
names that case.

### SpendLedger

`limits`, `counters` and `calendar` are the tables of `SpendStore`; `calls` the requests
and tool calls between their gate (`pick`, `callTool`) and their charge (`report`), each
with the scopes its lease named. `create`, `update`, `remove`, `forget` (a subject goes)
and `setSettings` change the book; `periodStart` is a parameter that stands for
`period.ts`, any non-decreasing function. `tally` and `ceiling` are history: what was
really charged, and the most the limits allowed.

Properties: `CountedExactly`, `OneRowPerLimit`, `OverspendBounded`.

### ResetGrants

`claim` is the journal of each auth file, `flow` the Worker's `claimResetGrant`: it
learns its target, reads the grants (`readStatus` is the moment the provider answers,
`readReturns` when the flow gets it), starts a claim (`beginFresh`, `beginResend`),
sends it or finds that it landed, and settles. `wire` holds claims on their way, which
outlive their flow. Times are kept as what is left of them, so that `Tick` cannot pass
the end of a call. The provider (`Spends`, `SpentBefore`, `Refused`, `Granted`, `CooldownEnds`) takes a request id once;
a reset it spends may start a cooldown. `cooldown` keeps the last claim that started
before its end, which is all `claimLanded` compares it with. `added` is history: resets
were granted since the flow read its status.

Properties: `OneResetPerReading`, `SentIsHeld`, `ClearedWasSpent`. They rest on what
`reset-grants.ts` says of its times, that the lease of a claim covers the claim and two
reads (60 s, 25 s and 12 s each), `ResetAssumption`; and on what the comment of
`claimLanded` assumes, that only a spent reset lowers `resets_left` or starts a
cooldown, and that Commissary spends them all.

### SessionState

One object and its callers. `Get`, `GetExtends`, `CasPut`, `CasDelete`, `Conflict` and
`Ends` are `updateEntry`, whose knowledge of its key is `caller`; `Overwrite` and
`Delete` are calls without a generation, by anyone. Each call carries its caller's
clock, which may be late by `Lag`. `arm` and `register` follow a write as in `run`; the
registration is a call of its own (`RegisterArrives`, `RegisterAnswered`,
`RegisterFails`). `Alarm` is the sweep, `Evict` loses the memory, and
`DeletionLists`, `Wipe`, `forgetSessionInstances` are step 2 of `deleteOrg`.

Properties: `NoLostUpdate`, `WriteKept`, `AlarmCovers`, `FoundByDeletion`. `lasting` and
`forgotten` are history of deletions: what is registered without what a deletion under
way is going to forget, and that one made the ControlPlane forget a registration that
was made, or under way, while it wiped the object. Nothing is claimed after that; an
object that was wiped and then forgotten, with nothing in between, is found again.

**SharedEntries** is what the object promises the callers of `updateEntry`, without
generations, alarms, sweeps, registrations and the callers' clocks: an entry is missed
only when it is not there or its time is up, another write drops it only for want of
room, and an update goes through only while the entry is as its caller saw it. A caller
whose engine began anew since it read is exempt (see the generations below). The
mapping is in `State_proofs.tla`; it hides all but the rows, the callers' knowledge, the
clock and the number of writes, and `SharedEntries` never reads a generation.

### How the modules fit together

ChildRun and RunIndex meet at the index: what ChildRun calls `index` (live, ended,
gone) is RunIndex's `row` of the child, and ChildRun's `ParentEnds` is RunIndex's
`ReportArrives` of an ended run with its `stops`. ScheduleTrigger's `runs` are
rows of the index, of which it needs the first state only; a start that the run's
object refuses is RunIndex's `TurnRefused` or `StartArrives` at an ended or purged
object. Each module leaves the other's steps free, so what it shows holds for any
behaviour of the other part. SpendLedger's `pick` and `report` are the same calls as
CredentialRefresh's `report`, seen from the ledger. SessionState's deletion steps are
the part of `deleteOrg` that concerns it. Billing instantiates UsageInvoice, ChildRun
ResultHandover, and the proofs of SessionState SharedEntries.

## Runs, bounds and what they show

Deadlock is not checked: each bound (turns, tokens, time, run ids) stops the model
where the system would go on, and a system with nothing to do rests.

| Run | Expected | Checks | Shows |
|---|---|---|---|
| `lease` | pass | `LeaseIInv`, `HeldWhileAlive`, `OneLiveHolder`, `LeaseTransfer` | two quota sweeps and a catalog refresh with lost answers, dead isolates and a TTL that passes |
| `child_results` | pass | `ResultAccounted`, `DeliveredWasTaken`, `PendingListed`, `ClaimedNotPending`, `EndedIsQuiet`, `ResultsHandedOver` | claims, delivery loops, failing calls, evictions of either object, and an end, stop, cancel or deletion under the deliveries |
| `child_deliveries_end` | pass | `DroppedForCause`, `DeliveryEnds` | every delivery ends, after its tries, with no eviction and turns claimed oldest first |
| `stop_hangs` | violation | `StopEnds` | a stop and an end that wait for each other |
| `index_chain` | pass | `TurnChainBounded`, `WorkUnderLiveChain` | a chain of three runs, pruned, ended and abandoned while they start one another, steer and finish |
| `index_deletion` | pass | `EndedClosed`, `ForgottenIsQuiet`, `WorkUnderLiveChain` | deletion, purges that wait, harnesses that open or close late, eviction, lost and overtaken calls |
| `schedule` | pass | `ScheduleWakes`, `TickWakes`, `ForgottenIsSilent`, `RunsFollowed` | overlapping edits, early and late alarms, failing calls, evictions, sweeps |
| `billing` | pass | `BilledForUse`, `InvoicedOnce` | webhooks late, twice and out of order; two calls that send, switch, fail and send again; marks; the turn of a month |
| `refresh` | pass | `LoginKept`, `SettingKept`, `RotatedKept`, `Watched`, `UnauthorizedStays`, `DueTried` | logins, edits, removals, results, two runs and an eviction while a refresh is out |
| `spend` | pass | `CountedExactly`, `OneRowPerLimit`, `OverspendBounded` | overlapping requests and tool calls while limits, subjects, the day and the calendar change |
| `reset_grants` | pass | `OneResetPerReading`, `SentIsHeld`, `ClearedWasSpent` | two flows, two auth files of one account, lost answers, dead Workers, logins and removals |
| `session_state` | pass | `NoLostUpdate`, `AlarmCovers`, `FoundByDeletion`, `WriteKept` | a compare-and-swap among other writers with late clocks, expiry, the bound, sweeps, evictions, a wipe, lost registrations |

The bounds, and why they are enough for what the runs are about:

* **lease**: TTL 2, time to 6, four tokens. A lease can be taken over, its old
  holder release late, and the new holder be taken over again.
* **ChildRun**: two turns, so a delivery of the first can be pending while the
  second runs, finishes, is claimed or delivered; two `#deliverPending` calls, so
  they overlap. `child_results` has evictions and endings together, and one try of each
  delivery; `child_deliveries_end` has two tries, so that a first failure is retried and
  a second gives up. The theorems are for any number. The runs have one claim, of the oldest unread turn
  (`NamedClaims = FALSE`), which is what the toolkit's wait without a turn's id does:
  several claims, by id, multiply the states beyond reach, and the theorems, which are
  for any claims, cover them. The symmetry set permutes loops, which the model treats
  alike; runs that check liveness use none.
* **RunIndex**: for the chain, three runs and three agents with `MAX_CHAIN` 3, so that a
  run has one above the run that started it, which a turn or a call does not look at by
  itself, and an agent can recur in a chain whose middle is pruned. (A fourth run, which
  the depth of a chain would need, is in the theorem only.) For deletion, two runs with
  edits and faults, two agents, and one purge that waits. One report, one start and one
  call past the gateway at a time. `MAX_CHAIN` and `MAX_ACTIVE_CHILDREN` are larger in
  the code; nothing in it depends on their values, and the theorems hold for any.
* **ScheduleTrigger**: two schedules that share some ticks and not others, two
  management calls, time to 3 with ticks past it, a retry of 2 and an early retry
  of 1, so that a retry can cross the next tick.
* **Billing**: one unit with free usage that is refused and taken back, one without;
  two uses, two months, two batches, so that a batch can be noted after the next one
  became pending; two calls at once, so that they send the same batch; one
  subscription with two changes, so that it ends and comes back or its webhooks cross,
  and two marks. Several subscriptions are in the theorems only.
* **CredentialRefresh**: one credential, two logins, one fault. Credentials meet in the
  alarm and the queues only, which hold sets; the theorems are for any number.
* **SpendLedger**: a key, the org and a shared credential with admins' and a member's
  limits, two requests at once, amounts and costs up to 1, two calendars whose days
  begin a tick apart, so that setting one and back meets an older counter.
* **ResetGrants**: two files of one organization, two flows, two claims, and two resets
  in all, granted before or while they are claimed, so that a second one can be spent; timeouts of 1, a lease of 4 (the least the
  assumption allows) and a retry window of 5, so that a claim can leave flight, be
  resent and lapse.
* **SessionState**: two keys in an object that keeps one, so that each write drops
  another; two writes; time to 3 with a longest life of 3, so that a registration is
  skipped, made again, and outlived; one caller beside any writers; a lag of 1.

## Fairness

Safety properties need none. `FairSpec` of ChildRun assumes weak fairness of what
the platform and the code do by themselves: a set alarm fires, a `#deliverPending`
call goes on once its call is answered, an object takes the calls that wait for it
once its serialised call returned, a message that passed `beginTurn` starts its turn
or fails, a stop that arrived proceeds (an abort has a time limit). Nothing is
assumed of the rest: a turn may run for ever and a claim wait for ever, and new
messages and claims, failing calls, endings and evictions may or may not come. In particular a deliver call may fail every time; `DeliveryEnds` then
holds because tries are counted. `stop_hangs` is checked under the same fairness:
its counterexample is two calls that wait for each other, not a system that
stops.

`FairSpec` of CredentialRefresh assumes that the cron's sweep runs, its workers take
what is queued and it ends, and that a refresh ends, which its timeout sees to. It
assumes nothing of the alarm; users, requests, providers and evictions do as they like.

## Proofs

The theorems are in `*_proofs.tla`, for any constants that satisfy the named
assumptions of the modules (`LeaseAssumption`, `ChildRunAssumption`,
`RunIndexAssumption`, `ScheduleTriggerAssumption`, `NextTickAssumption`,
`BillingAssumption`, `RefreshAssumption`, `SpendAssumption`, `ResetAssumption`,
`SessionAssumption`). Each is
proved by an inductive invariant `IInv`: `Init => IInv`, one step per action for
`IInv /\ [Next]_vars => IInv'`, and what `IInv` implies. Every safety property that a
run checks is a theorem, and so are three refinements. `State_proofs.tla` extends two
components of `packages/state`, SessionState and NamedLease, which share no variable;
this is why NamedLease's definitions have names of their own (`LeaseSpec`, `LeaseIInv`).

* **NamedLease** (`LeaseInvariant`, `LeaseHeldWhileAlive`, `LeaseExclusive`, `LeaseTransferSafe`).
  `HeldWhileAlive` alone is not inductive: a take-over looks at the row's age, not
  at the worker's last sign of life, so `RowAge` ties the two, and `TokensApart`
  says no two workers at work could hold one row. `OneLiveHolder` follows: two
  holders of one row would have one token.
* **ChildRun** (`TypeCorrect`, `ResultsAreAccounted`, `DeliveredResultsWereTaken`,
  `PendingStaysListed`, `ClaimedLeavesDeliveries`, `EndedChildIsQuiet`,
  `DropsAreForCause`), with evictions and endings together. The strengthening
  says what a loop's local variables mean while it waits (`LoopsConsistent`: an
  answer "ok" is of a turn the parent took, a refusal of a parent that ended), that
  a registered claimant of a running turn is some call's (`ClaimsConsistent`), and
  that no turn starts while a stop or cancel holds the serial queue
  (`SerialConsistent`). `ResultsAreHandedOver` maps every step to one of ResultHandover or
  to none. It needs `DeliveriesFinished`, an invariant of its own: what is listed, read
  by a loop, on its way or a stray is a finished turn's, and a finished turn nobody
  claimed has a delivery; otherwise a late answer could be of a turn that has no result.
* **RunIndex** (`TypeCorrect`, `RunsEndWithTheirStarter`, `TurnsStayInTheirChain`,
  `WorksUnderLiveRuns`, `ForgottenRunsAreQuiet`). The index reads a chain only up to the first missing
  row, so a start may see a short one and let a run in that is too deep.
  `ChainAccounted` says that such a run has an ancestor without a row; a row never
  comes back under its id, so `WholeChain`, which every turn requires, stays false for
  it. Since `Reach` is a least fixed point and not a recursion, the proofs use its
  two sides: it is closed (`ReachClosed`), and it lies in every closed set that
  holds its start (`ReachLeast`). `WorksUnderLiveRuns` combines the whole chain, which a
  turn's `beginTurn` and a call's `turnContext` both read, with `EndedClosed`: the starter
  is live, so its own starter is, and so on up, which is leastness again, of the set of
  live runs. `ForgottenRunsAreQuiet` has an invariant of its own, `PurgesStill`: a run
  without a row is listed for purge, or its object was purged and has no turn in its
  storage and no harness that could write one, but for those the property excepts; a
  message past `beginTurn` meets `#purged`, or the new instance's empty storage.
* **ScheduleTrigger** (`TypeCorrect`, `EnabledSchedulesWake`, `HeldTicksWake`,
  `ForgottenObjectsAreSilent`, `TickRunsAreFollowed`). `ScheduleWakes` depends on
  answers that were given before an edit and are handled after it: `AnswerFresh`
  says that such an answer is of the schedule as it is now, unless an arm is still to
  come. `CallConsistent` says what the handler holds at each await, and
  `SweepConsistent` that what was purged stays silent (only an arm can write to it
  again, and the answer it gets is `gone`).

* **Billing** (`TypeCorrect`, `OnlyUseIsBilled`, `Refinement`). `BilledForUse` speaks of
  what is billed or claimed; a new batch claims what is loose, so `LooseIsBillable` says
  that while a new batch may be made what it would carry may be billed: writing off at
  each change of plan or mark keeps it. `CallsConsistent` says that a call sends the
  pending batch as it is, or one the provider took: hence a batch sent twice is the same
  batch. `Refinement` maps every step to a step of UsageInvoice or to none.
* **CredentialRefresh** (`TypeCorrect`, `LoginsAreKept`, `SettingsAreKept`,
  `RotatedTokenKept`, `EveryRefreshWatched`, `LoginStaysNeeded`). `Watched` needs
  `WatchedRuns`, which also covers credentials whose refresh a run has out: the end of
  such a refresh is what makes them scheduled again. `UnauthorizedStays` needs `Numbered`
  only (a login's number is new); the rest is a case for each action that changes a state.
* **SpendLedger** (`TypeCorrect`, `CountersExact`, `NoRowLeft`, `OverspendIsBounded`).
  `RowsPast`: no counter is of a period that starts later than now, so a calendar set
  back meets none it could read. The overspend is bounded by induction over the requests
  under way: `OverspendByEnded` counts those that ended since the limit was reached.
* **ResetGrants** (`TypeCorrect`, `NoneSpentUnawares`, `SentClaimsAreHeld`,
  `ClearedOnlyIfSpent`). `Protocol` ties a flow's time, its claim on the wire and the
  journal's lease: a claim is in flight for longer than it can be on its way, and a flow
  whose status is older than some claim is marked stale by the time that claim can no
  longer hold the organization. `Decisions` says what was spent when the grants were read.
  `ClearedWasSpent` needs to know that a status which hints that a claim landed is right
  (`AllResendsSee`, with `Resends` and `Hints`): `CooldownsPast` says that a cooldown that
  ended outlasts only claims that started, `DecidedAlone` that none runs from after a
  claim that has spent nothing, and `FreshKnows` that a flow which meant a fresh claim saw
  no fewer resets than are left, unless some were granted since (`added`).

* **SessionState** (`SessionTypeCorrect`, `SessionNoLostUpdate`, `SessionAlarmCovers`,
  `SessionFoundByDeletion`, `SessionWriteKept`, `SessionEntriesShared`).
  `GenerationsPast`: the engine's last generation is at least that of every row and of
  every caller it answered, and the rows are finitely many. A new row therefore has a
  generation nobody knows, which keeps `NoLostUpdate`, and is the newest, which
  `#enforceBound` never drops (`NewestKept`, a count of the rows below it): hence
  `WriteKept`. `AlarmKnown` (the alarm in memory is the stored one) keeps `AlarmCovers`,
  since `#arm` skips an alarm it remembers. `FoundByDeletion` is not inductive: a
  registration on its way may be older than the entry, so `FoundOnceRegistered` says
  that the one the entry waits for will cover it, and `RegistrationKnown` that what the
  object remembers of its registration is in the ControlPlane, and is none that a deletion
  under way will forget (`lasting`): a wipe forgets it first. The refinement needs
  `SeenConsistent` besides: a caller holds no generation exactly when it saw no row, so
  that a compare-and-swap against nothing meets nothing.

Only model-checked: `DeliveryEnds` and `DueTried`; liveness under fairness is out of the
prover's reach. Only proved: that SessionState implements SharedEntries, which TLC
confirms on the instance of `session_state` but which would make that run half as long
again. TLC evaluates the assumptions on each run.

## Where the code and its comments part

The first has a run that must find it (`stop_hangs`); the others were met while the
models were written and are told here with the lines they are at.

1. **An end and a stop wait for each other** (`run-object.ts:1339`). The parent's `#end`
   holds its serial queue while it awaits the child's `stop`; the stop awaits the
   delivery of the aborted turn, which waits for that queue.
2. **A claim strands an earlier delivery** (`run-object.ts:1107`, comment at 34).
   `#finish` deletes the object's only alarm. When the finished turn was claimed it
   starts no `#deliverPending`, so an earlier turn's delivery that waited for that
   alarm is tried again only when another turn is finished and delivered. An
   eviction between `#finish` and the end of `#deliverPending` has the same effect.
3. **A claim fails with its result** (`run-object.ts:1730`, comment at 1637). A cancel
   that does not settle in time closes the harness, records the turn as claimed by those
   that wait, and their waits then fail: the result is neither answered nor delivered.
   It can be claimed again by the turn's id.
4. **Running children exceed their cap** (`runs.ts:386`, comment at 29). The cap is
   checked where a child is started, not where an idle one is sent a message.
5. **A purged object is written again** (`run-object.ts:1333`, comment at 589). A message
   that waits for `beginTurn` while its run is deleted and purged ends with META in
   the emptied storage; nothing lists the object any more.
6. **An ended subscription changes state** (`billing/src/store.ts:527`, comment at 13). A
   webhook of it that is newer than the last change applied, such as an un-cancel, makes
   it current again.
7. **A fresh claim becomes a resend** (`reset-grant-flow.ts:263`, which says the status
   "was read after the claim began"). `beginClaim` takes a caller that meant a fresh
   claim for the resend of one begun after that caller read its status. When the account
   is granted resets between the two readings, the caller's shows fewer than the claim
   was decided on, `claimLanded` takes them for its reset, and the flow answers
   `already_used` and clears cooldowns though nothing was spent (`ClearedWasSpent` names
   the exception).
8. **An entry outlives its object's registration** (`durable-object.ts:80`). A
   registration is skipped while the last one has more than half of `MAX_TTL_MS` to go,
   and the entry just written may live for all of it (the stores of
   `claude/thread.ts` and `claude/device-profile.ts` ask for that). For up to half of
   `MAX_TTL_MS` the object holds an entry and is not listed, so a deletion of the org
   does not wipe it; `instances.ts:5` says it registers "again when its entries could
   outlive the registration". `FoundByDeletion` bounds the gap.
9. **Generations can come again** (`engine.ts:92`; the comment at 96 says a generation "is
   never reused even after the instance emptied itself"). Several writes in one
   millisecond run ahead of the clock; when their rows are deleted and the engine begins
   anew, a sweep's or an eviction's, the next write may have a generation that was given
   before, and a caller that still holds the old one would overwrite what it did not
   see. `NoLostUpdate` therefore speaks of callers whose engine did not begin anew.
10. **A result is both claimed and delivered** (`run-object.ts:1158`). A delivery on its way
    when the claim takes the turn still arrives; the comment at 1562 says "A result the
    parent claims is not delivered to it". The properties say what holds instead
    (`ClaimedNotPending`, `DeliveredWasTaken`).
11. **A late steer begins a turn nobody checked** (`run-object.ts:1391`, 1457-1495; the
    comment at 1389 says a new turn "reads the definition as it stands" and "steering
    joins the running turn"). A message that saw ACTIVE asks no `beginTurn`; when the
    turn finishes before the harness took it, a new turn is recorded and run, also of a
    run that ended or whose agent was disabled meanwhile. Its calls are still refused at
    the gateway (`WorkUnderLiveChain`).
12. **A harness that purge does not close** (`run-object.ts:1751`-1768; the comment at 589
    says "nothing it still had running writes the run back"). `purge` takes `#pi` before
    it waits for the run's parent and sets `#purged` after; a message or the heartbeat
    that opens a harness in between leaves one that nothing closes, which goes on with its
    turn and writes to the storage that was deleted. A harness that takes longer than
    `PURGE_CLOSE_MS` to close may do so too, if the instance is evicted before it is
    closed. `ForgottenIsQuiet` names both.
13. **A 401 that says nothing new is cleared** (`outcome.ts:272`, 303; the comment at 243
    says "A cooldown, quota or error that appeared while the refresh was running is
    kept"). A success keeps only an error whose message is not empty and not the one the
    refresh began with, so a credential that became unauthorized meanwhile, by a 401
    without a message or with the same, is given back (`UnauthorizedStays` names it).

Also met while modelling, where no comment says otherwise:

* A lost report leaves an idle run marked running in the index, where it holds a
  slot of its parent and is kept from retention until it reports again. The same
  holds for a child row inserted as running whose start and abandonment both fail.
* `#finish` reports idle after its awaits, so a run whose next turn already began
  may be shown as idle.
* A child one deeper than `MAX_CHAIN` can get a row when a run of its chain is
  pruned between the gateway's check and the start. It never begins a turn, which
  `TurnChainBounded` shows.
* The heartbeat's alarm of a running turn also tries deliveries, before their
  backoff.
* A run created by a `fireSchedule` whose answer was lost is left idle when the
  schedule is edited or disabled before the retry (`orphans`).
* An arm that throws after its object was purged leaves META in it, without a tick
  or an alarm.
* Billing: a refund after its batch was sent leaves the bill above the net use; time
  counted between a webhook's end of the subscription and `endSubscription` of a call
  under way may be billed (`Leaving`); `endSubscription` ends whatever subscription is
  current; a deletion passes the time it began.
* Refresh: a request's result, a rejected token or a reset can make a credential due
  without setting the alarm, so it waits for the cron (`slipped`); the status "disabled"
  a failed refresh left is not cleared by enabling the credential; a report of a lease
  from before a credential was removed and added again is applied to the new one; a
  single removal does not forget the credential's spend limits, a removal of many does.
* Spend: a member's limit on a key may be larger than the admin's that is lowered later;
  the smallest counts.
* Reset grants: a settle after a new login of the file clears the new account's
  cooldowns.
* Tool approvals, met while planning their model: the comment at
  `tools/src/control-plane-part.ts:4683` says an approval never outlives its rule, but a
  rebuilt tool list (3110) may reclassify a tool and drops no approval of it.

## What is not modelled

* *The turn itself*: the harness, the conversation with a model, gated sandbox
  calls, parked calls and steering. The model lets a turn start and settle.
* *Who may see or do what*: grants, scopes, members, views. Where they refuse a
  turn the refusal is a free choice.
* *Times* other than the lease's and the schedule's: backoff, retention periods,
  heartbeats. Their alarms fire at any time.
* *Webhook triggers*, which start a run without an object of their own.
* *Billing's* cap and ceilings, the org's wipe, and fractions of a unit. *Refresh*:
  providers without a lead, re-imports of old copies, how many are refreshed at once.
  *Spend*: revisions, who may write a limit, metered session time. *Reset grants*: what
  is shown (stored statuses, `readResetGrants`), quota checks, several grants of one
  organization, resets spent outside Commissary; a request takes effect upstream by the
  time its answer, failure or timeout reaches the flow, or never. *Session state*:
  rejected ops, calls of several ops, the in-process fallback.
* *Translation* between model protocols is all data, with golden tests against
  the program it was ported from, and it is most of the repository, with the executors,
  the tools' conversions and the web panel: this is why the map covers a small share of
  its lines. *Secrets* are cryptography; *auth*, the *executors*, the *contract* and the
  *workers* keep no state that two actors share; the *web panel* and *infrastructure* are
  outside.
* *Tool approvals*, *org deletion* as a whole, *sandbox and browser sessions* and *OAuth
  sign-ins* have state that would be worth a model; they are next in the plan.
* Liveness in RunIndex, ScheduleTrigger, Billing and ResetGrants: what must eventually
  happen there depends on calls that may fail for ever. The safety properties say instead
  that something is set to try again (`TickWakes`, `ScheduleWakes`), or that trying again
  is harmless (`InvoicedOnce`, `OneResetPerReading`).

## Plan

Written, in this order: NamedLease, ChildRun, RunIndex, ScheduleTrigger, Billing with
UsageInvoice, CredentialRefresh, SpendLedger, ResetGrants and SessionState, each with its
MC module, run, mutants and proofs; then ResultHandover and SharedEntries, which ChildRun
and SessionState implement. Next, most important first:

1. **Approvals**: rows that are decided, repeated and expired while rules, classes and
   members change; that an approval lets one call through, and which outlive their rule.
2. **AgentRun**: one run object's own turns (`run-object.ts`, `pi.ts`): messages
   and steering, idempotency keys, `#serial`, `#watch`, the heartbeat, recovery of
   ACTIVE after an eviction, and an abstract run that it implements.
3. **OrgDeletion**: steps in a budget over objects that can still be made; composes
   the sweeps of RunIndex, ScheduleTrigger and SessionState.
4. Candidates: sandbox and browser sessions, OAuth sign-ins.
