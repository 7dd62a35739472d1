------------------------------- MODULE Billing -------------------------------
(***************************************************************************)
(* An org's plan, its counted use and what is sent of it to the billing     *)
(* provider (packages/billing/src).  BillingStore is a synchronous object in *)
(* the org's ControlPlane: each of its methods is one step.  Around it, in   *)
(* Workers that may fail between any two calls: requests and time that are   *)
(* counted, the provider's webhooks, an owner's switch to Free, a platform   *)
(* admin's mark, the cron's send and the org deletion's.  The provider,       *)
(* Polar, is outside: it changes subscriptions, delivers webhooks late, in   *)
(* any order and more than once, and ignores an event id it has seen.        *)
(*                                                                         *)
(* Amounts are whole numbers of a unit.  The billing cap is not modelled: it *)
(* refuses requests, and any request may be absent here anyway.              *)
(***************************************************************************)
EXTENDS Integers, FiniteSets

CONSTANTS
    MaxMonth,       \* bound: the calendar months
    Units,          \* what a plan counts, "requests" among them or not
    FreeUsage,      \* FREE_USAGE: each unit's free usage a month
    MaxUses,        \* bound: uses
    Subs,           \* bound: the subscriptions Polar makes for the org
    NoSub,          \* no subscription
    MaxChanges,     \* bound: changes Polar makes to subscriptions
    MaxBatches,     \* bound: batches
    MaxMarks,       \* bound: times a platform admin marks or unmarks the org
    Calls           \* bound: sends, switches and deletions under way at once

Months == 1..MaxMonth
Items == Months \X Units

ASSUME BillingAssumption ==
    /\ {MaxMonth, MaxUses, MaxChanges, MaxBatches, MaxMarks} \subseteq Nat
    /\ FreeUsage \in [Units -> Nat]
    /\ NoSub \notin Subs

VARIABLES
    \* the Billing part's tables
    used,           \* billing_usage
    sent,           \* billing_meter_sent
    batch,          \* billing_meter_batch: the batch's id, or 0
    events,         \* ... and what it carries of each item
    customer,       \* billing_account: whether the customer is known, ...
    sub,            \* ... the current subscription, or NoSub (and so
                    \*     billing_plan, which is always written with it)
    endedSub,       \* ... the one that ended last, or NoSub
    payment,        \* ... "ok" or "past_due"
    changedAt,      \* ... the time of the last change applied
    unbilled,       \* billing_overrides: a platform admin marked the org
    marks,          \* how often it was
    batches,        \* the ids made so far
    \* the Workers
    open,           \* each month: the requests counted that may be taken back
    pc,             \* each call: where it stands
    held,           \* ... the id of the batch it sends
    load,           \* ... and what that carries
    their,          \* ... the subscription it ends, or NoSub, ...
    began,          \* ... and when it read it
    month,          \* the calendar month
    \* Polar
    polar,          \* each subscription's status
    clock,          \* how many changes it made: the last one's time is 2 * clock,
                    \* the time since then 2 * clock + 1
    webhooks,       \* the webhooks that may still be delivered
    taken,          \* the ids of the batches it took
    billed,         \* what it bills of each item
    \* history
    uses,           \* how many there were
    billable        \* ... that may be billed, of each item

accountVars == <<customer, sub, endedSub, payment, changedAt>>
batchVars == <<batch, events, batches>>
callVars == <<pc, held, load, their, began>>
polarVars == <<polar, clock, webhooks>>
history == <<uses, billable>>
vars == <<used, sent, batchVars, accountVars, unbilled, marks, open, callVars,
          month, polarVars, taken, billed, history>>

Statuses == {"none", "active", "past_due", "ended"}
Steps == {"idle", "batch", "send", "note", "cancel", "end"}

Webhook == [status : {"active", "past_due", "ended"}, sub : Subs, at : Nat]

TypeOK ==
    /\ used \in [Items -> Nat]
    /\ sent \in [Items -> Nat]
    /\ batch \in Nat
    /\ events \in [Items -> Nat]
    /\ customer \in BOOLEAN
    /\ sub \in Subs \cup {NoSub}
    /\ endedSub \in Subs \cup {NoSub}
    /\ payment \in {"ok", "past_due"}
    /\ changedAt \in Nat
    /\ unbilled \in BOOLEAN
    /\ marks \in Nat
    /\ batches \in Nat
    /\ open \in [Months -> Nat]
    /\ pc \in [Calls -> Steps]
    /\ held \in [Calls -> Nat]
    /\ load \in [Calls -> [Items -> Nat]]
    /\ their \in [Calls -> Subs \cup {NoSub}]
    /\ began \in [Calls -> Nat]
    /\ month \in Nat
    /\ polar \in [Subs -> Statuses]
    /\ clock \in Nat
    /\ webhooks \subseteq Webhook
    /\ taken \subseteq Nat
    /\ billed \in [Items -> Nat]
    /\ uses \in Nat
    /\ billable \in [Items -> Nat]

Nothing == [i \in Items |-> 0]

Init ==
    /\ used = Nothing
    /\ sent = Nothing
    /\ batch = 0
    /\ events = Nothing
    /\ customer = FALSE
    /\ sub = NoSub
    /\ endedSub = NoSub
    /\ payment = "ok"
    /\ changedAt = 0
    /\ unbilled = FALSE
    /\ marks = 0
    /\ batches = 0
    /\ open = [m \in Months |-> 0]
    /\ pc = [c \in Calls |-> "idle"]
    /\ held = [c \in Calls |-> 0]
    /\ load = [c \in Calls |-> Nothing]
    /\ their = [c \in Calls |-> NoSub]
    /\ began = [c \in Calls |-> 0]
    /\ month = 1
    /\ polar = [s \in Subs |-> "none"]
    /\ clock = 0
    /\ webhooks = {}
    /\ taken = {}
    /\ billed = Nothing
    /\ uses = 0
    /\ billable = Nothing

larger(a, b) == IF a >= b THEN a ELSE b

-----------------------------------------------------------------------------
(* The plan *)

subscribedPlan == IF sub = NoSub THEN "free" ELSE "payg"

plan == IF unbilled THEN "payg" ELSE subscribedPlan

limitsPlan ==
    IF unbilled THEN "payg"
    ELSE IF payment = "past_due" THEN "free" ELSE subscribedPlan

\* Use above free usage.
Above(i) == larger(0, used[i] - FreeUsage[i[2]])

\* The month of a caller's clock, which may be read shortly before the call.
Now == {m \in Months : m \in {month - 1, month}}

-----------------------------------------------------------------------------
(* Counting *)

\* A call that leaves Pay as you go is under way.
Leaving == \E c \in Calls : their[c] # NoSub

\* #add of one unit; history: whether that use may be billed.
Add(i) ==
    /\ uses < MaxUses
    /\ uses' = uses + 1
    /\ used' = [used EXCEPT ![i] = @ + 1]
    /\ billable' =
          IF used[i] >= FreeUsage[i[2]] /\ ~unbilled /\ (sub # NoSub \/ Leaving)
            THEN [billable EXCEPT ![i] = @ + 1] ELSE billable

\* A request or tool call is let through and counted (one that is refused
\* counts nothing).
admit(m) ==
    /\ m \in Now
    /\ "requests" \in Units
    /\ ~(limitsPlan = "free" /\ used[<<m, "requests">>] >= FreeUsage["requests"])
    /\ Add(<<m, "requests">>)
    /\ open' = [open EXCEPT ![m] = @ + 1]
    /\ UNCHANGED <<sent, batchVars, accountVars, unbilled, marks, callVars, month>>
    /\ UNCHANGED <<polarVars, taken, billed>>

\* A request that did no work is taken back from the month it was counted in.
refund(m) ==
    /\ open[m] > 0
    /\ open' = [open EXCEPT ![m] = @ - 1]
    /\ used' = [used EXCEPT ![<<m, "requests">>] = larger(0, @ - 1)]
    /\ UNCHANGED <<sent, batchVars, accountVars, unbilled, marks, callVars, month>>
    /\ UNCHANGED <<polarVars, taken, billed, history>>

\* Time of the browser or the computer, used already: counted on any plan.
addTime(m, u) ==
    /\ m \in Now
    /\ u # "requests"
    /\ Add(<<m, u>>)
    /\ UNCHANGED <<sent, batchVars, accountVars, unbilled, marks, open, callVars, month>>
    /\ UNCHANGED <<polarVars, taken, billed>>

NextMonth ==
    /\ month < MaxMonth
    /\ month' = month + 1
    /\ UNCHANGED <<used, sent, batchVars, accountVars, unbilled, marks, open, callVars>>
    /\ UNCHANGED <<polarVars, taken, billed, history>>

-----------------------------------------------------------------------------
(* Batches *)

\* #writeOffUnsent: what is neither sent nor `carried` by the pending batch counts
\* as sent.
WrittenOff(carried) ==
    [i \in Items |-> larger(sent[i], larger(0, Above(i) - carried[i]))]

\* What the months up to m have above free usage that was not sent.
Unsent(m) ==
    [i \in Items |-> IF i[1] <= m THEN larger(0, Above(i) - sent[i]) ELSE 0]

\* #newBatch of the months up to m, when none is pending.
NewBatch(m) ==
    \/ /\ unbilled
       /\ sent' = WrittenOff(Nothing)
       /\ UNCHANGED batchVars
    \/ /\ ~unbilled /\ customer /\ Unsent(m) # Nothing
       /\ batches < MaxBatches
       /\ batches' = batches + 1
       /\ batch' = batches + 1
       /\ events' = Unsent(m)
       /\ UNCHANGED sent
    \/ /\ ~unbilled /\ (~customer \/ Unsent(m) = Nothing)
       /\ UNCHANGED <<batchVars, sent>>

\* #closeUsage: what the org owes becomes the pending batch, if there is none;
\* what that does not carry is never billed (a new one carries all there is).
CloseUsage ==
    \/ batch = 0 /\ (unbilled \/ customer) /\ NewBatch(MaxMonth)
    \/ /\ batch # 0 \/ ~(unbilled \/ customer)
       /\ sent' = WrittenOff(events)
       /\ UNCHANGED batchVars

\* #writeOffUnsent by itself.
WriteOffUnsent ==
    /\ sent' = WrittenOff(events)
    /\ UNCHANGED batchVars

-----------------------------------------------------------------------------
(* The subscription *)

\* applySubscription's early returns.
Ignored(w) ==
    \/ w.at < changedAt
    \/ w.status # "active" /\ w.sub = endedSub
    \/ w.status # "active" /\ sub # NoSub /\ w.sub # sub
    \/ w.status = "ended" /\ sub = NoSub

\* Mutant of Paid: use from before the subscription stays to be billed.
PaidBefore(w) == UNCHANGED <<sent, batchVars>>

\* What a change does to the use that was not sent.
Paid(w) ==
    \/ w.status = "ended" /\ CloseUsage
    \/ w.status # "ended" /\ sub = NoSub /\ WriteOffUnsent
    \/ w.status # "ended" /\ sub # NoSub /\ UNCHANGED <<sent, batchVars>>

Apply(w) ==
    /\ customer' = TRUE
    /\ sub' = IF w.status = "ended" THEN NoSub ELSE w.sub
    /\ endedSub' = IF w.status = "ended" THEN w.sub
                   ELSE IF w.sub = endedSub THEN NoSub ELSE endedSub
    /\ payment' = IF w.status = "past_due" THEN "past_due" ELSE "ok"
    /\ changedAt' = w.at
    /\ Paid(w)

\* A webhook is delivered, for the last time or not.
applySubscription(w) ==
    /\ w \in webhooks
    /\ webhooks' \in {webhooks, webhooks \ {w}}
    /\ \/ Ignored(w) /\ UNCHANGED <<accountVars, sent, batchVars>>
       \/ ~Ignored(w) /\ Apply(w)
    /\ UNCHANGED <<used, unbilled, marks, open, callVars, month, polar, clock>>
    /\ UNCHANGED <<taken, billed, history>>

\* setUnbilled, to what the org is not.
setUnbilled ==
    /\ marks < MaxMarks
    /\ marks' = marks + 1
    /\ unbilled' = ~unbilled
    /\ \/ ~unbilled /\ sub # NoSub /\ CloseUsage
       \/ (unbilled \/ sub = NoSub) /\ WriteOffUnsent
    /\ UNCHANGED <<used, accountVars, open, callVars, month, polarVars>>
    /\ UNCHANGED <<taken, billed, history>>

\* A checkout records the customer it made (Polar's change of the subscription
\* follows, or never).  It read before that the org is on Free and not unbilled,
\* which a mark may have changed since.
Checkout ==
    /\ sub = NoSub /\ ~customer
    /\ customer' = TRUE
    /\ UNCHANGED <<used, sent, batchVars, sub, endedSub, payment, changedAt, unbilled, marks>>
    /\ UNCHANGED <<open, callVars, month, polarVars, taken, billed, history>>

\* Polar changes subscription s, which it reports: it starts, a payment fails
\* or succeeds, it is cancelled or un-cancelled.  A customer has one at a time.
PolarChanges(s, status) ==
    /\ clock < MaxChanges
    /\ customer
    /\ status # polar[s]
    /\ status \in {"past_due", "ended"} => polar[s] \in {"active", "past_due", "ended"}
    /\ status # "ended" => \A t \in Subs \ {s} : polar[t] \in {"none", "ended"}
    /\ polar' = [polar EXCEPT ![s] = status]
    /\ clock' = clock + 1
    /\ webhooks' = webhooks \cup {[status |-> status, sub |-> s, at |-> 2 * (clock + 1)]}
    /\ UNCHANGED <<used, sent, batchVars, accountVars, unbilled, marks, open, callVars>>
    /\ UNCHANGED <<month, taken, billed, history>>

-----------------------------------------------------------------------------
(* Sending: the cron, a switch to Free and the org's deletion *)

\* The call is over, done or failed (whatever it asked for may have happened).
CallOver(c) ==
    /\ pc' = [pc EXCEPT ![c] = "idle"]
    /\ held' = [held EXCEPT ![c] = 0]
    /\ load' = [load EXCEPT ![c] = Nothing]
    /\ their' = [their EXCEPT ![c] = NoSub]
    /\ began' = [began EXCEPT ![c] = 0]

GoesTo(c, step) ==
    /\ pc' = [pc EXCEPT ![c] = step]
    /\ held' = [held EXCEPT ![c] = 0]
    /\ load' = [load EXCEPT ![c] = Nothing]
    /\ UNCHANGED <<their, began>>

\* Once the usage is sent, a call that leaves Pay as you go cancels.
AfterSend(c) ==
    \/ their[c] # NoSub /\ GoesTo(c, "cancel")
    \/ their[c] = NoSub /\ CallOver(c)

\* An owner's switch to Free (not of an unbilled org) or the org's deletion
\* begins and reads the subscription.  Without one the switch has nothing to do
\* and the deletion only sends, as the cron does.
LeaveBegins(c) ==
    /\ pc[c] = "idle"
    /\ sub # NoSub
    /\ pc' = [pc EXCEPT ![c] = "batch"]
    /\ their' = [their EXCEPT ![c] = sub]
    /\ began' = [began EXCEPT ![c] = 2 * clock + 1]
    /\ UNCHANGED <<held, load, used, sent, batchVars, accountVars, unbilled, marks, open>>
    /\ UNCHANGED <<month, polarVars, taken, billed, history>>

\* meterBatch, with which the cron's call begins: the pending batch, on any plan,
\* or a new one.
meterBatch(c, m) ==
    /\ pc[c] \in {"idle", "batch"}
    /\ m \in Now
    /\ \/ batch = 0 /\ plan = "payg" /\ NewBatch(m)
       \/ (batch # 0 \/ plan # "payg") /\ UNCHANGED <<sent, batchVars>>
    /\ \/ /\ batch' # 0
          /\ pc' = [pc EXCEPT ![c] = "send"]
          /\ held' = [held EXCEPT ![c] = batch']
          /\ load' = [load EXCEPT ![c] = events']
          /\ UNCHANGED <<their, began>>
       \/ batch' = 0 /\ AfterSend(c)
    /\ UNCHANGED <<used, accountVars, unbilled, marks, open, month, polarVars>>
    /\ UNCHANGED <<taken, billed, history>>

\* sendMeterEvents: Polar takes the batch, once.
sendMeterEvents(c) ==
    /\ pc[c] = "send"
    /\ taken' = taken \cup {held[c]}
    /\ billed' = [i \in Items |->
                    IF held[c] \in taken THEN billed[i] ELSE billed[i] + load[c][i]]
    /\ pc' = [pc EXCEPT ![c] = "note"]
    /\ UNCHANGED <<used, sent, batchVars, accountVars, unbilled, marks, open>>
    /\ UNCHANGED <<held, load, their, began, month, polarVars, history>>

\* Mutant of meterBatchSent: the batch pending now counts as sent, whichever
\* the call sent.
meterBatchSentAny(c) ==
    /\ pc[c] = "note"
    /\ sent' = [i \in Items |-> sent[i] + events[i]]
    /\ batch' = 0
    /\ events' = Nothing
    /\ UNCHANGED batches
    /\ AfterSend(c)
    /\ UNCHANGED <<used, accountVars, unbilled, marks, open, month, polarVars>>
    /\ UNCHANGED <<taken, billed, history>>

\* meterBatchSent: what the batch carried counts as sent, if it is the pending
\* one still.
meterBatchSent(c) ==
    /\ pc[c] = "note"
    /\ \/ /\ batch = held[c]
          /\ sent' = [i \in Items |-> sent[i] + events[i]]
          /\ batch' = 0
          /\ events' = Nothing
          /\ UNCHANGED batches
       \/ batch # held[c] /\ UNCHANGED <<sent, batchVars>>
    /\ AfterSend(c)
    /\ UNCHANGED <<used, accountVars, unbilled, marks, open, month, polarVars>>
    /\ UNCHANGED <<taken, billed, history>>

\* cancelSubscription, of the subscription the call read: one that is over
\* already is no error.
cancelSubscription(c) ==
    /\ pc[c] = "cancel"
    /\ \/ /\ polar[their[c]] \in {"active", "past_due"}
          /\ clock < MaxChanges
          /\ polar' = [polar EXCEPT ![their[c]] = "ended"]
          /\ clock' = clock + 1
          /\ webhooks' = webhooks \cup
                {[status |-> "ended", sub |-> their[c], at |-> 2 * (clock + 1)]}
       \/ polar[their[c]] \notin {"active", "past_due"} /\ UNCHANGED polarVars
    /\ GoesTo(c, "end")
    /\ UNCHANGED <<used, sent, batchVars, accountVars, unbilled, marks, open>>
    /\ UNCHANGED <<month, taken, billed, history>>

\* endSubscription: the org is on Free, whatever subscription it has by now.  A
\* switch gives the time it is then, a deletion the time it began.
endSubscription(c) ==
    /\ pc[c] = "end"
    /\ sub' = NoSub
    /\ endedSub' = IF sub # NoSub THEN sub ELSE endedSub
    /\ payment' = "ok"
    /\ \E now \in {began[c], 2 * clock + 1} : changedAt' = larger(changedAt, now)
    /\ UNCHANGED customer
    /\ CloseUsage
    /\ CallOver(c)
    /\ UNCHANGED <<used, unbilled, marks, open, month, polarVars, taken, billed, history>>

\* Polar, the part or the Worker fails before the call's next step: Polar or the
\* part may have done the last one without the call knowing.
CallFails(c) ==
    /\ pc[c] # "idle"
    /\ CallOver(c)
    /\ UNCHANGED <<used, sent, batchVars, accountVars, unbilled, marks, open>>
    /\ UNCHANGED <<month, polarVars, taken, billed, history>>

-----------------------------------------------------------------------------

Next ==
    \/ \E m \in Months : admit(m)
    \/ \E m \in Months : refund(m)
    \/ \E m \in Months, u \in Units : addTime(m, u)
    \/ NextMonth
    \/ \E w \in webhooks : applySubscription(w)
    \/ setUnbilled
    \/ Checkout
    \/ \E s \in Subs, status \in {"active", "past_due", "ended"} : PolarChanges(s, status)
    \/ \E c \in Calls : LeaveBegins(c)
    \/ \E c \in Calls, m \in Months : meterBatch(c, m)
    \/ \E c \in Calls : sendMeterEvents(c)
    \/ \E c \in Calls : meterBatchSent(c)
    \/ \E c \in Calls : cancelSubscription(c)
    \/ \E c \in Calls : endSubscription(c)
    \/ \E c \in Calls : CallFails(c)

Spec == Init /\ [][Next]_vars

-----------------------------------------------------------------------------
(* Correctness *)

\* What a batch carries that Polar did not take yet.
Claimed(i) == IF batch # 0 /\ batch \notin taken THEN events[i] ELSE 0

\* The invoice: the pending batch is a claim until Polar took it, and settled
\* from then on, noted or not.
Invoice == INSTANCE UsageInvoice WITH
    above <- [i \in Items |-> Above(i)],
    settled <- [i \in Items |-> sent[i] + (events[i] - Claimed(i))],
    claim <- [i \in Items |-> Claimed(i)],
    invoiced <- billed

\* Every use is invoiced at most once, and only above free usage: a batch sent
\* again, by another call or after a lost answer, or noted late, is invoiced once.
InvoicedOnce == Invoice!Spec

\* Only use made on Pay as you go and not unbilled, or while a call that leaves
\* Pay as you go is under way, is ever billed or on its way to be: not what was
\* used on Free, nor while unbilled, whatever webhooks, marks and batches come
\* in between.
BilledForUse ==
    \A i \in Items : billed[i] + Claimed(i) <= billable[i]

-----------------------------------------------------------------------------
(* The inductive invariant *)

\* Only batches that were made are taken, and no pending batch carries nothing.
BatchesConsistent ==
    /\ batch <= batches
    /\ taken \subseteq 1..batches
    /\ batch = 0 => events = Nothing

\* A call sends the pending batch, or one that Polar took; what it notes as sent
\* Polar took; a call that ends a subscription read one.
CallsConsistent ==
    \A c \in Calls :
        /\ pc[c] = "send" => held[c] \in 1..batches
        /\ pc[c] = "send" /\ held[c] \notin taken => batch = held[c] /\ load[c] = events
        /\ pc[c] = "note" => held[c] \in taken
        /\ pc[c] \in {"cancel", "end"} => their[c] # NoSub

\* What is neither sent nor carried by the pending batch.
Loose(i) == larger(0, Above(i) - (sent[i] + events[i]))

\* While a new batch may be made, what it would carry may be billed.
LooseIsBillable ==
    ~unbilled /\ (sub # NoSub \/ Leaving) =>
        \A i \in Items : billed[i] + Claimed(i) + Loose(i) <= billable[i]

\* Together: what every step preserves.
IInv ==
    /\ TypeOK
    /\ BatchesConsistent
    /\ CallsConsistent
    /\ BilledForUse
    /\ LooseIsBillable

=============================================================================
