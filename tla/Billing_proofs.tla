--------------------------- MODULE Billing_proofs ---------------------------
(***************************************************************************)
(* IInv of Billing is inductive, and every step of Billing is a step of      *)
(* UsageInvoice or leaves the invoice as it is: for any months, units and    *)
(* free usage, any subscriptions and any number of calls under way.          *)
(***************************************************************************)
EXTENDS Billing, TLAPS

-----------------------------------------------------------------------------
(* What the store's helpers do to the amounts *)

\* Amounts are natural numbers.
LEMMA AmountTypes ==
    ASSUME TypeOK, NEW i \in Items
    PROVE  /\ Above(i) \in Nat
           /\ Claimed(i) \in Nat
           /\ Loose(i) \in Nat
<1>1. i[2] \in Units
  BY DEF Items
<1>2. used[i] \in Nat /\ FreeUsage[i[2]] \in Nat /\ sent[i] \in Nat /\ events[i] \in Nat
  BY <1>1, BillingAssumption DEF TypeOK
<1> QED
  BY <1>2 DEF Above, Claimed, Loose, larger

\* Writing off leaves the batches alone, leaves nothing loose, and forgives.
LEMMA WriteOffEffect ==
    ASSUME TypeOK, BatchesConsistent, WriteOffUnsent,
           used' = used, taken' = taken, billed' = billed
    PROVE  /\ sent' \in [Items -> Nat]
           /\ \A i \in Items : Claimed(i)' = Claimed(i) /\ Loose(i)' = 0
           /\ Invoice!Forgive
<1> USE DEF WriteOffUnsent, batchVars
<1>1. ASSUME NEW i \in Items
      PROVE  /\ sent'[i] \in Nat
             /\ Above(i)' = Above(i)
             /\ Claimed(i)' = Claimed(i)
             /\ Loose(i)' = 0
             /\ sent'[i] + (events'[i] - Claimed(i)')
                  = larger(sent[i] + (events[i] - Claimed(i)), Above(i) - Claimed(i))
  <2>1. sent[i] \in Nat /\ events[i] \in Nat /\ Above(i) \in Nat
    BY AmountTypes DEF TypeOK
  <2>2. sent'[i] = larger(sent[i], larger(0, Above(i) - events[i]))
    BY DEF WrittenOff
  <2>3. Above(i)' = Above(i) /\ Claimed(i)' = Claimed(i)
    BY DEF Above, Claimed
  <2>4. Claimed(i) \in {0, events[i]}
    BY <2>1 DEF Claimed
  <2>5. Loose(i)' = 0
    BY <2>1, <2>2, <2>3 DEF Loose, larger
  <2> QED
    BY <2>1, <2>2, <2>3, <2>4, <2>5 DEF larger
<1>2. sent' \in [Items -> Nat]
  BY <1>1 DEF WrittenOff
<1>3. Invoice!Forgive
  BY <1>1 DEF Invoice!Forgive, Invoice!larger, larger
<1> QED
  BY <1>1, <1>2, <1>3

\* A new batch carries some of what was loose, if the org is billed, and claims
\* it; an unbilled org's is forgiven.
LEMMA NewBatchEffect ==
    ASSUME TypeOK, BatchesConsistent, batch = 0, NEW m \in Nat, NewBatch(m),
           used' = used, taken' = taken, billed' = billed
    PROVE  /\ sent' \in [Items -> Nat]
           /\ batch' \in Nat /\ batches' \in Nat /\ events' \in [Items -> Nat]
           /\ batches <= batches'
           /\ BatchesConsistent'
           /\ \A i \in Items : Claimed(i)' + Loose(i)' <= Claimed(i) + Loose(i)
           /\ unbilled => \A i \in Items : Claimed(i)' = Claimed(i)
           /\ Invoice!Next \/ UNCHANGED Invoice!vars
<1>1. CASE unbilled
  <2>1. WriteOffUnsent
    BY <1>1 DEF NewBatch, WriteOffUnsent, BatchesConsistent
  <2>2. \A i \in Items : Loose(i) \in Nat /\ Claimed(i) \in Nat
    BY AmountTypes
  <2> QED
    BY <1>1, <2>1, <2>2, WriteOffEffect
    DEF NewBatch, batchVars, BatchesConsistent, TypeOK, Nothing, Invoice!Next
<1>2. CASE ~unbilled /\ customer /\ Unsent(m) # Nothing
  <2>1. /\ batches' = batches + 1 /\ batch' = batches + 1 /\ batches \in Nat
        /\ events' = Unsent(m) /\ sent' = sent
    BY <1>2 DEF NewBatch, TypeOK
  <2>2. batch' \notin taken /\ batch' # 0
    BY <2>1 DEF BatchesConsistent
  <2>3. ASSUME NEW i \in Items
        PROVE  /\ sent[i] \in Nat /\ events[i] = 0 /\ Above(i) \in Nat
               /\ Above(i)' = Above(i)
               /\ Claimed(i) = 0
               /\ Claimed(i)' = events'[i]
               /\ events'[i] \in {0, larger(0, Above(i) - sent[i])}
               /\ events'[i] \in Nat
    BY <2>1, <2>2, AmountTypes
    DEF Above, Claimed, Unsent, TypeOK, BatchesConsistent, Nothing, larger
  <2>4. events' \in [Items -> Nat]
    BY <2>1, <2>3 DEF Unsent
  <2>5. ASSUME NEW i \in Items
        PROVE  Claimed(i)' + Loose(i)' <= Claimed(i) + Loose(i)
    BY <2>1, <2>3 DEF Loose, larger
  <2>6. [i \in Items |-> Claimed(i)] = [i \in Items |-> 0]
    BY <2>3
  <2>7. ASSUME NEW i \in Items
        PROVE  /\ sent'[i] + (events'[i] - Claimed(i)') = sent[i] + (events[i] - Claimed(i))
               /\ Claimed(i)' \in {0, larger(0, Above(i) - (sent[i] + (events[i] - Claimed(i))))}
               /\ Claimed(i)' \in Nat
    BY <2>1, <2>3
  <2>8. Invoice!Claim
    BY <2>3, <2>6, <2>7 DEF Invoice!Claim, Invoice!Nothing, Invoice!Owed, Invoice!larger, larger
  <2>9. BatchesConsistent'
    BY <2>1, <2>2 DEF BatchesConsistent
  <2> QED
    BY <1>2, <2>1, <2>4, <2>5, <2>8, <2>9 DEF TypeOK, Invoice!Next
<1>3. CASE ~unbilled /\ (~customer \/ Unsent(m) = Nothing)
  <2>1. batch' = batch /\ events' = events /\ batches' = batches /\ sent' = sent
    BY <1>3 DEF NewBatch, batchVars
  <2>2. ASSUME NEW i \in Items
        PROVE  Above(i)' = Above(i) /\ Claimed(i)' = Claimed(i) /\ Loose(i)' = Loose(i)
    BY <2>1 DEF Above, Claimed, Loose
  <2>3. \A i \in Items : Loose(i) \in Nat /\ Claimed(i) \in Nat
    BY AmountTypes
  <2>4. UNCHANGED Invoice!vars
    BY <2>1, <2>2 DEF Invoice!vars
  <2> QED
    BY <2>1, <2>2, <2>3, <2>4 DEF TypeOK, BatchesConsistent
<1> QED
  BY <1>1, <1>2, <1>3 DEF NewBatch

\* Closing: the pending batch stays as it is, or a new one is made.
LEMMA CloseEffect ==
    ASSUME TypeOK, BatchesConsistent, CloseUsage,
           used' = used, taken' = taken, billed' = billed
    PROVE  /\ sent' \in [Items -> Nat]
           /\ batch' \in Nat /\ batches' \in Nat /\ events' \in [Items -> Nat]
           /\ batches <= batches'
           /\ BatchesConsistent'
           /\ batch # 0 => batch' = batch /\ events' = events
           /\ \A i \in Items : Claimed(i)' + Loose(i)' <= Claimed(i) + Loose(i)
           /\ unbilled => \A i \in Items : Claimed(i)' = Claimed(i)
           /\ Invoice!Next \/ UNCHANGED Invoice!vars
<1>1. CASE batch = 0 /\ NewBatch(MaxMonth)
  BY <1>1, NewBatchEffect, BillingAssumption
<1>2. CASE WriteOffUnsent
  <2>2. \A i \in Items : Loose(i) \in Nat /\ Claimed(i) \in Nat
    BY AmountTypes
  <2> QED
    BY <1>2, <2>2, WriteOffEffect
    DEF WriteOffUnsent, batchVars, BatchesConsistent, TypeOK, Nothing, Invoice!Next
<1> QED
  BY <1>1, <1>2 DEF CloseUsage, WriteOffUnsent

\* A step that touches no amount leaves the invoice as it is.
LEMMA AmountsKept ==
    ASSUME used' = used, sent' = sent, batch' = batch, events' = events,
           taken' = taken, billed' = billed
    PROVE  /\ \A i \in Items : Claimed(i)' = Claimed(i) /\ Loose(i)' = Loose(i)
           /\ UNCHANGED Invoice!vars
<1>1. ASSUME NEW i \in Items
      PROVE  Above(i)' = Above(i) /\ Claimed(i)' = Claimed(i) /\ Loose(i)' = Loose(i)
  BY DEF Above, Claimed, Loose
<1> QED
  BY <1>1 DEF Invoice!vars

-----------------------------------------------------------------------------
(* Each action preserves IInv and is a step of the invoice, or none          *)

InvoiceStep == Invoice!Next \/ UNCHANGED Invoice!vars

\* One more use: billable if it may be billed.
LEMMA AddStep ==
    ASSUME IInv, NEW i \in Items, Add(i),
           UNCHANGED <<sent, batchVars, accountVars, unbilled, marks, callVars, month,
                       polarVars, taken, billed>>,
           open' \in [Months -> Nat]
    PROVE  IInv' /\ InvoiceStep
<1>0. TypeOK /\ BatchesConsistent /\ CallsConsistent /\ BilledForUse /\ LooseIsBillable
  BY DEF IInv
<1> USE DEF Add, batchVars, accountVars, callVars, polarVars
<1>a. i[2] \in Units /\ FreeUsage[i[2]] \in Nat /\ used[i] \in Nat
  BY <1>0, BillingAssumption DEF Items, TypeOK
<1>b. ASSUME NEW j \in Items
      PROVE  /\ Above(j) \in Nat /\ Claimed(j) \in Nat /\ Loose(j) \in Nat
             /\ billed[j] \in Nat /\ billable[j] \in Nat /\ sent[j] \in Nat
             /\ events[j] \in Nat
             /\ Claimed(j)' = Claimed(j)
             /\ j # i => Above(j)' = Above(j) /\ billable'[j] = billable[j]
             /\ Above(i)' = IF used[i] >= FreeUsage[i[2]] THEN Above(i) + 1 ELSE Above(i)
  BY <1>0, <1>a, AmountTypes DEF TypeOK, Claimed, Above, larger
<1>c. \A j \in Items : billable[j] <= billable'[j]
  BY <1>0, <1>b DEF TypeOK
<1>1. TypeOK'
  BY <1>0, <1>a DEF TypeOK
<1>2. BatchesConsistent'
  BY <1>0 DEF BatchesConsistent
<1>3. CallsConsistent'
  BY <1>0 DEF CallsConsistent
<1>4. BilledForUse'
  BY <1>0, <1>b, <1>c, <1>1 DEF BilledForUse, TypeOK
<1>5. LooseIsBillable'
  <2> SUFFICES ASSUME ~unbilled, sub # NoSub \/ Leaving, NEW j \in Items
               PROVE  billed[j] + Claimed(j)' + Loose(j)' <= billable'[j]
    BY DEF LooseIsBillable, Leaving
  <2>1. billed[j] + Claimed(j) + Loose(j) <= billable[j]
    BY <1>0 DEF LooseIsBillable
  <2>2. CASE j = i /\ used[i] >= FreeUsage[i[2]]
    <3>1. billable'[i] = billable[i] + 1
      BY <2>2, <1>0 DEF TypeOK
    <3>2. Loose(i)' <= Loose(i) + 1 /\ Loose(i)' \in Nat
      BY <2>2, <1>b DEF Loose, larger
    <3> QED
      BY <2>1, <2>2, <3>1, <3>2, <1>b
  <2>3. CASE ~(j = i /\ used[i] >= FreeUsage[i[2]])
    <3>1. Above(j)' = Above(j)
      BY <2>3, <1>b
    <3>2. Loose(j)' = Loose(j)
      BY <3>1 DEF Loose
    <3> QED
      BY <2>1, <3>2, <1>b, <1>c, <1>1 DEF TypeOK
  <2> QED
    BY <2>2, <2>3
<1>6. InvoiceStep
  <2>1. CASE used[i] >= FreeUsage[i[2]]
    <3>1. [j \in Items |-> Above(j)'] = [[j \in Items |-> Above(j)] EXCEPT ![i] = Above(i) + 1]
      BY <2>1, <1>b
    <3>2. [j \in Items |-> Above(j)][i] = Above(i)
      OBVIOUS
    <3>3. Above(i) + 1 >= 0
      BY <1>b
    <3>4. Invoice!Use
      BY <1>b, <3>1, <3>2, <3>3 DEF Invoice!Use
    <3> QED
      BY <3>4 DEF InvoiceStep, Invoice!Next
  <2>2. CASE ~(used[i] >= FreeUsage[i[2]])
    BY <2>2, <1>b DEF InvoiceStep, Invoice!vars
  <2> QED
    BY <2>1, <2>2
<1> QED
  BY <1>1, <1>2, <1>3, <1>4, <1>5, <1>6 DEF IInv

\* A request counted.
LEMMA AdmitStep ==
    ASSUME IInv, NEW m \in Months, admit(m)
    PROVE  IInv' /\ InvoiceStep
<1>1. <<m, "requests">> \in Items
  BY DEF admit, Items
<1>2. open' \in [Months -> Nat]
  BY DEF admit, IInv, TypeOK
<1> QED
  BY <1>1, <1>2, AddStep DEF admit

\* Time counted.
LEMMA AddTimeStep ==
    ASSUME IInv, NEW m \in Months, NEW u \in Units, addTime(m, u)
    PROVE  IInv' /\ InvoiceStep
<1>1. <<m, u>> \in Items
  BY DEF Items
<1>2. open' \in [Months -> Nat]
  BY DEF addTime, IInv, TypeOK
<1> QED
  BY <1>1, <1>2, AddStep DEF addTime

\* A request taken back: less is loose.
LEMMA RefundStep ==
    ASSUME IInv, NEW m \in Months, refund(m)
    PROVE  IInv' /\ InvoiceStep
<1>0. TypeOK /\ BatchesConsistent /\ CallsConsistent /\ BilledForUse /\ LooseIsBillable
  BY DEF IInv
<1> DEFINE i == <<m, "requests">>
<1> USE DEF refund, batchVars, accountVars, callVars, polarVars, history
<1>1. TypeOK'
  <2>1. i \in Items => larger(0, used[i] - 1) \in Nat
    BY <1>0 DEF TypeOK, larger
  <2>2. used' \in [Items -> Nat]
    BY <1>0, <2>1 DEF TypeOK
  <2>3. open' \in [Months -> Nat]
    BY <1>0 DEF TypeOK
  <2> QED
    BY <1>0, <2>2, <2>3 DEF TypeOK
<1>b. ASSUME NEW j \in Items
      PROVE  /\ Above(j) \in Nat /\ Claimed(j) \in Nat /\ Loose(j) \in Nat
             /\ Loose(j)' \in Nat
             /\ billed[j] \in Nat /\ billable[j] \in Nat
             /\ Claimed(j)' = Claimed(j)
             /\ j # i => Above(j)' = Above(j)
             /\ Above(j)' \in {Above(j), Above(j) - 1} /\ Above(j)' \in Nat
             /\ Loose(j)' <= Loose(j)
  <2>0. j[2] \in Units
    BY DEF Items
  <2>1. /\ used[j] \in Nat /\ FreeUsage[j[2]] \in Nat
        /\ sent[j] \in Nat /\ events[j] \in Nat /\ billed[j] \in Nat /\ billable[j] \in Nat
    BY <2>0, <1>0, BillingAssumption DEF TypeOK
  <2>2. used'[j] = IF j = i THEN larger(0, used[j] - 1) ELSE used[j]
    BY <1>0 DEF TypeOK
  <2>3. Claimed(j)' = Claimed(j)
    BY DEF Claimed
  <2>4. /\ Above(j) \in Nat
        /\ j # i => Above(j)' = Above(j)
        /\ Above(j)' \in {Above(j), Above(j) - 1} /\ Above(j)' \in Nat
    BY <2>1, <2>2 DEF Above, larger
  <2>5. Loose(j)' <= Loose(j) /\ Loose(j)' \in Nat /\ Loose(j) \in Nat
    BY <2>1, <2>4 DEF Loose, larger
  <2> QED
    BY <1>0, <2>1, <2>3, <2>4, <2>5, AmountTypes
<1>2. BatchesConsistent'
  BY <1>0 DEF BatchesConsistent
<1>3. CallsConsistent'
  BY <1>0 DEF CallsConsistent
<1>4. BilledForUse'
  BY <1>0, <1>b DEF BilledForUse
<1>5. LooseIsBillable'
  BY <1>0, <1>b DEF LooseIsBillable, Leaving
<1>6. InvoiceStep
  <2>1. CASE i \in Items /\ Above(i)' = Above(i) - 1
    <3>1. [j \in Items |-> Above(j)'] = [[j \in Items |-> Above(j)] EXCEPT ![i] = Above(i) - 1]
      BY <2>1, <1>b
    <3>2. [j \in Items |-> Above(j)][i] = Above(i)
      BY <2>1
    <3>3. Above(i) - 1 >= 0
      BY <2>1, <1>b
    <3>4. Invoice!Use
      BY <1>b, <2>1, <3>1, <3>2, <3>3 DEF Invoice!Use
    <3> QED
      BY <3>4 DEF InvoiceStep, Invoice!Next
  <2>2. CASE ~(i \in Items /\ Above(i)' = Above(i) - 1)
    <3>1. \A j \in Items : Above(j)' = Above(j)
      BY <2>2, <1>b
    <3> QED
      BY <3>1, <1>b DEF InvoiceStep, Invoice!vars
  <2> QED
    BY <2>1, <2>2
<1> QED
  BY <1>1, <1>2, <1>3, <1>4, <1>5, <1>6 DEF IInv

\* The calendar turns.
LEMMA NextMonthStep ==
    ASSUME IInv, NextMonth
    PROVE  IInv' /\ InvoiceStep
<1>0. TypeOK /\ BatchesConsistent /\ CallsConsistent /\ BilledForUse /\ LooseIsBillable
  BY DEF IInv
<1> USE DEF NextMonth, batchVars, accountVars, callVars, polarVars, history
<1>a. /\ \A i \in Items : Claimed(i)' = Claimed(i) /\ Loose(i)' = Loose(i)
      /\ UNCHANGED Invoice!vars
  BY AmountsKept
<1>1. TypeOK'
  BY <1>0 DEF TypeOK
<1>2. BatchesConsistent'
  BY <1>0 DEF BatchesConsistent
<1>3. CallsConsistent'
  BY <1>0 DEF CallsConsistent, TypeOK
<1>4. BilledForUse'
  BY <1>0, <1>a DEF BilledForUse
<1>5. LooseIsBillable'
  BY <1>0, <1>a DEF LooseIsBillable, Leaving, TypeOK
<1>6. InvoiceStep
  BY <1>a DEF InvoiceStep
<1> QED
  BY <1>1, <1>2, <1>3, <1>4, <1>5, <1>6 DEF IInv

\* A customer is recorded.
LEMMA CheckoutStep ==
    ASSUME IInv, Checkout
    PROVE  IInv' /\ InvoiceStep
<1>0. TypeOK /\ BatchesConsistent /\ CallsConsistent /\ BilledForUse /\ LooseIsBillable
  BY DEF IInv
<1> USE DEF Checkout, batchVars, accountVars, callVars, polarVars, history
<1>a. /\ \A i \in Items : Claimed(i)' = Claimed(i) /\ Loose(i)' = Loose(i)
      /\ UNCHANGED Invoice!vars
  BY AmountsKept
<1>1. TypeOK'
  BY <1>0 DEF TypeOK
<1>2. BatchesConsistent'
  BY <1>0 DEF BatchesConsistent
<1>3. CallsConsistent'
  BY <1>0 DEF CallsConsistent, TypeOK
<1>4. BilledForUse'
  BY <1>0, <1>a DEF BilledForUse
<1>5. LooseIsBillable'
  BY <1>0, <1>a DEF LooseIsBillable, Leaving, TypeOK
<1>6. InvoiceStep
  BY <1>a DEF InvoiceStep
<1> QED
  BY <1>1, <1>2, <1>3, <1>4, <1>5, <1>6 DEF IInv

\* Polar changes a subscription and reports it.
LEMMA PolarChangesStep ==
    ASSUME IInv, NEW s \in Subs, NEW status \in {"active", "past_due", "ended"},
           PolarChanges(s, status)
    PROVE  IInv' /\ InvoiceStep
<1>0. TypeOK /\ BatchesConsistent /\ CallsConsistent /\ BilledForUse /\ LooseIsBillable
  BY DEF IInv
<1> USE DEF PolarChanges, Webhook, Statuses, batchVars, accountVars, callVars, polarVars, history
<1>a. /\ \A i \in Items : Claimed(i)' = Claimed(i) /\ Loose(i)' = Loose(i)
      /\ UNCHANGED Invoice!vars
  BY AmountsKept
<1>1. TypeOK'
  BY <1>0 DEF TypeOK
<1>2. BatchesConsistent'
  BY <1>0 DEF BatchesConsistent
<1>3. CallsConsistent'
  BY <1>0 DEF CallsConsistent, TypeOK
<1>4. BilledForUse'
  BY <1>0, <1>a DEF BilledForUse
<1>5. LooseIsBillable'
  BY <1>0, <1>a DEF LooseIsBillable, Leaving, TypeOK
<1>6. InvoiceStep
  BY <1>a DEF InvoiceStep
<1> QED
  BY <1>1, <1>2, <1>3, <1>4, <1>5, <1>6 DEF IInv

\* A call that leaves Pay as you go begins on Pay as you go.
LEMMA LeaveBeginsStep ==
    ASSUME IInv, NEW c \in Calls, LeaveBegins(c)
    PROVE  IInv' /\ InvoiceStep
<1>0. TypeOK /\ BatchesConsistent /\ CallsConsistent /\ BilledForUse /\ LooseIsBillable
  BY DEF IInv
<1> USE DEF LeaveBegins, Steps, batchVars, accountVars, callVars, polarVars, history
<1>a. /\ \A i \in Items : Claimed(i)' = Claimed(i) /\ Loose(i)' = Loose(i)
      /\ UNCHANGED Invoice!vars
  BY AmountsKept
<1>1. TypeOK'
  BY <1>0, BillingAssumption DEF TypeOK
<1>2. BatchesConsistent'
  BY <1>0 DEF BatchesConsistent
<1>3. CallsConsistent'
  BY <1>0, BillingAssumption DEF CallsConsistent, TypeOK
<1>4. BilledForUse'
  BY <1>0, <1>a DEF BilledForUse
<1>5. LooseIsBillable'
  BY <1>0, <1>a, BillingAssumption DEF LooseIsBillable, Leaving, TypeOK
<1>6. InvoiceStep
  BY <1>a DEF InvoiceStep
<1> QED
  BY <1>1, <1>2, <1>3, <1>4, <1>5, <1>6 DEF IInv

\* A call is given up.
LEMMA CallFailsStep ==
    ASSUME IInv, NEW c \in Calls, CallFails(c)
    PROVE  IInv' /\ InvoiceStep
<1>0. TypeOK /\ BatchesConsistent /\ CallsConsistent /\ BilledForUse /\ LooseIsBillable
  BY DEF IInv
<1> USE DEF CallFails, CallOver, Steps, Nothing, batchVars, accountVars, callVars, polarVars, history
<1>a. /\ \A i \in Items : Claimed(i)' = Claimed(i) /\ Loose(i)' = Loose(i)
      /\ UNCHANGED Invoice!vars
  BY AmountsKept
<1>1. TypeOK'
  BY <1>0, BillingAssumption DEF TypeOK
<1>2. BatchesConsistent'
  BY <1>0 DEF BatchesConsistent
<1>3. CallsConsistent'
  BY <1>0, BillingAssumption DEF CallsConsistent, TypeOK
<1>4. BilledForUse'
  BY <1>0, <1>a DEF BilledForUse
<1>5. LooseIsBillable'
  BY <1>0, <1>a, BillingAssumption DEF LooseIsBillable, Leaving, TypeOK
<1>6. InvoiceStep
  BY <1>a DEF InvoiceStep
<1> QED
  BY <1>1, <1>2, <1>3, <1>4, <1>5, <1>6 DEF IInv

\* Polar cancels the subscription.
LEMMA CancelStep ==
    ASSUME IInv, NEW c \in Calls, cancelSubscription(c)
    PROVE  IInv' /\ InvoiceStep
<1>0. TypeOK /\ BatchesConsistent /\ CallsConsistent /\ BilledForUse /\ LooseIsBillable
  BY DEF IInv
<1> USE DEF cancelSubscription, GoesTo, Steps, Nothing, Webhook, Statuses, batchVars, accountVars, callVars, polarVars, history
<1>a. /\ \A i \in Items : Claimed(i)' = Claimed(i) /\ Loose(i)' = Loose(i)
      /\ UNCHANGED Invoice!vars
  BY AmountsKept
<1>1. TypeOK'
  <2>1. their[c] \in Subs
    BY <1>0 DEF TypeOK, CallsConsistent
  <2>2. [status |-> "ended", sub |-> their[c], at |-> 2 * (clock + 1)] \in Webhook
    BY <1>0, <2>1 DEF TypeOK
  <2>3. webhooks' \subseteq Webhook
    BY <1>0, <2>2 DEF TypeOK
  <2>4. clock' \in Nat
    BY <1>0 DEF TypeOK
  <2>5. polar' \in [Subs -> Statuses]
    BY <1>0 DEF TypeOK
  <2> QED
    BY <1>0, <2>3, <2>4, <2>5 DEF TypeOK
<1>2. BatchesConsistent'
  BY <1>0 DEF BatchesConsistent
<1>3. CallsConsistent'
  BY <1>0, BillingAssumption DEF CallsConsistent, TypeOK
<1>4. BilledForUse'
  BY <1>0, <1>a DEF BilledForUse
<1>5. LooseIsBillable'
  BY <1>0, <1>a, BillingAssumption DEF LooseIsBillable, Leaving, TypeOK
<1>6. InvoiceStep
  BY <1>a DEF InvoiceStep
<1> QED
  BY <1>1, <1>2, <1>3, <1>4, <1>5, <1>6 DEF IInv

\* Polar takes a batch: the claim is invoiced, or it took it before.
LEMMA SendStep ==
    ASSUME IInv, NEW c \in Calls, sendMeterEvents(c)
    PROVE  IInv' /\ InvoiceStep
<1>0. TypeOK /\ BatchesConsistent /\ CallsConsistent /\ BilledForUse /\ LooseIsBillable
  BY DEF IInv
<1> USE DEF sendMeterEvents, batchVars, accountVars, callVars, polarVars, history
<1>a. held[c] \in 1..batches /\ batches \in Nat
  BY <1>0 DEF CallsConsistent, TypeOK
<1>b. \A i \in Items : /\ billed[i] \in Nat /\ billable[i] \in Nat /\ events[i] \in Nat
                       /\ load[c][i] \in Nat /\ sent[i] \in Nat
                       /\ Claimed(i) \in Nat /\ Loose(i) \in Nat
  BY <1>0, AmountTypes DEF TypeOK
<1>1. TypeOK'
  <2>1. billed' \in [Items -> Nat]
    BY <1>b
  <2>2. taken' \subseteq Nat
    BY <1>0, <1>a DEF TypeOK
  <2> QED
    BY <1>0, <2>1, <2>2 DEF TypeOK, Steps
<1>2. BatchesConsistent'
  BY <1>0, <1>a DEF BatchesConsistent
<1>3. CallsConsistent'
  BY <1>0, <1>a DEF CallsConsistent, TypeOK
<1>c. ASSUME NEW i \in Items
      PROVE  /\ billed'[i] + Claimed(i)' = billed[i] + Claimed(i)
             /\ billed'[i] \in Nat /\ Claimed(i)' \in Nat
             /\ Above(i)' = Above(i)
             /\ Loose(i)' = Loose(i)
  <2>1. Above(i)' = Above(i) /\ Loose(i)' = Loose(i)
    BY DEF Above, Loose
  <2>2. CASE held[c] \in taken
    BY <1>b, <2>1, <2>2 DEF Claimed
  <2>3. CASE held[c] \notin taken
    <3>1. batch = held[c] /\ load[c] = events
      BY <1>0, <2>3 DEF CallsConsistent
    <3> QED
      BY <1>a, <1>b, <2>1, <2>3, <3>1 DEF Claimed
  <2> QED
    BY <2>2, <2>3
<1>4. BilledForUse'
  BY <1>0, <1>c DEF BilledForUse
<1>5. LooseIsBillable'
  BY <1>0, <1>c DEF LooseIsBillable, Leaving
<1>6. InvoiceStep
  <2>1. CASE held[c] \in taken
    <3>1. ASSUME NEW i \in Items
          PROVE  Claimed(i)' = Claimed(i) /\ billed'[i] = billed[i]
      BY <2>1 DEF Claimed
    <3>2. billed' = billed
      BY <1>0, <2>1 DEF TypeOK
    <3> QED
      BY <1>c, <3>1, <3>2 DEF InvoiceStep, Invoice!vars
  <2>2. CASE held[c] \notin taken
    <3>1. batch = held[c] /\ load[c] = events
      BY <1>0, <2>2 DEF CallsConsistent
    <3>2. ASSUME NEW i \in Items
          PROVE  /\ Claimed(i) = events[i] /\ Claimed(i)' = 0
                 /\ billed'[i] = billed[i] + Claimed(i)
                 /\ sent'[i] + (events'[i] - Claimed(i)') = (sent[i] + (events[i] - Claimed(i))) + Claimed(i)
      BY <1>a, <1>b, <2>2, <3>1 DEF Claimed
    <3>3. billed' = [i \in Items |-> billed[i] + Claimed(i)]
      BY <3>2
    <3>4. Invoice!Invoice
      BY <1>c, <3>2, <3>3 DEF Invoice!Invoice, Invoice!Nothing
    <3> QED
      BY <3>4 DEF InvoiceStep, Invoice!Next
  <2> QED
    BY <2>1, <2>2
<1> QED
  BY <1>1, <1>2, <1>3, <1>4, <1>5, <1>6 DEF IInv

\* A call is over, or goes on, with what it held forgotten.
LEMMA AfterSendTypes ==
    ASSUME TypeOK, NEW c \in Calls, AfterSend(c)
    PROVE  /\ pc' \in [Calls -> Steps] /\ held' \in [Calls -> Nat]
           /\ load' \in [Calls -> [Items -> Nat]]
           /\ their' \in [Calls -> Subs \cup {NoSub}] /\ began' \in [Calls -> Nat]
           /\ pc'[c] \in {"idle", "cancel"}
           /\ pc'[c] = "cancel" => their'[c] # NoSub
           /\ \A d \in Calls \ {c} : pc'[d] = pc[d] /\ held'[d] = held[d]
                                      /\ load'[d] = load[d] /\ their'[d] = their[d]
           /\ Leaving' => Leaving
<1>1. /\ held' = [held EXCEPT ![c] = 0] /\ load' = [load EXCEPT ![c] = Nothing]
      /\ \/ pc' = [pc EXCEPT ![c] = "cancel"] /\ their[c] # NoSub /\ their' = their
         \/ pc' = [pc EXCEPT ![c] = "idle"] /\ their' = [their EXCEPT ![c] = NoSub]
  BY DEF AfterSend, GoesTo, CallOver
<1>2. /\ pc \in [Calls -> Steps] /\ held \in [Calls -> Nat]
      /\ load \in [Calls -> [Items -> Nat]] /\ their \in [Calls -> Subs \cup {NoSub}]
  BY DEF TypeOK
<1>3. pc' \in [Calls -> Steps] /\ held' \in [Calls -> Nat]
  BY <1>1, <1>2 DEF Steps
<1>4. load' \in [Calls -> [Items -> Nat]]
  <2>1. Nothing \in [Items -> Nat]
    BY DEF Nothing
  <2> QED
    BY <1>1, <1>2, <2>1
<1>5. their' \in [Calls -> Subs \cup {NoSub}] /\ began' \in [Calls -> Nat]
  <2>1. began' \in {began, [began EXCEPT ![c] = 0]}
    BY DEF AfterSend, GoesTo, CallOver
  <2>2. began \in [Calls -> Nat]
    BY DEF TypeOK
  <2>3. began' \in [Calls -> Nat]
    BY <2>1, <2>2
  <2>4. their' \in [Calls -> Subs \cup {NoSub}]
    BY <1>1, <1>2
  <2> QED
    BY <2>3, <2>4
<1>6. pc'[c] \in {"idle", "cancel"} /\ (pc'[c] = "cancel" => their'[c] # NoSub)
  BY <1>1, <1>2
<1>7. ASSUME NEW d \in Calls \ {c}
      PROVE  /\ pc'[d] = pc[d] /\ held'[d] = held[d]
             /\ load'[d] = load[d] /\ their'[d] = their[d]
  BY <1>1, <1>2
<1>8. Leaving' => Leaving
  <2>1. \A d \in Calls : their'[d] # NoSub => their[d] # NoSub
    BY <1>1, <1>2
  <2> QED
    BY <2>1 DEF Leaving
<1> QED
  BY <1>3, <1>4, <1>5, <1>6, <1>7, <1>8

\* The batch Polar took is noted: what was claimed is settled already.
LEMMA NoteStep ==
    ASSUME IInv, NEW c \in Calls, meterBatchSent(c)
    PROVE  IInv' /\ InvoiceStep
<1>0. TypeOK /\ BatchesConsistent /\ CallsConsistent /\ BilledForUse /\ LooseIsBillable
  BY DEF IInv
<1> USE DEF meterBatchSent, batchVars, accountVars, callVars, polarVars, history
<1>t. held[c] \in taken
  BY <1>0 DEF CallsConsistent
<1>a. /\ sent' \in [Items -> Nat] /\ events' \in [Items -> Nat] /\ batch' \in Nat
      /\ batches' = batches
      /\ batch' = 0 => events' = Nothing
      /\ batch' \in {0, batch}
      /\ \A i \in Items : sent'[i] + events'[i] = sent[i] + events[i]
      /\ \A i \in Items : Claimed(i)' = Claimed(i)
      /\ batch' # 0 => events' = events
      /\ batch' # batch => batch \in taken
  <2>1. CASE batch = held[c]
    BY <1>0, <1>t, <2>1 DEF TypeOK, Nothing, Claimed
  <2>2. CASE batch # held[c]
    BY <1>0, <2>2 DEF TypeOK, BatchesConsistent, Claimed
  <2> QED
    BY <2>1, <2>2
<1>b. ASSUME NEW i \in Items
      PROVE  Above(i)' = Above(i) /\ Loose(i)' = Loose(i)
  BY <1>a DEF Above, Loose
<1>s. AfterSend(c)
  OBVIOUS
<1>1. TypeOK'
  BY <1>0, <1>a, <1>s, AfterSendTypes DEF TypeOK
<1>2. BatchesConsistent'
  BY <1>0, <1>a DEF BatchesConsistent, TypeOK
<1>3. CallsConsistent'
  <2>1. ASSUME NEW d \in Calls, pc'[d] = "send"
        PROVE  /\ held'[d] \in 1..batches'
               /\ held'[d] \notin taken' => batch' = held'[d] /\ load'[d] = events'
    <3>1. d # c /\ pc[d] = "send" /\ held'[d] = held[d] /\ load'[d] = load[d]
      BY <1>0, <1>s, <2>1, AfterSendTypes
    <3>2. held[d] \in 1..batches
      BY <1>0, <3>1 DEF CallsConsistent
    <3>3. held[d] \notin taken => batch = held[d] /\ load[d] = events
      BY <1>0, <3>1 DEF CallsConsistent
    <3>4. held[d] \notin taken => batch' = batch /\ batch' # 0
      BY <1>0, <1>a, <3>2, <3>3 DEF TypeOK
    <3> QED
      BY <1>a, <3>1, <3>2, <3>3, <3>4
  <2>2. ASSUME NEW d \in Calls, pc'[d] # "send"
        PROVE  /\ pc'[d] = "note" => held'[d] \in taken'
               /\ pc'[d] \in {"cancel", "end"} => their'[d] # NoSub
    BY <1>0, <1>s, <2>2, AfterSendTypes DEF CallsConsistent
  <2> QED
    BY <2>1, <2>2 DEF CallsConsistent
<1>4. BilledForUse'
  BY <1>0, <1>a DEF BilledForUse
<1>5. LooseIsBillable'
  BY <1>0, <1>a, <1>b, <1>s, AfterSendTypes DEF LooseIsBillable
<1>6. InvoiceStep
  <2>1. ASSUME NEW i \in Items
        PROVE  sent'[i] + (events'[i] - Claimed(i)') = sent[i] + (events[i] - Claimed(i))
    <3>1. /\ sent[i] \in Nat /\ events[i] \in Nat /\ sent'[i] \in Nat /\ events'[i] \in Nat
          /\ Claimed(i) \in Nat /\ Claimed(i)' = Claimed(i)
      BY <1>0, <1>a, AmountTypes DEF TypeOK
    <3> QED
      BY <1>a, <3>1
  <2> QED
    BY <1>a, <1>b, <2>1 DEF InvoiceStep, Invoice!vars
<1> QED
  BY <1>1, <1>2, <1>3, <1>4, <1>5, <1>6 DEF IInv

\* A step that makes a batch only of what may be billed, and leaves nothing loose
\* where use may be billed from now on, bills only use that may be.
LEMMA BillableKept ==
    ASSUME IInv, TypeOK', billed' = billed, billable' = billable,
           \A i \in Items : Claimed(i)' + Loose(i)' <= Claimed(i) + Loose(i),
           unbilled \/ (sub = NoSub /\ ~Leaving)
             => \A i \in Items : Claimed(i)' = Claimed(i),
           ~unbilled' /\ (sub' # NoSub \/ Leaving')
             => \/ ~unbilled /\ (sub # NoSub \/ Leaving)
                \/ \A i \in Items : Claimed(i)' = Claimed(i) /\ Loose(i)' = 0
    PROVE  BilledForUse' /\ LooseIsBillable'
<1>0. TypeOK /\ BilledForUse /\ LooseIsBillable
  BY DEF IInv
<1>1. ASSUME NEW i \in Items
      PROVE  /\ Claimed(i) \in Nat /\ Loose(i) \in Nat /\ billed[i] \in Nat /\ billable[i] \in Nat
             /\ Claimed(i)' \in Nat /\ Loose(i)' \in Nat
  <2>1. Claimed(i)' \in Nat /\ Loose(i)' \in Nat
    <3>1. i[2] \in Units
      BY DEF Items
    <3>2. used'[i] \in Nat /\ FreeUsage[i[2]] \in Nat /\ sent'[i] \in Nat /\ events'[i] \in Nat
      BY <3>1, BillingAssumption DEF TypeOK
    <3> QED
      BY <3>2 DEF Above, Claimed, Loose, larger
  <2> QED
    BY <1>0, <2>1, AmountTypes DEF TypeOK
<1>2. BilledForUse'
  <2>1. CASE unbilled \/ (sub = NoSub /\ ~Leaving)
    BY <1>0, <2>1 DEF BilledForUse
  <2>2. CASE ~unbilled /\ (sub # NoSub \/ Leaving)
    BY <1>0, <1>1, <2>2 DEF BilledForUse, LooseIsBillable
  <2> QED
    BY <2>1, <2>2
<1>3. LooseIsBillable'
  <2> SUFFICES ASSUME ~unbilled', sub' # NoSub \/ Leaving', NEW i \in Items
               PROVE  billed'[i] + Claimed(i)' + Loose(i)' <= billable'[i]
    BY DEF LooseIsBillable
  <2>1. CASE ~unbilled /\ (sub # NoSub \/ Leaving)
    <3>1. billed[i] + Claimed(i) + Loose(i) <= billable[i]
      BY <1>0, <2>1 DEF LooseIsBillable
    <3> QED
      BY <1>1, <3>1
  <2>2. CASE \A j \in Items : Claimed(j)' = Claimed(j) /\ Loose(j)' = 0
    <3>1. billed[i] + Claimed(i) <= billable[i]
      BY <1>0 DEF BilledForUse
    <3> QED
      BY <1>1, <2>2, <3>1
  <2> QED
    BY <2>1, <2>2
<1> QED
  BY <1>2, <1>3

\* A call that a step leaves alone stays consistent, when the pending batch does.
LEMMA CallKept ==
    ASSUME TypeOK, CallsConsistent, NEW d \in Calls,
           pc'[d] = pc[d], held'[d] = held[d], load'[d] = load[d], their'[d] = their[d],
           taken' = taken, batches' \in Nat, batches <= batches',
           batch # 0 => batch' = batch /\ events' = events
    PROVE  /\ pc'[d] = "send" => held'[d] \in 1..batches'
           /\ pc'[d] = "send" /\ held'[d] \notin taken'
                => batch' = held'[d] /\ load'[d] = events'
           /\ pc'[d] = "note" => held'[d] \in taken'
           /\ pc'[d] \in {"cancel", "end"} => their'[d] # NoSub
<1>1. /\ pc[d] = "send" => held[d] \in 1..batches
      /\ pc[d] = "send" /\ held[d] \notin taken => batch = held[d] /\ load[d] = events
      /\ pc[d] = "note" => held[d] \in taken
      /\ pc[d] \in {"cancel", "end"} => their[d] # NoSub
  BY DEF CallsConsistent
<1>2. batches \in Nat
  BY DEF TypeOK
<1>3. pc[d] = "send" /\ held[d] \notin taken => batch' = held[d] /\ load[d] = events'
  BY <1>1, <1>2
<1> QED
  BY <1>1, <1>2, <1>3

\* The pending batch is taken up, or a new one is made of what is loose.
LEMMA MeterBatchStep ==
    ASSUME IInv, NEW c \in Calls, NEW m \in Months, meterBatch(c, m)
    PROVE  IInv' /\ InvoiceStep
<1>0. TypeOK /\ BatchesConsistent /\ CallsConsistent /\ BilledForUse /\ LooseIsBillable
  BY DEF IInv
<1> USE DEF accountVars, polarVars, history
<1>m. /\ used' = used /\ taken' = taken /\ billed' = billed /\ billable' = billable
      /\ unbilled' = unbilled /\ sub' = sub
  BY DEF meterBatch
<1>a. /\ sent' \in [Items -> Nat]
      /\ batch' \in Nat /\ batches' \in Nat /\ events' \in [Items -> Nat]
      /\ batches <= batches'
      /\ BatchesConsistent'
      /\ batch # 0 => batch' = batch /\ events' = events
      /\ \A i \in Items : Claimed(i)' + Loose(i)' <= Claimed(i) + Loose(i)
      /\ unbilled \/ sub = NoSub => \A i \in Items : Claimed(i)' = Claimed(i)
      /\ InvoiceStep
  <2>1. CASE batch = 0 /\ plan = "payg" /\ NewBatch(m)
    <3>1. m \in Nat
      BY BillingAssumption DEF Months
    <3>2. sub = NoSub => unbilled
      BY <2>1 DEF plan, subscribedPlan
    <3> QED
      BY <1>0, <1>m, <2>1, <3>1, <3>2, NewBatchEffect DEF InvoiceStep
  <2>2. CASE UNCHANGED <<sent, batchVars>>
    <3>1. sent' = sent /\ batch' = batch /\ events' = events /\ batches' = batches
      BY <2>2 DEF batchVars
    <3>2. /\ \A i \in Items : Claimed(i)' = Claimed(i) /\ Loose(i)' = Loose(i)
          /\ UNCHANGED Invoice!vars
      BY <1>m, <3>1, AmountsKept
    <3>3. \A i \in Items : Loose(i) \in Nat /\ Claimed(i) \in Nat
      BY <1>0, AmountTypes
    <3> QED
      BY <1>0, <1>m, <3>1, <3>2, <3>3 DEF TypeOK, BatchesConsistent, InvoiceStep
  <2> QED
    BY <2>1, <2>2 DEF meterBatch
<1>b. /\ pc' \in [Calls -> Steps] /\ held' \in [Calls -> Nat]
      /\ load' \in [Calls -> [Items -> Nat]]
      /\ their' \in [Calls -> Subs \cup {NoSub}] /\ began' \in [Calls -> Nat]
      /\ \A d \in Calls \ {c} : pc'[d] = pc[d] /\ held'[d] = held[d]
                                 /\ load'[d] = load[d] /\ their'[d] = their[d]
      /\ Leaving' => Leaving
      /\ \/ batch' # 0 /\ pc'[c] = "send" /\ held'[c] = batch' /\ load'[c] = events'
         \/ pc'[c] \in {"idle", "cancel"} /\ (pc'[c] = "cancel" => their'[c] # NoSub)
  <2>1. CASE /\ batch' # 0 /\ pc' = [pc EXCEPT ![c] = "send"]
             /\ held' = [held EXCEPT ![c] = batch'] /\ load' = [load EXCEPT ![c] = events']
             /\ their' = their /\ began' = began
    BY <1>0, <1>a, <2>1 DEF TypeOK, Steps, Leaving
  <2>2. CASE AfterSend(c)
    BY <1>0, <2>2, AfterSendTypes
  <2> QED
    BY <2>1, <2>2 DEF meterBatch
<1>1. TypeOK'
  BY <1>0, <1>a, <1>b DEF TypeOK, meterBatch
<1>3. CallsConsistent'
  <2>1. \A d \in Calls \ {c} :
           /\ pc'[d] = "send" => held'[d] \in 1..batches'
           /\ pc'[d] = "send" /\ held'[d] \notin taken'
                => batch' = held'[d] /\ load'[d] = events'
           /\ pc'[d] = "note" => held'[d] \in taken'
           /\ pc'[d] \in {"cancel", "end"} => their'[d] # NoSub
    BY <1>0, <1>m, <1>a, <1>b, CallKept
  <2>2. batch' # 0 => batch' \in 1..batches'
    BY <1>a DEF BatchesConsistent
  <2> QED
    BY <1>b, <2>1, <2>2 DEF CallsConsistent
<1>4. BilledForUse' /\ LooseIsBillable'
  BY <1>m, <1>a, <1>b, <1>1, BillableKept
<1> QED
  BY <1>1, <1>a, <1>3, <1>4 DEF IInv

\* A webhook is ignored or applied.
LEMMA ApplySubscriptionStep ==
    ASSUME IInv, NEW w \in webhooks, applySubscription(w)
    PROVE  IInv' /\ InvoiceStep
<1>0. TypeOK /\ BatchesConsistent /\ CallsConsistent /\ BilledForUse /\ LooseIsBillable
  BY DEF IInv
<1> USE DEF callVars, history
<1>m. /\ used' = used /\ taken' = taken /\ billed' = billed /\ billable' = billable
      /\ unbilled' = unbilled /\ their' = their /\ pc' = pc /\ held' = held /\ load' = load
  BY DEF applySubscription
<1>w. w.sub \in Subs /\ w.at \in Nat
  BY <1>0 DEF TypeOK, Webhook
<1>n. \A i \in Items : Loose(i) \in Nat /\ Claimed(i) \in Nat
  BY <1>0, AmountTypes
<1>a. /\ sent' \in [Items -> Nat]
      /\ batch' \in Nat /\ batches' \in Nat /\ events' \in [Items -> Nat]
      /\ batches <= batches'
      /\ BatchesConsistent'
      /\ batch # 0 => batch' = batch /\ events' = events
      /\ \A i \in Items : Claimed(i)' + Loose(i)' <= Claimed(i) + Loose(i)
      /\ unbilled \/ sub = NoSub => \A i \in Items : Claimed(i)' = Claimed(i)
      /\ \/ sub' # NoSub => sub # NoSub
         \/ \A i \in Items : Claimed(i)' = Claimed(i) /\ Loose(i)' = 0
      /\ InvoiceStep
  <2>1. CASE ~Ignored(w) /\ w.status = "ended"
    <3>1. CloseUsage /\ sub # NoSub /\ sub' = NoSub
      BY <2>1 DEF applySubscription, Apply, Paid, Ignored
    <3> QED
      BY <1>0, <1>m, <3>1, CloseEffect DEF InvoiceStep
  <2>2. CASE ~Ignored(w) /\ w.status # "ended" /\ sub = NoSub
    <3>1. WriteOffUnsent
      BY <2>2 DEF applySubscription, Apply, Paid
    <3>2. batch' = batch /\ events' = events /\ batches' = batches
      BY <3>1 DEF WriteOffUnsent, batchVars
    <3>3. /\ sent' \in [Items -> Nat]
          /\ \A i \in Items : Claimed(i)' = Claimed(i) /\ Loose(i)' = 0
          /\ Invoice!Forgive
      BY <1>0, <1>m, <3>1, WriteOffEffect
    <3> QED
      BY <1>0, <1>m, <1>n, <3>2, <3>3 DEF TypeOK, BatchesConsistent, InvoiceStep, Invoice!Next
  <2>3. CASE UNCHANGED <<sent, batchVars>> /\ (sub' = sub \/ sub # NoSub)
    <3>1. sent' = sent /\ batch' = batch /\ events' = events /\ batches' = batches
      BY <2>3 DEF batchVars
    <3>2. /\ \A i \in Items : Claimed(i)' = Claimed(i) /\ Loose(i)' = Loose(i)
          /\ UNCHANGED Invoice!vars
      BY <1>m, <3>1, AmountsKept
    <3> QED
      BY <1>0, <1>m, <1>n, <2>3, <3>1, <3>2 DEF TypeOK, BatchesConsistent, InvoiceStep
  <2> QED
    BY <2>1, <2>2, <2>3 DEF applySubscription, Apply, Paid, accountVars
<1>1. TypeOK'
  <2>1. /\ customer' \in BOOLEAN /\ sub' \in Subs \cup {NoSub}
        /\ endedSub' \in Subs \cup {NoSub} /\ payment' \in {"ok", "past_due"}
        /\ changedAt' \in Nat
    BY <1>0, <1>w DEF TypeOK, applySubscription, Apply, accountVars
  <2>2. webhooks' \subseteq Webhook
    BY <1>0 DEF TypeOK, applySubscription
  <2> QED
    BY <1>0, <1>m, <1>a, <2>1, <2>2 DEF TypeOK, applySubscription
<1>3. CallsConsistent'
  BY <1>0, <1>m, <1>a, CallKept DEF CallsConsistent
<1>4. BilledForUse' /\ LooseIsBillable'
  <2>1. Leaving' = Leaving
    BY <1>m DEF Leaving
  <2> QED
    BY <1>m, <1>a, <1>1, <2>1, BillableKept
<1> QED
  BY <1>1, <1>a, <1>3, <1>4 DEF IInv

\* A platform admin marks or unmarks the org.
LEMMA SetUnbilledStep ==
    ASSUME IInv, setUnbilled
    PROVE  IInv' /\ InvoiceStep
<1>0. TypeOK /\ BatchesConsistent /\ CallsConsistent /\ BilledForUse /\ LooseIsBillable
  BY DEF IInv
<1> USE DEF callVars, accountVars, history
<1>m. /\ used' = used /\ taken' = taken /\ billed' = billed /\ billable' = billable
      /\ their' = their /\ pc' = pc /\ held' = held /\ load' = load /\ sub' = sub
  BY DEF setUnbilled
<1>n. \A i \in Items : Loose(i) \in Nat /\ Claimed(i) \in Nat
  BY <1>0, AmountTypes
<1>a. /\ sent' \in [Items -> Nat]
      /\ batch' \in Nat /\ batches' \in Nat /\ events' \in [Items -> Nat]
      /\ batches <= batches'
      /\ BatchesConsistent'
      /\ batch # 0 => batch' = batch /\ events' = events
      /\ \A i \in Items : Claimed(i)' + Loose(i)' <= Claimed(i) + Loose(i)
      /\ unbilled \/ sub = NoSub => \A i \in Items : Claimed(i)' = Claimed(i)
      /\ unbilled' \/ \A i \in Items : Claimed(i)' = Claimed(i) /\ Loose(i)' = 0
      /\ InvoiceStep
  <2>1. CASE ~unbilled /\ sub # NoSub /\ CloseUsage
    <3>1. unbilled' = TRUE
      BY <2>1 DEF setUnbilled
    <3> QED
      BY <1>0, <1>m, <2>1, <3>1, CloseEffect DEF InvoiceStep
  <2>2. CASE WriteOffUnsent
    <3>2. batch' = batch /\ events' = events /\ batches' = batches
      BY <2>2 DEF WriteOffUnsent, batchVars
    <3>3. /\ sent' \in [Items -> Nat]
          /\ \A i \in Items : Claimed(i)' = Claimed(i) /\ Loose(i)' = 0
          /\ Invoice!Forgive
      BY <1>0, <1>m, <2>2, WriteOffEffect
    <3> QED
      BY <1>0, <1>m, <1>n, <3>2, <3>3 DEF TypeOK, BatchesConsistent, InvoiceStep, Invoice!Next
  <2> QED
    BY <2>1, <2>2 DEF setUnbilled
<1>1. TypeOK'
  BY <1>0, <1>m, <1>a DEF TypeOK, setUnbilled, polarVars
<1>3. CallsConsistent'
  BY <1>0, <1>m, <1>a, CallKept DEF CallsConsistent
<1>4. BilledForUse' /\ LooseIsBillable'
  BY <1>m, <1>a, <1>1, BillableKept
<1> QED
  BY <1>1, <1>a, <1>3, <1>4 DEF IInv

\* A switch to Free ends the subscription.
LEMMA EndSubscriptionStep ==
    ASSUME IInv, NEW c \in Calls, endSubscription(c)
    PROVE  IInv' /\ InvoiceStep
<1>0. TypeOK /\ BatchesConsistent /\ CallsConsistent /\ BilledForUse /\ LooseIsBillable
  BY DEF IInv
<1> USE DEF polarVars, history
<1>m. /\ used' = used /\ taken' = taken /\ billed' = billed /\ billable' = billable
      /\ unbilled' = unbilled /\ sub' = NoSub /\ CloseUsage
  BY DEF endSubscription
<1>l. Leaving
  BY <1>0 DEF endSubscription, CallsConsistent, Leaving
<1>a. /\ sent' \in [Items -> Nat]
      /\ batch' \in Nat /\ batches' \in Nat /\ events' \in [Items -> Nat]
      /\ batches <= batches'
      /\ BatchesConsistent'
      /\ batch # 0 => batch' = batch /\ events' = events
      /\ \A i \in Items : Claimed(i)' + Loose(i)' <= Claimed(i) + Loose(i)
      /\ unbilled => \A i \in Items : Claimed(i)' = Claimed(i)
      /\ InvoiceStep
  BY <1>0, <1>m, CloseEffect DEF InvoiceStep
<1>b. /\ pc' = [pc EXCEPT ![c] = "idle"] /\ held' = [held EXCEPT ![c] = 0]
      /\ load' = [load EXCEPT ![c] = Nothing] /\ their' = [their EXCEPT ![c] = NoSub]
  BY DEF endSubscription, CallOver
<1>c. /\ pc \in [Calls -> Steps] /\ held \in [Calls -> Nat]
      /\ load \in [Calls -> [Items -> Nat]] /\ their \in [Calls -> Subs \cup {NoSub}]
  BY <1>0 DEF TypeOK
<1>1. TypeOK'
  <2>1. Nothing \in [Items -> Nat]
    BY DEF Nothing
  <2>2. /\ pc' \in [Calls -> Steps] /\ held' \in [Calls -> Nat]
        /\ load' \in [Calls -> [Items -> Nat]] /\ their' \in [Calls -> Subs \cup {NoSub}]
    BY <1>b, <1>c, <2>1 DEF Steps
  <2>3. /\ customer' \in BOOLEAN /\ sub' \in Subs \cup {NoSub}
        /\ endedSub' \in Subs \cup {NoSub} /\ payment' \in {"ok", "past_due"}
    BY <1>0 DEF TypeOK, endSubscription
  <2>4. changedAt' \in Nat /\ began' \in [Calls -> Nat]
    <3>1. PICK now \in {began[c], 2 * clock + 1} : changedAt' = larger(changedAt, now)
      BY DEF endSubscription
    <3>2. began' = [began EXCEPT ![c] = 0]
      BY DEF endSubscription, CallOver
    <3> QED
      BY <1>0, <3>1, <3>2 DEF TypeOK, larger
  <2> QED
    BY <1>0, <1>a, <2>2, <2>3, <2>4 DEF TypeOK, endSubscription
<1>3. CallsConsistent'
  <2>1. \A d \in Calls \ {c} : pc'[d] = pc[d] /\ held'[d] = held[d]
                               /\ load'[d] = load[d] /\ their'[d] = their[d]
    BY <1>b, <1>c
  <2>2. pc'[c] = "idle"
    BY <1>b, <1>c
  <2>3. \A d \in Calls \ {c} :
           /\ pc'[d] = "send" => held'[d] \in 1..batches'
           /\ pc'[d] = "send" /\ held'[d] \notin taken'
                => batch' = held'[d] /\ load'[d] = events'
           /\ pc'[d] = "note" => held'[d] \in taken'
           /\ pc'[d] \in {"cancel", "end"} => their'[d] # NoSub
    BY <1>0, <1>m, <1>a, <2>1, CallKept
  <2> QED
    BY <2>2, <2>3 DEF CallsConsistent
<1>4. BilledForUse' /\ LooseIsBillable'
  BY <1>m, <1>l, <1>a, <1>1, BillableKept
<1> QED
  BY <1>1, <1>a, <1>3, <1>4 DEF IInv

-----------------------------------------------------------------------------
(* Together *)

\* The initial state.
LEMMA InitEffect ==
    ASSUME Init
    PROVE  IInv /\ Invoice!Init
<1> USE DEF Init, Nothing
<1>1. TypeOK
  BY BillingAssumption DEF TypeOK, Steps, Statuses, Webhook
<1>2. ASSUME NEW i \in Items
      PROVE  Above(i) = 0 /\ Claimed(i) = 0 /\ Loose(i) = 0
  <2>1. i[2] \in Units
    BY DEF Items
  <2>2. FreeUsage[i[2]] \in Nat
    BY <2>1, BillingAssumption
  <2> QED
    BY <2>2 DEF Above, Claimed, Loose, larger
<1>3. BatchesConsistent
  BY DEF BatchesConsistent
<1>4. CallsConsistent
  BY DEF CallsConsistent
<1>5. BilledForUse /\ LooseIsBillable
  BY <1>2 DEF BilledForUse, LooseIsBillable
<1>6. Invoice!Init
  BY <1>2 DEF Invoice!Init, Invoice!Nothing
<1> QED
  BY <1>1, <1>3, <1>4, <1>5, <1>6 DEF IInv

\* Every step preserves IInv and is one of the invoice's, or none.
LEMMA StepEffect ==
    ASSUME IInv, [Next]_vars
    PROVE  IInv' /\ [Invoice!Next]_(Invoice!vars)
<1>1. CASE Next
  <2>1. IInv' /\ InvoiceStep
    BY <1>1, AdmitStep, RefundStep, AddTimeStep, NextMonthStep, ApplySubscriptionStep,
       SetUnbilledStep, CheckoutStep, PolarChangesStep, LeaveBeginsStep, MeterBatchStep,
       SendStep, NoteStep, CancelStep, EndSubscriptionStep, CallFailsStep
    DEF Next
  <2> QED
    BY <2>1 DEF InvoiceStep
<1>2. CASE UNCHANGED vars
  <2> USE DEF vars, batchVars, accountVars, callVars, polarVars, history
  <2>0. TypeOK /\ BatchesConsistent /\ CallsConsistent /\ BilledForUse /\ LooseIsBillable
    BY DEF IInv
  <2>a. /\ \A i \in Items : Claimed(i)' = Claimed(i) /\ Loose(i)' = Loose(i)
        /\ UNCHANGED Invoice!vars
    BY <1>2, AmountsKept
  <2>1. TypeOK'
    BY <1>2, <2>0 DEF TypeOK
  <2>2. BatchesConsistent' /\ CallsConsistent'
    BY <1>2, <2>0 DEF BatchesConsistent, CallsConsistent
  <2>3. BilledForUse' /\ LooseIsBillable'
    BY <1>2, <2>0, <2>a DEF BilledForUse, LooseIsBillable, Leaving
  <2> QED
    BY <2>a, <2>1, <2>2, <2>3 DEF IInv
<1> QED
  BY <1>1, <1>2

\* The tables, the calls and the provider's records stay of their types
\* (packages/billing/src/store.ts, send-usage.ts).
THEOREM TypeCorrect == Spec => []TypeOK
<1>1. Init => IInv
  BY InitEffect
<1>2. IInv /\ [Next]_vars => IInv'
  BY StepEffect
<1>3. IInv => TypeOK
  BY DEF IInv
<1> QED
  BY <1>1, <1>2, <1>3, PTL DEF Spec

\* Only use made on Pay as you go and not unbilled, or while a call that leaves
\* Pay as you go is under way, is ever billed (store.ts applySubscription,
\* setUnbilled, meterBatch).
THEOREM OnlyUseIsBilled == Spec => []BilledForUse
<1>1. Init => IInv
  BY InitEffect
<1>2. IInv /\ [Next]_vars => IInv'
  BY StepEffect
<1>3. IInv => BilledForUse
  BY DEF IInv
<1> QED
  BY <1>1, <1>2, <1>3, PTL DEF Spec

\* Billing implements UsageInvoice: every use is invoiced at most once, however
\* often a batch is sent and however late it is noted (store.ts meterBatch,
\* meterBatchSent; send-usage.ts).
THEOREM Refinement == Spec => InvoicedOnce
<1>1. Init => IInv /\ Invoice!Init
  BY InitEffect
<1>2. IInv /\ [Next]_vars => IInv' /\ [Invoice!Next]_(Invoice!vars)
  BY StepEffect
<1> QED
  BY <1>1, <1>2, PTL DEF Spec, InvoicedOnce, Invoice!Spec

=============================================================================
