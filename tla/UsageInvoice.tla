---------------------------- MODULE UsageInvoice ----------------------------
(***************************************************************************)
(* What Billing promises of an org's invoice (ADR 0042), without batches,   *)
(* ids, retries or plans: use above free usage is claimed, and a claim is   *)
(* invoiced once and whole, or use is forgiven; what was invoiced or         *)
(* forgiven is never claimed again.                                         *)
(***************************************************************************)
EXTENDS Integers

CONSTANT Items      \* the months' units that are counted

VARIABLES
    above,          \* what was used of each item above free usage
    settled,        \* how much of it was invoiced or forgiven
    claim,          \* what is being invoiced of each item (all 0: nothing)
    invoiced        \* what the provider invoices

vars == <<above, settled, claim, invoiced>>

larger(a, b) == IF a >= b THEN a ELSE b

Nothing == [i \in Items |-> 0]

\* What is used of an item and neither settled nor claimed.
Owed(i) == larger(0, above[i] - settled[i])

Init ==
    /\ above = Nothing
    /\ settled = Nothing
    /\ claim = Nothing
    /\ invoiced = Nothing

\* Use grows by one, or a use that did no work is taken back.
Use ==
    /\ \E i \in Items : \E n \in {above[i] - 1, above[i] + 1} :
          n >= 0 /\ above' = [above EXCEPT ![i] = n]
    /\ UNCHANGED <<settled, claim, invoiced>>

\* What is owed of some items is claimed, all of it, if nothing is claimed yet.
Claim ==
    /\ claim = Nothing
    /\ claim' \in [Items -> Nat]
    /\ \A i \in Items : claim'[i] \in {0, Owed(i)}
    /\ UNCHANGED <<above, settled, invoiced>>

\* The claim is invoiced, whole.
Invoice ==
    /\ invoiced' = [i \in Items |-> invoiced[i] + claim[i]]
    /\ settled' = [i \in Items |-> settled[i] + claim[i]]
    /\ claim' = Nothing
    /\ UNCHANGED above

\* What is owed beside the claim is forgiven.
Forgive ==
    /\ settled' = [i \in Items |-> larger(settled[i], above[i] - claim[i])]
    /\ UNCHANGED <<above, claim, invoiced>>

Next == Claim \/ Invoice \/ Forgive \/ Use

Spec == Init /\ [][Next]_vars
=============================================================================
