------------------------------ MODULE MCBilling ------------------------------
(* A small instance of Billing: one unit that is refused and taken back, and   *)
(* one that is counted as it runs.                                            *)
EXTENDS Billing, TLC

MCFreeUsage == [u \in Units |-> IF u = "requests" THEN 1 ELSE 0]

Slots == Permutations(Calls)
=============================================================================
