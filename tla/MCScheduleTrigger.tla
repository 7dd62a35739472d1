-------------------------- MODULE MCScheduleTrigger --------------------------
(* A small instance of ScheduleTrigger.                                      *)
EXTENDS ScheduleTrigger, TLC

Slots == Permutations(Calls)
=============================================================================
