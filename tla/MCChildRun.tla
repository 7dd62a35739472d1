----------------------------- MODULE MCChildRun -----------------------------
(* Small instances of ChildRun: which of claims by id, evictions and endings  *)
(* happen is each configuration's choice.                                     *)
EXTENDS ChildRun, TLC

\* Loops are interchangeable slots.
LoopSlots == Permutations(Loops)
=============================================================================
