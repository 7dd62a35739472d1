----------------------------- MODULE MCRunIndex -----------------------------
(* Small instances of RunIndex.                                             *)
EXTENDS RunIndex, TLC

\* Run ids, and agents, are interchangeable.
Ids == Permutations(Runs) \cup Permutations(Agents)
=============================================================================
