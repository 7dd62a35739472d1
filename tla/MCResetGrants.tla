---------------------------- MODULE MCResetGrants ----------------------------
(* Constants for checking ResetGrants.                                        *)
EXTENDS ResetGrants, TLC

Symmetric == Permutations(Files) \cup Permutations(Flows)
=============================================================================
