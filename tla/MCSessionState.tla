--------------------------- MODULE MCSessionState ---------------------------
(* A small instance of SessionState: an object that holds one entry of two     *)
(* keys, asked for shorter and longer lives than it gives.                    *)
EXTENDS SessionState, TLC

\* Keys are interchangeable.
Names == Permutations(Keys)
=============================================================================
