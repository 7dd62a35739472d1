--------------------------- MODULE ResultHandover ---------------------------
(***************************************************************************)
(* What a child run promises of the results of its turns (ChildRun), without *)
(* objects, loops, tries, lost answers or evictions: a turn finishes once,     *)
(* its result is claimed or owed, and what is owed ends once: claimed, in the   *)
(* parent's inbox and recorded so, or given up.  Only a claim takes up again   *)
(* what ended.  The inbox holds each result once, of finished turns only, and  *)
(* takes none once the parent closed it.                                      *)
(***************************************************************************)

CONSTANT Turns

VARIABLES
    fate,           \* each turn's result: Fates
    inbox,          \* the turns whose result the parent took as a message
    closed          \* the parent ended

vars == <<fate, inbox, closed>>

Fates == {"open", "owed", "claimed", "delivered", "dropped"}

Init ==
    /\ fate = [t \in Turns |-> "open"]
    /\ inbox = {}
    /\ closed = FALSE

Finish ==
    /\ \E t \in Turns, f \in {"owed", "claimed"} :
          fate[t] = "open" /\ fate' = [fate EXCEPT ![t] = f]
    /\ UNCHANGED <<inbox, closed>>

Claim ==
    /\ \E t \in Turns : fate[t] # "open" /\ fate' = [fate EXCEPT ![t] = "claimed"]
    /\ UNCHANGED <<inbox, closed>>

Take ==
    /\ ~closed
    /\ \E t \in Turns : fate[t] # "open" /\ inbox' = inbox \cup {t}
    /\ UNCHANGED <<fate, closed>>

\* What is owed of some turns ends, and a result is delivered only if it was taken.
Settle ==
    /\ fate' \in [Turns -> Fates]
    /\ \A t \in Turns :
        \/ fate'[t] = fate[t]
        \/ fate[t] = "owed" /\ fate'[t] = "delivered" /\ t \in inbox
        \/ fate[t] = "owed" /\ fate'[t] = "dropped"
    /\ UNCHANGED <<inbox, closed>>

Close ==
    /\ closed' = TRUE
    /\ UNCHANGED <<fate, inbox>>

Next == Finish \/ Claim \/ Take \/ Settle \/ Close

Spec == Init /\ [][Next]_vars
=============================================================================
