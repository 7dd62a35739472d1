---------------------------- MODULE MCSpendLedger ----------------------------
(* Constants for checking SpendLedger: a key, the org and a shared credential,  *)
(* two calendars one tick apart.                                               *)
EXTENDS SpendLedger, TLC

CONSTANTS k, o, c, d, m, sh, pr, x1, x2

MCKeyOf == (m :> {k})
MCSharedOf == (m :> {o})
MCScopeOf == (sh :> c) @@ (pr :> d)
MCLimitIds == {<<k, "day", "admin">>, <<k, "day", "member">>, <<o, "month", "admin">>,
               <<c, "day", "admin">>}
Length == [day |-> 2, month |-> 2]
MCPeriodStart ==
    [p \in Periods |-> [cal \in Calendars |-> [t \in Times |->
        LET start == t - ((t + cal) % Length[p]) IN IF start < 0 THEN 0 ELSE start]]]
Symmetric == Permutations(Slots)
=============================================================================
