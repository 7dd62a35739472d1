----------------------------- MODULE SpendLedger -----------------------------
(***************************************************************************)
(* An org's spend limits and the counters behind them (packages/state/src/    *)
(* spend: ledger.ts, store.ts, service.ts, period.ts), as the credential      *)
(* pool of Models (pick, report) and the tool calls use them.  A request is   *)
(* let through by what has been counted when it starts and is counted when    *)
(* it ends; meanwhile others start and end, limits are written, changed and   *)
(* removed, their subjects go, periods end and the org's calendar is set.     *)
(*                                                                         *)
(* A scope is a subject of limits: an API key, a member, a team, the org, a   *)
(* shared agent or a credential.  Amounts are small numbers.  A limit's edit  *)
(* at another revision than the stored one changes nothing and is left out,   *)
(* as is the time of browser and sandbox sessions.                            *)
(***************************************************************************)
EXTENDS Integers, FiniteSets

CONSTANTS
    Scopes,         \* what limits are written on
    KeyScopes,      \* ... those that are API keys
    Callers,        \* who sends requests
    KeyOf,          \* keyScopes: the API key of each caller, if any
    SharedOf,       \* sharedScopes: the member, teams, org or agent of each caller
    Credentials,    \* what serves them
    Shared,         \* ... those of the org, not of a member
    ScopeOf,        \* the scope of each credential
    Periods,        \* day, week, month
    Calendars,      \* time zones and week starts
    LimitIds,       \* the limits that may be written: <<scope, period, source>>
    MaxTime,        \* bound: the clock
    periodStart,    \* periodBounds(...).start, by period, calendar and time
    MaxAmount,      \* bound: a limit's amount
    MaxCost,        \* bound: the cost of one request
    Slots,          \* bound: requests under way at once
    NoLimit,        \* the limit is not written
    Idle            \* no request

Times == 0..MaxTime
Sources == {"admin", "member"}
Counted == Scopes \X Periods

ASSUME SpendAssumption ==
    /\ MaxTime \in Nat /\ MaxAmount \in Nat /\ MaxCost \in Nat
    /\ IsFiniteSet(Slots)
    /\ KeyScopes \subseteq Scopes /\ Shared \subseteq Credentials
    /\ KeyOf \in [Callers -> SUBSET KeyScopes]
    /\ SharedOf \in [Callers -> SUBSET Scopes]
    /\ ScopeOf \in [Credentials -> Scopes]
    /\ Calendars # {}
    /\ LimitIds \subseteq Scopes \X Periods \X Sources
    /\ periodStart \in [Periods -> [Calendars -> [Times -> Times]]]
    /\ \A p \in Periods, c \in Calendars, t \in Times, u \in Times :
        t <= u => periodStart[p][c][t] <= periodStart[p][c][u]
    /\ NoLimit \notin Nat
    /\ Idle \notin [by : STRING, may : SUBSET Scopes, spend : SUBSET Scopes]

VARIABLES
    limits,         \* spend_limits: the amount of each limit, by scope, period and source
    counters,       \* spend_counters, by scope, period and period start; 0 is no row
    calendar,       \* spend_settings
    now,
    calls,          \* requests and tool calls under way, with their leases' scopes
    \* history
    tally,          \* what has been charged in the period since it began, the calendar
                    \* was set and the first of the present limits was written
    ceiling         \* the most that the limits allowed since then

vars == <<limits, counters, calendar, now, calls, tally, ceiling>>

Call == [by : {"model", "tool"},
         may : SUBSET Scopes,       \* chargedScopes
         spend : SUBSET Scopes]     \* a lease's: those with a limit when it was given

TypeOK ==
    /\ limits \in [Scopes -> [Periods -> [Sources -> Nat \cup {NoLimit}]]]
    /\ counters \in [Scopes -> [Periods -> [Times -> Nat]]]
    /\ calendar \in Calendars
    /\ now \in Times
    /\ calls \in [Slots -> Call \cup {Idle}]
    /\ tally \in [Scopes -> [Periods -> Nat]]
    /\ ceiling \in [Scopes -> [Periods -> Nat]]

\* A scope without limits.
Unlimited == [p \in Periods |-> [source \in Sources |-> NoLimit]]

Init ==
    /\ limits = [s \in Scopes |-> Unlimited]
    /\ counters = [s \in Scopes |-> [p \in Periods |-> [t \in Times |-> 0]]]
    /\ calendar \in Calendars
    /\ now = 0
    /\ calls = [x \in Slots |-> Idle]
    /\ tally = [s \in Scopes |-> [p \in Periods |-> 0]]
    /\ ceiling = [s \in Scopes |-> [p \in Periods |-> 0]]

-----------------------------------------------------------------------------
(* Reading the book *)

\* The amounts that limits set on a scope and period.
Amounts(book, s, p) == {book[s][p][source] : source \in Sources} \ {NoLimit}
Limited(book, s, p) == Amounts(book, s, p) # {}
Smallest(book, s, p) ==
    CHOOSE a \in Amounts(book, s, p) : \A b \in Amounts(book, s, p) : a <= b

Start(p) == periodStart[p][calendar][now]
spent(s, p) == counters[s][p][Start(p)]

\* Mutant of exhausted: a limit that is used up to the last micro-USD has room.
exhaustedAbove(S) ==
    \E s \in S, p \in Periods : Limited(limits, s, p) /\ spent(s, p) > Smallest(limits, s, p)

exhausted(S) ==
    \E s \in S, p \in Periods : Limited(limits, s, p) /\ spent(s, p) >= Smallest(limits, s, p)

chargedScopes(caller, credential) ==
    KeyOf[caller] \cup
    IF credential \in Shared THEN SharedOf[caller] \cup {ScopeOf[credential]} ELSE {}

scopes(caller, credential) ==
    {s \in chargedScopes(caller, credential) : \E p \in Periods : Limited(limits, s, p)}

\* History: what is counted anew, and the amounts allowed, in the state a step leaves.
Larger(a, b) == IF a < b THEN b ELSE a
Recount(anew) ==
    /\ tally' = [s \in Scopes |-> [p \in Periods |->
           IF <<s, p>> \in anew THEN 0 ELSE tally[s][p]]]
    /\ ceiling' = [s \in Scopes |-> [p \in Periods |->
           IF ~Limited(limits', s, p) THEN 0
           ELSE IF <<s, p>> \in anew THEN Smallest(limits', s, p)
           ELSE Larger(ceiling[s][p], Smallest(limits', s, p))]]

-----------------------------------------------------------------------------
(* Limits and calendar *)

\* #aboveAdmin: the admin's limit on a key, which a member's may not exceed.
WithinAdmin(s, p, source, amount) ==
    source = "member" /\ limits[s][p]["admin"] # NoLimit => amount <= limits[s][p]["admin"]

create(s, p, source, amount) ==
    /\ limits[s][p][source] = NoLimit
    /\ source = "member" => s \in KeyScopes
    /\ WithinAdmin(s, p, source, amount)
    /\ limits' = [limits EXCEPT ![s][p][source] = amount]
    /\ UNCHANGED <<counters, calendar, now, calls>>
    /\ Recount({})

update(s, p, source, amount) ==
    /\ limits[s][p][source] \notin {NoLimit, amount}
    /\ WithinAdmin(s, p, source, amount)
    /\ limits' = [limits EXCEPT ![s][p][source] = amount]
    /\ UNCHANGED <<counters, calendar, now, calls>>
    /\ Recount({})

\* The counters without those of the scopes and periods Q.
Dropping(Q) ==
    [s \in Scopes |-> [p \in Periods |-> [t \in Times |->
        IF <<s, p>> \in Q THEN 0 ELSE counters[s][p][t]]]]

\* The counters of its subject and period go with the last limit on them.
remove(s, p, source) ==
    /\ limits[s][p][source] # NoLimit
    /\ limits' = [limits EXCEPT ![s][p][source] = NoLimit]
    /\ LET gone == IF Limited(limits', s, p) THEN {} ELSE {<<s, p>>}
       IN  /\ counters' = Dropping(gone)
           /\ UNCHANGED <<calendar, now, calls>>
           /\ Recount(gone)

\* The subject of limits is gone.
forget(s) ==
    /\ \E p \in Periods : Limited(limits, s, p)
    /\ limits' = [limits EXCEPT ![s] = Unlimited]
    /\ counters' = Dropping({s} \X Periods)
    /\ UNCHANGED <<calendar, now, calls>>
    /\ Recount({s} \X Periods)

\* A new calendar starts the counters afresh.  Mutant: drops those of earlier periods.
setSettingsEarlier(c) ==
    /\ c # calendar
    /\ calendar' = c
    /\ counters' = [s \in Scopes |-> [p \in Periods |-> [t \in Times |->
                       IF t < periodStart[p][c][now] THEN 0 ELSE counters[s][p][t]]]]
    /\ UNCHANGED <<limits, now, calls>>
    /\ Recount(Counted)

setSettings(c) ==
    /\ c # calendar
    /\ calendar' = c
    /\ counters' = Dropping(Counted)
    /\ UNCHANGED <<limits, now, calls>>
    /\ Recount(Counted)

Tick ==
    /\ now < MaxTime
    /\ now' = now + 1
    /\ UNCHANGED <<limits, counters, calendar, calls>>
    /\ Recount({q \in Counted : periodStart[q[2]][calendar][now + 1] # Start(q[2])})

-----------------------------------------------------------------------------
(* Requests *)

\* The pool's pick: a key's limit without room refuses the request, one of the
\* member, team, org or agent keeps the shared credentials away, and one of a
\* credential keeps that away.
pick(x, caller, credential) ==
    /\ calls[x] = Idle
    /\ ~exhausted(KeyOf[caller])
    /\ credential \in Shared => ~exhausted(SharedOf[caller])
    /\ ~exhausted({ScopeOf[credential]})
    /\ calls' = [calls EXCEPT ![x] = [by |-> "model", may |-> chargedScopes(caller, credential),
                                      spend |-> scopes(caller, credential)]]
    /\ UNCHANGED <<limits, counters, calendar, now, tally, ceiling>>

\* A tool call with a price: refusal, of all it would be charged to.
callTool(x, caller, credential) ==
    /\ calls[x] = Idle
    /\ ~exhausted(chargedScopes(caller, credential))
    /\ calls' = [calls EXCEPT ![x] = [by |-> "tool", may |-> chargedScopes(caller, credential),
                                      spend |-> {}]]
    /\ UNCHANGED <<limits, counters, calendar, now, tally, ceiling>>

\* charge: what the scopes' limits count now.  Mutant: also where a limit is gone.
chargedAnyway(S, s, p) == s \in S

charged(S, s, p) == s \in S /\ Limited(limits, s, p)

\* Each counter charged grows by the cost, and its earlier periods are dropped.
Charge(S, cost) ==
    /\ counters' = [s \in Scopes |-> [p \in Periods |-> [t \in Times |->
           IF ~charged(S, s, p) \/ cost = 0 THEN counters[s][p][t]
           ELSE IF t = Start(p) THEN counters[s][p][t] + cost
           ELSE IF t < Start(p) THEN 0
           ELSE counters[s][p][t]]]]
    /\ tally' = [s \in Scopes |-> [p \in Periods |->
           IF charged(S, s, p) THEN tally[s][p] + cost ELSE tally[s][p]]]

\* The request ends: a lease is charged to its scopes, a tool call to those it has now.
report(x, cost) ==
    /\ calls[x] # Idle
    /\ LET spend == IF calls[x].by = "model" THEN calls[x].spend ELSE calls[x].may
       IN  Charge(spend, cost)
    /\ calls' = [calls EXCEPT ![x] = Idle]
    /\ UNCHANGED <<limits, calendar, now, ceiling>>

-----------------------------------------------------------------------------

Next ==
    \/ \E s \in Scopes, p \in Periods, source \in Sources :
        /\ <<s, p, source>> \in LimitIds
        /\ \/ \E amount \in 0..MaxAmount :
                create(s, p, source, amount) \/ update(s, p, source, amount)
           \/ remove(s, p, source)
    \/ \E s \in Scopes : forget(s)
    \/ \E c \in Calendars : setSettings(c)
    \/ Tick
    \/ \E x \in Slots, caller \in Callers, credential \in Credentials :
        pick(x, caller, credential) \/ callTool(x, caller, credential)
    \/ \E x \in Slots, cost \in 0..MaxCost : report(x, cost)

Spec == Init /\ [][Next]_vars

-----------------------------------------------------------------------------
(* Properties *)

\* A counter reads as what was charged in its period, under this calendar and since
\* its first limit: rows of earlier periods, of another calendar or of removed limits,
\* dropped late or never, never come back (store.ts charge, setSettings, remove).
CountedExactly == \A s \in Scopes, p \in Periods : spent(s, p) = tally[s][p]

\* Only a scope and period with a limit has a row, and at most one (the comment of
\* spend_counters): requests that end after their limit or its subject is gone, or in
\* a later period, leave none behind.
OneRowPerLimit ==
    \A s \in Scopes, p \in Periods, t \in Times : counters[s][p][t] > 0 =>
        Limited(limits, s, p) /\ \A u \in Times \ {t} : counters[s][p][u] = 0

\* What is charged goes beyond the limits by the requests that were under way
\* together when room ran out, and no more.
OverspendBounded ==
    \A s \in Scopes, p \in Periods :
        tally[s][p] <= Larger(ceiling[s][p] - 1, 0) + MaxCost * Cardinality(Slots)
=============================================================================
