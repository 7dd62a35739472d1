----------------------------- MODULE NamedLease -----------------------------
(***************************************************************************)
(* Named leases in a Durable Object's storage (packages/state/src/lease.ts) *)
(* and the two ways the program works under one: a quota sweep, which      *)
(* renews its lease while it runs (packages/models/src/quota/check.ts), and *)
(* a catalog refresh under the Platform registry's lease, which does not    *)
(* (packages/state/src/platform/refresh-lease.ts).                          *)
(*                                                                         *)
(* A worker is one invocation of either: it takes the lease of its name,    *)
(* works, and gives the lease back with its token.  Each call of the object *)
(* is atomic there (one synchronous SQLite statement under its input gate); *)
(* what can go wrong is around the calls: the answer of one is lost, the    *)
(* call never arrives, the worker's isolate dies, or the time passes the    *)
(* lease's TTL between two renewals.  Times are the object's clock.         *)
(***************************************************************************)
EXTENDS Integers, FiniteSets

CONSTANTS
    Workers,        \* invocations that want a lease
    Names,          \* lease names: quota_sweep, catalog_refresh, ...
    LeaseOf,        \* the name each worker's work runs under
    Renewing,       \* the workers that renew (quota sweeps); the others do not
    TTL,            \* LEASE_TTL_MS, in ticks of the object's clock
    LeaseTime,      \* bound: the clock stops here
    MaxTokens       \* bound: how many leases are ever handed out

ASSUME LeaseAssumption ==
    /\ LeaseOf \in [Workers -> Names]
    /\ Renewing \subseteq Workers
    /\ TTL \in Nat \ {0}
    /\ LeaseTime \in Nat
    /\ MaxTokens \in Nat

VARIABLES
    leaseClock, \* the object's clock
    lease,      \* the row of each name: [token, renewedAt], or NoLease
    issued,     \* how many tokens were handed out: a token is its number
    work,       \* each worker: "idle", "running" or "releasing"
    token,      \* the token each worker was given (0: none)
    alive       \* history: when the object last marked each worker alive

leaseVars == <<leaseClock, lease, issued, work, token, alive>>

NoLease == [token |-> 0, renewedAt |-> 0]

LeaseRow == [token : Nat, renewedAt : Nat]

LeaseTypeOK ==
    /\ leaseClock \in Nat
    /\ lease \in [Names -> LeaseRow]
    /\ issued \in Nat
    /\ work \in [Workers -> {"idle", "running", "releasing"}]
    /\ token \in [Workers -> Nat]
    /\ alive \in [Workers -> Nat]

LeaseInit ==
    /\ leaseClock = 0
    /\ lease = [n \in Names |-> NoLease]
    /\ issued = 0
    /\ work = [w \in Workers |-> "idle"]
    /\ token = [w \in Workers |-> 0]
    /\ alive = [w \in Workers |-> 0]

-----------------------------------------------------------------------------
(* The store's rules *)

\* Mutant of mayTake: the holder counts as abandoned one tick too early.
mayTakeEarly(row) == row = NoLease \/ leaseClock - row.renewedAt >= TTL - 1

\* A new holder may take the lease only once it is gone or abandoned.
mayTake(row) == row = NoLease \/ leaseClock - row.renewedAt >= TTL

\* The token still holds its lease: the row's statement finds it.
Holds(w) == lease[LeaseOf[w]].token = token[w]

\* take(): the row is replaced by a fresh token's.
TakeRow(n) ==
    /\ issued < MaxTokens
    /\ mayTake(lease[n])
    /\ issued' = issued + 1
    /\ lease' = [lease EXCEPT ![n] = [token |-> issued', renewedAt |-> leaseClock]]

-----------------------------------------------------------------------------
(* The workers *)

\* takeLease / takeQuotaSweepLease answers `ok`: the work starts.
Take(w) ==
    /\ work[w] = "idle"
    /\ TakeRow(LeaseOf[w])
    /\ work' = [work EXCEPT ![w] = "running"]
    /\ token' = [token EXCEPT ![w] = issued']
    /\ alive' = [alive EXCEPT ![w] = leaseClock]
    /\ UNCHANGED leaseClock

\* The row was taken but the answer was lost: nothing runs (`unavailable`, or
\* the sweep fails) and nobody knows the token, so only the TTL frees it.
TakeAnswerLost(w) ==
    /\ work[w] = "idle"
    /\ TakeRow(LeaseOf[w])
    /\ UNCHANGED <<leaseClock, work, token, alive>>

\* Mutant of RenewRow: the row is renewed whoever holds it.
RenewAnyToken(w) ==
    /\ lease' = [lease EXCEPT ![LeaseOf[w]].renewedAt = leaseClock]
    /\ alive' = [alive EXCEPT ![w] = leaseClock]

\* renew(token) marks the holder alive, and does nothing for another's token.
RenewRow(w) ==
    IF Holds(w)
      THEN /\ lease' = [lease EXCEPT ![LeaseOf[w]].renewedAt = leaseClock]
           /\ alive' = [alive EXCEPT ![w] = leaseClock]
      ELSE UNCHANGED <<lease, alive>>

\* A renewal whose answer nobody acts on: the one of each recorded report
\* (recordQuotaReport), or keepLease's when its answer is lost.
RenewUnheard(w) ==
    /\ w \in Renewing
    /\ work[w] = "running"
    /\ RenewRow(w)
    /\ UNCHANGED <<leaseClock, issued, work, token>>

\* keepLease's renewal: a sweep told that it lost its lease stops.
RenewHeard(w) ==
    /\ w \in Renewing
    /\ work[w] = "running"
    /\ RenewRow(w)
    /\ work' = IF Holds(w) THEN work ELSE [work EXCEPT ![w] = "releasing"]
    /\ UNCHANGED <<leaseClock, issued, token>>

\* The work ends, with a result or an error: the release step follows.
EndWork(w) ==
    /\ work[w] = "running"
    /\ work' = [work EXCEPT ![w] = "releasing"]
    /\ UNCHANGED <<leaseClock, lease, issued, token, alive>>

\* Mutant of Release: the row is deleted whatever its token.
ReleaseAnyToken(w) ==
    /\ work[w] = "releasing"
    /\ lease' = [lease EXCEPT ![LeaseOf[w]] = NoLease]
    /\ work' = [work EXCEPT ![w] = "idle"]
    /\ UNCHANGED <<leaseClock, issued, token, alive>>

\* release(token) deletes the row only while the token holds it.
Release(w) ==
    /\ work[w] = "releasing"
    /\ lease' = IF Holds(w) THEN [lease EXCEPT ![LeaseOf[w]] = NoLease] ELSE lease
    /\ work' = [work EXCEPT ![w] = "idle"]
    /\ UNCHANGED <<leaseClock, issued, token, alive>>

\* The release never arrives (its failure is ignored), or the worker's isolate
\* dies while it works: the row stays.
Vanish(w) ==
    /\ work[w] # "idle"
    /\ work' = [work EXCEPT ![w] = "idle"]
    /\ UNCHANGED <<leaseClock, lease, issued, token, alive>>

\* The object's clock moves.
LeaseTick ==
    /\ leaseClock < LeaseTime
    /\ leaseClock' = leaseClock + 1
    /\ UNCHANGED <<lease, issued, work, token, alive>>

LeaseNext ==
    \/ LeaseTick
    \/ \E w \in Workers :
        \/ Take(w)
        \/ TakeAnswerLost(w)
        \/ RenewUnheard(w)
        \/ RenewHeard(w)
        \/ EndWork(w)
        \/ Release(w)
        \/ Vanish(w)

LeaseSpec == LeaseInit /\ [][LeaseNext]_leaseVars

-----------------------------------------------------------------------------
(* Correctness *)

\* A worker still at work holds its lease, unless it went a whole TTL without
\* being marked alive: no take-over, late release or renewal of another worker
\* takes the lease from under a worker whose renewals arrive in time.
HeldWhileAlive ==
    \A w \in Workers :
        work[w] # "idle" /\ leaseClock - alive[w] < TTL => Holds(w)

\* Two workers of one lease name both at work: at most one of them was marked
\* alive within the TTL ("one piece of work runs at a time across isolates").
OneLiveHolder ==
    \A v, w \in Workers :
        /\ v # w
        /\ LeaseOf[v] = LeaseOf[w]
        /\ work[v] # "idle"
        /\ work[w] # "idle"
        => leaseClock - alive[v] >= TTL \/ leaseClock - alive[w] >= TTL

\* A row goes from one token to another only once abandoned, and to no token
\* only in the release of the worker that holds it: a release that comes late,
\* after a take-over, leaves the new holder's lease alone.
LeaseTransfer ==
    [][\A n \in Names :
        LET old == lease[n]
            new == lease'[n]
        IN /\ old.token # 0 /\ new.token \notin {0, old.token}
                => leaseClock - old.renewedAt >= TTL
           /\ old.token # 0 /\ new.token = 0
                => \E w \in Workers : token[w] = old.token /\ work[w] = "releasing"]_leaseVars

-----------------------------------------------------------------------------
(* The inductive invariant behind them *)

\* No two workers share a token, and none has one that was not handed out.
TokensApart ==
    /\ \A w \in Workers : token[w] <= issued
    /\ \A w \in Workers : work[w] # "idle" => token[w] > 0
    /\ \A n \in Names : lease[n].token <= issued
    /\ \A v, w \in Workers :
        v # w /\ work[v] # "idle" /\ work[w] # "idle" => token[v] # token[w]

\* The row of a worker at work is as old as its last sign of life.
RowAge ==
    /\ \A n \in Names : lease[n].token = 0 => lease[n] = NoLease
    /\ \A w \in Workers :
        work[w] # "idle" /\ Holds(w) => lease[LeaseOf[w]].renewedAt = alive[w]

LeaseIInv == LeaseTypeOK /\ TokensApart /\ RowAge /\ HeldWhileAlive

=============================================================================
