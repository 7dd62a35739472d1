----------------------------- MODULE ResetGrants -----------------------------
(***************************************************************************)
(* Claiming a Claude reset (packages/models/src/quota/reset-grant-flow.ts,    *)
(* reset-grants.ts, reset-grant-store.ts): the Worker's flow reads the         *)
(* account's grants upstream, the ControlPlane starts the claim in a journal,  *)
(* the flow sends it, and the ControlPlane records the answer.  Flows of        *)
(* several tabs and auth files overlap, answers are lost, Workers die, files    *)
(* are logged in again and removed.  A reset that was spent cannot be had       *)
(* back, so no two may be spent on one reading of the grants.                 *)
(*                                                                         *)
(* Times are what is left of them.  Each organization has one grant.  The      *)
(* marks a flow carries (generation, claim_seq) are kept as what happened       *)
(* since: the counters only grow, so a mark is current as long as nothing did.  *)
(* The end of a cooldown is compared with the start of a claim only, so it is kept *)
(* as the last claim that started before it.  Nothing else spends resets, which is  *)
(* what the code assumes (claimLanded).                                        *)
(* A refusal, a conflict or a failed read ends the flow, as its death does.    *)
(* Stored statuses are shown and decide nothing here.                         *)
(***************************************************************************)
EXTENDS Integers, FiniteSets

CONSTANTS
    Files,          \* auth files
    Orgs,           \* Anthropic organizations, one account each
    Flows,          \* bound: claims of the management API under way at once
    MaxClaims,      \* bound: claims started
    MaxResets,      \* bound: resets a grant has left
    ReadTimeout, ClaimTimeout,      \* READ_TIMEOUT, CLAIM_TIMEOUT
    ClaimLease, RetryWindow,        \* CLAIM_LEASE_MS, RETRY_WINDOW_MS
    None

Ids == 1..MaxClaims

\* A cooldown that has not ended outlasts every claim.
Running == MaxClaims + 1

VARIABLES
    account,        \* the organization of each auth file's token, if there is a file
    claim,          \* credential_reset_grants.claim: the journal of each auth file
    flow,           \* claimResetGrant, in the Worker
    wire,           \* claims sent and not yet taken
    left,           \* upstream: the resets each organization's grant has left
    cooldown,       \* upstream: the last claim that started before its cooldown_until
    used,           \* upstream: the requests that spent one
    next,           \* the next request id
    \* history
    seen            \* what had been spent when the status a claim was decided on was read

vars == <<account, claim, flow, wire, left, cooldown, used, next, seen>>

Answers == {"reset", "already_used", "refused", "unknown", "not_confirmed"}

Journal ==
    [org : Orgs, id : Ids,
     retry : 0..RetryWindow,    \* until it can no longer be resent
     flight : 0..ClaimLease,    \* until it no longer counts as in flight
     left : 0..MaxResets,       \* resets_left when it was decided
     again : BOOLEAN,           \* attempts > 1
     unconfirmed : BOOLEAN]

Status == [left : 0..MaxResets, cooldown : 0..Running, spent : SUBSET Ids]

Flow ==
    [at : {"status", "read", "profile", "begun", "sent", "settling"},
     file : Files, org : Orgs,
     stale : BOOLEAN,           \* its mark's claim_seq has passed
     resend : Ids \cup {None},  \* pendingRequestId
     status : Status \cup {None},
     added : BOOLEAN,           \* history: resets were granted since it was read
     id : Ids \cup {None}, answer : Answers,
     time : 0..(ReadTimeout + ClaimTimeout)]

Message == [id : Ids, org : Orgs, by : Flows \cup {None}, time : 0..ClaimTimeout]

\* CLAIM_LEASE_MS covers a claim, and the two reads of a flow that saw it under way.
ASSUME ResetAssumption ==
    /\ MaxClaims \in Nat /\ MaxResets \in Nat
    /\ ReadTimeout \in Nat \ {0} /\ ClaimTimeout \in Nat \ {0} /\ RetryWindow \in Nat \ {0}
    /\ ClaimLease \in Nat /\ ClaimLease > ClaimTimeout + 2 * ReadTimeout
    /\ None \notin Orgs \cup Flows \cup Ids \cup Journal \cup Status \cup Flow

TypeOK ==
    /\ account \in [Files -> Orgs \cup {None}]
    /\ claim \in [Files -> Journal \cup {None}]
    /\ flow \in [Flows -> Flow \cup {None}]
    /\ wire \subseteq Message
    /\ left \in [Orgs -> 0..MaxResets]
    /\ cooldown \in [Orgs -> 0..Running]
    /\ used \in [Orgs -> SUBSET Ids]
    /\ next \in 1..(MaxClaims + 1)
    /\ seen \in [Ids -> SUBSET Ids]

Init ==
    /\ account \in [Files -> Orgs \cup {None}]
    /\ claim = [f \in Files |-> None]
    /\ flow = [w \in Flows |-> None]
    /\ wire = {}
    /\ left \in [Orgs -> 0..MaxResets]
    /\ cooldown \in [Orgs -> {0, Running}]
    /\ used = [o \in Orgs |-> {}]
    /\ next = 1
    /\ seen = [i \in Ids |-> {}]

-----------------------------------------------------------------------------
(* The journal *)

openClaim(f) == claim[f] # None /\ claim[f].retry > 0
inFlight(f) == claim[f] # None /\ claim[f].flight > 0

holdsOrganization(f, o) == claim[f] # None /\ claim[f].org = o /\ (inFlight(f) \/ openClaim(f))

\* A flow's mark is looked at until its claim begins.
Marked(w) == flow[w] # None /\ flow[w].at \in {"status", "read", "profile"}

\* Any claim started or answered outdates the marks of every flow; a resend needs no fresh one.
Outdated ==
    [w \in Flows |-> IF Marked(w) /\ flow[w].resend = None
                       THEN [flow[w] EXCEPT !.stale = TRUE] ELSE flow[w]]

\* forget: a flow whose mark is of a generation that passed can only be refused now, and
\* ends.  The journal goes unless a request of it is in flight.
ForgottenBy(f) ==
    [w \in Flows |-> IF Marked(w) /\ flow[w].file = f THEN None ELSE flow[w]]

\* Mutant: also of a request in flight.
forgetAlways(f) ==
    /\ flow' = ForgottenBy(f)
    /\ claim' = [claim EXCEPT ![f] = None]

forget(f) ==
    /\ flow' = ForgottenBy(f)
    /\ claim' = IF inFlight(f) THEN claim ELSE [claim EXCEPT ![f] = None]

\* An upsert that replaces the tokens of a file forgets; one that creates it does not.
upsert(f, o) ==
    /\ account' = [account EXCEPT ![f] = o]
    /\ IF account[f] = None THEN UNCHANGED <<flow, claim>> ELSE forget(f)
    /\ UNCHANGED <<wire, left, cooldown, used, next, seen>>

removeCredential(f) ==
    /\ account[f] # None
    /\ account' = [account EXCEPT ![f] = None]
    /\ forget(f)
    /\ UNCHANGED <<wire, left, cooldown, used, next, seen>>

-----------------------------------------------------------------------------
(* A flow *)

resetGrantTarget(w, f) ==
    /\ flow[w] = None
    /\ account[f] # None
    /\ ~(openClaim(f) /\ inFlight(f))
    /\ flow' = [flow EXCEPT ![w] =
           [at |-> "status", file |-> f, org |-> account[f], stale |-> FALSE,
            resend |-> IF openClaim(f) THEN claim[f].id ELSE None,
            status |-> None, added |-> FALSE, id |-> None, answer |-> "unknown", time |-> ReadTimeout]]
    /\ UNCHANGED <<account, claim, wire, left, cooldown, used, next, seen>>

\* readStatus: the account's grants, at some moment before the read returns.
readStatus(w) ==
    /\ flow[w] # None /\ flow[w].at = "status"
    /\ flow' = [flow EXCEPT ![w].at = "read",
                            ![w].status = [left |-> left[flow[w].org],
                                            cooldown |-> cooldown[flow[w].org],
                                            spent |-> used[flow[w].org]]]
    /\ UNCHANGED <<account, claim, wire, left, cooldown, used, next, seen>>

\* The read returns and is recorded, and the profile is read.  A claim is decided only
\* if a reset is left and no cooldown runs.  Mutant: also while one does.
readReturnsCooling(w) ==
    /\ flow[w] # None /\ flow[w].at = "read"
    /\ flow[w].resend = None => flow[w].status.left > 0
    /\ flow' = [flow EXCEPT ![w].at = "profile", ![w].time = ReadTimeout]
    /\ UNCHANGED <<account, claim, wire, left, cooldown, used, next, seen>>

readReturns(w) ==
    /\ flow[w] # None /\ flow[w].at = "read"
    /\ flow[w].resend = None => flow[w].status.left > 0 /\ flow[w].status.cooldown # Running
    /\ flow' = [flow EXCEPT ![w].at = "profile", ![w].time = ReadTimeout]
    /\ UNCHANGED <<account, claim, wire, left, cooldown, used, next, seen>>

\* A failed read does not keep a claim from being resent.
readFails(w) ==
    /\ flow[w] # None /\ flow[w].at \in {"status", "read"}
    /\ flow[w].resend # None
    /\ flow' = [flow EXCEPT ![w].at = "profile", ![w].status = None, ![w].time = ReadTimeout]
    /\ UNCHANGED <<account, claim, wire, left, cooldown, used, next, seen>>

\* The profile is read and the ControlPlane starts the claim, beginClaim: its guards.
mayBegin(w) ==
    /\ flow[w] # None /\ flow[w].at = "profile"
    /\ account[flow[w].file] # None
    /\ ~inFlight(flow[w].file)
    /\ \A g \in Files \ {flow[w].file} : ~holdsOrganization(g, flow[w].org)

\* The status of a resend shows that its claim landed: resets dropped since it was decided,
\* or a cooldown runs from after it started.
claimLanded(journal, status) ==
    /\ journal.again /\ status # None
    /\ status.left < journal.left \/ status.cooldown >= journal.id

\* What a resend may be answered without sending, as its status has the account at a
\* limit or not; "unknown": it is to be sent.
landedAnswer(journal, status) ==
    IF claimLanded(journal, status)
      THEN {"already_used", IF journal.unconfirmed THEN "unknown" ELSE "not_confirmed"}
      ELSE {"unknown"}

\* The flow goes on with the journal that was stored; that takes no time.  It no longer
\* needs its status.
Begun(w, journal) ==
    /\ claim' = [claim EXCEPT ![flow[w].file] = journal]
    /\ \E answer \in landedAnswer(journal, flow[w].status) :
        flow' = [Outdated EXCEPT ![w] = [@ EXCEPT !.at = "begun", !.id = journal.id, !.time = 0,
                                                  !.answer = answer, !.status = None]]

\* Mutant: the status may be read before the last claim.
beginFreshStale(w) ==
    /\ mayBegin(w)
    /\ ~openClaim(flow[w].file)
    /\ flow[w].resend = None
    /\ next <= MaxClaims
    /\ Begun(w, [org |-> flow[w].org, id |-> next, retry |-> RetryWindow, flight |-> ClaimLease,
                 left |-> flow[w].status.left, again |-> FALSE, unconfirmed |-> FALSE])
    /\ next' = next + 1
    /\ seen' = [seen EXCEPT ![next] = flow[w].status.spent]
    /\ UNCHANGED <<account, wire, left, cooldown, used>>

beginFresh(w) ==
    /\ mayBegin(w)
    /\ ~openClaim(flow[w].file)
    /\ flow[w].resend = None
    /\ ~flow[w].stale
    /\ next <= MaxClaims
    /\ Begun(w, [org |-> flow[w].org, id |-> next, retry |-> RetryWindow, flight |-> ClaimLease,
                 left |-> flow[w].status.left, again |-> FALSE, unconfirmed |-> FALSE])
    /\ next' = next + 1
    /\ seen' = [seen EXCEPT ![next] = flow[w].status.spent]
    /\ UNCHANGED <<account, wire, left, cooldown, used>>

beginResend(w) ==
    LET open == claim[flow[w].file]
    IN  /\ mayBegin(w)
        /\ openClaim(flow[w].file)
        /\ open.org = flow[w].org
        /\ flow[w].resend \in {None, open.id}
        /\ Begun(w, [open EXCEPT !.flight = ClaimLease, !.again = TRUE])
        /\ UNCHANGED <<account, wire, left, cooldown, used, next, seen>>

sendClaim(w) ==
    /\ flow[w] # None /\ flow[w].at = "begun" /\ flow[w].answer = "unknown"
    /\ wire' = wire \cup {[id |-> flow[w].id, org |-> flow[w].org, by |-> w, time |-> ClaimTimeout]}
    /\ flow' = [flow EXCEPT ![w].at = "sent", ![w].time = ClaimTimeout]
    /\ UNCHANGED <<account, claim, left, cooldown, used, next, seen>>

\* Without sending, when the status has answered.
skipClaim(w) ==
    /\ flow[w] # None /\ flow[w].at = "begun" /\ flow[w].answer # "unknown"
    /\ flow' = [flow EXCEPT ![w].at = "settling"]
    /\ UNCHANGED <<account, claim, wire, left, cooldown, used, next, seen>>

\* The journal is still of the claim whose answer is recorded.
Own(w) == LET journal == claim[flow[w].file] IN journal # None /\ journal.id = flow[w].id

\* settleClaim's `spent`: the account's cooldowns are cleared.
Spent(w) ==
    \/ flow[w].answer = "reset"
    \/ flow[w].answer = "already_used" /\ Own(w) /\ claim[flow[w].file].again

\* A claim that stays open is no longer in flight.
Unsettled(w) ==
    [claim[flow[w].file] EXCEPT !.flight = 0,
                                !.unconfirmed = @ \/ flow[w].answer = "not_confirmed"]

\* settleResetGrantClaim: a definite answer closes the claim, except the refusal of a
\* resend.
settle(w) ==
    LET f == flow[w].file
        answer == flow[w].answer
    IN  /\ flow[w] # None /\ flow[w].at = "settling"
        /\ claim' = IF ~Own(w) THEN claim
                    ELSE [claim EXCEPT ![f] =
                        IF answer = "unknown" \/ (claim[f].again /\ ~Spent(w)) THEN Unsettled(w) ELSE None]
        /\ flow' = [Outdated EXCEPT ![w] = None]
        /\ UNCHANGED <<account, wire, left, cooldown, used, next, seen>>

\* The flow ends early: refused, failed, or its Worker is gone.
Ends(w) ==
    /\ flow[w] # None
    /\ flow' = [flow EXCEPT ![w] = None]
    /\ wire' = {IF m.by = w THEN [m EXCEPT !.by = None] ELSE m : m \in wire}
    /\ UNCHANGED <<account, claim, left, cooldown, used, next, seen>>

-----------------------------------------------------------------------------
(* Upstream *)

\* The flow that sent m goes on with an answer, or without.
Answered(m, answer) ==
    /\ wire' = wire \ {m}
    /\ IF m.by = None THEN flow' = flow
       ELSE \E a \in {answer, "unknown"} :
               flow' = [flow EXCEPT ![m.by].at = "settling", ![m.by].answer = a]

\* A request id is an idempotency key: it spends a reset once, which may start a cooldown.
Spends(m) ==
    /\ m.id \notin used[m.org] /\ left[m.org] > 0
    /\ used' = [used EXCEPT ![m.org] = @ \cup {m.id}]
    /\ left' = [left EXCEPT ![m.org] = @ - 1]
    /\ \E until \in {cooldown[m.org], Running} : cooldown' = [cooldown EXCEPT ![m.org] = until]
    /\ Answered(m, "reset")
    /\ UNCHANGED <<account, claim, next, seen>>

CooldownEnds(o) ==
    /\ cooldown[o] = Running
    /\ cooldown' = [cooldown EXCEPT ![o] = next - 1]
    /\ UNCHANGED <<account, claim, flow, wire, left, used, next, seen>>

SpentBefore(m) ==
    /\ m.id \in used[m.org]
    /\ Answered(m, "already_used") \/ Answered(m, "reset")
    /\ UNCHANGED <<account, claim, left, cooldown, used, next, seen>>

\* It is refused, or does not get there.
Refused(m) ==
    /\ Answered(m, "refused")
    /\ UNCHANGED <<account, claim, left, cooldown, used, next, seen>>

Granted(o) ==
    /\ left[o] + Cardinality(used[o]) < MaxResets
    /\ left' = [left EXCEPT ![o] = @ + 1]
    /\ flow' = [w \in Flows |->
           IF flow[w] # None /\ flow[w].org = o /\ flow[w].status # None /\ flow[w].resend = None
             THEN [flow[w] EXCEPT !.added = TRUE] ELSE flow[w]]
    /\ UNCHANGED <<account, claim, wire, cooldown, used, next, seen>>

\* No call outlasts its time.  A journal that is neither open nor in flight is as good
\* as none.
Less(t) == IF t = 0 THEN 0 ELSE t - 1
Tick ==
    /\ \A w \in Flows : flow[w] # None => flow[w].time > 0
    /\ \A m \in wire : m.time > 0
    /\ claim' = [f \in Files |->
           IF claim[f] = None \/ (claim[f].retry <= 1 /\ claim[f].flight <= 1) THEN None
           ELSE [claim[f] EXCEPT !.retry = Less(@), !.flight = Less(@)]]
    /\ flow' = [w \in Flows |-> IF flow[w] = None THEN None ELSE [flow[w] EXCEPT !.time = @ - 1]]
    /\ wire' = {[m EXCEPT !.time = @ - 1] : m \in wire}
    /\ UNCHANGED <<account, left, cooldown, used, next, seen>>

-----------------------------------------------------------------------------

Next ==
    \/ \E f \in Files, o \in Orgs : upsert(f, o)
    \/ \E f \in Files : removeCredential(f)
    \/ \E w \in Flows, f \in Files : resetGrantTarget(w, f)
    \/ \E w \in Flows :
        \/ readStatus(w) \/ readReturns(w) \/ readFails(w)
        \/ beginFresh(w) \/ beginResend(w) \/ sendClaim(w) \/ skipClaim(w)
        \/ settle(w) \/ Ends(w)
    \/ \E m \in wire : Spends(m) \/ SpentBefore(m) \/ Refused(m)
    \/ \E o \in Orgs : Granted(o) \/ CooldownEnds(o)
    \/ Tick

Spec == Init /\ [][Next]_vars

-----------------------------------------------------------------------------
(* Properties *)

\* No two resets of an organization are spent on one reading of its grants: of any two,
\* the later was decided on a status that showed the earlier.  A second tab, a second
\* auth file, a lost answer or a new login never spends one unawares (beginClaim).
OneResetPerReading ==
    \A o \in Orgs : \A a, b \in used[o] : a # b => a \in seen[b] \/ b \in seen[a]

\* A claim on its way upstream keeps its journal in flight, so that its organization is
\* held and forget cannot drop it.
SentIsHeld ==
    \A m \in wire : \E f \in Files : inFlight(f) /\ claim[f].id = m.id /\ claim[f].org = m.org

\* Cooldowns are cleared for a reset that was spent, not for one believed to be
\* (claimLanded, landedAnswer).  The exception: a flow that meant a fresh claim resends
\* the one another tab began meanwhile, and resets were granted after it read the status:
\* fewer resets than that claim was decided on are not a reset spent.
ClearedWasSpent ==
    \A w \in Flows : flow[w] # None /\ flow[w].at = "settling" /\ Spent(w) =>
        \/ flow[w].id \in used[flow[w].org]
        \/ flow[w].resend = None /\ flow[w].added /\ flow[w].answer = "already_used"
=============================================================================
