-------------------------- MODULE CredentialRefresh --------------------------
(***************************************************************************)
(* The refresh of an org's OAuth credentials (packages/models/src/           *)
(* credentials: refresh/manager.ts, refresh/outcome.ts, refresh/schedule.ts,  *)
(* refresh/three-way.ts, pool.ts, store.ts, cooldown), in the org's           *)
(* ControlPlane.  The object runs one step at a time but awaits the provider: *)
(* while a refresh is out, users log in again, disable or remove the          *)
(* credential, requests report their results, the alarm and the cron start    *)
(* their own runs, and the object may be evicted.  A provider that refreshes  *)
(* gives a new refresh token and revokes the one it was sent.                *)
(*                                                                         *)
(* Times are abstracted to their order: a token is fresh, due or expired, a   *)
(* back-off is over or not, and `watch` holds the credentials the alarm is    *)
(* early enough for.  Modelled are credentials with a refresh token whose     *)
(* provider has a lead; a file's `disabled` stands for every setting a user   *)
(* may edit.  How many credentials a run refreshes at once is left open.      *)
(***************************************************************************)
EXTENDS Integers

CONSTANTS
    Ids,            \* the credentials' ids
    MaxLogins,      \* bound: logins and imports
    MaxFaults,      \* bound: evictions and writes that fail
    NoFile,         \* no such credential
    NoRefresh       \* no refresh under way

\* error: "unauthorized" is hasUnauthorizedFailure, "grant" an error that says
\* invalid_grant, "other" any other.  off: the status is "disabled".
\* backoff: nextRefreshAfter is to come.
State == [off : BOOLEAN,
          error : {"none", "other", "grant", "unauthorized"},
          backoff : BOOLEAN]
File == [grant : Nat, disabled : BOOLEAN]
\* A refresh's error: a 401, an invalid_grant, both or neither.
Error == {"other", "grant", "unauthorized", "both"}
Refresh == [grant : Nat,                \* the file it was started from
            disabled : BOOLEAN,
            mode : {"plain", "rejected", "force"},
            by : {"call", "run"},       \* refreshNow started it, or runDue
            noted : BOOLEAN,            \* the last request that failed meanwhile said
                                        \* something new
            granted : BOOLEAN]          \* the provider has answered with new tokens
Runs == {"alarm", "sweep"}

ASSUME RefreshAssumption ==
    /\ MaxLogins \in Nat /\ MaxFaults \in Nat
    /\ NoFile \notin File
    /\ NoRefresh \notin Refresh

VARIABLES
    file,           \* credentials: each id's login and settings, or NoFile
    token,          \* ... its access token's age
    state,          \* credential_state, as far as it decides about refreshes
    refresh,        \* #inflight: each id's refresh under way, or NoRefresh
    runs,           \* runDue of the alarm and of the cron
    alarm,          \* whether the alarm is set
    watch,          \* the ids it is not too late for
    stale,          \* ids of which the provider revoked the stored refresh token
    \* bounds and history
    logins,         \* how many there were
    faults,         \* how many there were
    login,          \* each id's last login
    wanted,         \* each id's `disabled` as last set
    lost,           \* ids of which a new refresh token was lost with an answer or a write
    slipped         \* ids a step made due without setting the alarm

stored == <<file, token, state>>
clock == <<alarm, watch, slipped>>
bounds == <<logins, faults>>
told == <<login, wanted>>
vars == <<stored, refresh, runs, clock, stale, bounds, told, lost>>

TypeOK ==
    /\ file \in [Ids -> File \cup {NoFile}]
    /\ token \in [Ids -> {"fresh", "due", "expired"}]
    /\ state \in [Ids -> State]
    /\ refresh \in [Ids -> Refresh \cup {NoRefresh}]
    /\ runs \in [Runs -> [on : BOOLEAN, queue : SUBSET Ids, waits : SUBSET Ids]]
    /\ alarm \in BOOLEAN
    /\ watch \subseteq Ids
    /\ stale \subseteq Ids
    /\ logins \in Nat /\ faults \in Nat
    /\ login \in [Ids -> Nat]
    /\ wanted \in [Ids -> BOOLEAN]
    /\ lost \subseteq Ids /\ slipped \subseteq Ids

emptyState == [off |-> FALSE, error |-> "none", backoff |-> FALSE]
Idle == [on |-> FALSE, queue |-> {}, waits |-> {}]

Init ==
    /\ file = [c \in Ids |-> NoFile]
    /\ token = [c \in Ids |-> "fresh"]
    /\ state = [c \in Ids |-> emptyState]
    /\ refresh = [c \in Ids |-> NoRefresh]
    /\ runs = [h \in Runs |-> Idle]
    /\ alarm = FALSE
    /\ watch = {}
    /\ stale = {}
    /\ logins = 0 /\ faults = 0
    /\ login = [c \in Ids |-> 0]
    /\ wanted = [c \in Ids |-> FALSE]
    /\ lost = {} /\ slipped = {}

-----------------------------------------------------------------------------
(* Scheduling *)

isDisabled(c) == file[c].disabled \/ state[c].off

isTerminalRefreshState(c) ==
    \/ state[c].error = "unauthorized"
    \/ state[c].error = "grant" /\ isDisabled(c)

\* nextRefreshCheckAt is some time.
Scheduled(c) == file[c] # NoFile /\ ~isTerminalRefreshState(c)

shouldRefresh(c) == Scheduled(c) /\ ~state[c].backoff /\ token[c] # "fresh"

\* nextDueAt: the credentials it looks at, in the state a step leaves.
\* Mutant: one that is being refreshed is left out, instead of looked at again later.
NextDueOfIdle == {c \in Ids : Scheduled(c)' /\ refresh'[c] = NoRefresh}

NextDue == {c \in Ids : Scheduled(c)' \/ (file'[c] # NoFile /\ refresh'[c] # NoRefresh)}

\* rearm, after everything else the step does.
rearm ==
    /\ watch' = NextDue
    /\ alarm' = (NextDue # {})
    /\ slipped' = {}

\* Time passes.
TokenAges(c) ==
    /\ file[c] # NoFile
    /\ \/ token[c] = "fresh" /\ token' = [token EXCEPT ![c] = "due"]
       \/ token[c] = "due" /\ token' = [token EXCEPT ![c] = "expired"]
    /\ UNCHANGED <<file, state, refresh, runs, clock, stale, bounds, told, lost>>

BackoffEnds(c) ==
    /\ state[c].backoff
    /\ state' = [state EXCEPT ![c].backoff = FALSE]
    /\ UNCHANGED <<file, token, refresh, runs, clock, stale, bounds, told, lost>>

-----------------------------------------------------------------------------
(* Users *)

\* A login or an import: new tokens, with the settings the file says or had.
\* Replaced material starts with no state.
upsertCredential(c, disabled, age) ==
    /\ logins < MaxLogins
    /\ logins' = logins + 1
    /\ file' = [file EXCEPT ![c] = [grant |-> logins + 1, disabled |-> disabled]]
    /\ token' = [token EXCEPT ![c] = age]
    /\ state' = [state EXCEPT ![c] = emptyState]
    /\ stale' = stale \ {c}
    /\ login' = [login EXCEPT ![c] = logins + 1]
    /\ wanted' = [wanted EXCEPT ![c] = disabled]
    /\ lost' = lost \ {c}
    /\ UNCHANGED <<refresh, runs, faults>>
    /\ rearm

removeCredential(c) ==
    /\ file[c] # NoFile
    /\ file' = [file EXCEPT ![c] = NoFile]
    /\ token' = [token EXCEPT ![c] = "fresh"]
    /\ state' = [state EXCEPT ![c] = emptyState]
    /\ stale' = stale \ {c}
    /\ lost' = lost \ {c}
    /\ UNCHANGED <<refresh, runs, bounds, told>>
    /\ rearm

\* setCredentialDisabled, or an edit of the file's other settings.
setCredentialDisabled(c) ==
    /\ file[c] # NoFile
    /\ file' = [file EXCEPT ![c].disabled = ~file[c].disabled]
    /\ wanted' = [wanted EXCEPT ![c] = ~file[c].disabled]
    /\ UNCHANGED <<token, state, refresh, runs, stale, bounds, login, lost>>
    /\ rearm

\* resetCooldownState: the error of a 401 stays, but is no longer terminal; any
\* other is cleared.  The alarm is left alone.
resetCooldown(c) ==
    /\ file[c] # NoFile
    /\ \/ /\ state[c].error = "unauthorized"
          /\ \E e \in {"other", "grant"} : state' = [state EXCEPT ![c].error = e]
       \/ /\ state[c].error # "unauthorized"
          /\ state' = [state EXCEPT ![c] = [@ EXCEPT !.error = "none", !.off = FALSE]]
    /\ UNCHANGED <<file, token, refresh, runs, alarm, watch, stale, bounds, told, lost>>
    /\ slipped' = IF ~Scheduled(c) /\ Scheduled(c)' THEN slipped \cup {c} ELSE slipped

-----------------------------------------------------------------------------
(* Requests *)

\* Mutant of markResult: a success clears a 401 that needs a login.
markResultClears(c, success) ==
    IF success THEN {[state[c] EXCEPT !.error = "none", !.off = FALSE]} ELSE {state[c]}

\* The states a result may leave, where it says anything of the credential: a 401 is
\* terminal where cooling is off and an old quota time is left.
markResult(c, success) ==
    IF state[c].error = "unauthorized" THEN {state[c]}
    ELSE IF success THEN {[state[c] EXCEPT !.error = "none", !.off = FALSE]}
         ELSE {[state[c] EXCEPT !.error = e, !.off = FALSE] : e \in
                  {"other", "grant"} \cup IF state[c].backoff THEN {} ELSE {"unauthorized"}}

\* The result of a request that was served with the current tokens.  An error it
\* leaves has any message: a new one, none, or that of the error a refresh under way
\* was started with.  The alarm is left alone.
report(c, success) ==
    /\ file[c] # NoFile
    /\ \E s \in markResult(c, success), noted \in BOOLEAN :
        /\ state' = [state EXCEPT ![c] = s]
        /\ refresh' = IF success \/ state[c].error = "unauthorized" \/ refresh[c] = NoRefresh
                         THEN refresh
                         ELSE [refresh EXCEPT ![c].noted = noted]
    /\ UNCHANGED <<file, token, runs, alarm, watch, stale, bounds, told, lost>>
    /\ slipped' = IF ~Scheduled(c) /\ Scheduled(c)' THEN slipped \cup {c} ELSE slipped

\* The refresh of c that #execute sends.
Started(c, mode, by) ==
    [grant |-> file[c].grant, disabled |-> file[c].disabled, mode |-> mode, by |-> by,
     noted |-> FALSE, granted |-> FALSE]

\* refreshNow, of a request (mode "plain": ensureFresh of a token that expired;
\* "rejected": the provider refused the stored access token, which is `marked` as
\* rejected if it names no expiry) or of a manager ("force").  It joins a refresh
\* under way, is refused where a login is needed, or starts one.
refreshNow(c, mode, marked) ==
    /\ file[c] # NoFile
    /\ mode = "plain" => token[c] = "expired"
    /\ marked => mode = "rejected"
    /\ token' = IF marked THEN [token EXCEPT ![c] = "expired"] ELSE token
    /\ UNCHANGED <<file, state, runs, stale, bounds, told, lost>>
    /\ \/ /\ refresh[c] = NoRefresh
          /\ mode # "force" /\ isTerminalRefreshState(c)
          /\ UNCHANGED refresh
          /\ rearm
       \/ /\ refresh[c] = NoRefresh
          /\ mode = "force" \/ ~isTerminalRefreshState(c)
          /\ refresh' = [refresh EXCEPT ![c] = Started(c, mode, "call")]
          /\ slipped' = IF marked THEN slipped \cup {c} ELSE slipped
          /\ UNCHANGED <<alarm, watch>>
       \/ /\ refresh[c] # NoRefresh
          /\ slipped' = IF marked THEN slipped \cup {c} ELSE slipped
          /\ UNCHANGED <<refresh, alarm, watch>>

-----------------------------------------------------------------------------
(* A refresh ends *)

\* The provider (external) exchanges the refresh token it was sent for new ones and
\* revokes it.
Granted(c) ==
    /\ refresh[c] # NoRefresh /\ ~refresh[c].granted
    /\ LET current == file[c] # NoFile /\ file[c].grant = refresh[c].grant
       IN  /\ ~(current /\ c \in stale)
           /\ stale' = IF current THEN stale \cup {c} ELSE stale
    /\ refresh' = [refresh EXCEPT ![c].granted = TRUE]
    /\ UNCHANGED <<stored, runs, clock, bounds, told, lost>>

\* Material replaced while the refresh ran: version or tokens are not what it was
\* started from.  Mutants: never; by any edit of the file.
replacedNever(c) == FALSE

replacedByEdit(c) ==
    file[c].grant # refresh[c].grant \/ file[c].disabled # refresh[c].disabled

replaced(c) == file[c].grant # refresh[c].grant

\* The state after a failure.  Mutant: it is tried again at once.
applyRefreshFailureAtOnce(c, error) ==
    IF state[c].error = "unauthorized" THEN state[c]
    ELSE [off |-> isDisabled(c), error |-> "other", backoff |-> FALSE]

applyRefreshFailure(c, error) ==
    LET unauthorized == error \in {"unauthorized", "both"}
        invalidGrant == error \in {"grant", "both"}
        rejected == refresh[c].mode = "rejected"
        unusable == token[c] = "expired" \/ rejected
        failed == [off |-> state[c].off, error |-> IF invalidGrant THEN "grant" ELSE "other",
                   backoff |-> TRUE]
        terminal == [off |-> FALSE, error |-> "unauthorized", backoff |-> FALSE]
    IN  IF state[c].error = "unauthorized" THEN state[c]
        ELSE IF isDisabled(c) THEN [failed EXCEPT !.off = TRUE, !.backoff = ~invalidGrant]
        ELSE IF unusable /\ (unauthorized \/ (rejected /\ invalidGrant)) THEN terminal
        ELSE failed

\* The state after a success: an error that came up meanwhile is kept if its message
\* is new (hasNewConcurrentError), and a refresh that leaves the credential due is
\* not repeated at once.
applyRefreshSuccess(c, age) ==
    [off |-> state[c].off /\ file[c].disabled,
     error |-> IF refresh[c].noted THEN state[c].error ELSE "none",
     backoff |-> age = "due" /\ ~isTerminalRefreshState(c)]

\* The file with the new tokens and the settings users left meanwhile.
\* Mutant: with those the refresh was started from.
mergeRefreshedMetadataOver(c) == [grant |-> refresh[c].grant, disabled |-> refresh[c].disabled]

mergeRefreshedMetadata(c) == [grant |-> refresh[c].grant, disabled |-> file[c].disabled]

\* The promise settles: c is no longer in flight and the workers waiting for it go on.
Settled(c) ==
    /\ refresh' = [refresh EXCEPT ![c] = NoRefresh]
    /\ runs' = [h \in Runs |-> [runs[h] EXCEPT !.waits = @ \ {c}]]

\* c and its refresh token, if the provider replaced it and nobody keeps the new one.
Losing(c) == IF c \in stale /\ refresh[c].granted THEN lost \cup {c} ELSE lost

\* #execute after its await: nothing for a credential that is gone or replaced.
Dropped(c) ==
    /\ file[c] # NoFile => replaced(c)
    /\ UNCHANGED <<stored, stale, bounds, told, lost>>

\* The provider refused it, or its answer did not come within timeoutMs.
Failed(c, error) ==
    /\ refresh[c].granted => error = "other"
    /\ file[c] # NoFile /\ ~replaced(c)
    /\ state' = [state EXCEPT ![c] = applyRefreshFailure(c, error)]
    /\ lost' = Losing(c)
    /\ UNCHANGED <<file, token, stale, bounds, told>>

Refreshed(c, age) ==
    /\ refresh[c].granted
    /\ file[c] # NoFile /\ ~replaced(c)
    /\ file' = [file EXCEPT ![c] = mergeRefreshedMetadata(c)]
    /\ token' = [token EXCEPT ![c] = age]
    /\ state' = [state EXCEPT ![c] = applyRefreshSuccess(c, age)]
    /\ stale' = stale \ {c}
    /\ UNCHANGED <<bounds, told, lost>>

\* commitRefresh throws: the new token is lost.
PersistFails(c) ==
    /\ file[c] # NoFile /\ ~replaced(c)
    /\ faults < MaxFaults
    /\ faults' = faults + 1
    /\ lost' = Losing(c)
    /\ UNCHANGED <<stored, stale, logins, told>>

\* The await of #run returns.  refreshNow, if it started the refresh, sets the alarm.
Ends(c) ==
    /\ refresh[c] # NoRefresh
    /\ Settled(c)
    /\ \/ Dropped(c)
       \/ \E error \in Error : Failed(c, error)
       \/ \E age \in {"fresh", "due"} : Refreshed(c, age)
       \/ PersistFails(c)
    /\ IF refresh[c].by = "call" THEN rearm ELSE UNCHANGED clock

-----------------------------------------------------------------------------
(* Runs *)

Due == {c \in Ids : shouldRefresh(c)}

\* onAlarm begins with runDue: the ids due now are queued for the workers.
AlarmFires ==
    /\ alarm /\ ~runs["alarm"].on
    /\ alarm' = FALSE
    /\ watch' = {}
    /\ runs' = [runs EXCEPT !["alarm"] = [on |-> TRUE, queue |-> Due, waits |-> {}]]
    /\ UNCHANGED <<stored, refresh, stale, slipped, bounds, told, lost>>

\* The cron's sweep.
SweepStarts ==
    /\ ~runs["sweep"].on
    /\ runs' = [runs EXCEPT !["sweep"] = [on |-> TRUE, queue |-> Due, waits |-> {}]]
    /\ UNCHANGED <<stored, refresh, clock, stale, bounds, told, lost>>

\* A worker takes the next id: #start joins the refresh under way, fails at once for
\* a credential that is gone or terminal by now, or starts a refresh.
WorkerTakes(h, c) ==
    /\ c \in runs[h].queue
    /\ \/ /\ refresh[c] # NoRefresh
          /\ runs' = [runs EXCEPT ![h].queue = @ \ {c}, ![h].waits = @ \cup {c}]
          /\ UNCHANGED refresh
       \/ /\ refresh[c] = NoRefresh /\ Scheduled(c)
          /\ refresh' = [refresh EXCEPT ![c] = Started(c, "plain", "run")]
          /\ runs' = [runs EXCEPT ![h].queue = @ \ {c}, ![h].waits = @ \cup {c}]
       \/ /\ refresh[c] = NoRefresh /\ ~Scheduled(c)
          /\ runs' = [runs EXCEPT ![h].queue = @ \ {c}]
          /\ UNCHANGED refresh
    /\ UNCHANGED <<stored, clock, stale, bounds, told, lost>>

\* onAlarm ends.
RunEnds(h) ==
    /\ runs[h].on /\ runs[h].queue = {} /\ runs[h].waits = {}
    /\ runs' = [runs EXCEPT ![h] = Idle]
    /\ UNCHANGED <<stored, refresh, stale, bounds, told, lost>>
    /\ rearm

\* The object is evicted.  The platform (external) calls the alarm again if its
\* handler had not returned.
Evicted ==
    /\ faults < MaxFaults
    /\ faults' = faults + 1
    /\ refresh' = [c \in Ids |-> NoRefresh]
    /\ runs' = [h \in Runs |-> Idle]
    /\ lost' = lost \cup {c \in stale : refresh[c] # NoRefresh /\ refresh[c].granted}
    /\ IF runs["alarm"].on THEN alarm' = TRUE /\ watch' = Ids ELSE UNCHANGED <<alarm, watch>>
    /\ UNCHANGED <<stored, stale, slipped, logins, told>>

-----------------------------------------------------------------------------

OfUsers(c) ==
    \/ \E disabled \in BOOLEAN, age \in {"fresh", "due"} : upsertCredential(c, disabled, age)
    \/ removeCredential(c)
    \/ setCredentialDisabled(c)
    \/ resetCooldown(c)

OfRequests(c) ==
    \/ \E success \in BOOLEAN : report(c, success)
    \/ \E mode \in {"plain", "rejected", "force"}, marked \in BOOLEAN : refreshNow(c, mode, marked)

Next ==
    \/ \E c \in Ids :
        \/ TokenAges(c) \/ BackoffEnds(c)
        \/ OfUsers(c) \/ OfRequests(c)
        \/ Granted(c) \/ Ends(c)
        \/ \E h \in Runs : WorkerTakes(h, c)
    \/ AlarmFires \/ SweepStarts \/ Evicted
    \/ \E h \in Runs : RunEnds(h)

\* Refreshes end within timeoutMs, so runs go on; the cron comes.  (The alarm's runs
\* are not needed for what follows.)
Fairness ==
    /\ WF_vars(SweepStarts) /\ WF_vars(RunEnds("sweep"))
    /\ \A c \in Ids : WF_vars(WorkerTakes("sweep", c)) /\ WF_vars(Ends(c))

Spec == Init /\ [][Next]_vars
FairSpec == Spec /\ Fairness

-----------------------------------------------------------------------------
(* Properties *)

\* A refresh never puts back tokens that a login or import replaced, or a credential
\* that was removed and added again, while it was out (replaced in #execute).
LoginKept == \A c \in Ids : file[c] # NoFile => file[c].grant = login[c]

\* Settings a user changed while a refresh was out are as the user left them
\* (mergeRefreshedMetadata).
SettingKept == \A c \in Ids : file[c] # NoFile => file[c].disabled = wanted[c]

\* The store holds a refresh token the provider revoked only while the answer with
\* its replacement is on its way, or once a timeout, an eviction or a failed write
\* has lost it: what users, requests and other runs do meanwhile never loses one.
RotatedKept ==
    \A c \in stale :
        \/ c \in lost
        \/ /\ file[c] # NoFile /\ refresh[c] # NoRefresh
           /\ refresh[c].grant = file[c].grant /\ refresh[c].granted

\* Every credential that has a next refresh has the alarm set for it, or the alarm's
\* run under way, which the platform repeats: an eviction in the middle of a refresh,
\* a request or a sweep never leaves one without (rearm, nextDueAt).  The exceptions
\* are those a request's result, a rejected token or a reset made due since the alarm
\* was last set: they wait for the cron.
Watched ==
    \A c \in Ids : Scheduled(c) =>
        (alarm /\ c \in watch) \/ runs["alarm"].on \/ c \in slipped

\* A credential that needs a login is refreshed only where a manager forces it, and
\* given back only by a login, a removal, a reset, such a refresh, or one that was
\* out before the 401 came in, which said nothing new (clearStateOnSuccess,
\* applyRefreshFailure, hasNewConcurrentError): no late result and no failed refresh
\* gives it back, and no refresh that succeeds after a 401 with a message of its own.
UnauthorizedStays ==
    [][\A c \in Ids : state[c].error = "unauthorized" =>
        /\ refresh[c] = NoRefresh /\ refresh'[c] # NoRefresh => refresh'[c].mode = "force"
        /\ \/ state'[c].error = "unauthorized"
           \/ resetCooldown(c)
           \/ file'[c] = NoFile
           \/ login'[c] # login[c]
           \/ /\ refresh[c] # NoRefresh /\ refresh[c].granted
              /\ refresh[c].mode = "force" \/ ~refresh[c].noted]_vars

\* A credential that is due is refreshed or told when to try again, is found to need
\* a login or is removed: no joined, queued or dropped refresh keeps it due forever.
DueTried == \A c \in Ids : []<>~shouldRefresh(c)
=============================================================================
