----------------------- MODULE CredentialRefresh_proofs -----------------------
(***************************************************************************)
(* The invariants of CredentialRefresh for every set of credentials and any   *)
(* number of logins, evictions and failed writes.                            *)
(***************************************************************************)
EXTENDS CredentialRefresh, TLAPS

Safe(c) == (alarm /\ c \in watch) \/ runs["alarm"].on \/ c \in slipped

\* Watched, strengthened: a refresh a run started is watched too, even where its
\* credential has become terminal meanwhile, since its end may make it due again and
\* does not set the alarm.
WatchedRuns ==
    \A c \in Ids :
        /\ file[c] # NoFile
        /\ Scheduled(c) \/ (refresh[c] # NoRefresh /\ refresh[c].by = "run")
        => Safe(c)

IInv == TypeOK /\ LoginKept /\ SettingKept /\ RotatedKept /\ WatchedRuns

-----------------------------------------------------------------------------

\* rearm sees to every credential, in the state the step leaves.
LEMMA Rearmed ==
    ASSUME rearm
    PROVE  /\ alarm' \in BOOLEAN /\ watch' \subseteq Ids /\ slipped' \subseteq Ids
           /\ WatchedRuns'
<1>1. alarm' \in BOOLEAN /\ watch' \subseteq Ids /\ slipped' \subseteq Ids
  BY DEF rearm, NextDue
<1>2. ASSUME NEW c \in Ids,
             file'[c] # NoFile,
             Scheduled(c)' \/ (refresh'[c] # NoRefresh /\ refresh'[c].by = "run")
      PROVE  Safe(c)'
  <2>1. c \in NextDue
    BY <1>2 DEF NextDue
  <2>2. alarm' /\ c \in watch'
    BY <2>1 DEF rearm
  <2> QED BY <2>2 DEF Safe
<1> QED BY <1>1, <1>2 DEF WatchedRuns

\* The invariant holds initially.
LEMMA InitInv ==
    ASSUME Init
    PROVE  IInv
<1>1. TypeOK
  BY DEF Init, TypeOK, File, State, Refresh, Runs, emptyState, Idle
<1>2. LoginKept /\ SettingKept
  BY DEF Init, LoginKept, SettingKept
<1>3. RotatedKept
  BY DEF Init, RotatedKept
<1>4. WatchedRuns
  BY DEF Init, WatchedRuns
<1> QED BY <1>1, <1>2, <1>3, <1>4 DEF IInv

-----------------------------------------------------------------------------
(* Time *)

\* TokenAges preserves the invariant.
LEMMA TokenAgesInv ==
    ASSUME IInv, NEW c \in Ids, TokenAges(c)
    PROVE  IInv'
<1>1. TypeOK'
  BY DEF IInv, TypeOK, TokenAges, clock, bounds, told
<1>2. /\ UNCHANGED <<file, state, refresh, runs, alarm, watch, slipped, stale, login, wanted, lost>>
  BY DEF TokenAges, clock, bounds, told
<1>3. LoginKept' /\ SettingKept' /\ RotatedKept'
  BY <1>2 DEF IInv, LoginKept, SettingKept, RotatedKept
<1>4. WatchedRuns'
  BY <1>2 DEF IInv, WatchedRuns, Safe, Scheduled, isTerminalRefreshState, isDisabled
<1> QED BY <1>1, <1>3, <1>4 DEF IInv

\* BackoffEnds preserves the invariant.
LEMMA BackoffEndsInv ==
    ASSUME IInv, NEW c \in Ids, BackoffEnds(c)
    PROVE  IInv'
<1>1. TypeOK'
  BY DEF IInv, TypeOK, State, BackoffEnds, clock, bounds, told
<1>2. UNCHANGED <<file, refresh, runs, alarm, watch, slipped, stale, login, wanted, lost>>
  BY DEF BackoffEnds, clock, bounds, told
<1>3. LoginKept' /\ SettingKept' /\ RotatedKept'
  BY <1>2 DEF IInv, LoginKept, SettingKept, RotatedKept
<1>4. \A d \in Ids : state'[d].error = state[d].error /\ state'[d].off = state[d].off
  BY DEF IInv, TypeOK, State, BackoffEnds
<1>5. WatchedRuns'
  BY <1>2, <1>4 DEF IInv, WatchedRuns, Safe, Scheduled, isTerminalRefreshState, isDisabled
<1> QED BY <1>1, <1>3, <1>5 DEF IInv

-----------------------------------------------------------------------------
(* Users *)

\* Upsert preserves the invariant.
LEMMA UpsertInv ==
    ASSUME IInv, NEW c \in Ids, NEW disabled \in BOOLEAN, NEW age \in {"fresh", "due"},
           upsertCredential(c, disabled, age)
    PROVE  IInv'
<1> USE RefreshAssumption
<1>0. rearm
  BY DEF upsertCredential
<1>1. TypeOK'
  BY <1>0, Rearmed DEF IInv, TypeOK, File, State, emptyState, upsertCredential
<1>2. LoginKept' /\ SettingKept'
  BY DEF IInv, TypeOK, LoginKept, SettingKept, upsertCredential
<1>3. RotatedKept'
  BY DEF IInv, TypeOK, RotatedKept, upsertCredential
<1> QED BY <1>0, <1>1, <1>2, <1>3, Rearmed DEF IInv

\* Remove preserves the invariant.
LEMMA RemoveInv ==
    ASSUME IInv, NEW c \in Ids, removeCredential(c)
    PROVE  IInv'
<1> USE RefreshAssumption
<1>0. rearm
  BY DEF removeCredential
<1>1. TypeOK'
  BY <1>0, Rearmed DEF IInv, TypeOK, State, emptyState, removeCredential, bounds, told
<1>2. LoginKept' /\ SettingKept'
  BY DEF IInv, TypeOK, LoginKept, SettingKept, removeCredential, told
<1>3. RotatedKept'
  BY DEF IInv, TypeOK, RotatedKept, removeCredential
<1> QED BY <1>0, <1>1, <1>2, <1>3, Rearmed DEF IInv

\* SetDisabled preserves the invariant.
LEMMA SetDisabledInv ==
    ASSUME IInv, NEW c \in Ids, setCredentialDisabled(c)
    PROVE  IInv'
<1> USE RefreshAssumption
<1>0. rearm
  BY DEF setCredentialDisabled
<1>a. file[c] \in File
  BY DEF IInv, TypeOK, setCredentialDisabled
<1>b. file' = [file EXCEPT ![c] = [file[c] EXCEPT !.disabled = ~file[c].disabled]]
  BY DEF setCredentialDisabled
<1>c. [file[c] EXCEPT !.disabled = ~file[c].disabled] \in File
  BY <1>a DEF File
<1>1. TypeOK'
  BY <1>0, <1>a, <1>b, <1>c, Rearmed
     DEF IInv, TypeOK, File, setCredentialDisabled, bounds
<1>2. LoginKept' /\ SettingKept'
  BY <1>a, <1>b, <1>c DEF IInv, TypeOK, File, LoginKept, SettingKept, setCredentialDisabled
<1>3. RotatedKept'
  BY <1>a, <1>b, <1>c DEF IInv, TypeOK, File, RotatedKept, setCredentialDisabled
<1> QED BY <1>0, <1>1, <1>2, <1>3, Rearmed DEF IInv

\* What a change of c's state alone leaves, where c was scheduled before or is noted
\* as slipped.
LEMMA StateInv ==
    ASSUME IInv, NEW c \in Ids, NEW s \in State,
           state' = [state EXCEPT ![c] = s],
           slipped' = IF ~Scheduled(c) /\ Scheduled(c)' THEN slipped \cup {c} ELSE slipped,
           UNCHANGED <<file, token, runs, alarm, watch, stale, bounds, told, lost>>,
           refresh' \in [Ids -> Refresh \cup {NoRefresh}],
           \A d \in Ids : refresh[d] = NoRefresh <=> refresh'[d] = NoRefresh,
           \A d \in Ids : refresh[d] # NoRefresh =>
               /\ refresh'[d].by = refresh[d].by
               /\ refresh'[d].grant = refresh[d].grant
               /\ refresh'[d].granted = refresh[d].granted
    PROVE  IInv'
<1>1. TypeOK'
  BY DEF IInv, TypeOK, bounds, told
<1>2. LoginKept' /\ SettingKept' /\ RotatedKept'
  BY DEF IInv, TypeOK, LoginKept, SettingKept, RotatedKept, told
<1>3. ASSUME NEW d \in Ids, file'[d] # NoFile,
             Scheduled(d)' \/ (refresh'[d] # NoRefresh /\ refresh'[d].by = "run")
      PROVE  Safe(d)'
  <2>1. CASE d = c
    BY <1>3, <2>1 DEF IInv, WatchedRuns, Safe, Scheduled
  <2>2. CASE d # c
    <3>1. state'[d] = state[d]
      BY <2>2 DEF IInv, TypeOK
    <3>2. Scheduled(d)' => Scheduled(d)
      BY <3>1 DEF Scheduled, isTerminalRefreshState, isDisabled
    <3> QED BY <1>3, <2>2, <3>2 DEF IInv, WatchedRuns, Safe
  <2> QED BY <2>1, <2>2
<1> QED BY <1>1, <1>2, <1>3 DEF IInv, WatchedRuns

\* Reset preserves the invariant.
LEMMA ResetInv ==
    ASSUME IInv, NEW c \in Ids, resetCooldown(c)
    PROVE  IInv'
<1>1. PICK s \in State : state' = [state EXCEPT ![c] = s]
  <2>1. CASE \E e \in {"other", "grant"} : state' = [state EXCEPT ![c].error = e]
    <3>1. PICK e \in {"other", "grant"} : state' = [state EXCEPT ![c].error = e]
      BY <2>1
    <3>2. [state[c] EXCEPT !.error = e] \in State
      BY DEF IInv, TypeOK, State
    <3> QED BY <3>1, <3>2
  <2>2. CASE state' = [state EXCEPT ![c] = [@ EXCEPT !.error = "none", !.off = FALSE]]
    <3>1. state[c] \in State
      BY DEF IInv, TypeOK
    <3>2. [state[c] EXCEPT !.error = "none", !.off = FALSE] \in State
      BY <3>1 DEF State
    <3> QED BY <2>2, <3>2
  <2> QED BY <2>1, <2>2 DEF resetCooldown
<1>2. /\ slipped' = IF ~Scheduled(c) /\ Scheduled(c)' THEN slipped \cup {c} ELSE slipped
      /\ UNCHANGED <<file, token, refresh, runs, alarm, watch, stale, bounds, told, lost>>
  BY DEF resetCooldown
<1>3. refresh' \in [Ids -> Refresh \cup {NoRefresh}]
  BY <1>2 DEF IInv, TypeOK
<1> QED BY <1>1, <1>2, <1>3, StateInv

-----------------------------------------------------------------------------
(* Requests *)

\* A report leaves a state of a credential.
LEMMA MarkResultType ==
    ASSUME TypeOK, NEW c \in Ids, NEW success \in BOOLEAN
    PROVE  markResult(c, success) \subseteq State
<1>1. state[c] \in State
  BY DEF TypeOK
<1>2. \A e \in {"none", "other", "grant", "unauthorized"} :
        [state[c] EXCEPT !.error = e, !.off = FALSE] \in State
  BY <1>1 DEF State
<1> QED BY <1>1, <1>2 DEF markResult

\* Report preserves the invariant.
LEMMA ReportInv ==
    ASSUME IInv, NEW c \in Ids, NEW success \in BOOLEAN, report(c, success)
    PROVE  IInv'
<1>1. PICK s \in markResult(c, success), noted \in BOOLEAN :
        /\ state' = [state EXCEPT ![c] = s]
        /\ refresh' = IF success \/ state[c].error = "unauthorized" \/ refresh[c] = NoRefresh
                         THEN refresh
                         ELSE [refresh EXCEPT ![c].noted = noted]
  BY DEF report
<1>2. s \in State
  BY MarkResultType DEF IInv
<1>3. /\ slipped' = IF ~Scheduled(c) /\ Scheduled(c)' THEN slipped \cup {c} ELSE slipped
      /\ UNCHANGED <<file, token, runs, alarm, watch, stale, bounds, told, lost>>
  BY DEF report
<1>4. /\ refresh' \in [Ids -> Refresh \cup {NoRefresh}]
      /\ \A d \in Ids : refresh[d] = NoRefresh <=> refresh'[d] = NoRefresh
      /\ \A d \in Ids : refresh[d] # NoRefresh =>
            /\ refresh'[d].by = refresh[d].by
            /\ refresh'[d].grant = refresh[d].grant
            /\ refresh'[d].granted = refresh[d].granted
  <2>1. CASE refresh' = refresh
    BY <2>1 DEF IInv, TypeOK
  <2>2. CASE refresh[c] # NoRefresh /\ refresh' = [refresh EXCEPT ![c].noted = noted]
    <3>1. refresh[c] \in Refresh
      BY <2>2 DEF IInv, TypeOK
    <3>2. /\ [refresh[c] EXCEPT !.noted = noted] \in Refresh
          /\ [refresh[c] EXCEPT !.noted = noted].by = refresh[c].by
          /\ [refresh[c] EXCEPT !.noted = noted].grant = refresh[c].grant
          /\ [refresh[c] EXCEPT !.noted = noted].granted = refresh[c].granted
      BY <3>1 DEF Refresh
    <3>3. [refresh[c] EXCEPT !.noted = noted] # NoRefresh
      BY <3>2, RefreshAssumption
    <3> QED BY <2>2, <3>2, <3>3 DEF IInv, TypeOK
  <2> QED BY <1>1, <2>1, <2>2
<1> QED BY <1>1, <1>2, <1>3, <1>4, StateInv

\* A run that starts has a type.
LEMMA StartedType ==
    ASSUME TypeOK, NEW c \in Ids, file[c] # NoFile,
           NEW mode \in {"plain", "rejected", "force"}, NEW by \in {"call", "run"}
    PROVE  /\ Started(c, mode, by) \in Refresh
           /\ Started(c, mode, by) # NoRefresh
           /\ Started(c, mode, by).by = by
<1>1. file[c] \in File
  BY DEF TypeOK
<1>2. Started(c, mode, by) \in Refresh
  BY <1>1 DEF Started, File, Refresh
<1>3. Started(c, mode, by).by = by
  BY DEF Started
<1> QED BY <1>2, <1>3, RefreshAssumption

\* RefreshNow preserves the invariant.
LEMMA RefreshNowInv ==
    ASSUME IInv, NEW c \in Ids, NEW mode \in {"plain", "rejected", "force"},
           NEW marked \in BOOLEAN, refreshNow(c, mode, marked)
    PROVE  IInv'
<1>1. /\ file[c] # NoFile
      /\ token' \in [Ids -> {"fresh", "due", "expired"}]
      /\ UNCHANGED <<file, state, runs, stale, logins, faults, login, wanted, lost>>
  BY DEF IInv, TypeOK, refreshNow, bounds, told
<1>2. LoginKept' /\ SettingKept'
  BY <1>1 DEF IInv, LoginKept, SettingKept
<1>3. CASE UNCHANGED refresh /\ rearm
  <2>1. TypeOK'
    BY <1>1, <1>3, Rearmed DEF IInv, TypeOK
  <2>2. RotatedKept'
    BY <1>1, <1>3 DEF IInv, RotatedKept
  <2> QED BY <1>2, <1>3, <2>1, <2>2, Rearmed DEF IInv
<1>4. CASE /\ slipped' = IF marked THEN slipped \cup {c} ELSE slipped
           /\ UNCHANGED <<refresh, alarm, watch>>
  <2>1. TypeOK'
    BY <1>1, <1>4 DEF IInv, TypeOK
  <2>2. RotatedKept'
    BY <1>1, <1>4 DEF IInv, RotatedKept
  <2>3. WatchedRuns'
    BY <1>1, <1>4 DEF IInv, WatchedRuns, Safe, Scheduled, isTerminalRefreshState, isDisabled
  <2> QED BY <1>2, <2>1, <2>2, <2>3 DEF IInv
<1>5. CASE /\ refresh[c] = NoRefresh
           /\ refresh' = [refresh EXCEPT ![c] = Started(c, mode, "call")]
           /\ slipped' = IF marked THEN slipped \cup {c} ELSE slipped
           /\ UNCHANGED <<alarm, watch>>
  <2>0. /\ Started(c, mode, "call") \in Refresh
        /\ Started(c, mode, "call").by = "call"
    BY <1>1, StartedType DEF IInv
  <2>1. TypeOK'
    BY <1>1, <1>5, <2>0 DEF IInv, TypeOK
  <2>2. RotatedKept'
    BY <1>1, <1>5 DEF IInv, TypeOK, RotatedKept
  <2>3. WatchedRuns'
    BY <1>1, <1>5, <2>0
       DEF IInv, TypeOK, WatchedRuns, Safe, Scheduled, isTerminalRefreshState, isDisabled
  <2> QED BY <1>2, <2>1, <2>2, <2>3 DEF IInv
<1> QED BY <1>3, <1>4, <1>5 DEF refreshNow

-----------------------------------------------------------------------------
(* A refresh ends *)

\* Granted preserves the invariant.
LEMMA GrantedInv ==
    ASSUME IInv, NEW c \in Ids, Granted(c)
    PROVE  IInv'
<1> DEFINE r == [refresh[c] EXCEPT !.granted = TRUE]
<1>1. /\ refresh[c] \in Refresh
      /\ refresh' = [refresh EXCEPT ![c] = r]
      /\ UNCHANGED <<file, token, state, runs, alarm, watch, slipped, logins, faults,
                     login, wanted, lost>>
  BY DEF IInv, TypeOK, Granted, stored, clock, bounds, told
<1>2. /\ r \in Refresh /\ r.by = refresh[c].by /\ r.grant = refresh[c].grant
      /\ r.granted = TRUE
  BY <1>1 DEF Refresh
<1>3. r # NoRefresh
  BY <1>2, RefreshAssumption
<1>4. \/ stale' = stale
      \/ stale' = stale \cup {c} /\ file[c] # NoFile /\ file[c].grant = refresh[c].grant
  BY DEF Granted
<1> HIDE DEF r
<1>5. TypeOK'
  BY <1>1, <1>2, <1>4 DEF IInv, TypeOK
<1>6. LoginKept' /\ SettingKept'
  BY <1>1 DEF IInv, LoginKept, SettingKept
<1>7. RotatedKept'
  BY <1>1, <1>2, <1>3, <1>4 DEF IInv, TypeOK, RotatedKept
<1>8. ASSUME NEW d \in Ids, file'[d] # NoFile,
             Scheduled(d)' \/ (refresh'[d] # NoRefresh /\ refresh'[d].by = "run")
      PROVE  Safe(d)'
  <2>1. Scheduled(d)' => Scheduled(d)
    BY <1>1 DEF Scheduled, isTerminalRefreshState, isDisabled
  <2>2. refresh'[d] # NoRefresh => refresh[d] # NoRefresh /\ refresh[d].by = refresh'[d].by
    BY <1>1, <1>2, RefreshAssumption DEF IInv, TypeOK
  <2>3. Safe(d)
    BY <1>1, <1>8, <2>1, <2>2 DEF IInv, WatchedRuns
  <2> QED BY <1>1, <2>3 DEF Safe
<1> QED BY <1>5, <1>6, <1>7, <1>8 DEF IInv, WatchedRuns

\* A failed refresh leaves a state of a credential.
LEMMA FailureType ==
    ASSUME TypeOK, NEW c \in Ids, file[c] # NoFile, refresh[c] # NoRefresh, NEW error \in Error
    PROVE  applyRefreshFailure(c, error) \in State
<1>1. state[c] \in State
  BY DEF TypeOK
<1> QED BY <1>1 DEF applyRefreshFailure, State

\* A refresh that succeeded leaves a state of a credential.
LEMMA SuccessType ==
    ASSUME TypeOK, NEW c \in Ids, file[c] # NoFile, refresh[c] # NoRefresh,
           NEW age \in {"fresh", "due"}
    PROVE  applyRefreshSuccess(c, age) \in State
<1>1. state[c] \in State /\ file[c] \in File /\ refresh[c] \in Refresh
  BY DEF TypeOK
<1> QED BY <1>1 DEF applyRefreshSuccess, State, File, Refresh

\* The end of a refresh of c, as far as the properties see it: the file keeps its
\* grant and its settings, and a revoked token is replaced or counted as lost.
LEMMA Outcome ==
    ASSUME IInv, NEW c \in Ids, refresh[c] # NoRefresh,
           \/ Dropped(c)
           \/ \E error \in Error : Failed(c, error)
           \/ \E age \in {"fresh", "due"} : Refreshed(c, age)
           \/ PersistFails(c)
    PROVE  /\ file' = file
           /\ token' \in [Ids -> {"fresh", "due", "expired"}]
           /\ state' \in [Ids -> State]
           /\ \A d \in Ids \ {c} : state'[d] = state[d]
           /\ stale' \subseteq stale /\ lost \subseteq lost' /\ lost' \subseteq Ids
           /\ c \in stale' => c \in lost'
           /\ faults' \in Nat
           /\ UNCHANGED <<logins, login, wanted>>
<1>0. refresh[c] \in Refresh
  BY DEF IInv, TypeOK
<1>1. CASE Dropped(c)
  <2>1. UNCHANGED <<file, token, state, stale, logins, faults, login, wanted, lost>>
    BY <1>1 DEF Dropped, stored, bounds, told
  <2>2. c \in stale => c \in lost
    BY <1>1 DEF Dropped, replaced, IInv, RotatedKept
  <2> QED BY <2>1, <2>2 DEF IInv, TypeOK
<1>2. ASSUME NEW error \in Error, Failed(c, error)
      PROVE  /\ UNCHANGED <<file, token, stale, logins, faults, login, wanted>>
             /\ state' \in [Ids -> State]
             /\ \A d \in Ids \ {c} : state'[d] = state[d]
             /\ lost \subseteq lost' /\ lost' \subseteq Ids
             /\ c \in stale' => c \in lost'
  <2>1. UNCHANGED <<file, token, stale, logins, faults, login, wanted>>
    BY <1>2 DEF Failed, bounds, told
  <2>2. applyRefreshFailure(c, error) \in State
    BY <1>2, FailureType DEF IInv, Failed
  <2>3. state' \in [Ids -> State] /\ \A d \in Ids \ {c} : state'[d] = state[d]
    BY <1>2, <2>2 DEF IInv, TypeOK, Failed
  <2>4. lost \subseteq lost' /\ lost' \subseteq Ids /\ (c \in stale' => c \in lost')
    BY <1>2, <2>1 DEF IInv, TypeOK, RotatedKept, Failed, Losing
  <2> QED BY <2>1, <2>3, <2>4
<1>3. ASSUME NEW age \in {"fresh", "due"}, Refreshed(c, age)
      PROVE  /\ UNCHANGED <<file, lost, logins, faults, login, wanted>>
             /\ token' \in [Ids -> {"fresh", "due", "expired"}]
             /\ state' \in [Ids -> State]
             /\ \A d \in Ids \ {c} : state'[d] = state[d]
             /\ stale' = stale \ {c}
  <2>1. /\ UNCHANGED <<lost, logins, faults, login, wanted>>
        /\ stale' = stale \ {c}
        /\ token' \in [Ids -> {"fresh", "due", "expired"}]
    BY <1>3 DEF Refreshed, bounds, told, IInv, TypeOK
  <2>2. applyRefreshSuccess(c, age) \in State
    BY <1>3, SuccessType DEF IInv, Refreshed
  <2>3. state' \in [Ids -> State] /\ \A d \in Ids \ {c} : state'[d] = state[d]
    BY <1>3, <2>2 DEF IInv, TypeOK, Refreshed
  <2>4. file[c] \in File /\ refresh[c].grant = file[c].grant
    BY <1>3 DEF IInv, TypeOK, Refreshed, replaced
  <2>5. mergeRefreshedMetadata(c) = file[c]
    BY <2>4 DEF mergeRefreshedMetadata, File
  <2>6. file' = file
    BY <1>3, <2>5 DEF IInv, TypeOK, Refreshed
  <2> QED BY <2>1, <2>3, <2>6
<1>4. CASE PersistFails(c)
  <2>1. UNCHANGED <<file, token, state, stale, logins, login, wanted>>
    BY <1>4 DEF PersistFails, stored, told
  <2>2. faults' \in Nat
    BY <1>4 DEF PersistFails, IInv, TypeOK
  <2>3. lost \subseteq lost' /\ lost' \subseteq Ids /\ (c \in stale' => c \in lost')
    BY <1>4, <2>1 DEF IInv, TypeOK, RotatedKept, PersistFails, Losing
  <2> QED BY <2>1, <2>2, <2>3 DEF IInv, TypeOK
<1> QED BY <1>1, <1>2, <1>3, <1>4 DEF IInv, TypeOK

\* Ends preserves the invariant.
LEMMA EndsInv ==
    ASSUME IInv, NEW c \in Ids, Ends(c)
    PROVE  IInv'
<1>0. refresh[c] # NoRefresh /\ Settled(c)
  BY DEF Ends
<1>1. /\ file' = file
      /\ token' \in [Ids -> {"fresh", "due", "expired"}]
      /\ state' \in [Ids -> State]
      /\ \A d \in Ids \ {c} : state'[d] = state[d]
      /\ stale' \subseteq stale /\ lost \subseteq lost' /\ lost' \subseteq Ids
      /\ c \in stale' => c \in lost'
      /\ faults' \in Nat
      /\ UNCHANGED <<logins, login, wanted>>
  BY Outcome DEF Ends
<1>2. /\ refresh' = [refresh EXCEPT ![c] = NoRefresh]
      /\ runs' = [h \in Runs |-> [runs[h] EXCEPT !.waits = @ \ {c}]]
  BY <1>0 DEF Settled
<1>3. /\ runs' \in [Runs -> [on : BOOLEAN, queue : SUBSET Ids, waits : SUBSET Ids]]
      /\ runs'["alarm"].on = runs["alarm"].on
  BY <1>2 DEF IInv, TypeOK, Runs
<1>4. LoginKept' /\ SettingKept'
  BY <1>1 DEF IInv, LoginKept, SettingKept
<1>5. RotatedKept'
  BY <1>1, <1>2 DEF IInv, TypeOK, RotatedKept
<1>6. CASE refresh[c].by = "call"
  <2>1. rearm
    BY <1>6 DEF Ends
  <2>2. TypeOK'
    BY <1>1, <1>2, <1>3, <2>1, Rearmed DEF IInv, TypeOK
  <2> QED BY <1>4, <1>5, <2>1, <2>2, Rearmed DEF IInv
<1>7. CASE refresh[c].by # "call"
  <2>1. UNCHANGED <<alarm, watch, slipped>>
    BY <1>7 DEF Ends, clock
  <2>2. TypeOK'
    BY <1>1, <1>2, <1>3, <2>1 DEF IInv, TypeOK
  <2>3. refresh[c].by = "run"
    BY <1>0, <1>7 DEF IInv, TypeOK, Refresh
  <2>4. ASSUME NEW d \in Ids, file'[d] # NoFile,
               Scheduled(d)' \/ (refresh'[d] # NoRefresh /\ refresh'[d].by = "run")
        PROVE  Safe(d)'
    <3>1. CASE d = c
      <4>1. Safe(c)
        BY <1>0, <1>1, <2>3, <2>4, <3>1 DEF IInv, WatchedRuns
      <4> QED BY <1>3, <2>1, <3>1, <4>1 DEF Safe
    <3>2. CASE d # c
      <4>1. state'[d] = state[d] /\ file'[d] = file[d] /\ refresh'[d] = refresh[d]
        BY <1>1, <1>2, <3>2 DEF IInv, TypeOK
      <4>2. Scheduled(d)' => Scheduled(d)
        BY <4>1 DEF Scheduled, isTerminalRefreshState, isDisabled
      <4>3. Safe(d)
        BY <2>4, <4>1, <4>2 DEF IInv, WatchedRuns
      <4> QED BY <1>3, <2>1, <4>3 DEF Safe
    <3> QED BY <3>1, <3>2
  <2> QED BY <1>4, <1>5, <2>2, <2>4 DEF IInv, WatchedRuns
<1> QED BY <1>6, <1>7

-----------------------------------------------------------------------------
(* Runs *)

\* AlarmFires preserves the invariant.
LEMMA AlarmFiresInv ==
    ASSUME IInv, AlarmFires
    PROVE  IInv'
<1>1. /\ runs' = [runs EXCEPT !["alarm"] = [on |-> TRUE, queue |-> Due, waits |-> {}]]
      /\ alarm' = FALSE /\ watch' = {}
      /\ UNCHANGED <<file, token, state, refresh, stale, slipped, logins, faults, login,
                     wanted, lost>>
  BY DEF AlarmFires, stored, bounds, told
<1>2. Due \subseteq Ids
  BY DEF Due
<1>3. TypeOK'
  BY <1>1, <1>2 DEF IInv, TypeOK, Runs
<1>4. runs'["alarm"].on
  BY <1>1 DEF IInv, TypeOK, Runs
<1>5. LoginKept' /\ SettingKept' /\ RotatedKept'
  BY <1>1 DEF IInv, LoginKept, SettingKept, RotatedKept
<1> QED BY <1>3, <1>4, <1>5 DEF IInv, WatchedRuns, Safe

\* A step that leaves the credentials and the alarm alone, and the alarm's run on.
LEMMA FrameInv ==
    ASSUME IInv,
           UNCHANGED <<file, token, state, alarm, watch, slipped, stale, logins, faults,
                       login, wanted, lost>>,
           refresh' \in [Ids -> Refresh \cup {NoRefresh}],
           runs' \in [Runs -> [on : BOOLEAN, queue : SUBSET Ids, waits : SUBSET Ids]],
           runs'["alarm"].on = runs["alarm"].on,
           \A d \in Ids : refresh'[d] = refresh[d]
                           \/ (refresh[d] = NoRefresh /\ Scheduled(d))
    PROVE  IInv'
<1>1. TypeOK' /\ LoginKept' /\ SettingKept'
  BY DEF IInv, TypeOK, LoginKept, SettingKept
<1>2. RotatedKept'
  BY DEF IInv, TypeOK, RotatedKept
<1>3. ASSUME NEW d \in Ids, file'[d] # NoFile,
             Scheduled(d)' \/ (refresh'[d] # NoRefresh /\ refresh'[d].by = "run")
      PROVE  Safe(d)'
  <2>1. Scheduled(d)' => Scheduled(d)
    BY DEF Scheduled, isTerminalRefreshState, isDisabled
  <2>2. Safe(d)
    BY <1>3, <2>1 DEF IInv, WatchedRuns
  <2> QED BY <2>2 DEF Safe
<1> QED BY <1>1, <1>2, <1>3 DEF IInv, WatchedRuns

\* SweepStarts preserves the invariant.
LEMMA SweepStartsInv ==
    ASSUME IInv, SweepStarts
    PROVE  IInv'
<1>1. /\ runs' = [runs EXCEPT !["sweep"] = [on |-> TRUE, queue |-> Due, waits |-> {}]]
      /\ UNCHANGED <<file, token, state, refresh, alarm, watch, slipped, stale, logins,
                     faults, login, wanted, lost>>
  BY DEF SweepStarts, stored, clock, bounds, told
<1>2. Due \subseteq Ids
  BY DEF Due
<1>3. /\ runs' \in [Runs -> [on : BOOLEAN, queue : SUBSET Ids, waits : SUBSET Ids]]
      /\ runs'["alarm"].on = runs["alarm"].on
  BY <1>1, <1>2 DEF IInv, TypeOK, Runs
<1>4. refresh' \in [Ids -> Refresh \cup {NoRefresh}]
  BY <1>1 DEF IInv, TypeOK
<1> QED BY <1>1, <1>3, <1>4, FrameInv

\* WorkerTakes preserves the invariant.
LEMMA WorkerTakesInv ==
    ASSUME IInv, NEW h \in Runs, NEW c \in Ids, WorkerTakes(h, c)
    PROVE  IInv'
<1>1. UNCHANGED <<file, token, state, alarm, watch, slipped, stale, logins, faults, login,
                  wanted, lost>>
  BY DEF WorkerTakes, stored, clock, bounds, told
<1>2. \/ runs' = [runs EXCEPT ![h].queue = @ \ {c}, ![h].waits = @ \cup {c}]
      \/ runs' = [runs EXCEPT ![h].queue = @ \ {c}]
  BY DEF WorkerTakes
<1>3. /\ runs' \in [Runs -> [on : BOOLEAN, queue : SUBSET Ids, waits : SUBSET Ids]]
      /\ runs'["alarm"].on = runs["alarm"].on
  BY <1>2 DEF IInv, TypeOK, Runs
<1>4. CASE refresh' = refresh
  <2>1. refresh' \in [Ids -> Refresh \cup {NoRefresh}]
    BY <1>4 DEF IInv, TypeOK
  <2> QED BY <1>1, <1>3, <1>4, <2>1, FrameInv
<1>5. CASE /\ refresh[c] = NoRefresh /\ Scheduled(c)
           /\ refresh' = [refresh EXCEPT ![c] = Started(c, "plain", "run")]
  <2>1. Started(c, "plain", "run") \in Refresh
    BY <1>5, StartedType DEF IInv, Scheduled
  <2>2. /\ refresh' \in [Ids -> Refresh \cup {NoRefresh}]
        /\ \A d \in Ids : refresh'[d] = refresh[d]
                           \/ (refresh[d] = NoRefresh /\ Scheduled(d))
    BY <1>5, <2>1 DEF IInv, TypeOK
  <2> QED BY <1>1, <1>3, <2>2, FrameInv
<1> QED BY <1>4, <1>5 DEF WorkerTakes

\* RunEnds preserves the invariant.
LEMMA RunEndsInv ==
    ASSUME IInv, NEW h \in Runs, RunEnds(h)
    PROVE  IInv'
<1>1. /\ rearm
      /\ runs' = [runs EXCEPT ![h] = Idle]
      /\ UNCHANGED <<file, token, state, refresh, stale, logins, faults, login, wanted, lost>>
  BY DEF RunEnds, stored, bounds, told
<1>2. TypeOK'
  BY <1>1, Rearmed DEF IInv, TypeOK, Runs, Idle
<1>3. LoginKept' /\ SettingKept' /\ RotatedKept'
  BY <1>1 DEF IInv, LoginKept, SettingKept, RotatedKept
<1> QED BY <1>1, <1>2, <1>3, Rearmed DEF IInv

\* Evicted preserves the invariant.
LEMMA EvictedInv ==
    ASSUME IInv, Evicted
    PROVE  IInv'
<1>1. /\ faults' \in Nat
      /\ refresh' = [c \in Ids |-> NoRefresh]
      /\ runs' = [h \in Runs |-> Idle]
      /\ lost' = lost \cup {c \in stale : refresh[c] # NoRefresh /\ refresh[c].granted}
      /\ UNCHANGED <<file, token, state, stale, slipped, logins, login, wanted>>
  BY DEF IInv, TypeOK, Evicted, stored, told
<1>2. \/ runs["alarm"].on /\ alarm' = TRUE /\ watch' = Ids
      \/ ~runs["alarm"].on /\ alarm' = alarm /\ watch' = watch
  BY DEF Evicted
<1>3. TypeOK'
  BY <1>1, <1>2 DEF IInv, TypeOK, Runs, Idle
<1>4. LoginKept' /\ SettingKept'
  BY <1>1 DEF IInv, LoginKept, SettingKept
<1>5. RotatedKept'
  BY <1>1 DEF IInv, TypeOK, RotatedKept
<1>6. ASSUME NEW d \in Ids, file'[d] # NoFile,
             Scheduled(d)' \/ (refresh'[d] # NoRefresh /\ refresh'[d].by = "run")
      PROVE  Safe(d)'
  <2>1. Scheduled(d)
    BY <1>1, <1>6 DEF Scheduled, isTerminalRefreshState, isDisabled
  <2>2. Safe(d)
    BY <1>1, <1>6, <2>1 DEF IInv, WatchedRuns
  <2> QED BY <1>1, <1>2, <2>2 DEF Safe
<1> QED BY <1>3, <1>4, <1>5, <1>6 DEF IInv, WatchedRuns

-----------------------------------------------------------------------------

\* Every step keeps the invariant.
LEMMA NextInv ==
    ASSUME IInv, [Next]_vars
    PROVE  IInv'
<1>1. CASE UNCHANGED vars
  BY <1>1 DEF vars, stored, clock, bounds, told, IInv, TypeOK, LoginKept, SettingKept,
              RotatedKept, WatchedRuns, Safe, Scheduled, isTerminalRefreshState, isDisabled
<1>2. ASSUME NEW c \in Ids,
             TokenAges(c) \/ BackoffEnds(c) \/ OfUsers(c) \/ OfRequests(c) \/ Granted(c)
             \/ Ends(c) \/ \E h \in Runs : WorkerTakes(h, c)
      PROVE  IInv'
  <2>1. CASE TokenAges(c)
    BY <2>1, TokenAgesInv
  <2>2. CASE BackoffEnds(c)
    BY <2>2, BackoffEndsInv
  <2>3. CASE OfUsers(c)
    BY <2>3, UpsertInv, RemoveInv, SetDisabledInv, ResetInv DEF OfUsers
  <2>4. CASE OfRequests(c)
    BY <2>4, ReportInv, RefreshNowInv DEF OfRequests
  <2>5. CASE Granted(c)
    BY <2>5, GrantedInv
  <2>6. CASE Ends(c)
    BY <2>6, EndsInv
  <2>7. CASE \E h \in Runs : WorkerTakes(h, c)
    BY <2>7, WorkerTakesInv
  <2> QED BY <1>2, <2>1, <2>2, <2>3, <2>4, <2>5, <2>6, <2>7
<1>3. CASE AlarmFires
  BY <1>3, AlarmFiresInv
<1>4. CASE SweepStarts
  BY <1>4, SweepStartsInv
<1>5. CASE Evicted
  BY <1>5, EvictedInv
<1>6. CASE \E h \in Runs : RunEnds(h)
  BY <1>6, RunEndsInv
<1> QED BY <1>1, <1>2, <1>3, <1>4, <1>5, <1>6 DEF Next

\* What protects logins, settings and rotated tokens from a refresh (manager.ts), and keeps every refresh watched, holds in every state.
THEOREM Invariance == Spec => []IInv
<1>1. Init => IInv
  BY InitInv
<1>2. IInv /\ [Next]_vars => IInv'
  BY NextInv
<1> QED BY <1>1, <1>2, PTL DEF Spec

\* Type correctness of credentials, refreshes, runs and the alarm.
THEOREM TypeCorrect == Spec => []TypeOK
<1>1. IInv => TypeOK
  BY DEF IInv
<1> QED BY <1>1, Invariance, PTL

\* A late refresh result never overwrites a login (#execute's replaced).
THEOREM LoginsAreKept == Spec => []LoginKept
<1>1. IInv => LoginKept
  BY DEF IInv
<1> QED BY <1>1, Invariance, PTL

\* Nor a user's settings (mergeRefreshedMetadata).
THEOREM SettingsAreKept == Spec => []SettingKept
<1>1. IInv => SettingKept
  BY DEF IInv
<1> QED BY <1>1, Invariance, PTL

\* A rotated refresh token is lost only to a timeout, an eviction or a failed write.
THEOREM RotatedTokenKept == Spec => []RotatedKept
<1>1. IInv => RotatedKept
  BY DEF IInv
<1> QED BY <1>1, Invariance, PTL

\* The alarm is set for every credential with a next refresh, but for those the
\* property names.
THEOREM EveryRefreshWatched == Spec => []Watched
<1>1. IInv => Watched
  BY DEF IInv, WatchedRuns, Watched, Safe, Scheduled
<1> QED BY <1>1, Invariance, PTL

-----------------------------------------------------------------------------
(* A login that is needed *)

\* Logins are numbered upwards.
Numbered == \A c \in Ids : login[c] <= logins

\* Only a login counts.
LEMMA NextNumbered ==
    ASSUME IInv, Numbered, [Next]_vars
    PROVE  Numbered'
<1>1. ASSUME NEW c \in Ids, NEW disabled \in BOOLEAN, NEW age \in {"fresh", "due"},
             upsertCredential(c, disabled, age)
      PROVE  Numbered'
  BY <1>1 DEF upsertCredential, IInv, TypeOK, Numbered
<1>2. ASSUME NEW c \in Ids, Ends(c)
      PROVE  Numbered'
  BY <1>2, Outcome DEF Ends, Numbered
<1>3. CASE UNCHANGED <<login, logins>>
  BY <1>3 DEF Numbered
<1>4. \/ \E c \in Ids : \/ \E disabled \in BOOLEAN, age \in {"fresh", "due"} :
                            upsertCredential(c, disabled, age)
                      \/ Ends(c)
      \/ UNCHANGED <<login, logins>>
  <2>1. ASSUME NEW c \in Ids,
               removeCredential(c) \/ setCredentialDisabled(c) \/ resetCooldown(c)
        PROVE  UNCHANGED <<login, logins>>
    BY <2>1 DEF removeCredential, setCredentialDisabled, resetCooldown, stored, bounds, told
  <2>2. ASSUME NEW c \in Ids, OfRequests(c)
        PROVE  UNCHANGED <<login, logins>>
    BY <2>2 DEF OfRequests, report, refreshNow, stored, bounds, told
  <2>3. ASSUME NEW c \in Ids, TokenAges(c) \/ BackoffEnds(c) \/ Granted(c)
        PROVE  UNCHANGED <<login, logins>>
    BY <2>3 DEF TokenAges, BackoffEnds, Granted, stored, bounds, told
  <2>4. ASSUME NEW h \in Runs,
               RunEnds(h) \/ \E c \in Ids : WorkerTakes(h, c)
        PROVE  UNCHANGED <<login, logins>>
    BY <2>4 DEF RunEnds, WorkerTakes, stored, bounds, told
  <2>5. CASE AlarmFires \/ SweepStarts \/ Evicted
    BY <2>5 DEF AlarmFires, SweepStarts, Evicted, stored, bounds, told
  <2>6. CASE UNCHANGED vars
    BY <2>6 DEF vars, bounds, told
  <2> QED
    BY <2>1, <2>2, <2>3, <2>4, <2>5, <2>6 DEF Next, OfUsers
<1> QED BY <1>1, <1>2, <1>3, <1>4

\* The steps that may give back a credential that needs a login.
GivenBack(c) ==
    \/ resetCooldown(c)
    \/ file'[c] = NoFile
    \/ login'[c] # login[c]
    \/ /\ refresh[c] # NoRefresh /\ refresh[c].granted
       /\ refresh[c].mode = "force" \/ ~refresh[c].noted

\* No refresh is started for one but by force.
LEMMA NotStarted ==
    ASSUME IInv, [Next]_vars, NEW d \in Ids, state[d].error = "unauthorized",
           refresh[d] = NoRefresh, refresh'[d] # NoRefresh
    PROVE  refresh'[d].mode = "force"
<1>1. ASSUME NEW c \in Ids, NEW mode \in {"plain", "rejected", "force"},
             NEW marked \in BOOLEAN, refreshNow(c, mode, marked)
      PROVE  refresh'[d].mode = "force"
  <2>1. refresh' # refresh
    OBVIOUS
  <2>2. /\ mode = "force" \/ ~isTerminalRefreshState(c)
        /\ refresh' = [refresh EXCEPT ![c] = Started(c, mode, "call")]
    BY <1>1, <2>1 DEF refreshNow
  <2>3. c = d /\ refresh'[d].mode = mode
    BY <2>2 DEF IInv, TypeOK, Started
  <2> QED BY <2>2, <2>3 DEF isTerminalRefreshState
<1>2. ASSUME NEW c \in Ids, NEW h \in Runs, WorkerTakes(h, c)
      PROVE  FALSE
  <2>1. refresh' # refresh
    OBVIOUS
  <2>2. Scheduled(c) /\ refresh' = [refresh EXCEPT ![c] = Started(c, "plain", "run")]
    BY <1>2, <2>1 DEF WorkerTakes
  <2>3. c = d
    BY <2>2 DEF IInv, TypeOK
  <2> QED BY <2>2, <2>3 DEF Scheduled, isTerminalRefreshState
<1>3. ASSUME NEW c \in Ids, (\E success \in BOOLEAN : report(c, success)) \/ Granted(c) \/ Ends(c)
      PROVE  FALSE
  <2>1. refresh' = refresh \/ refresh[c] # NoRefresh
    BY <1>3 DEF report, Granted, Ends
  <2>2. \E v : refresh' = [refresh EXCEPT ![c] = v]
    BY <1>3 DEF report, Granted, Ends, Settled, IInv, TypeOK
  <2> QED BY <2>1, <2>2 DEF IInv, TypeOK
<1>4. CASE Evicted
  BY <1>4 DEF Evicted
<1>5. CASE refresh' = refresh
  BY <1>5
<1>6. ASSUME NEW c \in Ids, TokenAges(c) \/ BackoffEnds(c) \/ OfUsers(c)
      PROVE  refresh' = refresh
  BY <1>6 DEF TokenAges, BackoffEnds, OfUsers, upsertCredential, removeCredential,
              setCredentialDisabled, resetCooldown
<1>7. AlarmFires \/ SweepStarts \/ (\E h \in Runs : RunEnds(h)) \/ UNCHANGED vars
        => refresh' = refresh
  BY DEF AlarmFires, SweepStarts, RunEnds, vars
<1> QED BY <1>1, <1>2, <1>3, <1>4, <1>5, <1>6, <1>7 DEF Next, OfRequests

\* Every step that gives one back is one of those.
LEMMA StaysStep ==
    ASSUME IInv, Numbered, [Next]_vars, NEW d \in Ids,
           state[d].error = "unauthorized", state'[d].error # "unauthorized"
    PROVE  GivenBack(d)
<1>1. state' # state
  OBVIOUS
<1>2. ASSUME NEW c \in Ids, BackoffEnds(c)
      PROVE  FALSE
  BY <1>2 DEF BackoffEnds, IInv, TypeOK, State
<1>3. ASSUME NEW c \in Ids, NEW disabled \in BOOLEAN, NEW age \in {"fresh", "due"},
             upsertCredential(c, disabled, age)
      PROVE  GivenBack(d)
  <2>1. state' = [state EXCEPT ![c] = emptyState] /\ login' = [login EXCEPT ![c] = logins + 1]
    BY <1>3 DEF upsertCredential
  <2>2. d = c
    BY <2>1 DEF IInv, TypeOK
  <2>3. login'[d] = logins + 1
    BY <2>1, <2>2 DEF IInv, TypeOK
  <2>4. login[d] <= logins /\ login[d] \in Nat /\ logins \in Nat
    BY DEF Numbered, IInv, TypeOK
  <2>5. login'[d] # login[d]
    BY <2>3, <2>4
  <2> QED BY <2>5 DEF GivenBack
<1>4. ASSUME NEW c \in Ids, removeCredential(c)
      PROVE  GivenBack(d)
  <2>1. state' = [state EXCEPT ![c] = emptyState] /\ file' = [file EXCEPT ![c] = NoFile]
    BY <1>4 DEF removeCredential
  <2>2. d = c
    BY <2>1 DEF IInv, TypeOK
  <2> QED BY <2>1, <2>2 DEF IInv, TypeOK, GivenBack
<1>5. ASSUME NEW c \in Ids, resetCooldown(c)
      PROVE  GivenBack(d)
  <2>1. d = c
    BY <1>5 DEF resetCooldown, IInv, TypeOK
  <2> QED BY <1>5, <2>1 DEF GivenBack
<1>6. ASSUME NEW c \in Ids, NEW success \in BOOLEAN, report(c, success)
      PROVE  FALSE
  <2>1. PICK s \in markResult(c, success) : state' = [state EXCEPT ![c] = s]
    BY <1>6 DEF report
  <2>2. d = c
    BY <2>1 DEF IInv, TypeOK
  <2>3. s = state[c]
    BY <2>1, <2>2 DEF markResult
  <2> QED BY <2>1, <2>2, <2>3 DEF IInv, TypeOK
<1>7. ASSUME NEW c \in Ids, Ends(c)
      PROVE  GivenBack(d)
  <2>0. refresh[c] # NoRefresh
    BY <1>7 DEF Ends
  <2>1. d = c
    BY <1>7, Outcome DEF Ends
  <2>2. CASE Dropped(c)
    BY <1>1, <2>2 DEF Dropped, stored
  <2>3. CASE PersistFails(c)
    BY <1>1, <2>3 DEF PersistFails, stored
  <2>4. ASSUME NEW error \in Error, Failed(c, error)
        PROVE  FALSE
    <3>1. applyRefreshFailure(c, error) = state[c]
      BY <2>1 DEF applyRefreshFailure
    <3> QED BY <2>1, <2>4, <3>1 DEF Failed, IInv, TypeOK
  <2>5. ASSUME NEW age \in {"fresh", "due"}, Refreshed(c, age)
        PROVE  GivenBack(d)
    <3>1. state'[c] = applyRefreshSuccess(c, age)
      BY <2>5 DEF Refreshed, IInv, TypeOK
    <3>2. ~refresh[c].noted
      BY <2>1, <3>1 DEF applyRefreshSuccess
    <3>3. refresh[c].granted
      BY <2>5 DEF Refreshed
    <3> QED BY <2>0, <2>1, <3>2, <3>3 DEF GivenBack
  <2> QED BY <1>7, <2>2, <2>3, <2>4, <2>5 DEF Ends
<1>8. \/ \E c \in Ids :
            BackoffEnds(c) \/ OfUsers(c) \/ (\E success \in BOOLEAN : report(c, success)) \/ Ends(c)
      \/ state' = state
  BY DEF Next, vars, stored, TokenAges, OfRequests, refreshNow, Granted, AlarmFires,
         SweepStarts, WorkerTakes, RunEnds, Evicted
<1>9. ASSUME NEW c \in Ids, setCredentialDisabled(c)
      PROVE  FALSE
  BY <1>1, <1>9 DEF setCredentialDisabled
<1> QED BY <1>1, <1>2, <1>3, <1>4, <1>5, <1>6, <1>7, <1>8, <1>9 DEF OfUsers

\* A credential that needs a login is refreshed only by force (CredentialRefresher.#start),
\* and given back only by a login, a removal, a reset, such a refresh, or one that was out
\* before the 401, which said nothing new (outcome.ts hasNewConcurrentError): for any number
\* of credentials, requests, runs and refreshes.
THEOREM LoginStaysNeeded == Spec => UnauthorizedStays
<1>1. Init => Numbered
  <2> SUFFICES ASSUME Init, NEW c \in Ids PROVE login[c] <= logins
    BY DEF Numbered
  <2>1. login[c] = 0 /\ logins = 0
    BY DEF Init
  <2> QED BY <2>1, SMT
<1>2. IInv /\ Numbered /\ [Next]_vars => Numbered'
  BY NextNumbered
<1>3. IInv /\ Numbered /\ [Next]_vars =>
        [\A c \in Ids : state[c].error = "unauthorized" =>
           /\ refresh[c] = NoRefresh /\ refresh'[c] # NoRefresh => refresh'[c].mode = "force"
           /\ \/ state'[c].error = "unauthorized"
              \/ resetCooldown(c)
              \/ file'[c] = NoFile
              \/ login'[c] # login[c]
              \/ /\ refresh[c] # NoRefresh /\ refresh[c].granted
                 /\ refresh[c].mode = "force" \/ ~refresh[c].noted]_vars
  BY NotStarted, StaysStep DEF GivenBack
<1> QED BY <1>1, <1>2, <1>3, Invariance, PTL DEF Spec, UnauthorizedStays

=============================================================================
