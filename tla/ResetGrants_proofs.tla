-------------------------- MODULE ResetGrants_proofs --------------------------
(***************************************************************************)
(* The invariants of ResetGrants for any auth files, organizations, flows,    *)
(* claims and times that keep ClaimLease above a claim and two reads.         *)
(***************************************************************************)
EXTENDS ResetGrants, FiniteSetTheorems, TLAPS

Active(r) == r # None /\ r.at \in {"begun", "sent", "settling"}
Deciding(r) == r # None /\ r.at \in {"read", "profile"} /\ r.status # None
Holding(f) == claim[f] # None /\ (claim[f].retry > 0 \/ claim[f].flight > 0)

\* The time a flow that is deciding has left until it begins.
Remaining(r) == IF r.at = "read" THEN r.time + ReadTimeout ELSE r.time

\* Journal f is in flight for the claim i of o, for at least what a lease has left
\* when t is left of the claim's time.
HeldFor(f, i, o, t) ==
    /\ claim[f] # None /\ claim[f].id = i /\ claim[f].org = o
    /\ claim[f].flight + ClaimTimeout >= ClaimLease + t

\* Ids are given out once, and a journal's is its own.
IdsGiven ==
    /\ \A f \in Files : claim[f] # None => claim[f].id < next
    /\ \A f, g \in Files : claim[f] # None /\ claim[g] # None /\ claim[f].id = claim[g].id => f = g
    /\ \A o \in Orgs : \A i \in used[o] : i < next
    /\ \A w \in Flows : flow[w] # None /\ flow[w].resend # None => flow[w].resend < next

\* A cooldown that ended outlasts only claims that started.
CooldownsPast ==
    /\ \A o \in Orgs : cooldown[o] < next \/ cooldown[o] = Running
    /\ \A w \in Flows : Deciding(flow[w]) =>
          flow[w].status.cooldown < next \/ flow[w].status.cooldown = Running

\* A flow between begin and settle has its journal in flight, and no other flow its claim.
ActiveHeld ==
    \A w \in Flows : Active(flow[w]) =>
        /\ HeldFor(flow[w].file, flow[w].id, flow[w].org, flow[w].time)
        /\ flow[w].at = "begun" => flow[w].time = 0 /\ claim[flow[w].file].flight = ClaimLease
ActiveAlone ==
    \A w, v \in Flows : Active(flow[w]) /\ Active(flow[v]) /\ flow[w].id = flow[v].id => w = v

\* A claim on its way has its journal in flight and at most the flow that sent it.
WireHeld == \A m \in wire : \E f \in Files : HeldFor(f, m.id, m.org, m.time)
WireAlone ==
    \A m \in wire :
        /\ m.by # None => /\ flow[m.by] # None /\ flow[m.by].at = "sent"
                          /\ flow[m.by].id = m.id /\ flow[m.by].org = m.org
        /\ m.by = None => \A w \in Flows : Active(flow[w]) => flow[w].id # m.id

\* A flow sends one claim.
WireOne == \A m, n \in wire : m.by # None /\ m.by = n.by => m = n

\* A read keeps its time, and leaves a status without a cooldown unless the flow resends.
Reads(r) ==
    r # None /\ ~Active(r) =>
        /\ r.time <= ReadTimeout
        /\ r.at = "read" => r.status # None
        /\ r.at = "profile" /\ r.resend = None =>
              r.status # None /\ r.status.cooldown # Running
Reading == \A w \in Flows : Reads(flow[w])

\* One claim holds an organization.
OneHolder ==
    \A f, g \in Files : Holding(f) /\ Holding(g) /\ claim[f].org = claim[g].org => f = g

\* While a claim holds its organization nothing else is spent there.
DecidedAlone ==
    \A f \in Files : Holding(f) =>
        /\ used[claim[f].org] \subseteq seen[claim[f].id] \cup {claim[f].id}
        /\ claim[f].id \notin used[claim[f].org] =>
              /\ claim[f].left <= left[claim[f].org]
              /\ cooldown[claim[f].org] < claim[f].id

\* A flow that may begin a fresh claim has seen all that was spent, or a journal of its
\* organization is in flight until it is too late to begin.
FreshSees(r) ==
    Deciding(r) /\ r.resend = None /\ ~r.stale =>
        \/ /\ used[r.org] = r.status.spent /\ r.status.left <= left[r.org]
           /\ cooldown[r.org] = Running => r.status.cooldown = Running
        \/ \E f \in Files : claim[f] # None /\ claim[f].org = r.org /\ claim[f].flight > Remaining(r)
AllFreshSee == \A w \in Flows : FreshSees(flow[w])

\* Such a flow has not seen fewer resets than are left, unless some were granted since.
FreshKnows(r) ==
    Deciding(r) /\ r.resend = None /\ ~r.added => r.status.left >= left[r.org]
AllFreshKnow == \A w \in Flows : FreshKnows(flow[w])

\* The claim that flow r would resend.
Resends(r) ==
    /\ openClaim(r.file) /\ claim[r.file].org = r.org
    /\ r.resend # None => claim[r.file].id = r.resend

\* Its status hints that the claim landed.
Hints(r) ==
    \/ r.status.cooldown >= claim[r.file].id /\ (r.resend = None => r.status.cooldown # Running)
    \/ r.status.left < claim[r.file].left /\ (r.resend = None => ~r.added)

\* A claim that a status hints landed did.
ResendSees(r) ==
    Deciding(r) /\ Resends(r) /\ Hints(r) => claim[r.file].id \in used[r.org]
AllResendsSee == \A w \in Flows : ResendSees(flow[w])

\* A flow's answer says spent only of a reset that was.
AnswersTrue ==
    \A w \in Flows : Active(flow[w]) =>
        /\ flow[w].answer = "reset" => flow[w].id \in used[flow[w].org]
        /\ flow[w].answer = "already_used" /\ (flow[w].resend = None => ~flow[w].added)
              => flow[w].id \in used[flow[w].org]

Protocol ==
    /\ IdsGiven /\ CooldownsPast /\ ActiveHeld /\ ActiveAlone
    /\ WireHeld /\ WireAlone /\ WireOne
    /\ Reading /\ OneHolder
Decisions ==
    /\ DecidedAlone /\ OneResetPerReading /\ AllFreshSee /\ AllFreshKnow /\ AllResendsSee
    /\ AnswersTrue
IInv == TypeOK /\ Protocol /\ Decisions
-----------------------------------------------------------------------------
(* Types *)

\* Times and counts are numbers, and None is none of the values.
LEMMA Constants ==
    /\ MaxClaims \in Nat /\ MaxResets \in Nat
    /\ ReadTimeout \in Nat /\ ClaimTimeout \in Nat /\ RetryWindow \in Nat /\ ClaimLease \in Nat
    /\ ReadTimeout > 0 /\ ClaimTimeout > 0 /\ RetryWindow > 0
    /\ ClaimLease > ClaimTimeout + 2 * ReadTimeout
    /\ None \notin Orgs /\ None \notin Flows /\ None \notin Ids
    /\ None \notin Journal /\ None \notin Status /\ None \notin Flow
BY ResetAssumption

\* The times a flow's steps are given.
LEMMA Times ==
    /\ ReadTimeout \in 0..(ReadTimeout + ClaimTimeout)
    /\ ClaimTimeout \in 0..(ReadTimeout + ClaimTimeout)
    /\ 0 \in 0..(ReadTimeout + ClaimTimeout)
    /\ ClaimTimeout \in 0..ClaimTimeout
    /\ RetryWindow \in 0..RetryWindow
    /\ ClaimLease \in 0..ClaimLease /\ 0 \in 0..ClaimLease
BY Constants

\* The fields of a flow.
LEMMA FlowFields ==
    ASSUME NEW r \in Flow
    PROVE  /\ r.at \in {"status", "read", "profile", "begun", "sent", "settling"}
           /\ r.file \in Files /\ r.org \in Orgs /\ r.stale \in BOOLEAN
           /\ r.resend \in Ids \cup {None} /\ r.status \in Status \cup {None}
           /\ r.id \in Ids \cup {None} /\ r.answer \in Answers /\ r.added \in BOOLEAN
           /\ r.time \in Nat /\ r.time <= ReadTimeout + ClaimTimeout
           /\ r # None
BY Constants DEF Flow

\* The fields of a status.
LEMMA StatusFields ==
    ASSUME NEW s \in Status
    PROVE  /\ s.left \in Nat /\ s.left <= MaxResets
           /\ s.cooldown \in Nat /\ s.cooldown <= Running
           /\ s.spent \in SUBSET Ids /\ s # None
BY Constants DEF Status, Running

\* The fields of a journal.
LEMMA JournalFields ==
    ASSUME NEW j \in Journal
    PROVE  /\ j.org \in Orgs /\ j.id \in Ids /\ j.id \in Nat /\ j.id < Running
           /\ j.retry \in Nat /\ j.retry <= RetryWindow /\ j.flight \in Nat /\ j.flight <= ClaimLease
           /\ j.left \in Nat /\ j.left <= MaxResets
           /\ j.again \in BOOLEAN /\ j.unconfirmed \in BOOLEAN
           /\ j # None
BY Constants DEF Journal, Ids, Running

\* The marks of the other flows may pass: such flows keep all else.
LEMMA OutdatedType ==
    ASSUME TypeOK
    PROVE  Outdated \in [Flows -> Flow \cup {None}]
<1>1. \A x \in Flow : [x EXCEPT !.stale = TRUE] \in Flow
  BY DEF Flow
<1>2. \A w \in Flows : flow[w] \in Flow \cup {None}
  BY DEF TypeOK
<1>3. \A w \in Flows : Marked(w) => flow[w] \in Flow
  BY <1>2 DEF Marked
<1> QED
  BY <1>1, <1>2, <1>3 DEF Outdated

\* forget leaves flows.
LEMMA ForgottenType ==
    ASSUME TypeOK, NEW f \in Files
    PROVE  ForgottenBy(f) \in [Flows -> Flow \cup {None}]
BY DEF TypeOK, ForgottenBy

\* What landedAnswer returns is an answer.
LEMMA LandedType ==
    ASSUME NEW j, NEW s, NEW a \in landedAnswer(j, s)
    PROVE  a \in {"already_used", "unknown", "not_confirmed"}
BY DEF landedAnswer

\* A claim that is begun leaves journals and flows.
LEMMA BegunType ==
    ASSUME TypeOK, NEW w \in Flows, mayBegin(w), NEW j \in Journal, Begun(w, j)
    PROVE  claim' \in [Files -> Journal \cup {None}] /\ flow' \in [Flows -> Flow \cup {None}]
<1>1. flow[w] \in Flow
  BY DEF TypeOK, mayBegin
<1>2. claim' \in [Files -> Journal \cup {None}]
  BY <1>1, FlowFields DEF Begun, TypeOK
<1>3. PICK a \in landedAnswer(j, flow[w].status) :
          flow' = [Outdated EXCEPT ![w] = [@ EXCEPT !.at = "begun", !.id = j.id, !.time = 0,
                                                    !.answer = a, !.status = None]]
  BY DEF Begun
<1>4. a \in Answers
  BY LandedType DEF Answers
<1>5. Outdated[w] \in Flow /\ Outdated \in [Flows -> Flow \cup {None}]
  BY <1>1, OutdatedType, FlowFields DEF Outdated, Flow
<1>6. [Outdated[w] EXCEPT !.at = "begun", !.id = j.id, !.time = 0,
                          !.answer = a, !.status = None] \in Flow
  <2>1. j.id \in Ids
    BY JournalFields
  <2> QED
    BY <1>4, <1>5, <2>1, Times DEF Flow
<1> QED
  BY <1>2, <1>3, <1>5, <1>6

\* An answer leaves requests and flows.
LEMMA AnsweredType ==
    ASSUME TypeOK, WireAlone, NEW m \in wire, NEW answer \in Answers, Answered(m, answer)
    PROVE  wire' \subseteq Message /\ flow' \in [Flows -> Flow \cup {None}]
<1>1. m \in Message /\ m.by \in Flows \cup {None}
  BY DEF TypeOK, Message
<1>2. CASE m.by = None
  BY <1>1, <1>2 DEF Answered, TypeOK
<1>3. CASE m.by # None
  <2>1. flow[m.by] \in Flow
    BY <1>1, <1>3 DEF WireAlone, TypeOK
  <2>2. PICK a \in {answer, "unknown"} :
            flow' = [flow EXCEPT ![m.by].at = "settling", ![m.by].answer = a]
    BY <1>3 DEF Answered
  <2>3. a \in Answers
    BY DEF Answers
  <2>4. [flow[m.by] EXCEPT !.at = "settling", !.answer = a] \in Flow
    BY <2>1, <2>3 DEF Flow
  <2> QED
    BY <1>1, <1>3, <2>2, <2>4 DEF Answered, TypeOK
<1> QED
  BY <1>2, <1>3

\* Every step keeps the types.
LEMMA TypeStep ==
    ASSUME TypeOK, Protocol, [Next]_vars
    PROVE  TypeOK'
<1>1. ASSUME NEW f \in Files, NEW o \in Orgs, upsert(f, o) PROVE TypeOK'
  BY <1>1, ForgottenType DEF upsert, forget, TypeOK
<1>2. ASSUME NEW f \in Files, removeCredential(f) PROVE TypeOK'
  BY <1>2, ForgottenType DEF removeCredential, forget, TypeOK
<1>3. ASSUME NEW w \in Flows, NEW f \in Files, resetGrantTarget(w, f) PROVE TypeOK'
  <2>1. openClaim(f) => claim[f].id \in Ids
    BY JournalFields DEF openClaim, TypeOK
  <2>2. account[f] \in Orgs
    BY <1>3 DEF TypeOK, resetGrantTarget
  <2>3. [at |-> "status", file |-> f, org |-> account[f], stale |-> FALSE,
         resend |-> IF openClaim(f) THEN claim[f].id ELSE None,
         status |-> None, added |-> FALSE, id |-> None, answer |-> "unknown",
         time |-> ReadTimeout] \in Flow
    BY <2>1, <2>2, Constants DEF Flow, Answers
  <2> QED
    BY <1>3, <2>3 DEF resetGrantTarget, TypeOK
<1>4. ASSUME NEW w \in Flows, readStatus(w) PROVE TypeOK'
  <2>1. flow[w] \in Flow
    BY <1>4 DEF readStatus, TypeOK
  <2>2. [left |-> left[flow[w].org], cooldown |-> cooldown[flow[w].org],
                spent |-> used[flow[w].org]] \in Status
    BY <2>1, FlowFields DEF TypeOK, Status
  <2>3. [flow[w] EXCEPT !.at = "read",
             !.status = [left |-> left[flow[w].org], cooldown |-> cooldown[flow[w].org],
                spent |-> used[flow[w].org]]] \in Flow
    BY <2>1, <2>2 DEF Flow
  <2> QED
    BY <1>4, <2>3 DEF readStatus, TypeOK
<1>5. ASSUME NEW w \in Flows, readReturns(w) PROVE TypeOK'
  <2>1. [flow[w] EXCEPT !.at = "profile", !.time = ReadTimeout] \in Flow
    <3>1. flow[w] \in Flow
      BY <1>5 DEF readReturns, TypeOK
    <3> QED
      BY <3>1, Times DEF Flow
  <2> QED
    BY <1>5, <2>1 DEF readReturns, TypeOK
<1>6. ASSUME NEW w \in Flows, readFails(w) PROVE TypeOK'
  <2>1. [flow[w] EXCEPT !.at = "profile", !.status = None, !.time = ReadTimeout] \in Flow
    <3>1. flow[w] \in Flow
      BY <1>6 DEF readFails, TypeOK
    <3> QED
      BY <3>1, Times DEF Flow
  <2> QED
    BY <1>6, <2>1 DEF readFails, TypeOK
<1>7. ASSUME NEW w \in Flows, beginFresh(w) PROVE TypeOK'
  <2> DEFINE journal == [org |-> flow[w].org, id |-> next, retry |-> RetryWindow,
                         flight |-> ClaimLease, left |-> flow[w].status.left,
                         again |-> FALSE, unconfirmed |-> FALSE]
  <2>1. flow[w] \in Flow /\ mayBegin(w)
    BY <1>7 DEF beginFresh, mayBegin, TypeOK
  <2>2. flow[w].status \in Status
    BY <1>7, <2>1, FlowFields DEF beginFresh, mayBegin, Protocol, Reading, Reads, Active
  <2>3. next \in Ids /\ next + 1 \in 1..(MaxClaims + 1)
    BY <1>7, Constants DEF beginFresh, TypeOK, Ids
  <2>4. journal \in Journal
    <3>1. flow[w].org \in Orgs /\ flow[w].status.left \in 0..MaxResets
      BY <2>1, <2>2, FlowFields DEF Status
    <3> QED
      BY <2>3, <3>1, Times DEF Journal
  <2>5. Begun(w, journal)
    BY <1>7 DEF beginFresh
  <2>6. flow[w].status.spent \in SUBSET Ids
    BY <2>2 DEF Status
  <2> HIDE DEF journal
  <2>7. claim' \in [Files -> Journal \cup {None}] /\ flow' \in [Flows -> Flow \cup {None}]
    BY <2>1, <2>4, <2>5, BegunType
  <2> QED
    BY <1>7, <2>3, <2>6, <2>7 DEF beginFresh, TypeOK
<1>8. ASSUME NEW w \in Flows, beginResend(w) PROVE TypeOK'
  <2> DEFINE open == claim[flow[w].file]
             journal == [open EXCEPT !.flight = ClaimLease, !.again = TRUE]
  <2>1. flow[w] \in Flow /\ mayBegin(w)
    BY <1>8 DEF beginResend, mayBegin, TypeOK
  <2>2. open \in Journal
    BY <1>8, <2>1, FlowFields DEF beginResend, openClaim, TypeOK
  <2>3. journal \in Journal
    BY <2>2, Times DEF Journal
  <2>4. Begun(w, journal)
    BY <1>8 DEF beginResend
  <2> HIDE DEF journal
  <2>5. claim' \in [Files -> Journal \cup {None}] /\ flow' \in [Flows -> Flow \cup {None}]
    BY <2>1, <2>3, <2>4, BegunType
  <2> QED
    BY <1>8, <2>5 DEF beginResend, TypeOK
<1>9. ASSUME NEW w \in Flows, sendClaim(w) PROVE TypeOK'
  <2>1. flow[w] \in Flow
    BY <1>9 DEF sendClaim, TypeOK
  <2>2. [flow[w] EXCEPT !.at = "sent", !.time = ClaimTimeout] \in Flow
    BY <2>1, Times DEF Flow
  <2>3. flow[w].id \in Ids
    BY <1>9, <2>1, FlowFields, JournalFields
    DEF sendClaim, Protocol, ActiveHeld, Active, HeldFor, TypeOK
  <2>4. [id |-> flow[w].id, org |-> flow[w].org, by |-> w, time |-> ClaimTimeout] \in Message
    BY <2>1, <2>3, FlowFields, Times DEF Message
  <2> QED
    BY <1>9, <2>2, <2>4 DEF sendClaim, TypeOK
<1>10. ASSUME NEW w \in Flows, skipClaim(w) PROVE TypeOK'
  <2>1. flow[w] \in Flow
    BY <1>10 DEF skipClaim, TypeOK
  <2>2. [flow[w] EXCEPT !.at = "settling"] \in Flow
    BY <2>1 DEF Flow
  <2> QED
    BY <1>10, <2>2 DEF skipClaim, TypeOK
<1>11. ASSUME NEW w \in Flows, settle(w) PROVE TypeOK'
  <2> DEFINE f == flow[w].file
             answer == flow[w].answer
  <2>1. f \in Files
    BY <1>11, FlowFields DEF settle, TypeOK
  <2>2. claim[f] # None => Unsettled(w) \in Journal
    <3>1. HAVE claim[f] # None
    <3>2. claim[f] \in Journal
      BY <2>1, <3>1 DEF TypeOK
    <3>3. (claim[f].unconfirmed \/ answer = "not_confirmed") \in BOOLEAN
      OBVIOUS
    <3> QED
      BY <3>2, <3>3, Times DEF Journal, Unsettled
  <2>3. claim' \in [Files -> Journal \cup {None}]
    <3>1. \/ claim' = claim
          \/ Own(w) /\ claim' = [claim EXCEPT ![f] = Unsettled(w)]
          \/ claim' = [claim EXCEPT ![f] = None]
      BY <1>11 DEF settle
    <3>2. Own(w) => Unsettled(w) \in Journal
      BY <2>2 DEF Own
    <3> QED
      BY <2>1, <3>1, <3>2 DEF TypeOK
  <2> QED
    BY <1>11, <2>3, OutdatedType DEF settle, TypeOK
<1>12. ASSUME NEW w \in Flows, Ends(w) PROVE TypeOK'
  <2>1. \A m \in wire : [m EXCEPT !.by = None] \in Message
    BY DEF TypeOK, Message
  <2> QED
    BY <1>12, <2>1 DEF Ends, TypeOK
<1>13. ASSUME NEW m \in wire, Spends(m) PROVE TypeOK'
  <2>1. wire' \subseteq Message /\ flow' \in [Flows -> Flow \cup {None}]
    BY <1>13, AnsweredType DEF Spends, Answers, Protocol
  <2>2. m.id \in Ids /\ m.org \in Orgs
    BY DEF TypeOK, Message
  <2>3. left[m.org] - 1 \in 0..MaxResets
    BY <1>13, <2>2, Constants DEF Spends, TypeOK
  <2> QED
    BY <1>13, <2>1, <2>2, <2>3, Constants DEF Spends, TypeOK, Running
<1>14. ASSUME NEW m \in wire, SpentBefore(m) PROVE TypeOK'
  BY <1>14, AnsweredType DEF SpentBefore, Answers, TypeOK, Protocol
<1>15. ASSUME NEW m \in wire, Refused(m) PROVE TypeOK'
  BY <1>15, AnsweredType DEF Refused, Answers, TypeOK, Protocol
<1>16. ASSUME NEW o \in Orgs, Granted(o) PROVE TypeOK'
  <2>1. \A w \in Flows : flow[w] # None => [flow[w] EXCEPT !.added = TRUE] \in Flow
    <3>1. \A x \in Flow : [x EXCEPT !.added = TRUE] \in Flow
      BY DEF Flow
    <3>2. \A w \in Flows : flow[w] # None => flow[w] \in Flow
      BY DEF TypeOK
    <3> QED
      BY <3>1, <3>2
  <2>2. left[o] + 1 \in 0..MaxResets
    <3>1. left[o] \in 0..MaxResets /\ Cardinality(used[o]) \in Nat
      <4>1. used[o] \subseteq Ids /\ IsFiniteSet(Ids)
        BY FS_Interval, Constants DEF TypeOK, Ids
      <4> QED
        BY <4>1, FS_Subset, FS_CardinalityType DEF TypeOK
    <3> QED
      BY <1>16, <3>1, Constants DEF Granted
  <2> QED
    BY <1>16, <2>1, <2>2 DEF Granted, TypeOK
<1>17. CASE Tick
  <2>1. claim' \in [Files -> Journal \cup {None}]
    <3>1. ASSUME NEW f \in Files, claim[f] # None
          PROVE  [claim[f] EXCEPT !.retry = Less(@), !.flight = Less(@)] \in Journal
      <4>1. claim[f] \in Journal
        BY <3>1 DEF TypeOK
      <4>2. Less(claim[f].retry) \in 0..RetryWindow /\ Less(claim[f].flight) \in 0..ClaimLease
        BY <4>1, JournalFields, Constants DEF Less
      <4> QED
        BY <4>1, <4>2 DEF Journal
    <3> QED
      BY <1>17, <3>1 DEF Tick
  <2>2. flow' \in [Flows -> Flow \cup {None}]
    <3>1. ASSUME NEW w \in Flows, flow[w] # None
          PROVE  [flow[w] EXCEPT !.time = @ - 1] \in Flow
      <4>1. flow[w] \in Flow
        BY <3>1 DEF TypeOK
      <4>2. flow[w].time - 1 \in 0..(ReadTimeout + ClaimTimeout)
        <5>1. flow[w].time > 0 /\ flow[w].time \in Nat /\ flow[w].time <= ReadTimeout + ClaimTimeout
          BY <1>17, <3>1, <4>1, FlowFields DEF Tick
        <5> QED
          BY <5>1, Constants
      <4> QED
        BY <4>1, <4>2 DEF Flow
    <3> QED
      BY <1>17, <3>1 DEF Tick
  <2>3. wire' \subseteq Message
    <3>1. ASSUME NEW m \in wire
          PROVE  [m EXCEPT !.time = @ - 1] \in Message
      <4>1. m \in Message /\ m.time \in 0..ClaimTimeout /\ m.time > 0
        BY <1>17 DEF TypeOK, Message, Tick
      <4>2. m.time - 1 \in 0..ClaimTimeout
        BY <4>1, Constants
      <4> QED
        BY <4>1, <4>2 DEF Message
    <3> QED
      BY <1>17, <3>1 DEF Tick
  <2> QED
    BY <1>17, <2>1, <2>2, <2>3 DEF Tick, TypeOK
<1>18. CASE UNCHANGED vars
  BY <1>18 DEF vars, TypeOK
<1>19. ASSUME NEW o \in Orgs, CooldownEnds(o) PROVE TypeOK'
  BY <1>19, Constants DEF CooldownEnds, TypeOK, Running
<1> QED
  BY <1>1, <1>2, <1>3, <1>4, <1>5, <1>6, <1>7, <1>8, <1>9, <1>10, <1>11, <1>12, <1>13, <1>14,
     <1>15, <1>16, <1>17, <1>18, <1>19 DEF Next

-----------------------------------------------------------------------------
(* Steps that begin, send and settle nothing *)

\* Flow v keeps all but its marks, or it had not begun and ends.
Kept(v) ==
    /\ Active(flow[v]) => flow'[v] # None
    /\ flow'[v] # None =>
        /\ flow[v] # None
        /\ flow'[v].at = flow[v].at /\ flow'[v].file = flow[v].file /\ flow'[v].org = flow[v].org
        /\ flow'[v].resend = flow[v].resend /\ flow'[v].status = flow[v].status
        /\ flow'[v].id = flow[v].id /\ flow'[v].answer = flow[v].answer
        /\ flow'[v].time = flow[v].time
        /\ flow[v].stale => flow'[v].stale
        /\ flow[v].added => flow'[v].added

\* Outdating the marks of a flow keeps the rest of it.
LEMMA OutdatedKept ==
    ASSUME TypeOK, NEW v \in Flows, flow'[v] = Outdated[v]
    PROVE  /\ Kept(v)
           /\ Deciding(flow'[v]) /\ flow'[v].resend = None => flow'[v].stale
           /\ flow'[v] # None => flow'[v].added = flow[v].added
<1>1. CASE ~(Marked(v) /\ flow[v].resend = None)
  BY <1>1 DEF Outdated, Marked, Kept, Deciding, Active
<1>2. CASE Marked(v) /\ flow[v].resend = None
  <2>1. flow[v] \in Flow
    BY <1>2 DEF TypeOK, Marked
  <2>2. flow'[v] = [flow[v] EXCEPT !.stale = TRUE]
    BY <1>2 DEF Outdated
  <2>3. flow'[v] \in Flow /\ flow'[v].stale
    BY <2>1, <2>2 DEF Flow
  <2>4. flow'[v] # None
    BY <2>3, FlowFields
  <2> QED
    BY <1>2, <2>1, <2>2, <2>3, <2>4, FlowFields DEF Kept, Flow, Marked
<1> QED
  BY <1>1, <1>2

\* Forgetting its file does too, or ends it before it begins.
LEMMA ForgottenKept ==
    ASSUME TypeOK, NEW f \in Files, NEW v \in Flows, flow'[v] = ForgottenBy(f)[v]
    PROVE  Kept(v) /\ (flow'[v] # None => flow'[v].added = flow[v].added)
BY DEF ForgottenBy, Marked, Kept, Active

\* A flow has a natural number of steps left to decide in.
LEMMA RemainingType ==
    ASSUME NEW r \in Flow
    PROVE  Remaining(r) \in Nat
BY FlowFields, Constants DEF Remaining

\* A file that forgets, a reset granted, a cooldown that ends: nothing in flight is dropped.
LEMMA Quiet ==
    ASSUME IInv, TypeOK', \A v \in Flows : Kept(v),
           \A g \in Files : claim'[g] = claim[g] \/ (claim'[g] = None /\ ~inFlight(g)),
           \A o \in Orgs : left'[o] >= left[o],
           \A v \in Flows : Deciding(flow'[v]) /\ flow'[v].resend = None /\ ~flow'[v].added
               => left'[flow[v].org] = left[flow[v].org],
           \A o \in Orgs : \/ cooldown'[o] = cooldown[o]
                            \/ (cooldown[o] = Running /\ cooldown'[o] = next - 1),
           wire' = wire, used' = used, next' = next, seen' = seen
    PROVE  Protocol' /\ Decisions'
<1> USE DEF IInv, Protocol, Decisions
<1>1. IdsGiven'
  BY DEF IdsGiven, Kept
<1>2. \A g \in Files, i \in Ids, o \in Orgs, t \in Nat :
          HeldFor(g, i, o, t) => claim'[g] = claim[g]
  BY JournalFields, Constants DEF HeldFor, inFlight, TypeOK
<1>15. \A o \in Orgs : /\ cooldown[o] \in Nat /\ cooldown'[o] \in Nat
                       /\ cooldown'[o] = Running => cooldown[o] = Running
                       /\ cooldown'[o] <= cooldown[o]
                       /\ cooldown'[o] < next \/ cooldown'[o] = Running
  BY Constants DEF CooldownsPast, TypeOK, Running
<1>16. CooldownsPast'
  <2> SUFFICES ASSUME NEW w \in Flows, Deciding(flow'[w])
               PROVE  flow'[w].status.cooldown < next \/ flow'[w].status.cooldown = Running
    BY <1>15 DEF CooldownsPast
  <2> QED
    BY DEF CooldownsPast, Deciding, Kept
<1>3. ActiveHeld'
  <2> SUFFICES ASSUME NEW w \in Flows, Active(flow[w])
               PROVE  claim'[flow[w].file] = claim[flow[w].file]
    BY DEF ActiveHeld, Active, HeldFor, Kept
  <2>1. flow[w] \in Flow
    BY DEF Active, TypeOK
  <2>2. HeldFor(flow[w].file, flow[w].id, flow[w].org, flow[w].time)
    BY DEF ActiveHeld
  <2>3. flow[w].id \in Ids
    BY <2>1, <2>2, FlowFields, JournalFields DEF HeldFor, TypeOK
  <2> QED
    BY <1>2, <2>1, <2>2, <2>3, FlowFields
<1>4. ActiveAlone'
  BY DEF ActiveAlone, Active, Kept
<1>5. WireHeld'
  <2> SUFFICES ASSUME NEW m \in wire
               PROVE  \E f \in Files : HeldFor(f, m.id, m.org, m.time)'
    BY DEF WireHeld
  <2>1. m.id \in Ids /\ m.org \in Orgs /\ m.time \in Nat
    BY Constants DEF TypeOK, Message
  <2>2. PICK f \in Files : HeldFor(f, m.id, m.org, m.time)
    BY DEF WireHeld
  <2> QED
    BY <1>2, <2>1, <2>2 DEF HeldFor
<1>6. WireAlone'
  BY DEF WireAlone, Active, Kept, TypeOK, Message
<1>7. Reading'
  BY DEF Reading, Reads, Active, Kept
<1>8. OneHolder'
  BY DEF OneHolder, Holding
<1>9. DecidedAlone'
  <2> SUFFICES ASSUME NEW f \in Files, claim[f] # None, Holding(f), claim'[f] = claim[f]
               PROVE  /\ used[claim[f].org] \subseteq seen[claim[f].id] \cup {claim[f].id}
                      /\ claim[f].id \notin used[claim[f].org] =>
                            /\ claim[f].left <= left'[claim[f].org]
                            /\ cooldown'[claim[f].org] < claim[f].id
    BY DEF DecidedAlone, Holding
  <2>1. claim[f].org \in Orgs /\ claim[f].left \in Nat /\ claim[f].id \in Nat
    BY JournalFields DEF TypeOK
  <2>2. left[claim[f].org] \in Nat /\ left'[claim[f].org] \in Nat
    BY <2>1, Constants DEF TypeOK
  <2> QED
    BY <1>15, <2>1, <2>2 DEF DecidedAlone
<1>10. OneResetPerReading'
  BY DEF OneResetPerReading
<1>11. AllFreshSee'
  <2> SUFFICES ASSUME NEW w \in Flows, Deciding(flow'[w]), flow'[w].resend = None, ~flow'[w].stale
               PROVE  FreshSees(flow[w])'
    BY DEF AllFreshSee, FreshSees
  <2>1. Deciding(flow[w]) /\ flow[w].resend = None /\ ~flow[w].stale /\ flow[w] \in Flow
    BY DEF Deciding, Kept, TypeOK
  <2>2. flow[w].org \in Orgs /\ flow[w].status \in Status /\ flow'[w].org = flow[w].org
        /\ flow'[w].status = flow[w].status /\ Remaining(flow'[w]) = Remaining(flow[w])
    BY <2>1, FlowFields DEF Kept, Remaining, Deciding
  <2>3. CASE /\ used[flow[w].org] = flow[w].status.spent /\ flow[w].status.left <= left[flow[w].org]
             /\ cooldown[flow[w].org] = Running => flow[w].status.cooldown = Running
    <3>1. flow[w].status.left \in Nat /\ left[flow[w].org] \in Nat /\ left'[flow[w].org] \in Nat
      BY <2>2, StatusFields, Constants DEF TypeOK
    <3> QED
      BY <1>15, <2>2, <2>3, <3>1 DEF FreshSees
  <2>4. ASSUME NEW f \in Files, claim[f] # None, claim[f].org = flow[w].org,
               claim[f].flight > Remaining(flow[w])
        PROVE  FreshSees(flow[w])'
    <3>1. claim'[f] = claim[f]
      BY <2>1, <2>4, RemainingType, JournalFields DEF inFlight, TypeOK
    <3> QED
      BY <2>2, <2>4, <3>1 DEF FreshSees, Remaining
  <2> QED
    BY <2>1, <2>3, <2>4 DEF AllFreshSee, FreshSees
<1>12. AllResendsSee'
  <2> SUFFICES ASSUME NEW w \in Flows, Deciding(flow'[w]), Resends(flow[w])', Hints(flow[w])'
               PROVE  claim'[flow'[w].file].id \in used[flow'[w].org]
    BY DEF AllResendsSee, ResendSees, Resends, Hints, Deciding
  <2>1. Deciding(flow[w]) /\ flow[w] \in Flow
    BY DEF Deciding, Kept, TypeOK
  <2>2. /\ flow'[w].file = flow[w].file /\ flow'[w].org = flow[w].org
        /\ flow'[w].resend = flow[w].resend /\ flow'[w].status = flow[w].status
        /\ flow[w].added => flow'[w].added
    BY <2>1 DEF Kept, Deciding
  <2>3. flow[w].file \in Files
    BY <2>1, FlowFields
  <2>4. claim'[flow[w].file] = claim[flow[w].file]
    BY <2>2, <2>3 DEF Resends, openClaim
  <2>5. Resends(flow[w]) /\ Hints(flow[w])
    BY <2>2, <2>4 DEF Resends, Hints, openClaim
  <2> QED
    BY <2>1, <2>2, <2>4, <2>5 DEF AllResendsSee, ResendSees
<1>17. AllFreshKnow'
  BY DEF AllFreshKnow, FreshKnows, Deciding, Kept
<1>13. AnswersTrue'
  BY DEF AnswersTrue, Active, Kept
<1>14. WireOne'
  BY DEF WireOne
<1> QED
  BY <1>1, <1>3, <1>4, <1>5, <1>6, <1>7, <1>8, <1>9, <1>10, <1>11, <1>12, <1>13, <1>14, <1>16,
     <1>17

\* A flow that has not begun changes, and it alone.
LEMMA PreFlow ==
    ASSUME IInv, TypeOK', NEW w \in Flows, ~Active(flow[w]), ~Active(flow'[w]),
           \A v \in Flows \ {w} : flow'[v] = flow[v],
           flow'[w] # None /\ flow'[w].resend # None => flow'[w].resend < next,
           Deciding(flow'[w]) => \/ flow'[w].status.cooldown < next
                                 \/ flow'[w].status.cooldown = Running,
           Reads(flow'[w]), FreshSees(flow'[w]), FreshKnows(flow'[w]), ResendSees(flow'[w]),
           UNCHANGED <<claim, wire, left, cooldown, used, next, seen>>
    PROVE  Protocol' /\ Decisions'
<1> USE DEF IInv, Protocol, Decisions
<1>1. \A v \in Flows : Active(flow'[v]) => v # w /\ flow'[v] = flow[v] /\ Active(flow[v])
  OBVIOUS
<1>2. \A v \in Flows : Active(flow[v]) => v # w /\ flow'[v] = flow[v]
  OBVIOUS
<1>3. IdsGiven'
  BY DEF IdsGiven
<1>4. ActiveHeld'
  BY <1>1 DEF ActiveHeld, Active, HeldFor
<1>5. ActiveAlone'
  BY <1>1 DEF ActiveAlone, Active
<1>6. WireHeld'
  BY DEF WireHeld, HeldFor
<1>7. WireAlone'
  <2> SUFFICES ASSUME NEW m \in wire
               PROVE  /\ m.by # None => /\ flow'[m.by] # None /\ flow'[m.by].at = "sent"
                                        /\ flow'[m.by].id = m.id /\ flow'[m.by].org = m.org
                      /\ m.by = None => \A v \in Flows : Active(flow'[v]) => flow'[v].id # m.id
    BY DEF WireAlone, Active
  <2>1. m.by \in Flows \cup {None}
    BY DEF TypeOK, Message
  <2>2. m.by # None => m.by \in Flows /\ Active(flow[m.by])
    BY <2>1 DEF WireAlone, Active
  <2> QED
    BY <1>1, <1>2, <2>2 DEF WireAlone
<1>8. Reading'
  BY DEF Reading, Reads, Active
<1>9. OneHolder'
  BY DEF OneHolder, Holding
<1>10. DecidedAlone'
  BY DEF DecidedAlone, Holding
<1>11. OneResetPerReading'
  BY DEF OneResetPerReading
<1>12. AllFreshSee'
  BY DEF AllFreshSee, FreshSees
<1>13. AllResendsSee'
  BY DEF AllResendsSee, ResendSees, Resends, Hints, openClaim
<1>14. AnswersTrue'
  BY <1>1 DEF AnswersTrue, Active
<1>15. WireOne'
  BY DEF WireOne
<1>16. CooldownsPast' /\ AllFreshKnow'
  BY DEF CooldownsPast, AllFreshKnow, FreshKnows
<1> QED
  BY <1>3, <1>4, <1>5, <1>6, <1>7, <1>8, <1>9, <1>10, <1>11, <1>12, <1>13, <1>14, <1>15, <1>16

\* upsert preserves the invariant.
LEMMA upsertStep ==
    ASSUME IInv, TypeOK', NEW f \in Files, NEW o \in Orgs, upsert(f, o)
    PROVE  Protocol' /\ Decisions'
<1>1. \A v \in Flows : Kept(v)
  BY ForgottenKept DEF upsert, forget, Kept, IInv, Active
<1>2. \A g \in Files : claim'[g] = claim[g] \/ (claim'[g] = None /\ ~inFlight(g))
  BY DEF upsert, forget, IInv, TypeOK
<1>3. \A p \in Orgs : left'[p] >= left[p]
  BY Constants DEF upsert, IInv, TypeOK
<1>4. UNCHANGED <<wire, left, cooldown, used, next, seen>>
  BY DEF upsert
<1> QED
  BY <1>1, <1>2, <1>3, <1>4, Quiet

\* remove preserves the invariant.
LEMMA removeStep ==
    ASSUME IInv, TypeOK', NEW f \in Files, removeCredential(f)
    PROVE  Protocol' /\ Decisions'
<1>1. \A v \in Flows : Kept(v)
  BY ForgottenKept DEF removeCredential, forget, IInv
<1>2. \A g \in Files : claim'[g] = claim[g] \/ (claim'[g] = None /\ ~inFlight(g))
  BY DEF removeCredential, forget, IInv, TypeOK
<1>3. \A p \in Orgs : left'[p] >= left[p]
  BY Constants DEF removeCredential, IInv, TypeOK
<1>4. UNCHANGED <<wire, left, cooldown, used, next, seen>>
  BY DEF removeCredential
<1> QED
  BY <1>1, <1>2, <1>3, <1>4, Quiet

\* Granted preserves the invariant: the flows that saw fewer resets are marked.
LEMMA GrantedStep ==
    ASSUME IInv, TypeOK', NEW o \in Orgs, Granted(o)
    PROVE  Protocol' /\ Decisions'
<1>1. ASSUME NEW v \in Flows
      PROVE  /\ Kept(v)
             /\ Deciding(flow'[v]) /\ flow'[v].resend = None /\ ~flow'[v].added
                   => left'[flow[v].org] = left[flow[v].org]
  <2>1. CASE flow[v] # None /\ flow[v].org = o /\ flow[v].status # None /\ flow[v].resend = None
    <3>1. flow[v] \in Flow /\ flow'[v] = [flow[v] EXCEPT !.added = TRUE]
      BY <2>1 DEF Granted, IInv, TypeOK
    <3>2. flow'[v] \in Flow /\ flow'[v].added
      BY <3>1 DEF Flow
    <3> QED
      BY <2>1, <3>1, <3>2, FlowFields DEF Kept, Flow
  <2>2. CASE ~(flow[v] # None /\ flow[v].org = o /\ flow[v].status # None /\ flow[v].resend = None)
    <3>1. flow'[v] = flow[v]
      BY <2>2 DEF Granted
    <3>2. \A p \in Orgs \ {o} : left'[p] = left[p]
      BY DEF Granted, IInv, TypeOK
    <3>3. flow[v] # None => flow[v].org \in Orgs
      BY FlowFields DEF IInv, TypeOK
    <3> QED
      BY <2>2, <3>1, <3>2, <3>3 DEF Kept, Deciding, Active
  <2> QED
    BY <2>1, <2>2
<1>2. \A p \in Orgs : left'[p] >= left[p]
  BY Constants DEF Granted, IInv, TypeOK
<1>3. UNCHANGED <<claim, wire, cooldown, used, next, seen>>
  BY DEF Granted
<1> QED
  BY <1>1, <1>2, <1>3, Quiet

\* CooldownEnds preserves the invariant.
LEMMA CooldownEndsStep ==
    ASSUME IInv, TypeOK', NEW o \in Orgs, CooldownEnds(o)
    PROVE  Protocol' /\ Decisions'
<1>1. \A v \in Flows : Kept(v)
  BY DEF CooldownEnds, Kept, Active
<1>2. \A p \in Orgs : left'[p] >= left[p]
  BY Constants DEF CooldownEnds, IInv, TypeOK
<1>3. \A p \in Orgs : cooldown'[p] = cooldown[p] \/ (cooldown[p] = Running /\ cooldown'[p] = next - 1)
  BY DEF CooldownEnds, IInv, TypeOK
<1>4. UNCHANGED <<claim, wire, left, used, next, seen>>
  BY DEF CooldownEnds
<1> QED
  BY <1>1, <1>2, <1>3, <1>4, Quiet

\* target preserves the invariant.
LEMMA targetStep ==
    ASSUME IInv, TypeOK', NEW w \in Flows, NEW f \in Files, resetGrantTarget(w, f)
    PROVE  Protocol' /\ Decisions'
<1>1. /\ flow'[w].at = "status" /\ flow'[w].status = None /\ flow'[w].time = ReadTimeout
      /\ flow'[w].resend = IF openClaim(f) THEN claim[f].id ELSE None
      /\ \A v \in Flows \ {w} : flow'[v] = flow[v]
  BY DEF resetGrantTarget, IInv, TypeOK
<1>2. flow'[w] # None /\ flow'[w].resend # None => flow'[w].resend < next
  BY <1>1 DEF IInv, Protocol, IdsGiven, openClaim
<1>3. /\ ~Deciding(flow'[w]) /\ Reads(flow'[w])
      /\ FreshSees(flow'[w]) /\ FreshKnows(flow'[w]) /\ ResendSees(flow'[w])
  BY <1>1, Constants DEF Reads, FreshSees, FreshKnows, ResendSees, Deciding
<1>4. ~Active(flow[w]) /\ ~Active(flow'[w])
  BY <1>1 DEF Active, resetGrantTarget
<1> QED
  BY <1>1, <1>2, <1>3, <1>4, PreFlow DEF resetGrantTarget

\* The status is read: it shows what has been spent by then.
LEMMA readStatusStep ==
    ASSUME IInv, TypeOK', NEW w \in Flows, readStatus(w)
    PROVE  Protocol' /\ Decisions'
<1>1. flow[w] \in Flow /\ flow'[w] \in Flow \cup {None}
  BY DEF readStatus, IInv, TypeOK
<1>2. /\ flow'[w].at = "read" /\ flow'[w].time = flow[w].time /\ flow'[w].resend = flow[w].resend
      /\ flow'[w].org = flow[w].org /\ flow'[w].file = flow[w].file
      /\ flow'[w].status = [left |-> left[flow[w].org], cooldown |-> cooldown[flow[w].org],
                            spent |-> used[flow[w].org]]
      /\ \A v \in Flows \ {w} : flow'[v] = flow[v]
  BY <1>1 DEF readStatus, Flow, IInv, TypeOK
<1>3. ~Active(flow[w]) /\ ~Active(flow'[w])
  BY <1>2 DEF Active, readStatus
<1>4. flow'[w].resend # None => flow'[w].resend < next
  BY <1>2 DEF IInv, Protocol, IdsGiven, readStatus
<1>5. /\ left[flow[w].org] \in Nat /\ cooldown[flow[w].org] \in Nat
      /\ flow'[w].status \in Status
      /\ cooldown[flow[w].org] < next \/ cooldown[flow[w].org] = Running
  BY <1>1, <1>2, FlowFields, Constants DEF IInv, TypeOK, Status, Protocol, CooldownsPast, Running
<1>6. Reads(flow'[w])
  BY <1>2, <1>3, <1>5, Constants DEF Reads, IInv, Protocol, Reading, readStatus
<1>7. FreshSees(flow'[w]) /\ FreshKnows(flow'[w])
  BY <1>2, <1>5 DEF FreshSees, FreshKnows
<1>8. ResendSees(flow'[w])
  <2> SUFFICES ASSUME openClaim(flow[w].file), claim[flow[w].file].org = flow[w].org,
                      \/ cooldown[flow[w].org] >= claim[flow[w].file].id
                      \/ left[flow[w].org] < claim[flow[w].file].left
               PROVE  claim[flow[w].file].id \in used[flow[w].org]
    BY <1>2 DEF ResendSees, Resends, Hints
  <2>1. flow[w].file \in Files /\ claim[flow[w].file] \in Journal
    BY <1>1, FlowFields DEF IInv, TypeOK, openClaim
  <2>2. Holding(flow[w].file)
    BY DEF Holding, openClaim
  <2>3. claim[flow[w].file].left \in Nat /\ claim[flow[w].file].id \in Nat
    BY <2>1, JournalFields
  <2> QED
    BY <1>5, <2>1, <2>2, <2>3 DEF IInv, Decisions, DecidedAlone
<1> QED
  <2>1. flow'[w].status.cooldown < next \/ flow'[w].status.cooldown = Running
    BY <1>2, <1>5
  <2>2. UNCHANGED <<claim, wire, left, cooldown, used, next, seen>>
    BY DEF readStatus
  <2> QED
    BY <1>2, <1>3, <1>4, <1>6, <1>7, <1>8, <2>1, <2>2, PreFlow

\* readReturns preserves the invariant.
LEMMA readReturnsStep ==
    ASSUME IInv, TypeOK', NEW w \in Flows, readReturns(w)
    PROVE  Protocol' /\ Decisions'
<1>1. flow[w] \in Flow
  BY DEF readReturns, IInv, TypeOK
<1>2. /\ flow'[w].at = "profile" /\ flow'[w].time = ReadTimeout
      /\ flow'[w].resend = flow[w].resend /\ flow'[w].stale = flow[w].stale
      /\ flow'[w].org = flow[w].org /\ flow'[w].file = flow[w].file
      /\ flow'[w].status = flow[w].status /\ flow'[w].added = flow[w].added
      /\ \A v \in Flows \ {w} : flow'[v] = flow[v]
  BY <1>1 DEF readReturns, Flow, IInv, TypeOK
<1>3. ~Active(flow[w]) /\ ~Active(flow'[w])
  BY <1>2 DEF Active, readReturns
<1>4. flow'[w].resend # None => flow'[w].resend < next
  BY <1>2 DEF IInv, Protocol, IdsGiven, readReturns
<1>5. flow[w].status # None
  BY <1>3 DEF IInv, Protocol, Reading, Reads, readReturns
<1>6. Reads(flow'[w])
  BY <1>2, <1>3, <1>5, Constants DEF Reads, readReturns
<1>7. Deciding(flow[w]) /\ Remaining(flow[w]) >= Remaining(flow'[w]) /\ Remaining(flow[w]) \in Nat
      /\ Remaining(flow'[w]) \in Nat
  BY <1>1, <1>2, <1>5, FlowFields, Constants DEF Deciding, Remaining, readReturns
<1>8. FreshSees(flow'[w])
  <2>1. FreshSees(flow[w])
    BY DEF IInv, Decisions, AllFreshSee
  <2>2. \A f \in Files : claim[f] # None => claim[f].flight \in Nat
    BY JournalFields DEF IInv, TypeOK
  <2> QED
    BY <1>2, <1>7, <2>1, <2>2 DEF FreshSees
<1>9. ResendSees(flow'[w])
  BY <1>2, <1>7 DEF ResendSees, Resends, Hints, IInv, Decisions, AllResendsSee
<1>10. FreshKnows(flow'[w])
  BY <1>2, <1>7 DEF FreshKnows, IInv, Decisions, AllFreshKnow
<1>11. flow'[w].status.cooldown < next \/ flow'[w].status.cooldown = Running
  BY <1>2, <1>7 DEF IInv, Protocol, CooldownsPast
<1>12. UNCHANGED <<claim, wire, left, cooldown, used, next, seen>>
  BY DEF readReturns
<1> QED
  BY <1>2, <1>3, <1>4, <1>6, <1>8, <1>9, <1>10, <1>11, <1>12, PreFlow

\* readFails preserves the invariant.
LEMMA readFailsStep ==
    ASSUME IInv, TypeOK', NEW w \in Flows, readFails(w)
    PROVE  Protocol' /\ Decisions'
<1>1. flow[w] \in Flow
  BY DEF readFails, IInv, TypeOK
<1>2. /\ flow'[w].at = "profile" /\ flow'[w].time = ReadTimeout
      /\ flow'[w].resend = flow[w].resend /\ flow'[w].status = None
      /\ \A v \in Flows \ {w} : flow'[v] = flow[v]
  BY <1>1 DEF readFails, Flow, IInv, TypeOK
<1>3. ~Active(flow[w]) /\ ~Active(flow'[w])
  BY <1>2 DEF Active, readFails
<1>4. flow'[w].resend # None => flow'[w].resend < next
  BY <1>2 DEF IInv, Protocol, IdsGiven, readFails
<1>5. /\ ~Deciding(flow'[w]) /\ Reads(flow'[w])
      /\ FreshSees(flow'[w]) /\ FreshKnows(flow'[w]) /\ ResendSees(flow'[w])
  BY <1>2, Constants DEF Reads, FreshSees, FreshKnows, ResendSees, Deciding, readFails
<1> QED
  BY <1>2, <1>3, <1>4, <1>5, PreFlow DEF readFails

-----------------------------------------------------------------------------
(* Beginning, sending and settling *)

\* A claim that is on its way, or that a flow has begun, is in flight.
LEMMA InFlight ==
    ASSUME IInv
    PROVE  /\ \A v \in Flows : Active(flow[v]) =>
                  /\ flow[v] \in Flow /\ flow[v].file \in Files /\ flow[v].id \in Ids
                  /\ claim[flow[v].file] \in Journal /\ inFlight(flow[v].file)
                  /\ claim[flow[v].file].id = flow[v].id /\ claim[flow[v].file].org = flow[v].org
           /\ \A m \in wire : \E g \in Files :
                  /\ HeldFor(g, m.id, m.org, m.time)
                  /\ claim[g] \in Journal /\ inFlight(g) /\ claim[g].flight > 2 * ReadTimeout
                  /\ claim[g].id = m.id /\ claim[g].org = m.org
<1> USE DEF IInv, Protocol
<1>1. ASSUME NEW v \in Flows, Active(flow[v])
      PROVE  /\ flow[v] \in Flow /\ flow[v].file \in Files /\ flow[v].id \in Ids
             /\ claim[flow[v].file] \in Journal /\ inFlight(flow[v].file)
             /\ claim[flow[v].file].id = flow[v].id /\ claim[flow[v].file].org = flow[v].org
  <2>1. flow[v] \in Flow
    BY <1>1 DEF Active, TypeOK
  <2>2. flow[v].file \in Files /\ flow[v].time \in Nat
    BY <2>1, FlowFields
  <2>3. HeldFor(flow[v].file, flow[v].id, flow[v].org, flow[v].time)
    BY <1>1 DEF ActiveHeld
  <2>4. claim[flow[v].file] \in Journal
    BY <2>2, <2>3 DEF HeldFor, TypeOK
  <2> QED
    BY <2>1, <2>2, <2>3, <2>4, JournalFields, Constants DEF HeldFor, inFlight
<1>2. ASSUME NEW m \in wire
      PROVE  \E g \in Files :
                  /\ HeldFor(g, m.id, m.org, m.time)
                  /\ claim[g] \in Journal /\ inFlight(g) /\ claim[g].flight > 2 * ReadTimeout
                  /\ claim[g].id = m.id /\ claim[g].org = m.org
  <2>1. PICK g \in Files : HeldFor(g, m.id, m.org, m.time)
    BY DEF WireHeld
  <2>2. m.time \in Nat
    BY Constants DEF TypeOK, Message
  <2>3. claim[g] \in Journal
    BY <2>1 DEF HeldFor, TypeOK
  <2> QED
    BY <2>1, <2>2, <2>3, JournalFields, Constants DEF HeldFor, inFlight
<1> QED
  BY <1>1, <1>2

\* What the flow's step does.
LEMMA BegunEffect ==
    ASSUME TypeOK, NEW w \in Flows, mayBegin(w), NEW j \in Journal, Begun(w, j)
    PROVE  /\ flow[w] \in Flow /\ flow[w].file \in Files /\ flow[w].at = "profile"
           /\ claim'[flow[w].file] = j
           /\ \A g \in Files \ {flow[w].file} : claim'[g] = claim[g]
           /\ \A v \in Flows \ {w} :
                 /\ Kept(v)
                 /\ Deciding(flow'[v]) /\ flow'[v].resend = None => flow'[v].stale
                 /\ flow'[v] # None => flow'[v].added = flow[v].added
           /\ flow'[w] \in Flow /\ flow'[w].at = "begun" /\ flow'[w].id = j.id
           /\ flow'[w].time = 0 /\ flow'[w].status = None /\ flow'[w].file = flow[w].file
           /\ flow'[w].org = flow[w].org /\ flow'[w].resend = flow[w].resend
           /\ flow'[w].added = flow[w].added
           /\ flow'[w].answer \in landedAnswer(j, flow[w].status)
<1>1. flow[w] \in Flow /\ flow[w].at = "profile"
  BY DEF TypeOK, mayBegin
<1>2. flow[w].file \in Files
  BY <1>1, FlowFields
<1>3. PICK a \in landedAnswer(j, flow[w].status) :
          flow' = [Outdated EXCEPT ![w] = [@ EXCEPT !.at = "begun", !.id = j.id, !.time = 0,
                                                    !.answer = a, !.status = None]]
  BY DEF Begun
<1>4. flow' \in [Flows -> Flow \cup {None}]
  BY BegunType
<1>5. Outdated \in [Flows -> Flow \cup {None}]
      /\ Outdated[w] \in {flow[w], [flow[w] EXCEPT !.stale = TRUE]}
  BY OutdatedType DEF Outdated
<1>6. Outdated[w] \in Flow /\ Outdated[w].file = flow[w].file /\ Outdated[w].org = flow[w].org
      /\ Outdated[w].resend = flow[w].resend /\ Outdated[w].added = flow[w].added
  BY <1>1, <1>5 DEF Flow
<1>7. flow'[w] = [Outdated[w] EXCEPT !.at = "begun", !.id = j.id, !.time = 0,
                                     !.answer = a, !.status = None]
  BY <1>3, <1>5
<1>8. /\ flow'[w].at = "begun" /\ flow'[w].id = j.id
      /\ flow'[w].time = 0 /\ flow'[w].status = None /\ flow'[w].file = flow[w].file
      /\ flow'[w].org = flow[w].org /\ flow'[w].resend = flow[w].resend
      /\ flow'[w].answer = a /\ flow'[w].added = flow[w].added
  BY <1>6, <1>7 DEF Flow
<1>9. flow'[w] \in Flow
  <2>1. a \in Answers /\ j.id \in Ids
    BY LandedType, JournalFields DEF Answers
  <2> QED
    BY <1>6, <1>7, <2>1, Times DEF Flow
<1>10. \A v \in Flows \ {w} : flow'[v] = Outdated[v]
  BY <1>3, <1>5
<1>11. \A v \in Flows \ {w} :
           /\ Kept(v)
           /\ Deciding(flow'[v]) /\ flow'[v].resend = None => flow'[v].stale
           /\ flow'[v] # None => flow'[v].added = flow[v].added
  BY <1>10, OutdatedKept
<1>12. claim'[flow[w].file] = j /\ \A g \in Files \ {flow[w].file} : claim'[g] = claim[g]
  BY <1>2 DEF Begun, TypeOK
<1> QED
  BY <1>1, <1>2, <1>8, <1>9, <1>11, <1>12

\* A claim that is begun is alone: no flow and no request has its id, and no other
\* journal its organization.
LEMMA BegunStep ==
    ASSUME IInv, TypeOK', NEW w \in Flows, mayBegin(w), NEW j \in Journal, Begun(w, j),
           j.org = flow[w].org, j.flight = ClaimLease, j.id < next', next <= next',
           \A g \in Files \ {flow[w].file} : claim[g] # None => claim[g].id # j.id,
           \/ j.id = next
           \/ /\ openClaim(flow[w].file) /\ claim[flow[w].file].id = j.id
              /\ claim[flow[w].file].org = j.org /\ claim[flow[w].file].left = j.left,
           \A i \in Ids : i < next => seen'[i] = seen[i],
           used[j.org] \subseteq seen'[j.id] \cup {j.id},
           j.id \notin used[j.org] => j.left <= left[j.org] /\ cooldown[j.org] < j.id,
           (flow[w].resend = None => ~flow[w].added)
              /\ "already_used" \in landedAnswer(j, flow[w].status) => j.id \in used[j.org],
           UNCHANGED <<wire, left, cooldown, used>>
    PROVE  Protocol' /\ Decisions'
<1> DEFINE f == flow[w].file
<1> USE DEF IInv, Protocol, Decisions
<1>0. next \in Nat /\ next' \in Nat /\ Ids \subseteq Nat
  BY Constants DEF TypeOK, Ids
<1>1. /\ f \in Files /\ claim'[f] = j /\ j # None
      /\ \A g \in Files \ {f} : claim'[g] = claim[g]
      /\ ~Active(flow[w])
  BY BegunEffect, JournalFields DEF Active
<1>2. ~inFlight(f) /\ \A g \in Files \ {f} : ~holdsOrganization(g, j.org)
  BY DEF mayBegin
<1>3. \A v \in Flows : Active(flow[v]) => v # w /\ flow[v].file \in Files \ {f} /\ flow[v].id # j.id
  BY <1>1, <1>2, InFlight DEF inFlight
<1>4. \A v \in Flows \ {w} : Kept(v) /\ (Active(flow'[v]) <=> Active(flow[v]))
  BY BegunEffect DEF Kept, Active
<1>5. \A m \in wire : \E g \in Files \ {f} : HeldFor(g, m.id, m.org, m.time) /\ m.id # j.id
  <2> SUFFICES ASSUME NEW m \in wire
               PROVE  \E g \in Files \ {f} : HeldFor(g, m.id, m.org, m.time) /\ m.id # j.id
    OBVIOUS
  <2>1. PICK g \in Files : HeldFor(g, m.id, m.org, m.time) /\ inFlight(g) /\ claim[g].id = m.id
    BY InFlight
  <2> QED
    BY <1>1, <1>2, <2>1 DEF inFlight
<1>6. IdsGiven'
  <2>1. \A g \in Files : claim'[g] # None => claim'[g].id \in Ids /\ claim'[g].id < next'
    <3> SUFFICES ASSUME NEW g \in Files, claim'[g] # None
                 PROVE  claim'[g].id \in Ids /\ claim'[g].id < next'
      OBVIOUS
    <3>1. CASE g = f
      BY <1>1, <3>1, JournalFields
    <3>2. CASE g # f
      <4>1. claim'[g] = claim[g] /\ claim[g] \in Journal /\ claim[g].id < next
        BY <1>1, <3>2 DEF IdsGiven, TypeOK
      <4>2. claim[g].id \in Ids /\ claim[g].id \in Nat
        BY <1>0, <4>1, JournalFields
      <4> QED
        BY <1>0, <4>1, <4>2
    <3> QED
      BY <3>1, <3>2
  <2>2. \A g, h \in Files : claim'[g] # None /\ claim'[h] # None /\ claim'[g].id = claim'[h].id => g = h
    BY <1>1 DEF IdsGiven
  <2>3. \A o \in Orgs : \A i \in used[o] : i \in Nat /\ i < next'
    <3> SUFFICES ASSUME NEW o \in Orgs, NEW i \in used[o]
                 PROVE  i \in Nat /\ i < next'
      OBVIOUS
    <3>1. i \in Nat /\ i < next
      BY <1>0 DEF IdsGiven, TypeOK
    <3> QED
      BY <1>0, <3>1
  <2>4. ASSUME NEW v \in Flows, flow'[v] # None, flow'[v].resend # None
        PROVE  flow'[v].resend < next'
    <3>1. flow[v] # None /\ flow'[v].resend = flow[v].resend
      BY <1>4, <2>4, BegunEffect DEF Kept, mayBegin
    <3>2. flow[v].resend \in Ids
      BY <2>4, <3>1, FlowFields DEF TypeOK
    <3>3. flow[v].resend < next
      BY <2>4, <3>1 DEF IdsGiven
    <3>4. flow[v].resend \in Nat
      BY <1>0, <3>2
    <3> QED
      BY <1>0, <3>1, <3>3, <3>4
  <2> QED
    BY <2>1, <2>2, <2>3, <2>4 DEF IdsGiven
<1>19. CooldownsPast'
  <2>1. \A o \in Orgs : cooldown[o] \in Nat
    BY Constants DEF TypeOK, Running
  <2>2. ASSUME NEW v \in Flows, Deciding(flow'[v])
        PROVE  flow'[v].status.cooldown < next' \/ flow'[v].status.cooldown = Running
    <3>1. v # w
      BY <2>2, BegunEffect DEF Deciding
    <3>2. Deciding(flow[v]) /\ flow'[v].status = flow[v].status /\ flow[v] \in Flow
      BY <1>4, <2>2, <3>1 DEF Kept, Deciding, TypeOK
    <3>3. flow[v].status.cooldown \in Nat
      BY <3>2, FlowFields, StatusFields DEF Deciding
    <3> QED
      BY <1>0, <3>2, <3>3 DEF CooldownsPast
  <2> QED
    BY <1>0, <2>1, <2>2 DEF CooldownsPast
<1>20. AllFreshKnow'
  <2> SUFFICES ASSUME NEW v \in Flows, Deciding(flow'[v]), flow'[v].resend = None, ~flow'[v].added
               PROVE  flow'[v].status.left >= left[flow'[v].org]
    BY DEF AllFreshKnow, FreshKnows, Deciding
  <2>1. v # w
    BY BegunEffect DEF Deciding
  <2>2. /\ Deciding(flow[v]) /\ flow[v].resend = None /\ ~flow[v].added
        /\ flow'[v].org = flow[v].org /\ flow'[v].status = flow[v].status
    BY <1>4, <2>1 DEF Kept, Deciding
  <2> QED
    BY <2>2 DEF AllFreshKnow, FreshKnows
<1>7. ActiveHeld'
  <2> SUFFICES ASSUME NEW v \in Flows, Active(flow'[v])
               PROVE  /\ HeldFor(flow[v].file, flow[v].id, flow[v].org, flow[v].time)'
                      /\ flow'[v].at = "begun" =>
                            flow'[v].time = 0 /\ claim'[flow'[v].file].flight = ClaimLease
    BY DEF ActiveHeld, Active
  <2>1. CASE v = w
    BY <1>1, <2>1, BegunEffect, Constants DEF HeldFor
  <2>2. CASE v # w
    BY <1>1, <1>3, <1>4, <2>2 DEF ActiveHeld, HeldFor, Kept, Active
  <2> QED
    BY <2>1, <2>2
<1>8. ActiveAlone'
  <2> SUFFICES ASSUME NEW u \in Flows, NEW v \in Flows, Active(flow'[u]), Active(flow'[v]),
                      flow'[u].id = flow'[v].id, u # v
               PROVE  FALSE
    BY DEF ActiveAlone, Active
  <2>1. ASSUME NEW x \in Flows, x # w, Active(flow'[x])
        PROVE  Active(flow[x]) /\ flow'[x].id = flow[x].id /\ flow[x].id # j.id
    BY <1>3, <1>4, <2>1 DEF Kept, Active
  <2> QED
    BY <2>1, BegunEffect DEF ActiveAlone
<1>9. WireHeld'
  BY <1>1, <1>5 DEF WireHeld, HeldFor
<1>10. WireAlone'
  <2> SUFFICES ASSUME NEW m \in wire
               PROVE  /\ m.by # None => /\ flow'[m.by] # None /\ flow'[m.by].at = "sent"
                                        /\ flow'[m.by].id = m.id /\ flow'[m.by].org = m.org
                      /\ m.by = None => \A v \in Flows : Active(flow'[v]) => flow'[v].id # m.id
    BY DEF WireAlone, Active
  <2>1. m.by \in Flows \cup {None} /\ m.id # j.id
    BY <1>5 DEF TypeOK, Message
  <2>2. m.by # None => m.by \in Flows \ {w} /\ Active(flow[m.by])
    BY <1>1, <2>1 DEF WireAlone, Active
  <2>3. m.by = None => \A v \in Flows : Active(flow'[v]) => flow'[v].id # m.id
    BY <1>4, <2>1, BegunEffect DEF WireAlone, Kept, Active
  <2> QED
    BY <1>4, <2>2, <2>3 DEF WireAlone, Kept, Active
<1>11. Reading'
  <2>1. \A v \in Flows : Reads(flow'[v])
    BY <1>4, BegunEffect DEF Reading, Reads, Kept, Active
  <2> QED
    BY <2>1 DEF Reading, Reads, Active
<1>12. OneHolder'
  <2>1. \A g \in Files \ {f} : Holding(g) => claim[g].org # j.org
    BY <1>2 DEF Holding, holdsOrganization, openClaim, inFlight
  <2> QED
    BY <1>1, <2>1 DEF OneHolder, Holding
<1>13. DecidedAlone'
  <2>1. \A g \in Files \ {f} : claim[g] # None => seen'[claim[g].id] = seen[claim[g].id]
    BY <1>0, JournalFields DEF IdsGiven, TypeOK
  <2> QED
    BY <1>1, <2>1 DEF DecidedAlone, Holding
<1>14. OneResetPerReading'
  <2>1. \A o \in Orgs : \A i \in used[o] : seen'[i] = seen[i]
    BY DEF IdsGiven, TypeOK
  <2> QED
    BY <2>1 DEF OneResetPerReading
<1>15. AllFreshSee'
  <2>1. \A v \in Flows : Deciding(flow'[v]) /\ flow'[v].resend = None => flow'[v].stale
    BY BegunEffect DEF Deciding
  <2> QED
    BY <2>1 DEF AllFreshSee, FreshSees, Deciding
<1>16. AllResendsSee'
  <2> SUFFICES ASSUME NEW v \in Flows, Deciding(flow'[v]), Resends(flow[v])', Hints(flow[v])'
               PROVE  claim'[flow'[v].file].id \in used[flow'[v].org]
    BY DEF AllResendsSee, ResendSees, Resends, Hints, Deciding
  <2>1. v # w
    BY BegunEffect DEF Deciding
  <2>2. /\ Deciding(flow[v]) /\ flow[v] \in Flow
        /\ flow'[v].file = flow[v].file /\ flow'[v].org = flow[v].org
        /\ flow'[v].resend = flow[v].resend /\ flow'[v].status = flow[v].status
        /\ flow'[v].added = flow[v].added
    BY <2>1, BegunEffect DEF Kept, Deciding, TypeOK
  <2>3. flow[v].file \in Files /\ flow[v].status \in Status
    BY <2>2, FlowFields DEF Deciding
  <2>4. CASE flow[v].file # f
    <3>1. Resends(flow[v]) /\ Hints(flow[v]) /\ claim'[flow[v].file] = claim[flow[v].file]
      BY <1>1, <2>2, <2>3, <2>4 DEF Resends, Hints, openClaim
    <3> QED
      BY <2>2, <3>1 DEF AllResendsSee, ResendSees
  <2>5. CASE flow[v].file = f
    <3>1. claim'[flow'[v].file] = j /\ j.org = flow[v].org
      BY <1>1, <2>2, <2>5 DEF Resends
    <3>2. CASE j.id # next
      <4>1. Resends(flow[v]) /\ Hints(flow[v])
        BY <2>2, <2>5, <3>1, <3>2 DEF Resends, Hints
      <4> QED
        BY <2>2, <2>5, <3>1, <3>2, <4>1 DEF AllResendsSee, ResendSees
    <3>3. CASE j.id = next
      <4>1. flow[v].resend = None
        <5>1. flow[v].resend # None => flow[v].resend = next
          BY <2>2, <3>1, <3>3 DEF Resends
        <5>2. flow[v].resend # None => flow[v].resend < next
          BY <2>2 DEF IdsGiven, Deciding
        <5> QED
          BY <1>0, <5>1, <5>2
      <4>2. flow[v].status.left < j.left /\ ~flow[v].added
        <5>1. ~(flow[v].status.cooldown >= next /\ flow[v].status.cooldown # Running)
          BY <1>0, <2>2, <2>3, StatusFields DEF CooldownsPast
        <5> QED
          BY <2>2, <3>1, <3>3, <4>1, <5>1 DEF Hints
      <4>3. flow[v].status.left >= left[j.org]
        BY <2>2, <3>1, <4>1, <4>2 DEF AllFreshKnow, FreshKnows
      <4>4. j.left \in Nat /\ left[j.org] \in Nat /\ flow[v].status.left \in Nat
        BY <2>3, JournalFields, StatusFields, Constants DEF TypeOK
      <4> QED
        BY <2>2, <3>1, <4>2, <4>3, <4>4
    <3> QED
      BY <3>2, <3>3
  <2> QED
    BY <2>4, <2>5
<1>17. AnswersTrue'
  <2> SUFFICES ASSUME NEW v \in Flows, Active(flow'[v])
               PROVE  /\ flow'[v].answer = "reset" => flow'[v].id \in used[flow'[v].org]
                      /\ flow'[v].answer = "already_used" /\ (flow'[v].resend = None => ~flow'[v].added)
                            => flow'[v].id \in used[flow'[v].org]
    BY DEF AnswersTrue, Active
  <2>1. CASE v = w
    <3>1. flow'[w].answer # "reset"
      BY BegunEffect, LandedType
    <3> QED
      BY <2>1, <3>1, BegunEffect
  <2>2. CASE v # w
    BY <1>4, <2>2 DEF AnswersTrue, Kept, Active
  <2> QED
    BY <2>1, <2>2
<1>18. WireOne'
  BY DEF WireOne
<1> QED
  BY <1>6, <1>7, <1>8, <1>9, <1>10, <1>11, <1>12, <1>13, <1>14, <1>15, <1>16, <1>17, <1>18,
     <1>19, <1>20

\* beginFresh preserves the invariant.
LEMMA beginFreshStep ==
    ASSUME IInv, TypeOK', NEW w \in Flows, beginFresh(w)
    PROVE  Protocol' /\ Decisions'
<1> DEFINE j == [org |-> flow[w].org, id |-> next, retry |-> RetryWindow, flight |-> ClaimLease,
                 left |-> flow[w].status.left, again |-> FALSE, unconfirmed |-> FALSE]
<1>1. flow[w] \in Flow /\ flow[w].at = "profile" /\ mayBegin(w) /\ flow[w].file \in Files
  BY FlowFields DEF beginFresh, mayBegin, IInv, TypeOK
<1>2. flow[w].status \in Status /\ Deciding(flow[w])
  BY <1>1, FlowFields DEF IInv, Protocol, Reading, Reads, Active, Deciding, beginFresh
<1>3. next \in Ids /\ next \in Nat /\ next' = next + 1
  BY Constants DEF beginFresh, IInv, TypeOK, Ids
<1>4. flow[w].org \in Orgs /\ flow[w].status.left \in 0..MaxResets
  BY <1>1, <1>2, FlowFields DEF Status
<1>5. j \in Journal
  BY <1>3, <1>4, Times DEF Journal
<1>6. Begun(w, j) /\ j.org = flow[w].org /\ j.flight = ClaimLease /\ j.id = next
      /\ j.left = flow[w].status.left /\ j.again = FALSE
  BY DEF beginFresh
<1> HIDE DEF j
<1>7. /\ used[flow[w].org] = flow[w].status.spent /\ flow[w].status.left <= left[flow[w].org]
      /\ cooldown[flow[w].org] < next
  <2>3. flow[w].status.cooldown # Running
    BY <1>1 DEF IInv, Protocol, Reading, Reads, Active, mayBegin, beginFresh
  <2>4. cooldown[flow[w].org] < next \/ cooldown[flow[w].org] = Running
    BY <1>4 DEF IInv, Protocol, CooldownsPast
  <2> SUFFICES ASSUME NEW g \in Files, claim[g] # None, claim[g].org = flow[w].org,
                      claim[g].flight > Remaining(flow[w])
               PROVE  FALSE
    BY <1>2, <2>3, <2>4 DEF IInv, Decisions, AllFreshSee, FreshSees, beginFresh
  <2>1. claim[g].flight > 0
    BY <1>1, RemainingType, JournalFields DEF IInv, TypeOK
  <2> QED
    BY <1>1, <2>1 DEF mayBegin, holdsOrganization, inFlight
<1>8. \A g \in Files : claim[g] # None => claim[g].id # j.id
  BY <1>3, <1>6, JournalFields DEF IInv, Protocol, IdsGiven
<1>9. \A i \in Ids : i < next => seen'[i] = seen[i]
  BY <1>3 DEF beginFresh, IInv, TypeOK, Ids
<1>10. seen'[next] = flow[w].status.spent
  BY <1>3 DEF beginFresh, IInv, TypeOK
<1>11. "already_used" \notin landedAnswer(j, flow[w].status)
  BY <1>6 DEF landedAnswer, claimLanded
<1>12. UNCHANGED <<wire, left, cooldown, used>>
  BY DEF beginFresh
<1> QED
  BY <1>1, <1>3, <1>5, <1>6, <1>7, <1>8, <1>9, <1>10, <1>11, <1>12, BegunStep

\* beginResend preserves the invariant.
LEMMA beginResendStep ==
    ASSUME IInv, TypeOK', NEW w \in Flows, beginResend(w)
    PROVE  Protocol' /\ Decisions'
<1> DEFINE open == claim[flow[w].file]
           j == [open EXCEPT !.flight = ClaimLease, !.again = TRUE]
<1>1. flow[w] \in Flow /\ flow[w].at = "profile" /\ mayBegin(w) /\ flow[w].file \in Files
  BY FlowFields DEF beginResend, mayBegin, IInv, TypeOK
<1>2. open \in Journal /\ openClaim(flow[w].file) /\ Holding(flow[w].file)
      /\ open.org = flow[w].org /\ flow[w].resend \in {None, open.id}
  BY <1>1 DEF beginResend, openClaim, Holding, IInv, TypeOK
<1>3. j \in Journal /\ j.flight = ClaimLease /\ j.again = TRUE /\ j.id = open.id
      /\ j.org = open.org /\ j.left = open.left
  BY <1>2, Times DEF Journal
<1>4. Begun(w, j)
  BY DEF beginResend
<1>5. open.id \in Ids /\ open.id < next /\ next \in Nat
  BY <1>1, <1>2, JournalFields, Constants DEF IInv, TypeOK, Protocol, IdsGiven, openClaim
<1> HIDE DEF j
<1>6. \A g \in Files \ {flow[w].file} : claim[g] # None => claim[g].id # j.id
  BY <1>1, <1>2, <1>3 DEF IInv, Protocol, IdsGiven, openClaim
<1>7. /\ used[j.org] \subseteq seen[j.id] \cup {j.id}
      /\ j.id \notin used[j.org] => j.left <= left[j.org] /\ cooldown[j.org] < j.id
  BY <1>1, <1>2, <1>3 DEF IInv, Decisions, DecidedAlone
<1>8. (flow[w].resend = None => ~flow[w].added)
         /\ "already_used" \in landedAnswer(j, flow[w].status) => j.id \in used[j.org]
  <2> SUFFICES ASSUME flow[w].resend = None => ~flow[w].added, claimLanded(j, flow[w].status)
               PROVE  j.id \in used[j.org]
    BY DEF landedAnswer
  <2>1. Deciding(flow[w]) /\ flow[w].status \in Status
    BY <1>1, FlowFields DEF Deciding, claimLanded
  <2>2. Resends(flow[w])
    BY <1>2 DEF Resends
  <2>3. flow[w].resend = None => flow[w].status.cooldown # Running
    BY <1>1 DEF IInv, Protocol, Reading, Reads, Active, mayBegin
  <2>4. Hints(flow[w])
    BY <1>3, <2>3 DEF Hints, claimLanded
  <2> QED
    BY <1>2, <1>3, <2>1, <2>2, <2>4 DEF IInv, Decisions, AllResendsSee, ResendSees
<1>9. UNCHANGED <<wire, left, cooldown, used, next, seen>>
  BY DEF beginResend
<1> QED
  BY <1>1, <1>2, <1>3, <1>4, <1>5, <1>6, <1>7, <1>8, <1>9, BegunStep

\* A flow that has begun goes on, or any flow ends: what depends on the flows.
LEMMA Moves ==
    ASSUME IInv, TypeOK', NEW w,
           \A v \in Flows \ {w} : flow'[v] = flow[v],
           w \in Flows =>
               \/ flow'[w] = None
               \/ /\ Active(flow[w]) /\ Active(flow'[w]) /\ flow'[w].at # "begun"
                  /\ flow'[w].id = flow[w].id /\ flow'[w].org = flow[w].org
                  /\ flow'[w].file = flow[w].file /\ flow'[w].resend = flow[w].resend
                  /\ flow'[w].added = flow[w].added
                  /\ HeldFor(flow[w].file, flow[w].id, flow[w].org, flow'[w].time),
           UNCHANGED <<claim, next>>
    PROVE  /\ ActiveHeld' /\ ActiveAlone' /\ Reading' /\ OneHolder'
           /\ \A v \in Flows : Deciding(flow'[v]) => flow'[v] = flow[v]
           /\ \A v \in Flows : Active(flow'[v]) =>
                 /\ Active(flow[v]) /\ flow'[v].id = flow[v].id /\ flow'[v].org = flow[v].org
                 /\ flow'[v].resend = flow[v].resend /\ flow'[v].added = flow[v].added
           /\ \A v \in Flows : flow'[v] # None /\ flow'[v].resend # None => flow'[v].resend < next
<1> USE DEF IInv, Protocol
<1>1. \A v \in Flows : Active(flow'[v]) =>
          /\ Active(flow[v]) /\ flow'[v].id = flow[v].id /\ flow'[v].org = flow[v].org
          /\ flow'[v].file = flow[v].file /\ flow'[v].resend = flow[v].resend
          /\ flow'[v].added = flow[v].added
  BY DEF Active
<1>2. \A v \in Flows : flow'[v] # None => flow[v] # None /\ flow'[v].resend = flow[v].resend
  BY DEF Active
<1>3. ActiveHeld'
  <2> SUFFICES ASSUME NEW v \in Flows, Active(flow'[v])
               PROVE  /\ HeldFor(flow[v].file, flow[v].id, flow[v].org, flow'[v].time)
                      /\ flow'[v].at = "begun" =>
                            flow'[v].time = 0 /\ claim[flow[v].file].flight = ClaimLease
    BY <1>1 DEF ActiveHeld, HeldFor, Active
  <2>1. CASE v = w
    BY <2>1 DEF Active
  <2>2. CASE v # w
    BY <2>2 DEF ActiveHeld
  <2> QED
    BY <2>1, <2>2
<1>4. ActiveAlone'
  BY <1>1 DEF ActiveAlone, Active
<1>5. \A v \in Flows : flow'[v] # None /\ ~Active(flow'[v]) => flow'[v] = flow[v]
  OBVIOUS
<1>6. Reading'
  BY <1>5 DEF Reading, Reads, Active
<1>7. OneHolder'
  BY DEF OneHolder, Holding
<1>8. \A v \in Flows : Deciding(flow'[v]) => flow'[v] = flow[v]
  BY <1>5 DEF Deciding, Active
<1>9. \A v \in Flows : flow'[v] # None /\ flow'[v].resend # None => flow'[v].resend < next
  BY <1>2 DEF IdsGiven
<1> QED
  BY <1>1, <1>3, <1>4, <1>6, <1>7, <1>8, <1>9

\* And what depends on what was spent, when nothing is.
LEMMA SpendsNothing ==
    ASSUME IInv, TypeOK',
           \A v \in Flows : Deciding(flow'[v]) => flow'[v] = flow[v],
           \A v \in Flows : flow'[v] # None /\ flow'[v].resend # None => flow'[v].resend < next,
           UNCHANGED <<claim, next, used, left, cooldown, seen>>
    PROVE  /\ IdsGiven' /\ CooldownsPast' /\ DecidedAlone' /\ OneResetPerReading'
           /\ AllFreshSee' /\ AllFreshKnow' /\ AllResendsSee'
<1> USE DEF IInv, Protocol, Decisions
<1>1. IdsGiven'
  BY DEF IdsGiven
<1>2. DecidedAlone' /\ OneResetPerReading'
  BY DEF DecidedAlone, Holding, OneResetPerReading
<1>3. AllFreshSee' /\ AllFreshKnow'
  BY DEF AllFreshSee, FreshSees, AllFreshKnow, FreshKnows, Deciding
<1>4. AllResendsSee'
  BY DEF AllResendsSee, ResendSees, Resends, Hints, Deciding, openClaim
<1>5. CooldownsPast'
  BY DEF CooldownsPast, Deciding
<1> QED
  BY <1>1, <1>2, <1>3, <1>4, <1>5

\* sendClaim preserves the invariant.
LEMMA sendClaimStep ==
    ASSUME IInv, TypeOK', NEW w \in Flows, sendClaim(w)
    PROVE  Protocol' /\ Decisions'
<1> DEFINE n == [id |-> flow[w].id, org |-> flow[w].org, by |-> w, time |-> ClaimTimeout]
<1> USE DEF IInv, Protocol, Decisions
<1>1. flow[w] \in Flow /\ Active(flow[w]) /\ flow[w].at = "begun"
  BY DEF sendClaim, TypeOK, Active
<1>2. flow'[w] \in Flow /\ flow'[w] = [flow[w] EXCEPT !.at = "sent", !.time = ClaimTimeout]
      /\ \A v \in Flows \ {w} : flow'[v] = flow[v]
  <2>1. flow'[w] = [flow[w] EXCEPT !.at = "sent", !.time = ClaimTimeout]
        /\ \A v \in Flows \ {w} : flow'[v] = flow[v]
    BY DEF sendClaim, TypeOK
  <2> QED
    BY <1>1, <2>1, Times DEF Flow
<1>3. /\ flow'[w].at = "sent" /\ flow'[w].time = ClaimTimeout /\ flow'[w].id = flow[w].id
      /\ flow'[w].org = flow[w].org /\ flow'[w].file = flow[w].file /\ flow'[w] # None
      /\ flow'[w].resend = flow[w].resend /\ flow'[w].answer = flow[w].answer
      /\ flow'[w].added = flow[w].added
  BY <1>1, <1>2, FlowFields DEF Flow
<1>4. Active(flow'[w])
  BY <1>3 DEF Active
<1>5. flow[w].file \in Files /\ HeldFor(flow[w].file, flow[w].id, flow[w].org, ClaimTimeout)
  <2>1. HeldFor(flow[w].file, flow[w].id, flow[w].org, flow[w].time)
        /\ claim[flow[w].file].flight = ClaimLease
    BY <1>1 DEF ActiveHeld
  <2> QED
    BY <1>1, <2>1, FlowFields, Constants DEF HeldFor
<1>6. /\ ActiveHeld' /\ ActiveAlone' /\ Reading' /\ OneHolder'
      /\ \A v \in Flows : Deciding(flow'[v]) => flow'[v] = flow[v]
      /\ \A v \in Flows : Active(flow'[v]) =>
            /\ Active(flow[v]) /\ flow'[v].id = flow[v].id /\ flow'[v].org = flow[v].org
            /\ flow'[v].resend = flow[v].resend /\ flow'[v].added = flow[v].added
      /\ \A v \in Flows : flow'[v] # None /\ flow'[v].resend # None => flow'[v].resend < next
  BY <1>1, <1>2, <1>3, <1>4, <1>5, Moves DEF sendClaim
<1>7. /\ IdsGiven' /\ CooldownsPast' /\ DecidedAlone' /\ OneResetPerReading'
      /\ AllFreshSee' /\ AllFreshKnow' /\ AllResendsSee'
  BY <1>6, SpendsNothing DEF sendClaim
<1>8. wire' = wire \cup {n} /\ \A m \in wire : m.by # w /\ m.by \in Flows \cup {None}
  <2>1. ASSUME NEW m \in wire PROVE m.by # w /\ m.by \in Flows \cup {None}
    <3>1. m.by \in Flows \cup {None}
      BY DEF TypeOK, Message
    <3>2. m.by # None => flow[m.by].at = "sent"
      BY DEF WireAlone
    <3> QED
      BY <1>1, <3>1, <3>2, Constants
  <2> QED
    BY <2>1 DEF sendClaim
<1>9. WireHeld'
  BY <1>5, <1>8 DEF WireHeld, HeldFor, sendClaim
<1>10. WireAlone'
  <2> SUFFICES ASSUME NEW m \in wire'
               PROVE  /\ m.by # None => /\ flow'[m.by] # None /\ flow'[m.by].at = "sent"
                                        /\ flow'[m.by].id = m.id /\ flow'[m.by].org = m.org
                      /\ m.by = None => \A v \in Flows : Active(flow'[v]) => flow'[v].id # m.id
    BY DEF WireAlone, Active
  <2>1. CASE m = n
    BY <1>3, <2>1, Constants
  <2>2. CASE m \in wire
    BY <1>2, <1>6, <1>8, <2>2 DEF WireAlone
  <2> QED
    BY <1>8, <2>1, <2>2
<1>11. WireOne'
  BY <1>8 DEF WireOne
<1>12. AnswersTrue'
  <2> SUFFICES ASSUME NEW v \in Flows, Active(flow'[v])
               PROVE  /\ flow'[v].answer = "reset" => flow'[v].id \in used[flow'[v].org]
                      /\ flow'[v].answer = "already_used" /\ (flow'[v].resend = None => ~flow'[v].added)
                            => flow'[v].id \in used[flow'[v].org]
    BY DEF AnswersTrue, Active, sendClaim
  <2>1. Active(flow[v]) /\ flow'[v].id = flow[v].id /\ flow'[v].org = flow[v].org
        /\ flow'[v].resend = flow[v].resend /\ flow'[v].answer = flow[v].answer
        /\ flow'[v].added = flow[v].added
    BY <1>2, <1>3, <1>6
  <2> QED
    BY <2>1 DEF AnswersTrue
<1> QED
  BY <1>6, <1>7, <1>9, <1>10, <1>11, <1>12

\* skipClaim preserves the invariant.
LEMMA skipClaimStep ==
    ASSUME IInv, TypeOK', NEW w \in Flows, skipClaim(w)
    PROVE  Protocol' /\ Decisions'
<1> USE DEF IInv, Protocol, Decisions
<1>1. flow[w] \in Flow /\ Active(flow[w]) /\ flow[w].at = "begun"
  BY DEF skipClaim, TypeOK, Active
<1>2. /\ flow'[w] = [flow[w] EXCEPT !.at = "settling"]
      /\ \A v \in Flows \ {w} : flow'[v] = flow[v]
  BY DEF skipClaim, TypeOK
<1>3. /\ flow'[w].at = "settling" /\ flow'[w].time = flow[w].time /\ flow'[w].id = flow[w].id
      /\ flow'[w].org = flow[w].org /\ flow'[w].file = flow[w].file /\ flow'[w] # None
      /\ flow'[w].resend = flow[w].resend /\ flow'[w].answer = flow[w].answer
      /\ flow'[w].added = flow[w].added
  <2>1. flow'[w] \in Flow
    BY <1>1, <1>2 DEF Flow
  <2> QED
    BY <1>1, <1>2, <2>1, FlowFields DEF Flow
<1>4. Active(flow'[w]) /\ HeldFor(flow[w].file, flow[w].id, flow[w].org, flow'[w].time)
  BY <1>1, <1>3 DEF Active, ActiveHeld
<1>5. /\ ActiveHeld' /\ ActiveAlone' /\ Reading' /\ OneHolder'
      /\ \A v \in Flows : Deciding(flow'[v]) => flow'[v] = flow[v]
      /\ \A v \in Flows : Active(flow'[v]) =>
            /\ Active(flow[v]) /\ flow'[v].id = flow[v].id /\ flow'[v].org = flow[v].org
            /\ flow'[v].resend = flow[v].resend /\ flow'[v].added = flow[v].added
      /\ \A v \in Flows : flow'[v] # None /\ flow'[v].resend # None => flow'[v].resend < next
  BY <1>1, <1>2, <1>3, <1>4, Moves DEF skipClaim
<1>6. /\ IdsGiven' /\ CooldownsPast' /\ DecidedAlone' /\ OneResetPerReading'
      /\ AllFreshSee' /\ AllFreshKnow' /\ AllResendsSee'
  BY <1>5, SpendsNothing DEF skipClaim
<1>7. WireHeld' /\ WireOne'
  BY DEF WireHeld, HeldFor, WireOne, skipClaim
<1>8. WireAlone'
  <2>1. \A m \in wire : m.by # w /\ m.by \in Flows \cup {None}
    <3> SUFFICES ASSUME NEW m \in wire PROVE m.by # w /\ m.by \in Flows \cup {None}
      OBVIOUS
    <3>1. m.by \in Flows \cup {None}
      BY DEF TypeOK, Message
    <3>2. m.by # None => flow[m.by].at = "sent"
      BY DEF WireAlone
    <3> QED
      BY <1>1, <3>1, <3>2, Constants
  <2>2. \A m \in wire : m.by = None => \A v \in Flows : Active(flow'[v]) => flow'[v].id # m.id
    BY <1>5 DEF WireAlone
  <2> QED
    BY <1>2, <2>1, <2>2 DEF WireAlone, Active, skipClaim
<1>9. AnswersTrue'
  BY <1>2, <1>3, <1>5 DEF AnswersTrue, Active, skipClaim
<1> QED
  BY <1>5, <1>6, <1>7, <1>8, <1>9

\* Ends preserves the invariant.
LEMMA EndsStep ==
    ASSUME IInv, TypeOK', NEW w \in Flows, Ends(w)
    PROVE  Protocol' /\ Decisions'
<1> USE DEF IInv, Protocol, Decisions
<1>1. flow'[w] = None /\ \A v \in Flows \ {w} : flow'[v] = flow[v]
  BY DEF Ends, TypeOK
<1>2. /\ ActiveHeld' /\ ActiveAlone' /\ Reading' /\ OneHolder'
      /\ \A v \in Flows : Deciding(flow'[v]) => flow'[v] = flow[v]
      /\ \A v \in Flows : Active(flow'[v]) =>
            /\ Active(flow[v]) /\ flow'[v].id = flow[v].id /\ flow'[v].org = flow[v].org
            /\ flow'[v].resend = flow[v].resend /\ flow'[v].added = flow[v].added
      /\ \A v \in Flows : flow'[v] # None /\ flow'[v].resend # None => flow'[v].resend < next
  BY <1>1, Moves DEF Ends
<1>3. /\ IdsGiven' /\ CooldownsPast' /\ DecidedAlone' /\ OneResetPerReading'
      /\ AllFreshSee' /\ AllFreshKnow' /\ AllResendsSee'
  BY <1>2, SpendsNothing DEF Ends
<1>4. \A n \in wire' : \E m \in wire :
          /\ n = IF m.by = w THEN [m EXCEPT !.by = None] ELSE m
          /\ n.id = m.id /\ n.org = m.org /\ n.time = m.time
          /\ n.by = IF m.by = w THEN None ELSE m.by
  <2> SUFFICES ASSUME NEW m \in wire
               PROVE  LET n == IF m.by = w THEN [m EXCEPT !.by = None] ELSE m
                      IN  /\ n.id = m.id /\ n.org = m.org /\ n.time = m.time
                          /\ n.by = IF m.by = w THEN None ELSE m.by
    BY DEF Ends
  <2>1. m \in Message
    BY DEF TypeOK
  <2> QED
    BY <2>1 DEF Message
<1>5. WireHeld'
  <2> SUFFICES ASSUME NEW n \in wire'
               PROVE  \E f \in Files : HeldFor(f, n.id, n.org, n.time)
    BY DEF WireHeld, HeldFor, Ends
  <2> QED
    BY <1>4 DEF WireHeld
<1>6. WireAlone'
  <2> SUFFICES ASSUME NEW n \in wire'
               PROVE  /\ n.by # None => /\ flow'[n.by] # None /\ flow'[n.by].at = "sent"
                                        /\ flow'[n.by].id = n.id /\ flow'[n.by].org = n.org
                      /\ n.by = None => \A v \in Flows : Active(flow'[v]) => flow'[v].id # n.id
    BY DEF WireAlone, Active
  <2>1. PICK m \in wire : n.id = m.id /\ n.org = m.org /\ n.by = IF m.by = w THEN None ELSE m.by
    BY <1>4
  <2>2. m.by \in Flows \cup {None}
    BY DEF TypeOK, Message
  <2>3. CASE m.by = w
    <3>1. Active(flow[w]) /\ flow[w].id = m.id
      BY <2>3, Constants DEF WireAlone, Active
    <3>2. \A v \in Flows : Active(flow'[v]) => v # w /\ flow'[v].id # m.id
      BY <1>1, <1>2, <3>1 DEF ActiveAlone, Active
    <3> QED
      BY <2>1, <2>3, <3>2
  <2>4. CASE m.by # w
    BY <1>1, <1>2, <2>1, <2>2, <2>4 DEF WireAlone
  <2> QED
    BY <2>3, <2>4
<1>7. WireOne'
  <2> SUFFICES ASSUME NEW n \in wire', NEW k \in wire', n.by # None, n.by = k.by
               PROVE  n = k
    BY DEF WireOne
  <2>1. n \in wire /\ k \in wire
    BY <1>4
  <2> QED
    BY <2>1 DEF WireOne
<1>8. AnswersTrue'
  <2>1. \A v \in Flows : Active(flow'[v]) => flow'[v] = flow[v]
    BY <1>1 DEF Active
  <2> QED
    BY <2>1 DEF AnswersTrue, Active, Ends
<1> QED
  BY <1>2, <1>3, <1>5, <1>6, <1>7, <1>8

\* settle preserves the invariant.
LEMMA settleStep ==
    ASSUME IInv, TypeOK', NEW w \in Flows, settle(w)
    PROVE  Protocol' /\ Decisions'
<1> DEFINE f == flow[w].file
<1> USE DEF IInv, Protocol, Decisions
<1>1. /\ Active(flow[w]) /\ flow[w].at = "settling" /\ flow[w] \in Flow /\ f \in Files
      /\ claim[f] \in Journal /\ claim[f].id = flow[w].id /\ claim[f].org = flow[w].org
  BY InFlight DEF settle, Active
<1>2. /\ flow'[w] = None
      /\ \A v \in Flows \ {w} :
            /\ Kept(v)
            /\ Deciding(flow'[v]) /\ flow'[v].resend = None => flow'[v].stale
            /\ flow'[v] # None => flow'[v].added = flow[v].added
  <2>1. flow'[w] = None /\ \A v \in Flows \ {w} : flow'[v] = Outdated[v]
    BY OutdatedType DEF settle
  <2> QED
    BY <2>1, OutdatedKept
<1>3. /\ \A g \in Files \ {f} : claim'[g] = claim[g]
      /\ claim'[f] # None =>
            /\ claim'[f].id = claim[f].id /\ claim'[f].org = claim[f].org
            /\ claim'[f].left = claim[f].left /\ claim'[f].retry = claim[f].retry
            /\ claim'[f].flight = 0
  <2>1. Own(w)
    BY <1>1, JournalFields DEF Own
  <2>2. claim' = [claim EXCEPT ![f] = Unsettled(w)] \/ claim' = [claim EXCEPT ![f] = None]
    BY <2>1 DEF settle
  <2>3. /\ Unsettled(w).id = claim[f].id /\ Unsettled(w).org = claim[f].org
        /\ Unsettled(w).left = claim[f].left /\ Unsettled(w).retry = claim[f].retry
        /\ Unsettled(w).flight = 0
    BY <1>1 DEF Unsettled, Journal
  <2> QED
    BY <1>1, <2>2, <2>3 DEF TypeOK
<1>4. \A v \in Flows : Active(flow'[v]) =>
          /\ v # w /\ Kept(v) /\ Active(flow[v]) /\ flow[v].file \in Files \ {f}
  <2> SUFFICES ASSUME NEW v \in Flows, Active(flow'[v])
               PROVE  v # w /\ Kept(v) /\ Active(flow[v]) /\ flow[v].file \in Files \ {f}
    OBVIOUS
  <2>1. v # w /\ Kept(v) /\ Active(flow[v])
    BY <1>2 DEF Active, Kept
  <2>2. flow[v].file \in Files /\ claim[flow[v].file].id = flow[v].id
    BY <2>1, InFlight
  <2>3. flow[v].id # flow[w].id
    BY <1>1, <2>1 DEF ActiveAlone
  <2> QED
    BY <1>1, <2>1, <2>2, <2>3
<1>5. \A m \in wire : m.by # w /\ m.by \in Flows \cup {None} /\ m.id # flow[w].id
  <2> SUFFICES ASSUME NEW m \in wire
               PROVE  m.by # w /\ m.by \in Flows \cup {None} /\ m.id # flow[w].id
    OBVIOUS
  <2>1. m.by \in Flows \cup {None}
    BY DEF TypeOK, Message
  <2>2. CASE m.by = None
    BY <1>1, <2>1, <2>2, Constants DEF WireAlone
  <2>3. CASE m.by # None
    <3>1. Active(flow[m.by]) /\ flow[m.by].at = "sent" /\ flow[m.by].id = m.id /\ m.by \in Flows
      BY <2>1, <2>3 DEF WireAlone, Active
    <3> QED
      BY <1>1, <3>1 DEF ActiveAlone
  <2> QED
    BY <2>2, <2>3
<1>6. IdsGiven'
  <2>1. \A g \in Files : claim'[g] # None => claim[g] # None /\ claim'[g].id = claim[g].id
    BY <1>1, <1>3, JournalFields
  <2>2. \A v \in Flows : flow'[v] # None => flow[v] # None /\ flow'[v].resend = flow[v].resend
    BY <1>2 DEF Kept
  <2> QED
    BY <2>1, <2>2 DEF IdsGiven, settle
<1>7. ActiveHeld'
  <2> SUFFICES ASSUME NEW v \in Flows, Active(flow'[v])
               PROVE  /\ HeldFor(flow[v].file, flow[v].id, flow[v].org, flow[v].time)'
                      /\ flow'[v].at = "begun" =>
                            flow'[v].time = 0 /\ claim'[flow'[v].file].flight = ClaimLease
    BY DEF ActiveHeld, Active
  <2>1. Kept(v) /\ Active(flow[v]) /\ claim'[flow[v].file] = claim[flow[v].file]
    BY <1>3, <1>4
  <2> QED
    BY <2>1 DEF ActiveHeld, HeldFor, Kept, Active
<1>8. ActiveAlone'
  <2>1. \A v \in Flows : Active(flow'[v]) => Active(flow[v]) /\ flow'[v].id = flow[v].id
    BY <1>4 DEF Kept, Active
  <2> QED
    BY <2>1 DEF ActiveAlone, Active
<1>9. WireHeld'
  <2> SUFFICES ASSUME NEW m \in wire
               PROVE  \E g \in Files : HeldFor(g, m.id, m.org, m.time)'
    BY DEF WireHeld, settle
  <2>1. PICK g \in Files : HeldFor(g, m.id, m.org, m.time)
    BY DEF WireHeld
  <2>2. g # f
    BY <1>1, <1>5, <2>1 DEF HeldFor
  <2> QED
    BY <1>3, <2>1, <2>2 DEF HeldFor
<1>10. WireAlone'
  <2> SUFFICES ASSUME NEW m \in wire
               PROVE  /\ m.by # None => /\ flow'[m.by] # None /\ flow'[m.by].at = "sent"
                                        /\ flow'[m.by].id = m.id /\ flow'[m.by].org = m.org
                      /\ m.by = None => \A v \in Flows : Active(flow'[v]) => flow'[v].id # m.id
    BY DEF WireAlone, Active, settle
  <2>1. m.by # None => /\ flow'[m.by] # None /\ flow'[m.by].at = "sent"
                       /\ flow'[m.by].id = m.id /\ flow'[m.by].org = m.org
    BY <1>2, <1>5 DEF WireAlone, Kept, Active
  <2>2. m.by = None => \A v \in Flows : Active(flow'[v]) => flow'[v].id # m.id
    BY <1>4 DEF WireAlone, Kept, Active
  <2> QED
    BY <2>1, <2>2
<1>11. WireOne'
  BY DEF WireOne, settle
<1>12. Reading'
  <2>1. \A v \in Flows : Reads(flow'[v])
    BY <1>2 DEF Reading, Reads, Kept, Active
  <2> QED
    BY <2>1 DEF Reading, Reads, Active
<1>13. \A g \in Files : Holding(g)' =>
           /\ Holding(g) /\ claim'[g].org = claim[g].org /\ claim'[g].id = claim[g].id
           /\ claim'[g].left = claim[g].left
  BY <1>1, <1>3, JournalFields DEF Holding
<1>14. OneHolder'
  BY <1>13 DEF OneHolder, Holding
<1>15. DecidedAlone'
  BY <1>13 DEF DecidedAlone, Holding, settle
<1>16. OneResetPerReading'
  BY DEF OneResetPerReading, settle
<1>17. AllFreshSee'
  <2>1. \A v \in Flows : Deciding(flow'[v]) /\ flow'[v].resend = None => flow'[v].stale
    BY <1>2 DEF Deciding
  <2> QED
    BY <2>1 DEF AllFreshSee, FreshSees, Deciding
<1>20. ASSUME NEW v \in Flows, Deciding(flow'[v])
       PROVE  /\ Deciding(flow[v]) /\ flow[v] \in Flow /\ flow[v].file \in Files
              /\ flow'[v].file = flow[v].file /\ flow'[v].org = flow[v].org
              /\ flow'[v].resend = flow[v].resend /\ flow'[v].status = flow[v].status
              /\ flow'[v].added = flow[v].added
  <2>1. v # w
    BY <1>2, <1>20 DEF Deciding
  <2> QED
    BY <1>2, <1>20, <2>1, FlowFields DEF Kept, Deciding, TypeOK
<1>18. AllResendsSee'
  <2> SUFFICES ASSUME NEW v \in Flows, Deciding(flow'[v]), Resends(flow[v])', Hints(flow[v])'
               PROVE  claim'[flow'[v].file].id \in used[flow'[v].org]
    BY DEF AllResendsSee, ResendSees, Resends, Hints, Deciding, settle
  <2>1. claim'[flow[v].file] # None /\ claim'[flow[v].file].retry > 0
    BY <1>20 DEF Resends, openClaim
  <2>2. /\ claim[flow[v].file] # None /\ claim[flow[v].file].retry = claim'[flow[v].file].retry
        /\ claim[flow[v].file].id = claim'[flow[v].file].id
        /\ claim[flow[v].file].org = claim'[flow[v].file].org
        /\ claim[flow[v].file].left = claim'[flow[v].file].left
    BY <1>1, <1>3, <1>20, <2>1, JournalFields
  <2>3. Resends(flow[v]) /\ Hints(flow[v])
    BY <1>20, <2>1, <2>2 DEF Resends, Hints, openClaim
  <2> QED
    BY <1>20, <2>2, <2>3 DEF AllResendsSee, ResendSees
<1>21. CooldownsPast' /\ AllFreshKnow'
  BY <1>20 DEF CooldownsPast, AllFreshKnow, FreshKnows, settle
<1>19. AnswersTrue'
  <2>1. \A v \in Flows : Active(flow'[v]) =>
            /\ Active(flow[v]) /\ flow'[v].id = flow[v].id /\ flow'[v].org = flow[v].org
            /\ flow'[v].resend = flow[v].resend /\ flow'[v].answer = flow[v].answer
            /\ flow'[v].added = flow[v].added
    BY <1>2, <1>4 DEF Kept, Active
  <2> QED
    BY <2>1 DEF AnswersTrue, Active, settle
<1> QED
  BY <1>6, <1>7, <1>8, <1>9, <1>10, <1>11, <1>12, <1>14, <1>15, <1>16, <1>17, <1>18, <1>19,
     <1>21

\* A request is taken upstream, or lost: its flow goes on.
LEMMA AnsweredStep ==
    ASSUME IInv, TypeOK', NEW m \in wire, NEW answer \in Answers, Answered(m, answer),
           \A o \in Orgs : used[o] \subseteq used'[o],
           answer \in {"reset", "already_used"} => m.id \in used'[m.org],
           UNCHANGED <<claim, next>>
    PROVE  /\ ActiveHeld' /\ ActiveAlone' /\ WireHeld' /\ WireAlone' /\ WireOne'
           /\ Reading' /\ OneHolder' /\ AnswersTrue'
           /\ \A v \in Flows : Deciding(flow'[v]) => flow'[v] = flow[v]
           /\ \A v \in Flows : flow'[v] # None /\ flow'[v].resend # None => flow'[v].resend < next
<1> USE DEF IInv, Protocol, Decisions
<1> DEFINE w == m.by
<1>1. w \in Flows \cup {None} /\ wire' = wire \ {m}
  BY DEF TypeOK, Message, Answered
<1>2. w = None => flow' = flow
  BY DEF Answered
<1>3. w # None =>
          /\ Active(flow[w]) /\ Active(flow'[w]) /\ flow'[w].at = "settling"
          /\ flow'[w].id = m.id /\ flow'[w].org = m.org
          /\ flow[w].id = m.id /\ flow[w].org = m.org /\ flow'[w].time = flow[w].time
          /\ flow'[w].file = flow[w].file /\ flow'[w].resend = flow[w].resend
          /\ flow'[w].added = flow[w].added
          /\ flow'[w].answer \in {answer, "unknown"}
          /\ \A v \in Flows \ {w} : flow'[v] = flow[v]
  <2> HAVE w # None
  <2>1. w \in Flows /\ flow[w] # None /\ flow[w].at = "sent" /\ flow[w].id = m.id /\ flow[w].org = m.org
    BY <1>1 DEF WireAlone
  <2>2. flow[w] \in Flow
    BY <2>1 DEF TypeOK
  <2>3. PICK a \in {answer, "unknown"} :
            flow' = [flow EXCEPT ![w].at = "settling", ![w].answer = a]
    BY DEF Answered
  <2>4. /\ flow'[w] = [flow[w] EXCEPT !.at = "settling", !.answer = a]
        /\ \A v \in Flows \ {w} : flow'[v] = flow[v]
    BY <2>1, <2>3 DEF TypeOK
  <2>5. a \in Answers
    BY DEF Answers
  <2>6. flow'[w] \in Flow
    BY <2>2, <2>4, <2>5 DEF Flow
  <2> QED
    BY <2>1, <2>2, <2>4, <2>6, FlowFields DEF Active, Flow
<1>4. w \in Flows => HeldFor(flow[w].file, flow[w].id, flow[w].org, flow'[w].time)
  BY <1>3, Constants DEF ActiveHeld
<1>5. /\ ActiveHeld' /\ ActiveAlone' /\ Reading' /\ OneHolder'
      /\ \A v \in Flows : Deciding(flow'[v]) => flow'[v] = flow[v]
      /\ \A v \in Flows : Active(flow'[v]) =>
            /\ Active(flow[v]) /\ flow'[v].id = flow[v].id /\ flow'[v].org = flow[v].org
            /\ flow'[v].resend = flow[v].resend /\ flow'[v].added = flow[v].added
      /\ \A v \in Flows : flow'[v] # None /\ flow'[v].resend # None => flow'[v].resend < next
  <2>1. \A v \in Flows \ {w} : flow'[v] = flow[v]
    BY <1>2, <1>3
  <2>2. w \in Flows =>
          /\ Active(flow[w]) /\ Active(flow'[w]) /\ flow'[w].at # "begun"
          /\ flow'[w].id = flow[w].id /\ flow'[w].org = flow[w].org
          /\ flow'[w].file = flow[w].file /\ flow'[w].resend = flow[w].resend
          /\ flow'[w].added = flow[w].added
          /\ HeldFor(flow[w].file, flow[w].id, flow[w].org, flow'[w].time)
    BY <1>3, <1>4, Constants
  <2> HIDE DEF w
  <2> QED
    BY <2>1, <2>2, Moves
<1>6. WireHeld' /\ WireOne'
  BY <1>1 DEF WireHeld, HeldFor, WireOne
<1>7. WireAlone'
  <2> SUFFICES ASSUME NEW n \in wire, n # m
               PROVE  /\ n.by # None => /\ flow'[n.by] # None /\ flow'[n.by].at = "sent"
                                        /\ flow'[n.by].id = n.id /\ flow'[n.by].org = n.org
                      /\ n.by = None => \A v \in Flows : Active(flow'[v]) => flow'[v].id # n.id
    BY <1>1 DEF WireAlone, Active
  <2>1. n.by \in Flows \cup {None} /\ (n.by # None => n.by # w)
    BY DEF TypeOK, Message, WireOne
  <2>2. n.by # None => flow'[n.by] = flow[n.by]
    BY <1>2, <1>3, <2>1
  <2> QED
    BY <1>5, <2>2 DEF WireAlone
<1>8. AnswersTrue'
  <2> SUFFICES ASSUME NEW v \in Flows, Active(flow'[v])
               PROVE  /\ flow'[v].answer = "reset" => flow'[v].id \in used'[flow'[v].org]
                      /\ flow'[v].answer = "already_used" /\ (flow'[v].resend = None => ~flow'[v].added)
                            => flow'[v].id \in used'[flow'[v].org]
    BY DEF AnswersTrue, Active
  <2>1. CASE v = w
    BY <1>3, <2>1, Constants
  <2>2. CASE v # w
    <3>1. flow'[v] = flow[v] /\ Active(flow[v])
      BY <1>2, <1>3, <2>2
    <3>2. flow[v].org \in Orgs
      BY <3>1, FlowFields, InFlight
    <3> QED
      BY <3>1, <3>2 DEF AnswersTrue
  <2> QED
    BY <2>1, <2>2
<1> QED
  BY <1>5, <1>6, <1>7, <1>8

\* SpentBefore preserves the invariant.
LEMMA SpentBeforeStep ==
    ASSUME IInv, TypeOK', NEW m \in wire, SpentBefore(m)
    PROVE  Protocol' /\ Decisions'
<1> USE DEF IInv, Protocol, Decisions
<1>1. /\ ActiveHeld' /\ ActiveAlone' /\ WireHeld' /\ WireAlone' /\ WireOne'
      /\ Reading' /\ OneHolder' /\ AnswersTrue'
      /\ \A v \in Flows : Deciding(flow'[v]) => flow'[v] = flow[v]
      /\ \A v \in Flows : flow'[v] # None /\ flow'[v].resend # None => flow'[v].resend < next
  <2>1. CASE Answered(m, "already_used")
    BY <2>1, AnsweredStep DEF SpentBefore, Answers
  <2>2. CASE Answered(m, "reset")
    BY <2>2, AnsweredStep DEF SpentBefore, Answers
  <2> QED
    BY <2>1, <2>2 DEF SpentBefore
<1>2. /\ IdsGiven' /\ CooldownsPast' /\ DecidedAlone' /\ OneResetPerReading'
      /\ AllFreshSee' /\ AllFreshKnow' /\ AllResendsSee'
  BY <1>1, SpendsNothing DEF SpentBefore
<1> QED
  BY <1>1, <1>2

\* Refused preserves the invariant.
LEMMA RefusedStep ==
    ASSUME IInv, TypeOK', NEW m \in wire, Refused(m)
    PROVE  Protocol' /\ Decisions'
<1> USE DEF IInv, Protocol, Decisions
<1>1. /\ ActiveHeld' /\ ActiveAlone' /\ WireHeld' /\ WireAlone' /\ WireOne'
      /\ Reading' /\ OneHolder' /\ AnswersTrue'
      /\ \A v \in Flows : Deciding(flow'[v]) => flow'[v] = flow[v]
      /\ \A v \in Flows : flow'[v] # None /\ flow'[v].resend # None => flow'[v].resend < next
  BY AnsweredStep DEF Refused, Answers
<1>2. /\ IdsGiven' /\ CooldownsPast' /\ DecidedAlone' /\ OneResetPerReading'
      /\ AllFreshSee' /\ AllFreshKnow' /\ AllResendsSee'
  BY <1>1, SpendsNothing DEF Refused
<1> QED
  BY <1>1, <1>2

\* The reset is spent while the claim's journal holds the organization: the one that was
\* decided on everything spent before.  Any flow that read the grants by now and does
\* not know of it is too late to begin.
LEMMA SpendsStep ==
    ASSUME IInv, TypeOK', NEW m \in wire, Spends(m)
    PROVE  Protocol' /\ Decisions'
<1> USE DEF IInv, Protocol, Decisions
<1>1. m.org \in Orgs /\ m.id \in Ids
  BY DEF TypeOK, Message
<1>2. /\ used'[m.org] = used[m.org] \cup {m.id}
      /\ left'[m.org] = left[m.org] - 1 /\ cooldown'[m.org] \in {cooldown[m.org], Running}
      /\ \A o \in Orgs \ {m.org} :
            used'[o] = used[o] /\ left'[o] = left[o] /\ cooldown'[o] = cooldown[o]
  BY <1>1 DEF Spends, TypeOK
<1>3. /\ ActiveHeld' /\ ActiveAlone' /\ WireHeld' /\ WireAlone' /\ WireOne'
      /\ Reading' /\ OneHolder' /\ AnswersTrue'
      /\ \A v \in Flows : Deciding(flow'[v]) => flow'[v] = flow[v]
      /\ \A v \in Flows : flow'[v] # None /\ flow'[v].resend # None => flow'[v].resend < next
  <2>1. \A o \in Orgs : used[o] \subseteq used'[o]
    BY <1>2
  <2>2. Answered(m, "reset") /\ m.id \in used'[m.org] /\ "reset" \in Answers
    BY <1>2 DEF Spends, Answers
  <2> QED
    BY <2>1, <2>2, AnsweredStep DEF Spends
<1>4. PICK g \in Files : /\ claim[g] \in Journal /\ inFlight(g) /\ claim[g].flight > 2 * ReadTimeout
                         /\ claim[g].id = m.id /\ claim[g].org = m.org
  BY InFlight
<1>5. Holding(g)
  BY <1>4 DEF Holding, inFlight
<1>6. used[m.org] \subseteq seen[m.id] \cup {m.id}
  BY <1>4, <1>5 DEF DecidedAlone
<1>7. IdsGiven'
  BY <1>2, <1>3, <1>4 DEF IdsGiven, Spends, inFlight
<1>8. DecidedAlone'
  <2> SUFFICES ASSUME NEW f \in Files, Holding(f)
               PROVE  /\ used'[claim[f].org] \subseteq seen[claim[f].id] \cup {claim[f].id}
                      /\ claim[f].id \notin used'[claim[f].org] =>
                            /\ claim[f].left <= left'[claim[f].org]
                            /\ cooldown'[claim[f].org] < claim[f].id
    BY DEF DecidedAlone, Holding, Spends
  <2>1. CASE claim[f].org = m.org
    <3>1. f = g
      BY <1>4, <1>5, <2>1 DEF OneHolder
    <3> QED
      BY <1>2, <1>4, <1>6, <3>1
  <2>2. CASE claim[f].org # m.org
    <3>1. claim[f].org \in Orgs
      BY JournalFields DEF Holding, TypeOK
    <3> QED
      BY <1>2, <2>2, <3>1 DEF DecidedAlone
  <2> QED
    BY <2>1, <2>2
<1>9. OneResetPerReading'
  <2> SUFFICES ASSUME NEW o \in Orgs, NEW a \in used'[o], NEW b \in used'[o], a # b
               PROVE  a \in seen[b] \/ b \in seen[a]
    BY DEF OneResetPerReading, Spends
  <2> QED
    BY <1>2, <1>6 DEF OneResetPerReading
<1>10. AllFreshSee'
  <2> SUFFICES ASSUME NEW v \in Flows, Deciding(flow[v]), flow'[v] = flow[v],
                      flow[v].resend = None, ~flow[v].stale
               PROVE  \/ /\ used'[flow[v].org] = flow[v].status.spent
                         /\ flow[v].status.left <= left'[flow[v].org]
                         /\ cooldown'[flow[v].org] = Running => flow[v].status.cooldown = Running
                      \/ \E f \in Files : /\ claim[f] # None /\ claim[f].org = flow[v].org
                                          /\ claim[f].flight > Remaining(flow[v])
    BY <1>3 DEF AllFreshSee, FreshSees, Spends, Deciding, Remaining
  <2>1. flow[v] \in Flow
    BY DEF Deciding, TypeOK
  <2>2. CASE flow[v].org # m.org
    <3>1. flow[v].org \in Orgs
      BY <2>1, FlowFields
    <3> QED
      BY <1>2, <2>2, <3>1 DEF AllFreshSee, FreshSees
  <2>3. CASE flow[v].org = m.org
    <3>1. Reads(flow[v]) /\ ~Active(flow[v])
      BY DEF Reading, Deciding, Active
    <3>2. flow[v].time \in Nat /\ flow[v].time <= ReadTimeout
      BY <2>1, <3>1, FlowFields DEF Reads
    <3>3. claim[g].flight > Remaining(flow[v])
      BY <1>4, <3>2, JournalFields, Constants DEF Remaining
    <3> QED
      BY <1>4, <2>3, <3>3 DEF inFlight
  <2> QED
    BY <2>2, <2>3
<1>11. AllResendsSee'
  <2> SUFFICES ASSUME NEW v \in Flows, Deciding(flow[v]), flow'[v] = flow[v],
                      Resends(flow[v]), Hints(flow[v])
               PROVE  claim[flow[v].file].id \in used'[flow[v].org]
    BY <1>3 DEF AllResendsSee, ResendSees, Resends, Hints, openClaim, Spends, Deciding
  <2>1. claim[flow[v].file].id \in used[flow[v].org]
    BY DEF AllResendsSee, ResendSees
  <2>2. flow[v].org \in Orgs
    BY FlowFields DEF Deciding, TypeOK
  <2> QED
    BY <1>2, <2>1, <2>2
<1>12. CooldownsPast'
  BY <1>2, <1>3 DEF CooldownsPast, Deciding, Spends
<1>13. AllFreshKnow'
  <2> SUFFICES ASSUME NEW v \in Flows, Deciding(flow[v]), flow'[v] = flow[v],
                      flow[v].resend = None, ~flow[v].added
               PROVE  flow[v].status.left >= left'[flow[v].org]
    BY <1>3 DEF AllFreshKnow, FreshKnows, Deciding
  <2>1. flow[v].org \in Orgs /\ flow[v].status \in Status
    BY FlowFields DEF Deciding, TypeOK
  <2>2. flow[v].status.left >= left[flow[v].org] /\ flow[v].status.left \in Nat
    BY <2>1, StatusFields DEF AllFreshKnow, FreshKnows
  <2>3. left[flow[v].org] \in Nat
    BY <2>1, Constants DEF TypeOK
  <2> QED
    BY <1>2, <2>1, <2>2, <2>3
<1> QED
  BY <1>3, <1>7, <1>8, <1>9, <1>10, <1>11, <1>12, <1>13

\* A claim under way keeps its journal past its own time, as both run down together.
LEMMA TickStep ==
    ASSUME IInv, TypeOK', Tick
    PROVE  Protocol' /\ Decisions'
<1> USE DEF IInv, Protocol, Decisions
<1>1. ASSUME NEW f \in Files, claim'[f] # None
      PROVE  /\ claim[f] \in Journal
             /\ claim'[f].id = claim[f].id /\ claim'[f].org = claim[f].org
             /\ claim'[f].left = claim[f].left
             /\ claim'[f].retry = Less(claim[f].retry) /\ claim'[f].flight = Less(claim[f].flight)
  <2>1. claim[f] \in Journal /\ claim'[f] = [claim[f] EXCEPT !.retry = Less(@), !.flight = Less(@)]
    BY <1>1 DEF Tick, TypeOK
  <2> QED
    BY <2>1 DEF Journal
<1>2. ASSUME NEW f \in Files, claim[f] # None, claim[f].flight > 1
      PROVE  claim'[f] # None /\ claim'[f].flight = claim[f].flight - 1
  <2>1. claim[f] \in Journal /\ claim[f].flight \in Nat
    BY <1>2, JournalFields DEF TypeOK
  <2>2. claim'[f] = [claim[f] EXCEPT !.retry = Less(@), !.flight = Less(@)]
    <3>1. ~(claim[f] = None \/ (claim[f].retry <= 1 /\ claim[f].flight <= 1))
      BY <1>2, <2>1
    <3> QED
      BY <3>1 DEF Tick
  <2>3. [claim[f] EXCEPT !.retry = Less(@), !.flight = Less(@)] \in Journal
    <3>1. Less(claim[f].retry) \in 0..RetryWindow /\ Less(claim[f].flight) \in 0..ClaimLease
      BY <2>1, JournalFields, Constants DEF Less
    <3> QED
      BY <2>1, <3>1 DEF Journal
  <2>4. claim'[f] # None
    BY <2>2, <2>3, JournalFields
  <2> QED
    BY <1>1, <1>2, <2>1, <2>4 DEF Less
<1>3. ASSUME NEW v \in Flows, flow'[v] # None
      PROVE  /\ flow[v] # None /\ flow[v] \in Flow /\ flow[v].time \in Nat /\ flow[v].time > 0
             /\ flow'[v].time = flow[v].time - 1
             /\ flow'[v].at = flow[v].at /\ flow'[v].file = flow[v].file
             /\ flow'[v].org = flow[v].org /\ flow'[v].resend = flow[v].resend
             /\ flow'[v].status = flow[v].status /\ flow'[v].id = flow[v].id
             /\ flow'[v].answer = flow[v].answer /\ flow'[v].stale = flow[v].stale
             /\ flow'[v].added = flow[v].added
  <2>1. flow[v] # None /\ flow[v] \in Flow /\ flow[v].time > 0
        /\ flow'[v] = [flow[v] EXCEPT !.time = @ - 1]
    BY <1>3 DEF Tick, TypeOK
  <2>2. flow[v].time \in Nat
    BY <2>1, FlowFields
  <2> QED
    BY <2>1, <2>2 DEF Flow
<1>4. ASSUME NEW v \in Flows, flow[v] # None
      PROVE  flow'[v] # None
  <2>1. flow[v] \in Flow /\ flow[v].time > 0 /\ flow'[v] = [flow[v] EXCEPT !.time = @ - 1]
    BY <1>4 DEF Tick, TypeOK
  <2>2. flow[v].time - 1 \in 0..(ReadTimeout + ClaimTimeout)
    BY <2>1, FlowFields, Constants
  <2>3. flow'[v] \in Flow
    BY <2>1, <2>2 DEF Flow
  <2> QED
    BY <2>3, FlowFields
<1>5. ASSUME NEW n \in wire'
      PROVE  \E m \in wire : /\ n = [m EXCEPT !.time = @ - 1] /\ m \in Message
                             /\ n.id = m.id /\ n.org = m.org /\ n.by = m.by
                             /\ m.time \in Nat /\ m.time > 0 /\ n.time = m.time - 1
  <2>1. PICK m \in wire : n = [m EXCEPT !.time = @ - 1]
    BY DEF Tick
  <2>2. m \in Message /\ m.time \in Nat /\ m.time > 0
    <3>1. m \in Message /\ m.time > 0
      BY DEF Tick, TypeOK
    <3>2. m.time \in 0..ClaimTimeout
      BY <3>1 DEF Message
    <3> QED
      BY <3>1, <3>2, Constants
  <2> QED
    BY <2>1, <2>2 DEF Message
<1>6. ASSUME NEW f \in Files, NEW i, NEW o, NEW t \in Nat, t > 0, HeldFor(f, i, o, t)
      PROVE  /\ claim'[f] # None /\ claim'[f].id = i /\ claim'[f].org = o
             /\ claim'[f].flight + ClaimTimeout >= ClaimLease + (t - 1)
  <2>1. claim[f] # None /\ claim[f].flight \in Nat
    BY <1>6, JournalFields DEF HeldFor, TypeOK
  <2>2. claim[f].flight > 1
    BY <1>6, <2>1, Constants DEF HeldFor
  <2>3. claim'[f] # None /\ claim'[f].flight = claim[f].flight - 1
    BY <1>2, <2>1, <2>2
  <2> QED
    BY <1>1, <1>6, <2>1, <2>3, Constants DEF HeldFor
<1>7. IdsGiven'
  <2>1. \A f \in Files : claim'[f] # None => claim[f] # None /\ claim'[f].id = claim[f].id
    BY <1>1, JournalFields
  <2>2. \A v \in Flows : flow'[v] # None => flow[v] # None /\ flow'[v].resend = flow[v].resend
    BY <1>3
  <2> QED
    BY <2>1, <2>2 DEF IdsGiven, Tick
<1>8. \A v \in Flows : Active(flow'[v]) => Active(flow[v])
  BY <1>3 DEF Active
<1>9. ActiveHeld'
  <2> SUFFICES ASSUME NEW v \in Flows, Active(flow'[v])
               PROVE  /\ HeldFor(flow[v].file, flow[v].id, flow[v].org, flow[v].time)'
                      /\ flow'[v].at # "begun"
    BY DEF ActiveHeld, Active
  <2>1. flow'[v] # None /\ Active(flow[v])
    BY <1>8 DEF Active
  <2>2. HeldFor(flow[v].file, flow[v].id, flow[v].org, flow[v].time) /\ flow[v].file \in Files
    BY <2>1, InFlight DEF ActiveHeld
  <2>3. flow[v].at # "begun"
    BY <1>3, <2>1 DEF ActiveHeld
  <2> QED
    BY <1>3, <1>6, <2>1, <2>2, <2>3 DEF HeldFor
<1>10. ActiveAlone'
  <2>1. \A v \in Flows : Active(flow'[v]) => Active(flow[v]) /\ flow'[v].id = flow[v].id
    BY <1>3, <1>8 DEF Active
  <2> QED
    BY <2>1 DEF ActiveAlone, Active
<1>11. WireHeld'
  <2> SUFFICES ASSUME NEW n \in wire'
               PROVE  \E f \in Files : HeldFor(f, n.id, n.org, n.time)'
    BY DEF WireHeld, HeldFor
  <2>1. PICK m \in wire : /\ n.id = m.id /\ n.org = m.org
                          /\ m.time \in Nat /\ m.time > 0 /\ n.time = m.time - 1
    BY <1>5
  <2>2. PICK f \in Files : HeldFor(f, m.id, m.org, m.time)
    BY DEF WireHeld
  <2> QED
    BY <1>6, <2>1, <2>2 DEF HeldFor
<1>12. WireAlone'
  <2> SUFFICES ASSUME NEW n \in wire'
               PROVE  /\ n.by # None => /\ flow'[n.by] # None /\ flow'[n.by].at = "sent"
                                        /\ flow'[n.by].id = n.id /\ flow'[n.by].org = n.org
                      /\ n.by = None => \A v \in Flows : Active(flow'[v]) => flow'[v].id # n.id
    BY DEF WireAlone, Active
  <2>1. PICK m \in wire : n.id = m.id /\ n.org = m.org /\ n.by = m.by /\ m \in Message
    BY <1>5
  <2>2. m.by \in Flows \cup {None}
    BY <2>1 DEF Message
  <2>3. m.by # None => /\ flow'[m.by] # None /\ flow'[m.by].at = "sent"
                       /\ flow'[m.by].id = m.id /\ flow'[m.by].org = m.org
    BY <1>3, <1>4, <2>2 DEF WireAlone
  <2>4. m.by = None => \A v \in Flows : Active(flow'[v]) => flow'[v].id # m.id
    BY <1>3, <1>8 DEF WireAlone, Active
  <2> QED
    BY <2>1, <2>3, <2>4
<1>13. WireOne'
  BY <1>5 DEF WireOne
<1>14. Reading'
  <2> SUFFICES ASSUME NEW v \in Flows, flow'[v] # None, ~Active(flow'[v])
               PROVE  /\ flow'[v].time <= ReadTimeout
                      /\ flow'[v].at = "read" => flow'[v].status # None
                      /\ flow'[v].at = "profile" /\ flow'[v].resend = None =>
                            flow'[v].status # None /\ flow'[v].status.cooldown # Running
    BY DEF Reading, Reads, Active
  <2>1. ~Active(flow[v]) /\ Reads(flow[v])
    BY <1>3 DEF Active, Reading
  <2> QED
    BY <1>3, <2>1, Constants DEF Reads
<1>15. \A f \in Files : Holding(f)' =>
           /\ Holding(f) /\ claim'[f].org = claim[f].org /\ claim'[f].id = claim[f].id
           /\ claim'[f].left = claim[f].left
  BY <1>1, JournalFields DEF Holding, Less
<1>16. OneHolder'
  BY <1>15 DEF OneHolder, Holding
<1>17. DecidedAlone'
  BY <1>15 DEF DecidedAlone, Holding, Tick
<1>18. OneResetPerReading'
  BY DEF OneResetPerReading, Tick
<1>19. AllFreshSee'
  <2> SUFFICES ASSUME NEW v \in Flows, Deciding(flow'[v]), flow'[v].resend = None, ~flow'[v].stale
               PROVE  \/ /\ used[flow'[v].org] = flow'[v].status.spent
                         /\ flow'[v].status.left <= left[flow'[v].org]
                         /\ cooldown[flow'[v].org] = Running => flow'[v].status.cooldown = Running
                      \/ \E f \in Files : /\ claim'[f] # None /\ claim'[f].org = flow'[v].org
                                          /\ claim'[f].flight > Remaining(flow'[v])
    BY DEF AllFreshSee, FreshSees, Deciding, Remaining, Tick
  <2>1. flow'[v] # None
    BY DEF Deciding
  <2>2. Deciding(flow[v]) /\ flow[v] \in Flow
    BY <1>3, <2>1 DEF Deciding
  <2>3. /\ Remaining(flow[v]) \in Nat /\ Remaining(flow[v]) > 0
        /\ Remaining(flow'[v]) = Remaining(flow[v]) - 1
    BY <1>3, <2>1, Constants DEF Remaining
  <2>4. ASSUME NEW f \in Files, claim[f] # None, claim[f].org = flow[v].org,
               claim[f].flight > Remaining(flow[v])
        PROVE  /\ claim'[f] # None /\ claim'[f].org = flow'[v].org
               /\ claim'[f].flight > Remaining(flow'[v])
    <3>1. claim[f].flight \in Nat
      BY <2>4, JournalFields DEF TypeOK
    <3>2. claim'[f] # None /\ claim'[f].flight = claim[f].flight - 1
      BY <1>2, <2>3, <2>4, <3>1
    <3> QED
      BY <1>1, <1>3, <2>1, <2>3, <2>4, <3>1, <3>2
  <2> QED
    BY <1>3, <2>1, <2>2, <2>4 DEF AllFreshSee, FreshSees
<1>20. AllResendsSee'
  <2> SUFFICES ASSUME NEW v \in Flows, Deciding(flow'[v]), Resends(flow[v])', Hints(flow[v])'
               PROVE  claim'[flow'[v].file].id \in used[flow'[v].org]
    BY DEF AllResendsSee, ResendSees, Resends, Hints, Deciding, Tick
  <2>1. flow'[v] # None
    BY DEF Deciding
  <2>2. Deciding(flow[v]) /\ flow[v].file \in Files
    BY <1>3, <2>1, FlowFields DEF Deciding
  <2>3. claim'[flow[v].file] # None /\ claim'[flow[v].file].retry > 0
    BY <1>3, <2>1 DEF Resends, openClaim
  <2>4. /\ claim[flow[v].file] # None /\ claim[flow[v].file].retry > 0
        /\ claim[flow[v].file].id = claim'[flow[v].file].id
        /\ claim[flow[v].file].org = claim'[flow[v].file].org
        /\ claim[flow[v].file].left = claim'[flow[v].file].left
    BY <1>1, <2>2, <2>3, JournalFields DEF Less
  <2>5. Resends(flow[v]) /\ Hints(flow[v])
    BY <1>3, <2>1, <2>4 DEF Resends, Hints, openClaim
  <2> QED
    BY <1>3, <2>1, <2>2, <2>4, <2>5 DEF AllResendsSee, ResendSees
<1>22. CooldownsPast' /\ AllFreshKnow'
  <2>1. \A v \in Flows : Deciding(flow'[v]) =>
            /\ Deciding(flow[v])
            /\ flow'[v].status = flow[v].status /\ flow'[v].org = flow[v].org
            /\ flow'[v].resend = flow[v].resend /\ flow'[v].added = flow[v].added
    BY <1>3 DEF Deciding
  <2>2. CooldownsPast'
    BY <2>1 DEF CooldownsPast, Tick
  <2>3. AllFreshKnow'
    BY <2>1 DEF AllFreshKnow, FreshKnows, Tick
  <2> QED
    BY <2>2, <2>3
<1>21. AnswersTrue'
  <2>1. \A v \in Flows : Active(flow'[v]) =>
            /\ Active(flow[v]) /\ flow'[v].id = flow[v].id /\ flow'[v].org = flow[v].org
            /\ flow'[v].resend = flow[v].resend /\ flow'[v].answer = flow[v].answer
            /\ flow'[v].added = flow[v].added
    BY <1>3, <1>8 DEF Active
  <2>2. used' = used
    BY DEF Tick
  <2>3. SUFFICES ASSUME NEW v \in Flows, Active(flow'[v])
                 PROVE  /\ flow'[v].answer = "reset" => flow'[v].id \in used[flow'[v].org]
                        /\ flow'[v].answer = "already_used" /\ (flow'[v].resend = None => ~flow'[v].added)
                              => flow'[v].id \in used[flow'[v].org]
    BY <2>2 DEF AnswersTrue, Active
  <2> QED
    BY <2>1, <2>3 DEF AnswersTrue
<1> QED
  BY <1>7, <1>9, <1>10, <1>11, <1>12, <1>13, <1>14, <1>16, <1>17, <1>18, <1>19, <1>20, <1>21,
     <1>22

-----------------------------------------------------------------------------
(* Theorems *)

\* The invariant holds initially.
LEMMA Initial == Init => IInv
<1> SUFFICES ASSUME Init PROVE IInv
  OBVIOUS
<1>1. TypeOK
  <2>1. {0, Running} \subseteq 0..Running /\ 1 \in 1..(MaxClaims + 1)
    BY Constants DEF Running
  <2> QED
    BY <2>1 DEF Init, TypeOK
<1>2. Protocol
  BY Constants DEF Init, Protocol, IdsGiven, CooldownsPast, Deciding, ActiveHeld, Active, ActiveAlone, WireHeld, WireAlone, WireOne,
         Reading, Reads, OneHolder, Holding
<1>3. Decisions
  BY DEF Init, Decisions, DecidedAlone, Holding, OneResetPerReading, AllFreshSee, FreshSees,
         Deciding, AllFreshKnow, FreshKnows, AllResendsSee, ResendSees, AnswersTrue, Active
<1> QED
  BY <1>1, <1>2, <1>3 DEF IInv

\* Every step keeps it.
LEMMA Inductive == IInv /\ [Next]_vars => IInv'
<1> SUFFICES ASSUME IInv, [Next]_vars PROVE IInv'
  OBVIOUS
<1>1. TypeOK'
  BY TypeStep DEF IInv
<1>2. CASE UNCHANGED vars
  <2>1. \A v \in Flows : Kept(v)
    BY <1>2 DEF vars, Kept, Active
  <2>2. \A o \in Orgs : left'[o] >= left[o]
    BY <1>2, Constants DEF vars, IInv, TypeOK
  <2>3. UNCHANGED <<claim, wire, left, cooldown, used, next, seen>>
    BY <1>2 DEF vars
  <2> QED
    BY <1>1, <2>1, <2>2, <2>3, Quiet DEF IInv
<1>3. CASE Next
  BY <1>1, <1>3, upsertStep, removeStep, GrantedStep, CooldownEndsStep, targetStep, readStatusStep, readReturnsStep,
     readFailsStep, beginFreshStep, beginResendStep, sendClaimStep, skipClaimStep, settleStep,
     EndsStep, SpendsStep, SpentBeforeStep, RefusedStep, TickStep DEF Next, IInv
<1> QED
  BY <1>2, <1>3

\* The protocol of journals, leases and marks, and what it implies of every decision
\* (beginClaim, settleClaim, forget), hold in every state.
THEOREM Invariance == Spec => []IInv
BY Initial, Inductive, PTL DEF Spec

\* Every variable keeps its type.
THEOREM TypeCorrect == Spec => []TypeOK
<1>1. IInv => TypeOK
  BY DEF IInv
<1> QED
  BY <1>1, Invariance, PTL

\* beginClaim: no two resets of an organization are spent on one reading of its grants.
THEOREM NoneSpentUnawares == Spec => []OneResetPerReading
<1>1. IInv => OneResetPerReading
  BY DEF IInv, Decisions
<1> QED
  BY <1>1, Invariance, PTL

\* A claim on its way keeps its journal in flight (CLAIM_LEASE_MS, forget).
THEOREM SentClaimsAreHeld == Spec => []SentIsHeld
<1>1. IInv => SentIsHeld
  BY InFlight DEF SentIsHeld
<1> QED
  BY <1>1, Invariance, PTL

\* settleResetGrantClaim: cooldowns are cleared for a reset that was spent.
THEOREM ClearedOnlyIfSpent == Spec => []ClearedWasSpent
<1>1. IInv => ClearedWasSpent
  <2> SUFFICES ASSUME IInv, NEW w \in Flows, flow[w] # None, flow[w].at = "settling", Spent(w)
               PROVE  \/ flow[w].id \in used[flow[w].org]
                      \/ flow[w].resend = None /\ flow[w].added /\ flow[w].answer = "already_used"
    BY DEF ClearedWasSpent
  <2>1. Active(flow[w])
    BY DEF Active
  <2> QED
    BY <2>1 DEF IInv, Decisions, AnswersTrue, Spent
<1> QED
  BY <1>1, Invariance, PTL

=============================================================================
