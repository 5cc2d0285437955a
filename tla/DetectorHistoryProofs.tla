------------------------- MODULE DetectorHistoryProofs -------------------------
(***************************************************************************)
(* Theorems about DetectorHistory, for every value of its constants: the   *)
(* pending candidate is the evidence of the verdicts, and the detector     *)
(* implements AlertPolicy.                                                 *)
(***************************************************************************)
EXTENDS DetectorHistory, DetectorProofs

\* The actions of Detector that HistoryNext is made of.
LEMMA HistoryStep ==
  ASSUME [HistoryNext]_hvars PROVE [Next]_vars
BY DEF HistoryNext, HistoryProcess, HistoryReset, HistoryTick, Next, hvars, vars

\* What appending does to the verdicts.
LEMMA Appended ==
  ASSUME NEW S, NEW l \in Seq(S), NEW r \in S
  PROVE  /\ Append(l, r) \in Seq(S)
         /\ Len(l) \in Nat
         /\ Len(Append(l, r)) = Len(l) + 1
         /\ DOMAIN Append(l, r) = 1..Len(l) + 1
         /\ DOMAIN l = 1..Len(l)
         /\ \A i \in 1..Len(l) : Append(l, r)[i] = l[i]
         /\ Append(l, r)[Len(l) + 1] = r
OBVIOUS

\* A dismissive verdict names no failure.
LEMMA DismissiveNamesNone ==
  ASSUME NEW r, Policy!Dismissive(r) PROVE r \notin Failures
BY DEF Policy!Dismissive, Inconclusive, Healthy, Failures,
       Policy!Inconclusive, Policy!Healthy

\* The policy's vocabulary is the detector's.
LEMMA SameVocabulary ==
  /\ Policy!Results = Results
  /\ Policy!Failures = Failures
  /\ \A r : Policy!Strong(r) <=> Strong(r)
BY DEF Policy!Results, Results, Policy!Failures, Failures, Policy!Strong, Strong,
       Policy!Inconclusive, Inconclusive, Policy!Healthy, Healthy

\* The types of the detector, its verdicts and its alerts.
HistoryTypeOK ==
  /\ TypeOK
  /\ log \in Seq(Results)
  /\ raised \subseteq [session : Sessions, at : 0..MaxTime,
                       failure_type : FailureTypes]

\* No alert is of a session or an instant still to come.
RaisedInThePast == \A a \in raised : a.session <= session /\ a.at <= now

HistoryInv ==
  /\ HistoryTypeOK
  /\ SuspicionAccounted
  /\ CandidateHasEvidence
  /\ EvidenceIsPending
  /\ CooldownsOfThisSession
  /\ CooldownsTellAlerts
  /\ RaisedInThePast

\* The types of the history variables.
LEMMA HistoryTypeStep ==
  ASSUME HistoryTypeOK, [HistoryNext]_hvars PROVE HistoryTypeOK'
<1>1. TypeOK'
  BY HistoryStep, TypeStep DEF HistoryTypeOK
<1> USE DEF HistoryTypeOK
<1>2. ASSUME NEW r \in Results, HistoryProcess(r) PROVE HistoryTypeOK'
  <2>1. log' \in Seq(Results)
    BY <1>2, Appended DEF HistoryProcess
  <2>2. CASE ~decision'.alert
    BY <1>1, <1>2, <2>1, <2>2 DEF HistoryProcess, Alerts
  <2>3. CASE decision'.alert
    <3>1. Confirmed(r)
      BY <1>2, <2>3
      DEF HistoryProcess, Process, NoSuspicion, BelowSuspicion, OpenSuspicion,
          NotConfirmed, TickSuspicion, Decide
    <3>2. r.failure_type \in FailureTypes
      BY <3>1, StrongVerdict DEF Confirmed
    <3>3. raised' = raised \cup {[session |-> session, at |-> now,
                                  failure_type |-> r.failure_type]}
      BY <1>2, <2>3 DEF HistoryProcess, Alerts
    <3> QED
      BY <1>1, <2>1, <3>2, <3>3 DEF TypeOK
  <2> QED
    BY <2>2, <2>3
<1>3. CASE HistoryReset
  BY <1>1, <1>3 DEF HistoryReset
<1>4. CASE HistoryTick
  BY <1>1, <1>4 DEF HistoryTick
<1>5. CASE UNCHANGED hvars
  BY <1>1, <1>5 DEF hvars
<1> QED
  BY <1>2, <1>3, <1>4, <1>5 DEF HistoryNext

-------------------------------------------------------------------------------
(* How one more verdict changes what the verdicts say.                     *)

\* An old verdict still speaks for f after one more, if that one leaves f
\* unresolved and the budget lasts.
LEMMA OldSupports ==
  ASSUME log \in Seq(Results), NEW r \in Results, log' = Append(log, r),
         NEW f, NEW k \in 1..Len(log)
  PROVE  Policy!Supports(k, f)' <=>
           /\ Policy!Supports(k, f)
           /\ Policy!Unresolved(r, f)
           /\ Len(log) - k + 2 < SuspicionMaxChecks
<1> USE SettingsAssumption
<1>1. /\ Len(log) \in Nat
      /\ Len(log') = Len(log) + 1
      /\ \A i \in 1..Len(log) : log'[i] = log[i]
      /\ log'[Len(log) + 1] = r
  BY Appended
<1>2. /\ log'[k] = log[k]
      /\ Len(log') - k + 1 = Len(log) - k + 2
      /\ k # Len(log')
  BY <1>1
<1>3. (\A j \in k+1..Len(log') : Policy!Unresolved(log'[j], f))
        <=> /\ \A j \in k+1..Len(log) : Policy!Unresolved(log[j], f)
            /\ Policy!Unresolved(r, f)
  <2>1. k+1..Len(log') = (k+1..Len(log)) \cup {Len(log) + 1}
    BY <1>1
  <2>2. \A j \in k+1..Len(log) : log'[j] = log[j]
    BY <1>1
  <2> QED
    BY <2>1, <2>2, <1>1
<1>4. Len(log) - k + 2 < SuspicionMaxChecks => Len(log) - k + 1 < SuspicionMaxChecks
  BY <1>1
<1> QED
  BY <1>2, <1>3, <1>4 DEF Policy!Supports, Policy!Unresolved

\* The newest verdict speaks for f when it is strong and names f.
LEMMA NewSupports ==
  ASSUME log \in Seq(Results), NEW r \in Results, log' = Append(log, r),
         NEW f, NEW k, k = Len(log) + 1
  PROVE  Policy!Supports(k, f)' <=> Strong(r) /\ r.failure_type = f
<1>1. /\ Len(log') = k
      /\ log'[k] = r
  BY Appended
<1>2. k + 1..k = {}
  BY Appended
<1> QED
  BY <1>1, <1>2, SameVocabulary DEF Policy!Supports

\* Whether a verdict opened a suspicion is settled when it arrives.
LEMMA OldOpens ==
  ASSUME log \in Seq(Results), NEW r \in Results, log' = Append(log, r),
         NEW k \in 1..Len(log)
  PROVE  Policy!Opens(k)' <=> Policy!Opens(k)
<1>1. k = 1 \/ log'[k-1] = log[k-1]
  BY Appended
<1> QED
  BY <1>1 DEF Policy!Opens

\* The newest verdict opens a suspicion after nothing, or a dismissive one.
LEMMA NewOpens ==
  ASSUME log \in Seq(Results), NEW r \in Results, log' = Append(log, r),
         NEW k, k = Len(log) + 1, Policy!Opens(k)'
  PROVE  Len(log) = 0 \/ Policy!Dismissive(log[Len(log)])
<1>1. Len(log) = 0 \/ log'[Len(log)] = log[Len(log)]
  BY Appended
<1>2. k - 1 = Len(log) /\ (k = 1 <=> Len(log) = 0)
  BY Appended
<1> QED
  BY <1>1, <1>2 DEF Policy!Opens
-------------------------------------------------------------------------------
(* The candidate and the verdicts.                                         *)

\* Only a verdict that names no failure drops a suspicion at once.
LEMMA NoSuspicionOfFailures ==
  ASSUME NEW r \in Failures PROVE ~NoSuspicion(r)
<1>1. r.kind = "failure" /\ DOMAIN r = {"kind", "failure_type", "confidence"}
  BY DEF Failures
<1>2. Healthy.kind = "healthy" /\ Inconclusive.kind = "inconclusive"
  BY DEF Healthy, Inconclusive
<1> QED
  BY <1>1, <1>2 DEF NoSuspicion

\* What an unresolved check does to a candidate: nothing to none, one more
\* check while the budget lasts, and the end of it otherwise.
LEMMA TickCases ==
  ASSUME TypeOK, TickSuspicion
  PROVE  \/ pending' = Nothing
         \/ /\ pending # Nothing
            /\ pending' = pending
            /\ checks' = checks + 1
            /\ checks + 1 < SuspicionMaxChecks
BY DEF TypeOK, TickSuspicion, Forget

\* A verdict that makes TickSuspicion run leaves the candidate unresolved.
LEMMA TickIsUnresolved ==
  ASSUME NEW r \in Results, BelowSuspicion(r) \/ NotConfirmed(r)
  PROVE  TickSuspicion /\ Policy!Unresolved(r, pending)
BY SameVocabulary DEF BelowSuspicion, NotConfirmed, Policy!Unresolved, Strong

\* A step of the detector keeps the candidate's evidence.
LEMMA CandidateStep ==
  ASSUME HistoryTypeOK, CandidateHasEvidence, [HistoryNext]_hvars
  PROVE  CandidateHasEvidence'
<1> USE DEF HistoryTypeOK
<1>1. ASSUME NEW r \in Results, HistoryProcess(r) PROVE CandidateHasEvidence'
  <2>1. log' = Append(log, r) /\ Process(r)
    BY <1>1 DEF HistoryProcess
  <2>2. Len(log) \in Nat /\ Len(log') = Len(log) + 1
    BY <2>1, Appended
  <2>3. CASE pending' = Nothing
    BY <2>3 DEF CandidateHasEvidence
  <2>4. CASE OpenSuspicion(r)
    <3>1. pending' = r.failure_type /\ checks' = 1 /\ Strong(r)
      BY <2>4 DEF OpenSuspicion
    <3>2. PICK k : k = Len(log) + 1
      OBVIOUS
    <3>3. Policy!Supports(k, r.failure_type)'
      BY <2>1, <3>1, <3>2, NewSupports
    <3>4. k = Len(log') - checks' + 1
      BY <2>2, <3>1, <3>2
    <3> QED
      BY <2>2, <3>1, <3>3, <3>4 DEF CandidateHasEvidence
  <2>5. CASE /\ BelowSuspicion(r) \/ NotConfirmed(r)
             /\ pending' # Nothing
    <3>1. /\ pending # Nothing
          /\ pending' = pending
          /\ checks' = checks + 1
          /\ checks + 1 < SuspicionMaxChecks
      BY <2>5, TickIsUnresolved, TickCases
    <3>2. PICK k : k = Len(log) - checks + 1
      OBVIOUS
    <3>3. checks \in 1..Len(log) /\ Policy!Supports(k, pending)
      BY <3>1, <3>2 DEF CandidateHasEvidence
    <3>4. k \in 1..Len(log) /\ Len(log) - k + 2 = checks + 1
      BY <2>2, <3>2, <3>3
    <3>5. Policy!Supports(k, pending)'
      <4>1. PICK f : f = pending
        OBVIOUS
      <4>2. Policy!Supports(k, f)'
        BY <2>1, <2>5, <3>1, <3>3, <3>4, <4>1, OldSupports, TickIsUnresolved
      <4> QED
        BY <3>1, <4>1, <4>2
    <3>6. k = Len(log') - checks' + 1 /\ checks' \in 1..Len(log')
      BY <2>2, <3>1, <3>2, <3>3
    <3> QED
      BY <3>5, <3>6 DEF CandidateHasEvidence
  <2> QED
    BY <2>1, <2>3, <2>4, <2>5 DEF Process, NoSuspicion, Confirmed, Forget
<1>2. CASE HistoryReset
  BY <1>2 DEF HistoryReset, Reset, Forget, CandidateHasEvidence
<1>3. CASE HistoryTick \/ UNCHANGED hvars
  BY <1>3 DEF HistoryTick, Tick, hvars, vars, CandidateHasEvidence, Policy!Supports
<1> QED
  BY <1>1, <1>2, <1>3 DEF HistoryNext
\* While a candidate is pending, the last verdict was a failure.
LEMMA PendingAfterFailure ==
  ASSUME HistoryTypeOK, CandidateHasEvidence, pending # Nothing
  PROVE  Len(log) # 0 /\ log[Len(log)] \in Failures
<1>1. Len(log) \in Nat
  BY DEF HistoryTypeOK
<1>2. PICK k : k = Len(log) - checks + 1
  OBVIOUS
<1>3. checks \in 1..Len(log) /\ Policy!Supports(k, pending)
  BY <1>2 DEF CandidateHasEvidence
<1>4. k = Len(log) \/ Len(log) \in k+1..Len(log)
  BY <1>1, <1>2, <1>3
<1> QED
  BY <1>1, <1>3, <1>4, SameVocabulary
  DEF Policy!Supports, Policy!Unresolved, Strong

\* A step of the detector keeps every open suspicion pending.
LEMMA EvidenceStep ==
  ASSUME HistoryTypeOK, CandidateHasEvidence, EvidenceIsPending,
         [HistoryNext]_hvars
  PROVE  EvidenceIsPending'
<1> USE DEF HistoryTypeOK
<1>1. ASSUME NEW r \in Results, HistoryProcess(r) PROVE EvidenceIsPending'
  <2>1. log' = Append(log, r) /\ Process(r)
    BY <1>1 DEF HistoryProcess
  <2>2. Len(log) \in Nat /\ Len(log') = Len(log) + 1
    BY <2>1, Appended
  <2> SUFFICES ASSUME NEW k \in 1..Len(log) + 1, NEW f \in FailureTypes,
                      Policy!Opens(k)', Policy!Supports(k, f)'
               PROVE  pending' = f /\ checks' = Len(log) + 1 - k + 1
    BY <2>1, <2>2, Appended DEF EvidenceIsPending
  <2>3. CASE k \in 1..Len(log)
    <3>1. /\ Policy!Opens(k)
          /\ Policy!Supports(k, f)
          /\ Policy!Unresolved(r, f)
          /\ Len(log) - k + 2 < SuspicionMaxChecks
      BY <2>1, <2>3, OldOpens, OldSupports
    <3>2. pending = f /\ checks = Len(log) - k + 1 /\ f # Nothing
      BY <2>1, <2>3, <3>1, NothingAssumption, Appended DEF EvidenceIsPending
    <3>3. BelowSuspicion(r) \/ NotConfirmed(r)
      <4>1. /\ r \in Failures
            /\ Strong(r) => /\ r.failure_type = f
                            /\ r.confidence < ConfirmationThreshold
        BY <3>1, SameVocabulary DEF Policy!Unresolved
      <4>2. ~NoSuspicion(r)
        BY <4>1, NoSuspicionOfFailures
      <4>3. ~OpenSuspicion(r)
        BY <3>2, <4>1 DEF OpenSuspicion
      <4>4. ~Confirmed(r)
        <5>1. r.confidence \in Nat
          BY <4>1 DEF Failures
        <5>2. ~(r.confidence < ConfirmationThreshold /\ r.confidence >= ConfirmationThreshold)
          BY <5>1, ThresholdsAssumption
        <5>3. Confirmed(r) => Strong(r) /\ r.confidence >= ConfirmationThreshold
          BY DEF Confirmed
        <5> QED
          BY <4>1, <5>2, <5>3
      <4> QED
        BY <2>1, <4>2, <4>3, <4>4 DEF Process
    <3>4. checks + 1 < SuspicionMaxChecks
      BY <2>2, <3>1, <3>2
    <3>5. pending' = f /\ checks' = checks + 1
      <4>1. TickSuspicion
        BY <3>3, TickIsUnresolved
      <4>2. checks \in Nat
        BY DEF TypeOK
      <4> QED
        BY <3>2, <3>4, <4>1, <4>2, SettingsAssumption DEF TickSuspicion, Decide
    <3> QED
      BY <2>2, <3>2, <3>5
  <2>4. CASE k = Len(log) + 1
    <3>1. Strong(r) /\ r.failure_type = f
      BY <2>1, <2>4, NewSupports
    <3>2. Len(log) = 0 \/ Policy!Dismissive(log[Len(log)])
      BY <2>1, <2>4, NewOpens
    <3>3. pending = Nothing
      BY <3>2, PendingAfterFailure, DismissiveNamesNone
    <3>4. OpenSuspicion(r)
      <4>1. r \in Failures /\ f # Nothing
        BY <3>1, NothingAssumption DEF Strong
      <4> QED
        BY <2>1, <3>1, <3>3, <4>1, NoSuspicionOfFailures
        DEF Process, BelowSuspicion, NotConfirmed, Confirmed
    <3> QED
      BY <2>2, <2>4, <3>1, <3>4 DEF OpenSuspicion
  <2> QED
    BY <2>2, <2>3, <2>4
<1>2. CASE HistoryReset
  <2>1. log' = <<>>
    BY <1>2 DEF HistoryReset
  <2> QED
    BY <2>1 DEF EvidenceIsPending
<1>3. CASE HistoryTick \/ UNCHANGED hvars
  BY <1>3
  DEF HistoryTick, Tick, hvars, vars, EvidenceIsPending, Policy!Supports,
      Policy!Opens
<1> QED
  BY <1>1, <1>2, <1>3 DEF HistoryNext
-------------------------------------------------------------------------------
(* The cooldowns and the alerts.                                           *)

\* An alert is raised by Confirmed outside the cooldown, and by nothing else.
LEMMA AlertCases ==
  ASSUME NEW r \in Results, HistoryProcess(r)
  PROVE  \/ /\ UNCHANGED <<cooldowns, raised, session, now>>
            /\ ~(Confirmed(r) /\ ~CoolingDown(r.failure_type))
         \/ /\ Confirmed(r)
            /\ ~CoolingDown(r.failure_type)
            /\ cooldowns' = [cooldowns EXCEPT ![session][r.failure_type] = now]
            /\ raised' = raised \cup {[session |-> session, at |-> now,
                                       failure_type |-> r.failure_type]}
            /\ UNCHANGED <<session, now>>
<1>1. UNCHANGED <<session, now>>
  BY DEF HistoryProcess, Process
<1>2. CASE Confirmed(r) /\ ~CoolingDown(r.failure_type)
  <2>1. /\ cooldowns' = [cooldowns EXCEPT ![session][r.failure_type] = now]
        /\ decision'.alert = TRUE
    BY <1>2 DEF Confirmed, Decide
  <2> QED
    BY <1>1, <1>2, <2>1 DEF HistoryProcess, Alerts
<1>3. CASE ~(Confirmed(r) /\ ~CoolingDown(r.failure_type))
  <2>1. UNCHANGED cooldowns /\ decision'.alert = FALSE
    BY <1>3
    DEF HistoryProcess, Process, NoSuspicion, BelowSuspicion, OpenSuspicion,
        NotConfirmed, TickSuspicion, Confirmed, Decide
  <2> QED
    BY <1>1, <1>3, <2>1 DEF HistoryProcess, Alerts
<1> QED
  BY <1>2, <1>3

\* Alerts are dated when they are raised.
LEMMA PastStep ==
  ASSUME HistoryTypeOK, RaisedInThePast, [HistoryNext]_hvars
  PROVE  RaisedInThePast'
<1> USE DEF RaisedInThePast
<1>1. /\ session \in Nat /\ now \in Nat
      /\ \A a \in raised : a.session \in Nat /\ a.at \in Nat
  BY BoundsAssumption DEF HistoryTypeOK, TypeOK, Sessions
<1>2. ASSUME NEW r \in Results, HistoryProcess(r) PROVE RaisedInThePast'
  BY <1>1, <1>2, AlertCases
<1>3. CASE HistoryReset
  BY <1>1, <1>3 DEF HistoryReset, Reset
<1>4. CASE HistoryTick
  BY <1>1, <1>4 DEF HistoryTick, Tick
<1>5. CASE UNCHANGED hvars
  BY <1>5 DEF hvars, vars
<1> QED
  BY <1>2, <1>3, <1>4, <1>5 DEF HistoryNext

\* The table keeps telling the alerts of the session.
LEMMA TellStep ==
  ASSUME HistoryTypeOK, RaisedInThePast, CooldownsTellAlerts,
         [HistoryNext]_hvars
  PROVE  CooldownsTellAlerts'
<1> USE DEF HistoryTypeOK, TypeOK
<1>1. session \in Sessions /\ session \in Nat /\ now \in Nat /\ now # Never
  BY BoundsAssumption DEF Sessions, Never
<1>2. ASSUME UNCHANGED <<cooldowns, raised, session>>
      PROVE  CooldownsTellAlerts'
  BY <1>2 DEF CooldownsTellAlerts, AlertsOf
<1>3. ASSUME NEW r \in Results, HistoryProcess(r) PROVE CooldownsTellAlerts'
  <2>1. CASE UNCHANGED <<cooldowns, raised, session>>
    BY <1>2, <2>1
  <2> SUFFICES ASSUME ~UNCHANGED <<cooldowns, raised, session>>
               PROVE  CooldownsTellAlerts'
    BY <2>1
  <2> DEFINE new == [session |-> session, at |-> now,
                     failure_type |-> r.failure_type]
  <2>2. /\ Confirmed(r)
        /\ cooldowns' = [cooldowns EXCEPT ![session][r.failure_type] = now]
        /\ raised' = raised \cup {new}
        /\ UNCHANGED <<session, now>>
    BY <1>3, AlertCases
  <2>3. r.failure_type \in FailureTypes
    BY <2>2, StrongVerdict DEF Confirmed
  <2>4. \A f \in FailureTypes :
          (cooldowns[session][f])' = IF f = r.failure_type THEN now
                                     ELSE cooldowns[session][f]
    BY <1>1, <2>2, <2>3
  <2>5. \A f \in FailureTypes :
          AlertsOf(f)' = IF f = r.failure_type THEN AlertsOf(f) \cup {new}
                         ELSE AlertsOf(f)
    BY <2>2 DEF AlertsOf
  <2>6. \A b \in AlertsOf(r.failure_type) : b.at <= now
    BY DEF AlertsOf, RaisedInThePast
  <2> SUFFICES ASSUME NEW f \in FailureTypes
               PROVE  IF (cooldowns[session][f])' = Never
                      THEN AlertsOf(f)' = {}
                      ELSE \E a \in AlertsOf(f)' :
                             /\ a.at = (cooldowns[session][f])'
                             /\ \A b \in AlertsOf(f)' : b.at <= a.at
    BY DEF CooldownsTellAlerts
  <2>7. CASE f # r.failure_type
    BY <2>4, <2>5, <2>7 DEF CooldownsTellAlerts
  <2>8. CASE f = r.failure_type
    <3>1. (cooldowns[session][f])' = now /\ AlertsOf(f)' = AlertsOf(f) \cup {new}
      BY <2>4, <2>5, <2>8
    <3>2. \A b \in AlertsOf(f)' : b.at <= new.at
      BY <1>1, <2>6, <2>8, <3>1
    <3> QED
      BY <1>1, <3>1, <3>2
  <2> QED
    BY <2>7, <2>8
<1>4. CASE HistoryReset
  <2>1. session' = session + 1 /\ raised' = raised /\ session' \in Sessions
    BY <1>1, <1>4, BoundsAssumption DEF HistoryReset, Reset, Sessions
  <2>2. \A f \in FailureTypes : (cooldowns[session][f])' = Never
    BY <1>4, <2>1 DEF HistoryReset, Reset, NoCooldowns
  <2>3. \A a \in raised : a.session # session + 1
    BY <1>1 DEF RaisedInThePast, Sessions
  <2> QED
    BY <2>1, <2>2, <2>3 DEF CooldownsTellAlerts, AlertsOf
<1>5. CASE HistoryTick \/ UNCHANGED hvars
  BY <1>2, <1>5 DEF HistoryTick, Tick, hvars, vars
<1> QED
  BY <1>3, <1>4, <1>5 DEF HistoryNext
-------------------------------------------------------------------------------
(* The invariant, and the properties it gives.                             *)

\* The inductive invariant holds of every state the detector reaches.
THEOREM HistoryInvariant == HistorySpec => []HistoryInv
<1>1. HistoryInit => HistoryInv
  <2> SUFFICES ASSUME HistoryInit PROVE HistoryInv
    OBVIOUS
  <2>1. TypeOK
    BY SettingsAssumption, BoundsAssumption
    DEF HistoryInit, Init, TypeOK, NoCooldowns, Never, Sessions, Decisions
  <2>2. log = <<>> /\ raised = {} /\ pending = Nothing /\ checks = 0
    BY DEF HistoryInit, Init
  <2>3. HistoryTypeOK /\ CandidateHasEvidence /\ EvidenceIsPending
    BY <2>1, <2>2 DEF HistoryTypeOK, CandidateHasEvidence, EvidenceIsPending
  <2>4. SuspicionAccounted
    BY DEF HistoryInit, Init, SuspicionAccounted
  <2>5. \A s \in Sessions, f \in FailureTypes : cooldowns[s][f] = Never
    BY DEF HistoryInit, Init, NoCooldowns
  <2>6. CooldownsOfThisSession /\ CooldownsTellAlerts /\ RaisedInThePast
    BY <2>1, <2>2, <2>5
    DEF CooldownsOfThisSession, CooldownsTellAlerts, AlertsOf, RaisedInThePast,
        TypeOK
  <2> QED
    BY <2>3, <2>4, <2>6 DEF HistoryInv
<1>2. HistoryInv /\ [HistoryNext]_hvars => HistoryInv'
  <2> SUFFICES ASSUME HistoryInv, [HistoryNext]_hvars PROVE HistoryInv'
    OBVIOUS
  <2>1. TypeOK
    BY DEF HistoryInv, HistoryTypeOK
  <2> QED
    BY <2>1, HistoryStep, HistoryTypeStep, AccountedStep, CandidateStep,
       EvidenceStep, CooldownsStep, TellStep, PastStep DEF HistoryInv
<1> QED
  BY <1>1, <1>2, PTL DEF HistorySpec

\* A counter of checks stands for a history: it points at the verdict that
\* opened the suspicion, and every verdict since left it unresolved.
THEOREM CandidateIsEvidence == HistorySpec => []CandidateHasEvidence
BY HistoryInvariant, PTL DEF HistoryInv

\* No suspicion that the verdicts opened and did not settle is forgotten.
THEOREM EvidenceIsNotForgotten == HistorySpec => []EvidenceIsPending
BY HistoryInvariant, PTL DEF HistoryInv

\* The cooldown table is the last instants of the session's alerts.
THEOREM CooldownsAreTheAlerts == HistorySpec => []CooldownsTellAlerts
BY HistoryInvariant, PTL DEF HistoryInv

-------------------------------------------------------------------------------
(* The detector implements the policy.                                     *)

\* The cooldown, read from the table, is the one read from the alerts.
LEMMA SameCooldown ==
  ASSUME HistoryTypeOK, CooldownsTellAlerts, NEW f \in FailureTypes
  PROVE  CoolingDown(f) <=> Policy!RaisedLately(f)
<1> DEFINE c == cooldowns[session][f]
<1> USE SettingsAssumption
<1>1. /\ now \in Nat
      /\ c \in Nat
      /\ \A a \in raised : a.at \in Nat
  BY BoundsAssumption DEF HistoryTypeOK, TypeOK, Never
<1>2. CASE c = Never
  <2>1. AlertsOf(f) = {}
    BY <1>2 DEF CooldownsTellAlerts
  <2> QED
    BY <1>2, <2>1 DEF CoolingDown, Policy!RaisedLately, AlertsOf
<1>3. CASE c # Never
  <2>1. PICK a \in AlertsOf(f) : a.at = c /\ \A b \in AlertsOf(f) : b.at <= a.at
    BY <1>3 DEF CooldownsTellAlerts
  <2>2. CoolingDown(f) <=> now - c < AlertCooldown
    BY <1>3 DEF CoolingDown
  <2>3. ASSUME now - c < AlertCooldown PROVE Policy!RaisedLately(f)
    BY <2>1, <2>3 DEF Policy!RaisedLately, AlertsOf
  <2>4. ASSUME Policy!RaisedLately(f) PROVE now - c < AlertCooldown
    <3>1. PICK b \in AlertsOf(f) : now - b.at < AlertCooldown
      BY <2>4 DEF Policy!RaisedLately, AlertsOf
    <3>2. b.at <= c /\ b.at \in Nat
      BY <1>1, <2>1, <3>1 DEF AlertsOf
    <3> QED
      BY <1>1, <3>1, <3>2
  <2> QED
    BY <2>2, <2>3, <2>4
<1> QED
  BY <1>2, <1>3

\* An alert of the detector is one the policy allows.
LEMMA AlertAllowed ==
  ASSUME HistoryInv, NEW r \in Results, Confirmed(r),
         ~CoolingDown(r.failure_type)
  PROVE  Policy!MayRaise(r)
<1> USE DEF HistoryInv
<1>1. /\ Strong(r)
      /\ r.confidence >= ConfirmationThreshold
      /\ r.failure_type = pending
  BY DEF Confirmed
<1>2. r.failure_type \in FailureTypes /\ pending # Nothing
  BY <1>1, StrongVerdict
<1>3. \E k \in DOMAIN log : Policy!Supports(k, r.failure_type)
  <2>1. checks \in 1..Len(log) /\ DOMAIN log = 1..Len(log) /\ Len(log) \in Nat
    BY <1>2 DEF CandidateHasEvidence, HistoryTypeOK
  <2>2. Len(log) - checks + 1 \in DOMAIN log
    BY <2>1
  <2> QED
    BY <1>1, <1>2, <2>2 DEF CandidateHasEvidence
<1> QED
  BY <1>1, <1>2, <1>3, SameCooldown, SameVocabulary
  DEF Policy!MayRaise, Policy!Confirms

\* An alert that the policy insists on is raised.
LEMMA AlertRaised ==
  ASSUME HistoryInv, NEW r \in Results, Process(r), Policy!MustRaise(r)
  PROVE  Confirmed(r) /\ ~CoolingDown(r.failure_type)
<1> USE DEF HistoryInv
<1>1. Strong(r) /\ r.confidence >= ConfirmationThreshold
  BY SameVocabulary DEF Policy!MustRaise, Policy!MayRaise, Policy!Confirms
<1>2. r.failure_type \in FailureTypes /\ r \in Failures /\ r.confidence \in Nat
  BY <1>1, StrongVerdict, ThresholdsAssumption DEF Strong, Failures
<1>3. ~CoolingDown(r.failure_type)
  BY <1>2, SameCooldown DEF Policy!MustRaise, Policy!MayRaise
<1>4. pending = r.failure_type
  BY <1>2 DEF Policy!MustRaise, EvidenceIsPending
<1>5. ~NoSuspicion(r) /\ ~BelowSuspicion(r) /\ ~OpenSuspicion(r)
  BY <1>1, <1>2, <1>4, NoSuspicionOfFailures DEF BelowSuspicion, OpenSuspicion
<1>6. ~(r.confidence < ConfirmationThreshold)
  BY <1>1, <1>2, ThresholdsAssumption
<1>7. ~NotConfirmed(r)
  BY <1>6 DEF NotConfirmed
<1> QED
  BY <1>3, <1>5, <1>7 DEF Process

\* A step of the detector is a step of the policy.
LEMMA PolicyStep ==
  ASSUME HistoryInv, [HistoryNext]_hvars
  PROVE  [Policy!PolicyNext]_(Policy!pvars)
<1>1. ASSUME NEW r \in Results, HistoryProcess(r) PROVE Policy!PolicyNext
  <2>1. log' = Append(log, r) /\ Process(r) /\ r \in Policy!Results
    BY <1>1, SameVocabulary DEF HistoryProcess
  <2>2. CASE Confirmed(r) /\ ~CoolingDown(r.failure_type)
    <3>1. Policy!Raise(r)
      BY <1>1, <2>1, <2>2, AlertCases, AlertAllowed DEF Policy!Raise
    <3> QED
      BY <2>1, <3>1 DEF Policy!PolicyNext
  <2>3. CASE ~(Confirmed(r) /\ ~CoolingDown(r.failure_type))
    <3>1. ~Policy!MustRaise(r)
      BY <2>1, <2>3, AlertRaised
    <3>2. Policy!StaySilent(r)
      BY <1>1, <2>1, <2>3, <3>1, AlertCases DEF Policy!StaySilent
    <3> QED
      BY <2>1, <3>2 DEF Policy!PolicyNext
  <2> QED
    BY <2>2, <2>3
<1>2. CASE HistoryReset
  BY <1>2 DEF HistoryReset, Reset, Policy!PolicyNext, Policy!NewSession
<1>3. CASE HistoryTick
  <2>1. now \in Nat
    BY BoundsAssumption DEF HistoryInv, HistoryTypeOK, TypeOK
  <2> QED
    BY <1>3, <2>1 DEF HistoryTick, Tick, Policy!PolicyNext, Policy!Wait
<1>4. CASE UNCHANGED hvars
  BY <1>4 DEF hvars, vars, Policy!pvars
<1> QED
  BY <1>1, <1>2, <1>3, <1>4 DEF HistoryNext

\* The detector, which remembers one candidate and one counter, implements
\* the policy, which remembers every verdict of the session: it alerts only
\* when the policy allows it and always when the policy insists.
THEOREM DetectorImplementsPolicy == HistorySpec => ImplementsPolicy
<1>1. HistoryInit => Policy!PolicyInit
  BY DEF HistoryInit, Init, Policy!PolicyInit
<1> QED
  BY <1>1, PolicyStep, HistoryInvariant, PTL
  DEF HistorySpec, ImplementsPolicy, Policy!PolicySpec
===============================================================================
