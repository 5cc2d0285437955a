--------------------------- MODULE DetectorHistory ----------------------------
(***************************************************************************)
(* Detector with two history variables that no action reads: the verdicts  *)
(* processed in this session and the alerts decided on so far.  Over them, *)
(* the detector is shown to implement AlertPolicy.                         *)
(***************************************************************************)
EXTENDS Detector, Sequences

CONSTANT MaxResults     \* bound: verdicts processed per session

ASSUME MaxResultsAssumption == MaxResults \in Nat

VARIABLES
  log,      \* the verdicts of this session, oldest first
  raised    \* every alert: session, failure type, instant

hvars == <<vars, log, raised>>

HistoryInit == Init /\ log = <<>> /\ raised = {}

Alerts(r) ==
  IF decision'.alert
  THEN {[session |-> session, at |-> now, failure_type |-> r.failure_type]}
  ELSE {}

HistoryProcess(r) ==
  /\ Len(log) < MaxResults
  /\ Process(r)
  /\ log' = Append(log, r)
  /\ raised' = raised \cup Alerts(r)

HistoryReset == Reset /\ log' = <<>> /\ UNCHANGED raised

HistoryTick == Tick /\ UNCHANGED <<log, raised>>

HistoryNext ==
  \/ \E r \in Results : HistoryProcess(r)
  \/ HistoryReset
  \/ HistoryTick

HistorySpec == HistoryInit /\ [][HistoryNext]_hvars

-------------------------------------------------------------------------------
Policy == INSTANCE AlertPolicy

\* The detector, with its one candidate and its counter, alerts when the
\* policy over the whole session's verdicts allows it, and stays silent only
\* when the policy does not insist.
ImplementsPolicy == Policy!PolicySpec

\* The counter of the pending candidate locates, in the session's verdicts,
\* the strong verdict that opened it, and everything since is unresolved:
\* what lets a counter stand for the history.
CandidateHasEvidence ==
  pending # Nothing =>
    /\ checks \in 1..Len(log)
    /\ Policy!Supports(Len(log) - checks + 1, pending)

\* The other way round: a suspicion that the verdicts opened, and that none
\* of them settled, is the one the detector has pending.
EvidenceIsPending ==
  \A k \in DOMAIN log, f \in FailureTypes :
    Policy!Opens(k) /\ Policy!Supports(k, f) =>
      pending = f /\ checks = Len(log) - k + 1

\* The cooldown table remembers the alerts of the running session: the last
\* instant of each failure type that alerted, and nothing of the others.
AlertsOf(f) == {a \in raised : a.session = session /\ a.failure_type = f}

CooldownsTellAlerts ==
  \A f \in FailureTypes :
    IF cooldowns[session][f] = Never
    THEN AlertsOf(f) = {}
    ELSE \E a \in AlertsOf(f) :
           /\ a.at = cooldowns[session][f]
           /\ \A b \in AlertsOf(f) : b.at <= a.at

\* "Two checks at or above CONFIRMATION_THRESHOLD with the same failure type
\* are required" for an alert (README.md:424-425; the comment at
\* confirmation.py:96 says the same).
TwoConfirmations ==
  [][raised' # raised =>
       \E k \in DOMAIN log :
         /\ log[k] \in Failures
         /\ log[k].failure_type = decision'.analysis
         /\ log[k].confidence >= ConfirmationThreshold]_hvars
===============================================================================
