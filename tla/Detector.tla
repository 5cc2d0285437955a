------------------------------- MODULE Detector -------------------------------
(***************************************************************************)
(* The failure confirmation state machine, class FailureDetector of        *)
(* app/detection/confirmation.py, with the two calls PrintMonitor makes on *)
(* it: process, once per analysed frame, and reset, when a print session   *)
(* starts or ends (each session has an identifier of its own).             *)
(*                                                                         *)
(* The clock is the injected now, in the unit of the cooldown.             *)
(***************************************************************************)
EXTENDS Verdicts

CONSTANTS
  SuspicionMaxChecks,     \* Settings.suspicion_max_checks
  AlertCooldown,          \* Settings.alert_cooldown_minutes
  NormalInterval,         \* Settings.normal_interval
  SuspiciousInterval,     \* Settings.suspicious_interval
  MaxSessions,            \* bound: print sessions watched by one process
  MaxTime                 \* bound: the last instant of the clock

\* Settings validates none of these: the budget may be zero, the suspicious
\* interval may be the longer one.
ASSUME SettingsAssumption ==
  /\ SuspicionMaxChecks \in Nat
  /\ AlertCooldown \in Nat
  /\ NormalInterval \in Nat
  /\ SuspiciousInterval \in Nat

ASSUME BoundsAssumption == MaxSessions \in Nat \ {0} /\ MaxTime \in Nat

Sessions == 1..MaxSessions
Never == MaxTime + 1    \* no alert recorded under this key
Decisions == [alert : BOOLEAN,
              next_interval : {NormalInterval, SuspiciousInterval},
              analysis : FailureTypes \cup {Nothing}]

VARIABLES
  pending,      \* _pending: the failure type of the candidate, or Nothing
  checks,       \* _suspicious_checks
  cooldowns,    \* _cooldowns: when (session, failure type) last alerted
  session,      \* the session the monitor is in
  now,          \* the clock
  decision,     \* the Decision returned last
  parity        \* flips with each call of process: a call is always a step

vars == <<pending, checks, cooldowns, session, now, decision, parity>>

NoCooldowns == [s \in Sessions |-> [f \in FailureTypes |-> Never]]

Decide(alert, interval, analysis) ==
  decision' = [alert |-> alert, next_interval |-> interval, analysis |-> analysis]

Forget == pending' = Nothing /\ checks' = 0

Init ==
  /\ pending = Nothing
  /\ checks = 0
  /\ cooldowns = NoCooldowns
  /\ session = 1
  /\ now = 0
  /\ decision = [alert |-> FALSE, next_interval |-> NormalInterval,
                 analysis |-> Nothing]
  /\ parity = 0

-------------------------------------------------------------------------------
(* The branches of process, in the order of the code.                      *)

\* Mutant: an inconclusive check leaves the candidate where it is.
NoSuspicionKeepsCandidate(r) ==
  /\ r \in {Inconclusive, Healthy}
  /\ Decide(FALSE, NormalInterval, Nothing)
  /\ UNCHANGED <<pending, checks, cooldowns>>

\* No parsed output, or a healthy print: any suspicion is dropped.
NoSuspicion(r) ==
  /\ r \in {Inconclusive, Healthy}
  /\ Forget
  /\ Decide(FALSE, NormalInterval, Nothing)
  /\ UNCHANGED cooldowns

\* Mutant: the check is not counted (the bug confirmation.py:60-64 describes).
TickSuspicionUncounted ==
  UNCHANGED <<pending, checks, cooldowns, decision>>

\* Mutant: the budget is spent one check early.
TickSuspicionEarly ==
  /\ UNCHANGED cooldowns
  /\ \/ pending = Nothing /\ UNCHANGED <<pending, checks, decision>>
     \/ /\ pending # Nothing /\ checks + 2 >= SuspicionMaxChecks
        /\ Forget /\ Decide(FALSE, NormalInterval, Nothing)
     \/ /\ pending # Nothing /\ checks + 2 < SuspicionMaxChecks
        /\ checks' = checks + 1 /\ UNCHANGED <<pending, decision>>

\* _tick_suspicion: an unresolved check uses up a pending candidate's budget.
TickSuspicion ==
  /\ UNCHANGED cooldowns
  /\ \/ /\ pending = Nothing
        /\ UNCHANGED <<pending, checks>>
        /\ Decide(FALSE, NormalInterval, Nothing)
     \/ /\ pending # Nothing
        /\ checks + 1 >= SuspicionMaxChecks
        /\ Forget
        /\ Decide(FALSE, NormalInterval, Nothing)
     \/ /\ pending # Nothing
        /\ checks + 1 < SuspicionMaxChecks
        /\ checks' = checks + 1
        /\ UNCHANGED pending
        /\ Decide(FALSE, SuspiciousInterval, Nothing)

BelowSuspicion(r) ==
  /\ r \in Failures
  /\ ~Strong(r)
  /\ TickSuspicion

\* Mutant: the counter runs on when the candidate is replaced.
OpenSuspicionKeepsCount(r) ==
  /\ Strong(r)
  /\ r.failure_type # pending
  /\ pending' = r.failure_type
  /\ checks' = IF pending = Nothing THEN 1 ELSE checks
  /\ Decide(FALSE, SuspiciousInterval, r.failure_type)
  /\ UNCHANGED cooldowns

\* The first candidate, or one of another type in place of the pending one.
OpenSuspicion(r) ==
  /\ Strong(r)
  /\ r.failure_type # pending
  /\ pending' = r.failure_type
  /\ checks' = 1
  /\ Decide(FALSE, SuspiciousInterval, r.failure_type)
  /\ UNCHANGED cooldowns

NotConfirmed(r) ==
  /\ Strong(r)
  /\ r.failure_type = pending
  /\ r.confidence < ConfirmationThreshold
  /\ TickSuspicion

\* Mutant: the boundary belongs to the cooldown.
CoolingDownInclusive(f) ==
  /\ cooldowns[session][f] # Never
  /\ now - cooldowns[session][f] <= AlertCooldown

CoolingDown(f) ==
  /\ cooldowns[session][f] # Never
  /\ now - cooldowns[session][f] < AlertCooldown

\* Mutant: the table keeps the end of the cooldown, not its start.
ConfirmedStoresExpiry(r) ==
  /\ Strong(r) /\ r.failure_type = pending /\ r.confidence >= ConfirmationThreshold
  /\ Forget
  /\ cooldowns' = [cooldowns EXCEPT ![session][r.failure_type] = now + AlertCooldown]
  /\ Decide(~CoolingDown(r.failure_type), NormalInterval, r.failure_type)

\* Mutant: a suppressed alert prolongs the cooldown.
ConfirmedProlongs(r) ==
  /\ Strong(r) /\ r.failure_type = pending /\ r.confidence >= ConfirmationThreshold
  /\ Forget
  /\ cooldowns' = [cooldowns EXCEPT ![session][r.failure_type] = now]
  /\ Decide(~CoolingDown(r.failure_type), NormalInterval, r.failure_type)

\* A matching detection: the candidate is consumed whether or not it alerts.
Confirmed(r) ==
  /\ Strong(r)
  /\ r.failure_type = pending
  /\ r.confidence >= ConfirmationThreshold
  /\ Forget
  /\ \/ /\ CoolingDown(r.failure_type)
        /\ Decide(FALSE, NormalInterval, r.failure_type)
        /\ UNCHANGED cooldowns
     \/ /\ ~CoolingDown(r.failure_type)
        /\ cooldowns' = [cooldowns EXCEPT ![session][r.failure_type] = now]
        /\ Decide(TRUE, NormalInterval, r.failure_type)

Process(r) ==
  /\ \/ NoSuspicion(r)
     \/ BelowSuspicion(r)
     \/ OpenSuspicion(r)
     \/ NotConfirmed(r)
     \/ Confirmed(r)
  /\ parity' = 1 - parity
  /\ UNCHANGED <<session, now>>

\* Mutant: reset leaves the cooldowns, relying on their session key.
ResetKeepsCooldowns ==
  /\ session < MaxSessions
  /\ session' = session + 1
  /\ Forget
  /\ Decide(FALSE, NormalInterval, Nothing)
  /\ UNCHANGED <<cooldowns, now, parity>>

\* reset, with the monitor going back to the normal interval beside it, as
\* one session ends and the next one starts.
Reset ==
  /\ session < MaxSessions
  /\ session' = session + 1
  /\ Forget
  /\ cooldowns' = NoCooldowns
  /\ Decide(FALSE, NormalInterval, Nothing)
  /\ UNCHANGED <<now, parity>>

Tick ==
  /\ now < MaxTime
  /\ now' = now + 1
  /\ UNCHANGED <<pending, checks, cooldowns, session, decision, parity>>

Next ==
  \/ \E r \in Results : Process(r)
  \/ Reset
  \/ Tick

Spec == Init /\ [][Next]_vars

\* The monitor's loop analyses a frame again and again while a print runs.
FairSpec == Spec /\ WF_vars(\E r \in Results : Process(r))

-------------------------------------------------------------------------------
TypeOK ==
  /\ pending \in FailureTypes \cup {Nothing}
  /\ checks \in Nat
  /\ cooldowns \in [Sessions -> [FailureTypes -> 0..Never]]
  /\ session \in Sessions
  /\ now \in 0..MaxTime
  /\ decision \in Decisions
  /\ parity \in {0, 1}

\* A candidate and its check counter come and go together, the budget is
\* never overdrawn, and the fast interval is asked for exactly while a
\* candidate is pending: nothing leaves the monitor at the fast cadence
\* with no suspicion to resolve (confirmation.py:60-64 tells of that bug).
SuspicionAccounted ==
  /\ pending = Nothing <=> checks = 0
  /\ checks <= 1 \/ checks < SuspicionMaxChecks
  /\ decision.next_interval =
       IF pending = Nothing THEN NormalInterval ELSE SuspiciousInterval

\* The cooldown table never holds a key of a session that is over, nor an
\* instant of the future (reset keeps the table from growing for ever,
\* confirmation.py:44-45).
CooldownsOfThisSession ==
  \A s \in Sessions, f \in FailureTypes :
    cooldowns[s][f] # Never => s = session /\ cooldowns[s][f] <= now

\* One candidate takes the place of another.
Replaced ==
  pending # Nothing /\ pending' \notin {pending, Nothing}

\* As long as the vision model does not keep changing its mind about the
\* type of failure, every suspicion is settled: alerted, suppressed, healthy
\* or abandoned once the budget is spent.
SuspicionSettled == []<>(pending = Nothing) \/ []<><<Replaced>>_vars

\* "abandoning it once the budget is spent so the detector cannot stay at
\* the fast interval forever" (docstring of _tick_suspicion).
FastIntervalEnds == []<>(decision.next_interval = NormalInterval)
===============================================================================
