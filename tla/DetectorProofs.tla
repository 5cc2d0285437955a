---------------------------- MODULE DetectorProofs ----------------------------
(***************************************************************************)
(* Theorems about Detector, for every value of its constants.              *)
(***************************************************************************)
EXTENDS Detector, TLAPS

\* What a reader needs to know of a verdict that can open a suspicion.
LEMMA StrongVerdict ==
  ASSUME NEW r, Strong(r)
  PROVE  /\ r.failure_type \in FailureTypes
         /\ r.failure_type # Nothing
BY NothingAssumption DEF Strong, Failures

\* The decisions of process are Decisions.
LEMMA DecisionTyped ==
  ASSUME NEW alert \in BOOLEAN,
         NEW interval \in {NormalInterval, SuspiciousInterval},
         NEW analysis \in FailureTypes \cup {Nothing},
         Decide(alert, interval, analysis)
  PROVE  decision' \in Decisions
BY DEF Decide, Decisions

\* A step preserves the types.
LEMMA TypeStep == ASSUME TypeOK, [Next]_vars PROVE TypeOK'
<1> USE SettingsAssumption, BoundsAssumption
<1> USE DEF TypeOK, Decisions, Sessions
<1> DEFINE MachineOK == /\ pending \in FailureTypes \cup {Nothing}
                        /\ checks \in Nat
                        /\ decision \in Decisions
<1>1. ASSUME TickSuspicion PROVE MachineOK'
  <2>1. pending' \in {pending, Nothing} /\ checks' \in {checks, checks + 1, 0}
    BY <1>1 DEF TickSuspicion, Forget
  <2>2. decision' \in Decisions
    BY <1>1, DecisionTyped DEF TickSuspicion
  <2> QED
    BY <2>1, <2>2
<1>2. ASSUME NEW r \in Results, Process(r) PROVE TypeOK'
  <2>1. UNCHANGED <<session, now>> /\ parity' \in {0, 1}
    BY <1>2 DEF Process
  <2>2. CASE NoSuspicion(r)
    BY <2>1, <2>2 DEF NoSuspicion, Forget, Decide
  <2>3. CASE BelowSuspicion(r)
    BY <1>1, <2>1, <2>3 DEF BelowSuspicion, TickSuspicion
  <2>4. CASE OpenSuspicion(r)
    BY <2>1, <2>4, StrongVerdict DEF OpenSuspicion, Decide
  <2>5. CASE NotConfirmed(r)
    BY <1>1, <2>1, <2>5 DEF NotConfirmed, TickSuspicion
  <2>6. CASE Confirmed(r)
    <3>1. r.failure_type \in FailureTypes
      BY <2>6, StrongVerdict DEF Confirmed
    <3>2. pending' = Nothing /\ checks' = 0
      BY <2>6 DEF Confirmed, Forget
    <3>3. decision' \in Decisions
      BY <2>6, <3>1, DecisionTyped DEF Confirmed
    <3>4. CASE UNCHANGED cooldowns
      BY <2>1, <3>2, <3>3, <3>4
    <3>5. CASE cooldowns' = [cooldowns EXCEPT ![session][r.failure_type] = now]
      <4>1. now \in 0..Never
        BY DEF Never
      <4>2. cooldowns' \in [Sessions -> [FailureTypes -> 0..Never]]
        BY <3>1, <3>5, <4>1
      <4> QED
        BY <2>1, <3>2, <3>3, <4>2
    <3> QED
      BY <2>6, <3>4, <3>5 DEF Confirmed
  <2> QED
    BY <1>2, <2>2, <2>3, <2>4, <2>5, <2>6 DEF Process
<1>3. CASE Reset
  BY <1>3 DEF Reset, Forget, Decide, NoCooldowns, Never
<1>4. CASE Tick
  BY <1>4 DEF Tick
<1>5. CASE UNCHANGED vars
  BY <1>5 DEF vars
<1> QED
  BY <1>2, <1>3, <1>4, <1>5 DEF Next

\* Every variable keeps the range of values its Python counterpart has.
THEOREM TypeCorrect == Spec => []TypeOK
<1>1. Init => TypeOK
  BY SettingsAssumption, BoundsAssumption
  DEF Init, TypeOK, NoCooldowns, Never, Sessions, Decisions
<1> QED
  BY <1>1, TypeStep, PTL DEF Spec

\* A step keeps the counter and the candidate together.
LEMMA AccountedStep ==
  ASSUME TypeOK, SuspicionAccounted, [Next]_vars PROVE SuspicionAccounted'
<1> USE SettingsAssumption
<1> USE DEF SuspicionAccounted
<1>1. ASSUME TickSuspicion PROVE SuspicionAccounted'
  BY <1>1 DEF TickSuspicion, Forget, Decide, TypeOK
<1>2. ASSUME NEW r \in Results, Process(r) PROVE SuspicionAccounted'
  <2>1. CASE NoSuspicion(r)
    BY <2>1 DEF NoSuspicion, Forget, Decide
  <2>2. CASE BelowSuspicion(r)
    BY <1>1, <2>2 DEF BelowSuspicion
  <2>3. CASE OpenSuspicion(r)
    BY <2>3, StrongVerdict DEF OpenSuspicion, Decide
  <2>4. CASE NotConfirmed(r)
    BY <1>1, <2>4 DEF NotConfirmed
  <2>5. CASE Confirmed(r)
    BY <2>5 DEF Confirmed, Forget, Decide
  <2> QED
    BY <1>2, <2>1, <2>2, <2>3, <2>4, <2>5 DEF Process
<1>3. CASE Reset
  BY <1>3 DEF Reset, Forget, Decide
<1>4. CASE Tick
  BY <1>4 DEF Tick
<1>5. CASE UNCHANGED vars
  BY <1>5 DEF vars
<1> QED
  BY <1>2, <1>3, <1>4, <1>5 DEF Next

\* A candidate has a counter within its budget, and the fast interval is
\* asked for exactly while there is a candidate: with any thresholds, any
\* budget and any two intervals.
THEOREM SuspicionIsAccounted == Spec => []SuspicionAccounted
<1>1. Init => SuspicionAccounted
  BY DEF Init, SuspicionAccounted
<1> QED
  BY <1>1, AccountedStep, TypeCorrect, PTL DEF Spec

\* A step keeps the cooldown table to the session and to the past.
LEMMA CooldownsStep ==
  ASSUME TypeOK, CooldownsOfThisSession, [Next]_vars PROVE CooldownsOfThisSession'
<1> USE BoundsAssumption DEF Sessions, Never
<1> SUFFICES ASSUME NEW s \in Sessions, NEW f \in FailureTypes,
                    (cooldowns[s][f])' # Never
             PROVE  s = session' /\ (cooldowns[s][f])' <= now'
  BY DEF CooldownsOfThisSession
<1> USE DEF TypeOK, CooldownsOfThisSession
<1>1. ASSUME NEW r \in Results, Process(r)
      PROVE  s = session' /\ (cooldowns[s][f])' <= now'
  <2>1. UNCHANGED <<session, now>>
    BY <1>1 DEF Process
  <2>2. CASE UNCHANGED cooldowns
    BY <2>1, <2>2
  <2>3. CASE Confirmed(r) /\ cooldowns' # cooldowns
    <3>1. cooldowns' = [cooldowns EXCEPT ![session][r.failure_type] = now]
      BY <2>3 DEF Confirmed
    <3>2. CASE s = session /\ f = r.failure_type
      BY <2>1, <3>1, <3>2
    <3>3. CASE ~(s = session /\ f = r.failure_type)
      <4>1. (cooldowns[s][f])' = cooldowns[s][f]
        BY <3>1, <3>3
      <4> QED
        BY <2>1, <4>1
    <3> QED
      BY <3>2, <3>3
  <2> QED
    BY <1>1, <2>2, <2>3
    DEF Process, NoSuspicion, BelowSuspicion, OpenSuspicion, NotConfirmed,
        TickSuspicion
<1>2. CASE Reset
  BY <1>2 DEF Reset, NoCooldowns
<1>3. CASE Tick
  BY <1>3 DEF Tick
<1>4. CASE UNCHANGED vars
  BY <1>4 DEF vars
<1> QED
  BY <1>1, <1>2, <1>3, <1>4 DEF Next

\* The cooldown table only ever speaks of the running session and of the past.
THEOREM CooldownsStayInSession == Spec => []CooldownsOfThisSession
<1>1. Init => CooldownsOfThisSession
  BY DEF Init, CooldownsOfThisSession, NoCooldowns
<1> QED
  BY <1>1, CooldownsStep, TypeCorrect, PTL DEF Spec
===============================================================================
