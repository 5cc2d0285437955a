------------------------------- MODULE Verdicts -------------------------------
(***************************************************************************)
(* What the vision model can say of a print, as far as the confirmation    *)
(* logic tells one answer from another: class FailureAnalysis of           *)
(* app/vision/schemas.py and the thresholds it is compared with.           *)
(*                                                                         *)
(* A confidence is a level of an ordered scale and the two thresholds are  *)
(* levels of that scale: the code only ever compares them.  The statuses   *)
(* "uncertain" and "failure" are not distinguished, because the code only  *)
(* asks whether the status is "healthy".                                   *)
(***************************************************************************)
EXTENDS Naturals

CONSTANTS
  FailureTypes,           \* the failure_type literals of the vision schema
  Nothing,                \* Python's None, where a failure type is expected
  MaxConfidence,          \* the top of the confidence scale
  SuspicionThreshold,     \* Settings.suspicion_threshold
  ConfirmationThreshold   \* Settings.confirmation_threshold

ASSUME NothingAssumption == Nothing \notin FailureTypes

\* Nothing says that the confirmation threshold is the higher one.
ASSUME ThresholdsAssumption ==
  /\ MaxConfidence \in Nat
  /\ SuspicionThreshold \in Nat
  /\ ConfirmationThreshold \in Nat

\* What the analyzer can hand over: nothing (no parsed output or a refusal),
\* a healthy verdict, or a verdict that names a failure.
Inconclusive == [kind |-> "inconclusive"]
Healthy == [kind |-> "healthy"]
Failures == [kind : {"failure"}, failure_type : FailureTypes,
             confidence : 0..MaxConfidence]
Results == {Inconclusive, Healthy} \cup Failures

\* A verdict that can open a suspicion.
Strong(r) == r \in Failures /\ r.confidence >= SuspicionThreshold
===============================================================================
