--------------------------------- MODULE Records --------------------------------
(***************************************************************************)
(* How a print ended and what it consumed: the pure functions of           *)
(* app/storage/records.py, called for the finish notice, for the row of    *)
(* the history and for the material line of an alert.                      *)
(*                                                                         *)
(* Grams are not counted: what a print consumed is a share of its plan,    *)
(* part / whole, the exact fraction the code computes in floating point.   *)
(***************************************************************************)
EXTENDS Integers

CONSTANT None   \* Python's None, where a number is expected

ASSUME NoneAssumption == None \notin Int

Number == Int \cup {None}

Outcomes == {"running", "completed", "stopped", "failed", "unknown"}
Methods == {"complete", "layer_fraction", "unknown"}

\* A print this far along that drops to IDLE finished.
CompletionProgress == 99

\* Mutant: a print is judged by its progress whatever its final state.
DetermineOutcomeByProgress(final_state, progress) ==
  CASE final_state = "FAILED" -> "failed"
    [] final_state \in {"FINISH", "IDLE"} /\ progress # None ->
         IF progress >= CompletionProgress THEN "completed" ELSE "stopped"
    [] OTHER -> "unknown"

DetermineOutcome(final_state, progress) ==
  CASE final_state = "FINISH" -> "completed"
    [] final_state = "FAILED" -> "failed"
    [] final_state = "IDLE" /\ progress # None ->
         IF progress >= CompletionProgress THEN "completed" ELSE "stopped"
    [] OTHER -> "unknown"

NoFigure == [method |-> "unknown", part |-> 0, whole |-> 0]

\* Mutant: a fraction that is not clamped above.
ClampedBelow(n, top) == IF n < 0 THEN 0 ELSE n

Clamped(n, top) == IF n < 0 THEN 0 ELSE IF n > top THEN top ELSE n

\* Layer 0 counts as missing.
LayersKnown(layer, total_layers) ==
  /\ layer # None /\ layer # 0
  /\ total_layers # None /\ total_layers > 0

\* planned says whether the weight of the plan is known.
ComputeConsumption(planned, layer, total_layers, outcome) ==
  CASE planned /\ outcome = "completed" ->
         [method |-> "complete", part |-> 1, whole |-> 1]
    [] /\ planned /\ outcome \notin {"completed", "running"}
       /\ LayersKnown(layer, total_layers) ->
         [method |-> "layer_fraction",
          part |-> Clamped(layer, total_layers), whole |-> total_layers]
    [] OTHER -> NoFigure

\* A figure never exceeds the plan, and there is one exactly when a method
\* is named.
WithinPlan(consumed) ==
  /\ 0 <= consumed.part /\ consumed.part <= consumed.whole
  /\ consumed.method # "unknown" <=> consumed.whole > 0
================================================================================
