------------------------------ MODULE PrintLedger -------------------------------
(***************************************************************************)
(* What the print history promises to whoever reads the database while the *)
(* service runs and crashes (README, "Print history"):                     *)
(*                                                                         *)
(*   - a row is inserted, running, when monitoring starts, and only while  *)
(*     no other session is the monitor's;                                  *)
(*   - it is settled when that session closes, once;                       *)
(*   - a row the service lost sight of stays running until the next start  *)
(*     makes it unknown, and a start leaves no row running;                *)
(*   - a row that is settled or unknown is never touched again.            *)
(*                                                                         *)
(* A session without a row is missing in it, and stays so: the insertion   *)
(* failed, or the service runs without a database.                         *)
(***************************************************************************)
EXTENDS Naturals, Sequences

VARIABLES
  ledger,   \* the state of each session's row, in the order of the sessions
  live,     \* the session the service has in hand, or 0
  up        \* whether the service runs, with its database

lvars == <<ledger, live, up>>

LedgerInit == ledger = <<>> /\ live = 0 /\ up \in BOOLEAN

Open ==
  /\ up /\ live = 0
  /\ \E state \in {"running", "missing"} : ledger' = Append(ledger, state)
  /\ live' = Len(ledger')
  /\ UNCHANGED up

\* The row of the session in hand, at most, is settled as it is let go of;
\* the service may stop with the same step.
Release ==
  /\ live # 0
  /\ \/ UNCHANGED ledger
     \/ ledger[live] = "running" /\ ledger' = [ledger EXCEPT ![live] = "settled"]
  /\ live' = 0
  /\ up' \in {up, FALSE}

Stop == up' = FALSE /\ live' = 0 /\ UNCHANGED ledger

Start ==
  /\ ~up
  /\ up' = TRUE
  /\ ledger' = [s \in DOMAIN ledger |->
                  IF ledger[s] = "running" THEN "unknown" ELSE ledger[s]]
  /\ UNCHANGED live

\* A print watched without a database.
Unrecorded ==
  /\ ~up
  /\ ledger' = Append(ledger, "missing")
  /\ UNCHANGED <<live, up>>

LedgerNext == Open \/ Release \/ Stop \/ Start \/ Unrecorded

LedgerSpec == LedgerInit /\ [][LedgerNext]_lvars
================================================================================
