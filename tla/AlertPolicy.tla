----------------------------- MODULE AlertPolicy ------------------------------
(***************************************************************************)
(* What the confirmation logic promises, said of the verdicts themselves:  *)
(* no candidate and no counter, only the verdicts of the session so far,   *)
(* oldest first, and the alerts raised.  It follows the README ("requires  *)
(* a matching second detection", "within the cooldown") made precise by    *)
(* app/detection/confirmation.py.                                          *)
(*                                                                         *)
(*   - an alert needs an earlier strong verdict of the same type, with     *)
(*     nothing but unresolved verdicts since, and not too many of them;    *)
(*   - when that earlier verdict is the one that opened the suspicion, the *)
(*     alert may not be left out;                                          *)
(*   - unless the same failure alerted within the cooldown, when it may    *)
(*     not be raised.                                                      *)
(***************************************************************************)
EXTENDS Verdicts, Sequences

CONSTANTS SuspicionMaxChecks, AlertCooldown

VARIABLES
  log,       \* the verdicts of the session, oldest first
  raised,    \* the alerts of this process: session, failure type, instant
  session,
  now

pvars == <<log, raised, session, now>>

Dismissive(r) == r \in {Inconclusive, Healthy}

\* A verdict that neither drops nor settles a suspicion of f.
Unresolved(r, f) ==
  /\ r \in Failures
  /\ Strong(r) => r.failure_type = f /\ r.confidence < ConfirmationThreshold

\* The verdict at k still speaks for f.
Supports(k, f) ==
  /\ Strong(log[k])
  /\ log[k].failure_type = f
  /\ \A j \in k+1..Len(log) : Unresolved(log[j], f)
  /\ k = Len(log) \/ Len(log) - k + 1 < SuspicionMaxChecks

\* No suspicion was pending when the verdict at k arrived.
Opens(k) == k = 1 \/ Dismissive(log[k-1])

Confirms(r) == Strong(r) /\ r.confidence >= ConfirmationThreshold

RaisedLately(f) ==
  \E a \in raised : /\ a.session = session
                    /\ a.failure_type = f
                    /\ now - a.at < AlertCooldown

MayRaise(r) ==
  /\ Confirms(r)
  /\ \E k \in DOMAIN log : Supports(k, r.failure_type)
  /\ ~RaisedLately(r.failure_type)

MustRaise(r) ==
  /\ MayRaise(r)
  /\ \E k \in DOMAIN log : Opens(k) /\ Supports(k, r.failure_type)

PolicyInit == log = <<>> /\ raised = {} /\ session = 1 /\ now = 0

StaySilent(r) ==
  /\ ~MustRaise(r)
  /\ log' = Append(log, r)
  /\ UNCHANGED <<raised, session, now>>

Raise(r) ==
  /\ MayRaise(r)
  /\ log' = Append(log, r)
  /\ raised' = raised \cup {[session |-> session, at |-> now,
                             failure_type |-> r.failure_type]}
  /\ UNCHANGED <<session, now>>

NewSession ==
  /\ session' = session + 1
  /\ log' = <<>>
  /\ UNCHANGED <<raised, now>>

Wait == now' > now /\ UNCHANGED <<log, raised, session>>

PolicyNext ==
  \/ \E r \in Results : StaySilent(r) \/ Raise(r)
  \/ NewSession
  \/ Wait

PolicySpec == PolicyInit /\ [][PolicyNext]_pvars
===============================================================================
