------------------------------ MODULE PrinterLink ------------------------------
(***************************************************************************)
(* How the service learns the printer's state: BambuMqttClient of          *)
(* app/bambu/mqtt_client.py and PrinterState.apply_report of               *)
(* app/bambu/models.py, with the printer and its broker.                   *)
(*                                                                         *)
(* The printer publishes what changes, and everything when a pushall asks  *)
(* for it.  paho's network thread runs the callbacks, one message after    *)
(* the other; the monitor reads the PrinterState between any two of the    *)
(* assignments a report makes, so each of them is a step.  One figure      *)
(* stands for progress, layer, total_layers and remaining_minutes.         *)
(***************************************************************************)
EXTENDS Ams

CONSTANTS
  Moments,      \* what the printer may have to say of itself
  None,         \* Python's None
  MaxMoves,     \* bound: changes of the printer
  MaxBreaks,    \* bound: connections lost
  MaxIgnored    \* bound: requests that get no answer

Blank == ""     \* a name that is reported, but empty

ASSUME MomentsAssumption ==
  /\ Moments \subseteq [state : STRING, figure : Int, subtask_name : STRING,
                        gcode_file : STRING, trays : Blocks]
  /\ None \notin STRING \cup Int /\ Absent \notin STRING \cup Blocks
  /\ None \notin Moments
  /\ {MaxMoves, MaxBreaks, MaxIgnored} \subseteq Nat

VARIABLES
  \* the printer and its broker
  actual,       \* the moment the printer is in
  subscribed,   \* whether this connection gets its reports
  \* the connection
  link,         \* "down", "up", "lost" before on_disconnect, or "closed"
  requests,     \* subscribe and pushall on their way to the broker
  reports,      \* reports on their way to on_message
  \* the client
  connected,    \* self._connected
  view,         \* self.state
  field,        \* the assignment of apply_report that comes next
  \* bookkeeping of the model
  seen,         \* the moment of the last report read since a full one, or None
  missed,       \* of the trays and the name, what a report was cut before and
                \* none has brought since
  stocked,      \* the last block that brought the units and had anything loaded
  unanswered,   \* whether the pushall of this connection got no answer
  moves, breaks, ignored

printerVars == <<actual, subscribed, moves>>
linkVars == <<link, requests, connected, breaks>>
viewVars == <<view, field, seen, missed, stocked>>
lossVars == <<unanswered, ignored>>
vars == <<printerVars, linkVars, viewVars, lossVars, reports>>

NoTrays == [ams |-> <<>>, vt_tray |-> Absent]
NoView == [state |-> None, figure |-> None, file_name |-> None, slots |-> {}]

Init ==
  /\ actual \in Moments /\ subscribed = FALSE
  /\ link = "down" /\ requests = <<>> /\ reports = <<>>
  /\ connected = FALSE /\ view = NoView /\ field = "state"
  /\ seen = None /\ missed = {} /\ stocked = NoTrays /\ unanswered = FALSE
  /\ moves = 0 /\ breaks = 0 /\ ignored = 0

--------------------------------------------------------------------------------
(* The printer and its broker.                                                *)

\* A report says of each field what it is, or is silent about it; told is the
\* moment it was made in, which is not part of it.
Whole(now) == [full |-> TRUE, says |-> now, told |-> now]

OnlySpool(block) == [ams |-> <<>>, vt_tray |-> block.vt_tray]

\* Only what has changed; of the trays perhaps only the external spool.
Change(now, next) ==
  {[full |-> FALSE, told |-> next,
    says |-> [f \in DOMAIN next |->
                IF next[f] = now[f] THEN Absent
                ELSE IF f = "trays" THEN block ELSE next[f]]] :
     block \in {next.trays} \cup
                 IF next.trays.ams = now.trays.ams THEN {OnlySpool(next.trays)} ELSE {}}

Moves ==
  /\ moves < MaxMoves /\ moves' = moves + 1
  /\ actual' \in Moments \ {actual}
  /\ IF subscribed THEN \E r \in Change(actual, actual') : reports' = Append(reports, r)
     ELSE UNCHANGED reports
  /\ UNCHANGED <<subscribed, linkVars, viewVars, lossVars>>

\* The broker takes the requests in the order of the connection.
Serve ==
  /\ link = "up" /\ requests # <<>>
  /\ requests' = Tail(requests)
  /\ IF Head(requests) = "subscribe"
     THEN subscribed' = TRUE /\ UNCHANGED reports
     ELSE /\ UNCHANGED subscribed
          /\ reports' = IF subscribed THEN Append(reports, Whole(actual)) ELSE reports
  /\ UNCHANGED <<actual, moves, link, connected, breaks, viewVars, lossVars>>

\* With QoS 0 nothing tells the client that its pushall was dropped.
Ignore ==
  /\ link = "up" /\ requests # <<>> /\ Head(requests) = "pushall"
  /\ ignored < MaxIgnored /\ ignored' = ignored + 1
  /\ requests' = Tail(requests)
  /\ unanswered' = TRUE
  /\ UNCHANGED <<printerVars, link, connected, breaks, viewVars, reports>>

--------------------------------------------------------------------------------
(* The connection: paho connects and reconnects by itself.                    *)

Accepted == link = "down" /\ link' = "up" /\ connected' = TRUE

Fresh ==
  /\ seen' = None /\ missed' = {} /\ unanswered' = FALSE
  /\ UNCHANGED <<printerVars, view, field, stocked, breaks, ignored, reports>>

\* Mutant: the snapshot is asked for before the reports are subscribed to.
OnConnectAsksFirst == Accepted /\ requests' = <<"pushall", "subscribe">> /\ Fresh

\* Mutant: a connection only subscribes.
OnConnectOnlySubscribes == Accepted /\ requests' = <<"subscribe">> /\ Fresh

\* _on_connect.
OnConnect == Accepted /\ requests' = <<"subscribe", "pushall">> /\ Fresh

\* Mutant: the reason code is not looked at.
OnConnectRefusedCounts ==
  /\ link = "down"
  /\ connected' = TRUE
  /\ UNCHANGED <<printerVars, link, requests, breaks, viewVars, lossVars, reports>>

\* _on_connect with a reason code: the broker hangs up, paho tries again.
OnConnectRefused ==
  /\ link = "down"
  /\ UNCHANGED vars

\* What has reached the client's socket is still read.
Break ==
  /\ link = "up" /\ breaks < MaxBreaks /\ breaks' = breaks + 1
  /\ link' = "lost" /\ requests' = <<>> /\ subscribed' = FALSE
  /\ \E n \in 0..Len(reports) :
       /\ field # "state" => n > 0
       /\ reports' = SubSeq(reports, 1, n)
  /\ UNCHANGED <<actual, moves, connected, viewVars, lossVars>>

OnDisconnect ==
  /\ link = "lost" /\ reports = <<>>
  /\ link' = "down" /\ connected' = FALSE
  /\ UNCHANGED <<printerVars, requests, breaks, viewVars, lossVars, reports>>

\* disconnect, when the service stops: loop_stop waits for the callback.
Disconnect ==
  /\ link # "closed" /\ field = "state"
  /\ link' = "closed" /\ connected' = FALSE
  /\ requests' = <<>> /\ reports' = <<>> /\ subscribed' = FALSE
  /\ UNCHANGED <<actual, moves, breaks, viewVars, lossVars>>

--------------------------------------------------------------------------------
(* apply_report, one assignment after the other.                              *)

Says == Head(reports).says
Carries(f) == Says[f] # Absent

Assign(f, value) == view' = [view EXCEPT ![f] = value]
Untouched == UNCHANGED <<printerVars, linkVars, lossVars>>
Goes(to) == field' = to /\ UNCHANGED <<reports, seen, missed, stocked>> /\ Untouched

\* A field of the moment a report was made in, and for the trays all of them:
\* a report of the spool alone says nothing of the units.
Brings(f) ==
  /\ Carries(f)
  /\ f = "trays" => Says.trays.ams = Head(reports).told.trays.ams

Stocked ==
  IF Brings("trays") /\ ParseAms(Says.trays) # {} THEN Says.trays ELSE stocked

\* The report is done with, wholly read or cut before its slots and its name.
Done(cut) ==
  /\ field' = "state" /\ reports' = Tail(reports)
  /\ seen' = IF Head(reports).full \/ seen # None THEN Head(reports).told ELSE None
  /\ missed' = IF cut THEN {"trays", "subtask_name"} ELSE {f \in missed : ~Brings(f)}
  /\ stocked' = IF cut THEN stocked ELSE Stocked
  /\ Untouched

ApplyState ==
  /\ reports # <<>> /\ field = "state"
  /\ IF Carries("state") THEN Assign("state", Says.state) ELSE UNCHANGED view
  /\ Goes("figure")

\* Mutant: a figure that is not reported is taken for unknown.
ApplyFigureAlways ==
  /\ field = "figure"
  /\ Assign("figure", IF Carries("figure") THEN Says.figure ELSE None)
  /\ Goes("trays")

ApplyFigure ==
  /\ field = "figure"
  /\ IF Carries("figure") THEN Assign("figure", Says.figure) ELSE UNCHANGED view
  /\ Goes("trays")

\* Mutant: the slots of a report are added to those known.
ApplyTraysMerges ==
  /\ field = "trays"
  /\ IF Carries("trays") /\ ~ParseRaises(Says.trays)
     THEN Assign("slots", view.slots \cup ParseAms(Says.trays)) /\ Goes("name")
     ELSE UNCHANGED view /\ Goes("name")

\* A block that parses to nothing replaces nothing; one that raises ends the
\* report, and handle_payload logs it.
ApplyTrays ==
  /\ field = "trays"
  /\ IF ~Carries("trays") THEN UNCHANGED view /\ Goes("name")
     ELSE IF ParseRaises(Says.trays) THEN UNCHANGED view /\ Done(TRUE)
     ELSE /\ IF ParseAms(Says.trays) = {} THEN UNCHANGED view
             ELSE Assign("slots", ParseAms(Says.trays))
          /\ Goes("name")

Named == Carries("subtask_name") /\ Says.subtask_name # Blank

\* Mutant: the path of the sliced file replaces a name that is known.
ApplyNameByFile ==
  /\ field = "name"
  /\ CASE Carries("gcode_file") -> Assign("file_name", Says.gcode_file)
       [] Named /\ ~Carries("gcode_file") -> Assign("file_name", Says.subtask_name)
       [] OTHER -> UNCHANGED view
  /\ Done(FALSE)

ApplyName ==
  /\ field = "name"
  /\ CASE Named -> Assign("file_name", Says.subtask_name)
       [] ~Named /\ view.file_name = None /\ Carries("gcode_file") ->
            Assign("file_name", Says.gcode_file)
       [] OTHER -> UNCHANGED view
  /\ Done(FALSE)

Apply == ApplyState \/ ApplyFigure \/ ApplyTrays \/ ApplyName

--------------------------------------------------------------------------------
Next ==
  \/ Moves \/ Serve \/ Ignore
  \/ OnConnect \/ OnConnectRefused \/ Break \/ OnDisconnect \/ Disconnect
  \/ Apply

\* The broker answers, and the network thread reads what arrives.
Fairness == WF_vars(Serve) /\ WF_vars(Apply)

Spec == Init /\ [][Next]_vars /\ Fairness

--------------------------------------------------------------------------------
Maybe(S) == S \cup {Absent}

Reports ==
  [full : BOOLEAN, told : Moments,
   says : [state : Maybe(STRING), figure : Maybe(Int), subtask_name : Maybe(STRING),
           gcode_file : Maybe(STRING), trays : Maybe(Blocks)]]

Views ==
  [state : STRING \cup {None}, figure : Int \cup {None},
   file_name : STRING \cup {None}, slots : SUBSET Int]

LinkTypeOK ==
  /\ actual \in Moments /\ subscribed \in BOOLEAN
  /\ link \in {"down", "up", "lost", "closed"}
  /\ connected \in BOOLEAN /\ (connected <=> link \in {"up", "lost"})
  /\ requests \in Seq({"subscribe", "pushall"})
  /\ reports \in Seq(Reports)
  /\ view \in Views
  /\ field \in {"state", "figure", "trays", "name"}
  /\ field # "state" => reports # <<>>
  /\ seen \in Moments \cup {None}
  /\ missed \subseteq {"trays", "subtask_name"} /\ stocked \in Blocks
  /\ unanswered \in BOOLEAN
  /\ moves \in 0..MaxMoves /\ breaks \in 0..MaxBreaks /\ ignored \in 0..MaxIgnored

Between == field = "state" /\ seen # None

\* Between two reports the loop sees the state and the figures of one moment
\* of the printer, never a mixture of two, whichever fields the reports since
\* the last full one carried and whether or not they could be read to their end.
ViewIsAMoment == Between => view.state = seen.state /\ view.figure = seen.figure

\* The name belongs to that moment too, unless a report was cut before its
\* name, or the print has no name of its own.
NameFollows ==
  Between /\ "subtask_name" \notin missed /\ seen.subtask_name # Blank =>
    view.file_name = seen.subtask_name

\* No slot of an AMS is shown that is not loaded, though some may be missing,
\* once the units have been read that a cut report may have withheld.  When
\* nothing at all is loaded the view keeps what it had, and then it shows
\* slots of the last units that had something, never older ones.
UnitsAreLoaded ==
  Between /\ "trays" \notin missed =>
    view.slots \ {ExternalSlot} \subseteq
      ParseAms(IF ParseAms(seen.trays) # {} THEN seen.trays ELSE stocked)

\* Once everything on the way has been read, the loop knows the present
\* moment: nothing the printer did before or while the client connected is
\* missed, however often the connection was lost.
CurrentWhenQuiet ==
  link = "up" /\ requests = <<>> /\ reports = <<>> /\ ~unanswered =>
    view.state = actual.state /\ view.figure = actual.figure

\* A connection that stays up, and whose pushall is answered, tells the loop
\* of a print that was running all along.
HearsPrinter == link = "up" ~> (seen # None \/ link # "up" \/ unanswered)
================================================================================
