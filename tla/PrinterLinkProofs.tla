--------------------------- MODULE PrinterLinkProofs ---------------------------
(***************************************************************************)
(* Theorems about PrinterLink, for any printer and any number of changes,  *)
(* lost connections and requests that get no answer.                       *)
(***************************************************************************)
EXTENDS PrinterLink, TLAPS

-------------------------------------------------------------------------------
(* Types.                                                                  *)

\* Slots are integers.
LEMMA SlotsAreInts ==
  ASSUME NEW block \in Blocks
  PROVE  ParseAms(block) \subseteq Int
<1>1. \A p \in Loaded(block) : p[1] \in DOMAIN block.ams /\ p[2] \in DOMAIN block.ams[p[1]].tray
  BY DEF Loaded, Places
<1>2. ASSUME NEW p \in Loaded(block) PROVE Number(block, p[1], p[2]) \in Int
  <2>1. block.ams \in Seq(Unit) /\ p[1] \in 1..Len(block.ams)
    BY <1>1 DEF Blocks
  <2>2. block.ams[p[1]] \in Unit
    BY <2>1
  <2>3. block.ams[p[1]].tray \in Seq(Tray) /\ block.ams[p[1]].id \in Int \cup {Absent}
    BY <2>2 DEF Unit
  <2>4. p[2] \in 1..Len(block.ams[p[1]].tray)
    BY <1>1, <2>3
  <2> DEFINE tray == block.ams[p[1]].tray[p[2]]
  <2>5a. tray \in Tray
    BY <2>3, <2>4
  <2> HIDE DEF tray
  <2>5b. tray.id \in Int \cup {Absent}
    BY <2>5a DEF Tray
  <2>5. block.ams[p[1]].tray[p[2]].id \in Int \cup {Absent}
    BY <2>5b DEF tray
  <2>6. /\ IdOr(block.ams[p[1]].id, p[1]) \in Int
        /\ IdOr(block.ams[p[1]].tray[p[2]].id, p[2]) \in Int
    BY <2>1, <2>3, <2>4, <2>5 DEF IdOr
  <2> QED
    BY <2>6 DEF Number, TraysPerUnit
<1> QED
  BY <1>2 DEF ParseAms, ExternalSlot

\* What a report may say.
LEMMA ChangeShape ==
  ASSUME NEW now \in Moments, NEW next \in Moments, NEW r \in Change(now, next)
  PROVE  /\ r \in Reports /\ r.full = FALSE /\ r.told = next
         /\ r.says.state \in {Absent, next.state}
         /\ r.says.figure \in {Absent, next.figure}
         /\ r.says.state = Absent => next.state \in {Absent, now.state}
         /\ r.says.figure = Absent => next.figure \in {Absent, now.figure}
         /\ r.says.subtask_name \in {Absent, next.subtask_name}
         /\ r.says.subtask_name = Absent => next.subtask_name \in {Absent, now.subtask_name}
<1>1. next \in [state : STRING, figure : Int, subtask_name : STRING,
                gcode_file : STRING, trays : Blocks]
  BY MomentsAssumption
<1>2. OnlySpool(next.trays) \in Blocks
  BY <1>1 DEF OnlySpool, Blocks
<1>3. PICK block \in {next.trays} \cup
                       IF next.trays.ams = now.trays.ams THEN {OnlySpool(next.trays)} ELSE {} :
        r = [full |-> FALSE, told |-> next,
             says |-> [f \in DOMAIN next |->
                         IF next[f] = now[f] THEN Absent
                         ELSE IF f = "trays" THEN block ELSE next[f]]]
  BY DEF Change
<1>3a. block \in Blocks
  BY <1>1, <1>2, <1>3
<1>4. DOMAIN next = {"state", "figure", "subtask_name", "gcode_file", "trays"}
  BY <1>1
<1>5. r.says \in [state : Maybe(STRING), figure : Maybe(Int),
                  subtask_name : Maybe(STRING), gcode_file : Maybe(STRING),
                  trays : Maybe(Blocks)]
  <2> DEFINE says == [state |-> r.says.state, figure |-> r.says.figure,
                      subtask_name |-> r.says.subtask_name,
                      gcode_file |-> r.says.gcode_file, trays |-> r.says.trays]
  <2>1. r.says = says
    BY <1>3, <1>4
  <2>2. /\ r.says.state \in Maybe(STRING) /\ r.says.figure \in Maybe(Int)
        /\ r.says.subtask_name \in Maybe(STRING) /\ r.says.gcode_file \in Maybe(STRING)
        /\ r.says.trays \in Maybe(Blocks)
    BY <1>1, <1>3, <1>3a, <1>4 DEF Maybe
  <2> HIDE DEF says
  <2> QED
    BY <2>1, <2>2 DEF says
<1>6. r \in Reports /\ r.full = FALSE /\ r.told = next
  BY <1>3, <1>5 DEF Reports
<1>7. /\ r.says.state \in {Absent, next.state}
      /\ r.says.figure \in {Absent, next.figure}
      /\ r.says.state = Absent => next.state \in {Absent, now.state}
      /\ r.says.figure = Absent => next.figure \in {Absent, now.figure}
      /\ r.says.subtask_name \in {Absent, next.subtask_name}
      /\ r.says.subtask_name = Absent => next.subtask_name \in {Absent, now.subtask_name}
  BY <1>3, <1>4
<1> QED
  BY <1>6, <1>7

\* What it may say of the trays.
LEMMA ChangeTrays ==
  ASSUME NEW now \in Moments, NEW next \in Moments, NEW r \in Change(now, next)
  PROVE  \/ r.says.trays = Absent /\ next.trays = now.trays
         \/ r.says.trays = next.trays
         \/ r.says.trays = OnlySpool(next.trays) /\ next.trays.ams = now.trays.ams
<1>1. PICK block \in {next.trays} \cup
                       IF next.trays.ams = now.trays.ams THEN {OnlySpool(next.trays)} ELSE {} :
        r = [full |-> FALSE, told |-> next,
             says |-> [f \in DOMAIN next |->
                         IF next[f] = now[f] THEN Absent
                         ELSE IF f = "trays" THEN block ELSE next[f]]]
  BY DEF Change
<1>2. "trays" \in DOMAIN next
  BY MomentsAssumption
<1>3. r.says.trays = IF next.trays = now.trays THEN Absent ELSE block
  BY <1>1, <1>2
<1>4. block = next.trays \/ (block = OnlySpool(next.trays) /\ next.trays.ams = now.trays.ams)
  BY <1>1
<1> QED
  BY <1>3, <1>4

LEMMA WholeShape ==
  ASSUME NEW now \in Moments
  PROVE  Whole(now) \in Reports /\ Whole(now).full = TRUE
         /\ Whole(now).told = now /\ Whole(now).says = now
BY MomentsAssumption DEF Whole, Reports, Maybe

\* One assignment keeps the view a view.
LEMMA AssignTyped ==
  ASSUME view \in Views
  PROVE  /\ \A v \in STRING : /\ [view EXCEPT !["state"] = v] \in Views
                              /\ [view EXCEPT !["file_name"] = v] \in Views
         /\ \A v \in Int : [view EXCEPT !["figure"] = v] \in Views
         /\ \A v \in SUBSET Int : [view EXCEPT !["slots"] = v] \in Views
BY DEF Views

\* The report that is being read.
LEMMA HeadTyped ==
  ASSUME reports \in Seq(Reports), reports # <<>>
  PROVE  /\ Head(reports) \in Reports /\ Tail(reports) \in Seq(Reports)
         /\ Says.state \in Maybe(STRING) /\ Says.figure \in Maybe(Int)
         /\ Says.subtask_name \in Maybe(STRING) /\ Says.gcode_file \in Maybe(STRING)
         /\ Says.trays \in Maybe(Blocks)
         /\ Head(reports).told \in Moments /\ Head(reports).full \in BOOLEAN
<1>1. Head(reports) \in Reports /\ Tail(reports) \in Seq(Reports)
  OBVIOUS
<1> QED
  BY <1>1 DEF Reports, Says

\* The printer, the broker and the connection keep the types.
LEMMA SendingTyped ==
  ASSUME LinkTypeOK, Moves \/ Serve \/ Ignore
  PROVE  LinkTypeOK'
<1> USE DEF LinkTypeOK
<1>1. CASE Moves
  <2>1. reports' \in Seq(Reports) /\ (field # "state" => reports' # <<>>)
    <3>1. CASE subscribed
      <4>1. PICK r \in Change(actual, actual') : reports' = Append(reports, r)
        BY <1>1, <3>1 DEF Moves
      <4>2. r \in Reports
        BY <1>1, <4>1, ChangeShape DEF Moves
      <4> QED
        BY <4>1, <4>2
    <3>2. CASE ~subscribed
      BY <1>1, <3>2 DEF Moves
    <3> QED
      BY <3>1, <3>2
  <2>2. moves' \in 0..MaxMoves
    BY <1>1, MomentsAssumption DEF Moves
  <2> QED
    BY <1>1, <2>1, <2>2 DEF Moves, linkVars, viewVars, lossVars
<1>2. CASE Serve
  <2>1. reports' \in Seq(Reports) /\ (field # "state" => reports' # <<>>)
    <3>1. Whole(actual) \in Reports
      BY WholeShape
    <3>2. /\ Append(reports, Whole(actual)) \in Seq(Reports)
          /\ Append(reports, Whole(actual)) # <<>>
      BY <3>1
    <3> QED
      BY <1>2, <3>2 DEF Serve
  <2>2. requests' \in Seq({"subscribe", "pushall"})
    BY <1>2 DEF Serve
  <2>3. subscribed' \in BOOLEAN
    BY <1>2 DEF Serve
  <2> QED
    BY <1>2, <2>1, <2>2, <2>3 DEF Serve, viewVars, lossVars
<1>3. CASE Ignore
  <2>1. requests' \in Seq({"subscribe", "pushall"}) /\ ignored' \in 0..MaxIgnored
    BY <1>3, MomentsAssumption DEF Ignore
  <2> QED
    BY <1>3, <2>1 DEF Ignore, printerVars, viewVars
<1> QED
  BY <1>1, <1>2, <1>3

LEMMA ConnectingTyped ==
  ASSUME LinkTypeOK, OnConnect \/ OnConnectRefused \/ Break \/ OnDisconnect \/ Disconnect
  PROVE  LinkTypeOK'
<1> USE DEF LinkTypeOK
<1>1. CASE OnConnect
  <2>1. requests' \in Seq({"subscribe", "pushall"})
    BY <1>1 DEF OnConnect
  <2>2. link' = "up" /\ connected' = TRUE /\ missed' = {} /\ unanswered' = FALSE
    BY <1>1 DEF OnConnect, Accepted, Fresh
  <2>3. /\ UNCHANGED <<printerVars, view, field, stocked, breaks, ignored, reports>>
        /\ seen' = None
    BY <1>1 DEF OnConnect, Fresh
  <2> QED
    BY <2>1, <2>2, <2>3 DEF printerVars
<1>2. CASE OnConnectRefused
  BY <1>2 DEF OnConnectRefused, vars, printerVars, linkVars, viewVars, lossVars
<1>3. CASE Break
  <2>1. reports' \in Seq(Reports) /\ (field # "state" => reports' # <<>>)
    <3>1. PICK n \in 0..Len(reports) :
            (field # "state" => n > 0) /\ reports' = SubSeq(reports, 1, n)
      BY <1>3 DEF Break
    <3> QED
      BY <3>1
  <2>2. breaks' \in 0..MaxBreaks
    BY <1>3, MomentsAssumption DEF Break
  <2>3a. requests' = <<>> /\ subscribed' = FALSE
    BY <1>3 DEF Break
  <2>3. requests' \in Seq({"subscribe", "pushall"})
    BY <2>3a
  <2>4. link' = "lost" /\ (connected' <=> link' \in {"up", "lost"})
    BY <1>3 DEF Break
  <2>5. /\ UNCHANGED <<actual, moves, connected, unanswered, ignored>>
        /\ UNCHANGED <<view, field, seen, missed, stocked>>
    BY <1>3 DEF Break, viewVars, lossVars
  <2> QED
    BY <2>1, <2>2, <2>3a, <2>3, <2>4, <2>5
<1>4. CASE OnDisconnect
  <2>1. link' = "down" /\ connected' = FALSE /\ (connected' <=> link' \in {"up", "lost"})
    BY <1>4 DEF OnDisconnect
  <2>2. /\ UNCHANGED <<actual, subscribed, moves, requests, breaks, reports>>
        /\ UNCHANGED <<view, field, seen, missed, stocked, unanswered, ignored>>
    BY <1>4 DEF OnDisconnect, printerVars, viewVars, lossVars
  <2> QED
    BY <2>1, <2>2
<1>5. CASE Disconnect
  <2>1. link' = "closed" /\ connected' = FALSE /\ subscribed' = FALSE
    BY <1>5 DEF Disconnect
  <2>2. requests' \in Seq({"subscribe", "pushall"}) /\ reports' \in Seq(Reports)
    BY <1>5 DEF Disconnect
  <2>3. field' = "state" /\ UNCHANGED <<actual, moves, breaks, viewVars, lossVars>>
    BY <1>5 DEF Disconnect, viewVars
  <2> QED
    BY <2>1, <2>2, <2>3 DEF viewVars, lossVars
<1> QED
  BY <1>1, <1>2, <1>3, <1>4, <1>5

\* The end of a report keeps the types.
LEMMA DoneTyped ==
  ASSUME LinkTypeOK, field # "state", view' \in Views, NEW cut \in BOOLEAN, Done(cut)
  PROVE  LinkTypeOK'
<1>1. /\ Tail(reports) \in Seq(Reports) /\ Head(reports).told \in Moments
  BY HeadTyped DEF LinkTypeOK
<1>2. seen' \in Moments \cup {None} /\ missed' \subseteq {"trays", "subtask_name"}
  BY <1>1 DEF Done, LinkTypeOK
<1>3. Brings("trays") => Says.trays \in Blocks
  BY HeadTyped DEF Brings, Carries, Says, Reports, Maybe, LinkTypeOK
<1>4. stocked' \in Blocks
  BY <1>3 DEF Done, Stocked, LinkTypeOK
<1> QED
  BY <1>1, <1>2, <1>4 DEF Done, Untouched, LinkTypeOK, printerVars, linkVars, lossVars

\* An assignment before the end of a report keeps the types.
LEMMA GoesTyped ==
  ASSUME LinkTypeOK, reports # <<>>, view' \in Views,
         NEW to \in {"figure", "trays", "name"}, Goes(to)
  PROVE  LinkTypeOK'
BY DEF Goes, Untouched, LinkTypeOK, printerVars, linkVars, lossVars

LEMMA ApplyTyped ==
  ASSUME LinkTypeOK, Apply
  PROVE  LinkTypeOK'
<1>1. reports # <<>> /\ reports \in Seq(Reports) /\ view \in Views
  BY DEF LinkTypeOK, Apply, ApplyState, ApplyFigure, ApplyTrays, ApplyName
<1>2. CASE ApplyState
  <2>1. view' \in Views
    BY <1>1, <1>2, AssignTyped, HeadTyped DEF ApplyState, Carries, Assign, Maybe
  <2> QED
    BY <1>1, <1>2, <2>1, GoesTyped DEF ApplyState
<1>3. CASE ApplyFigure
  <2>1. view' \in Views
    BY <1>1, <1>3, AssignTyped, HeadTyped DEF ApplyFigure, Carries, Assign, Maybe
  <2> QED
    BY <1>1, <1>3, <2>1, GoesTyped DEF ApplyFigure
<1>4. CASE ApplyTrays
  <2>1. view' \in Views
    <3>1. CASE view' = view
      BY <1>1, <3>1
    <3>2. CASE Carries("trays") /\ Assign("slots", ParseAms(Says.trays))
      <4>1. Says.trays \in Blocks
        BY <1>1, <3>2, HeadTyped DEF Carries, Maybe
      <4>2. ParseAms(Says.trays) \in SUBSET Int
        BY <4>1, SlotsAreInts
      <4> QED
        BY <1>1, <3>2, <4>2, AssignTyped DEF Assign
    <3> QED
      BY <1>4, <3>1, <3>2 DEF ApplyTrays
  <2>2. Goes("name") \/ Done(TRUE)
    BY <1>4 DEF ApplyTrays
  <2>3. field # "state"
    BY <1>4 DEF ApplyTrays
  <2> QED
    BY <1>1, <2>1, <2>2, <2>3, GoesTyped, DoneTyped
<1>5. CASE ApplyName
  <2>1. view' \in Views
    BY <1>1, <1>5, AssignTyped, HeadTyped DEF ApplyName, Named, Carries, Assign, Maybe
  <2>2. field # "state"
    BY <1>5 DEF ApplyName
  <2> QED
    BY <1>5, <2>1, <2>2, DoneTyped DEF ApplyName
<1> QED
  BY <1>2, <1>3, <1>4, <1>5 DEF Apply

\* The initial states have the types.
LEMMA LinkTypeInit == ASSUME Init PROVE LinkTypeOK
<1>1. requests \in Seq({"subscribe", "pushall"}) /\ reports \in Seq(Reports)
  BY DEF Init
<1>2. view \in Views
  BY DEF Init, NoView, Views
<1>3. moves \in 0..MaxMoves /\ breaks \in 0..MaxBreaks /\ ignored \in 0..MaxIgnored
  BY MomentsAssumption DEF Init
<1>4. stocked \in Blocks
  BY DEF Init, NoTrays, Blocks
<1> QED
  BY <1>1, <1>2, <1>3, <1>4 DEF Init, LinkTypeOK

\* Every variable keeps its type, the client counts as connected exactly
\* while it holds a connection, and no report is half read that is not there.
THEOREM LinkTypeCorrect == Spec => []LinkTypeOK
<1>1. Init => LinkTypeOK
  BY LinkTypeInit
<1>2. LinkTypeOK /\ [Next]_vars => LinkTypeOK'
  <2>1. LinkTypeOK /\ Next => LinkTypeOK'
    BY SendingTyped, ConnectingTyped, ApplyTyped DEF Next
  <2>2. LinkTypeOK /\ UNCHANGED vars => LinkTypeOK'
    BY DEF LinkTypeOK, vars, printerVars, linkVars, viewVars, lossVars
  <2> QED
    BY <2>1, <2>2
<1> QED
  BY <1>1, <1>2, PTL DEF Spec

-------------------------------------------------------------------------------
(* The view is a moment of the printer.  Between the assignments of a      *)
(* report that is not so, and the moment depends on every report that is   *)
(* still on its way: the invariant describes them all.                     *)

\* What a report says is true of the moment it was made in, although it may
\* say of the trays what the external spool holds only.
Truthful(r) ==
  /\ r.says.state # Absent => r.says.state = r.told.state
  /\ r.says.figure # Absent => r.says.figure = r.told.figure
  /\ r.says.subtask_name # Absent => r.says.subtask_name = r.told.subtask_name
  /\ r.says.trays # Absent => r.says.trays \in {r.told.trays, OnlySpool(r.told.trays)}
  /\ r.full => /\ r.says.state # Absent /\ r.says.figure # Absent
               /\ r.says.subtask_name # Absent /\ r.says.trays # Absent
               /\ r.says.trays = r.told.trays

\* What it is silent about is as it was at the moment before.
Follows(r, moment) ==
  ~r.full => /\ r.says.state = Absent => r.told.state = moment.state
             /\ r.says.figure = Absent => r.told.figure = moment.figure
             /\ r.says.subtask_name = Absent => r.told.subtask_name = moment.subtask_name
             /\ r.says.trays = Absent => r.told.trays = moment.trays
             /\ \/ r.says.trays \in {Absent, r.told.trays}
                \/ r.told.trays.ams = moment.trays.ams

\* The reports on their way, one after the other.
Chain(q) ==
  /\ \A i \in 1..Len(q) : Truthful(q[i])
  /\ \A i \in 2..Len(q) : Follows(q[i], q[i - 1].told)

FirstFollows(q, moment) == q # <<>> /\ moment # None => Follows(q[1], moment)

\* Nothing the printer did since is unreported.
Latest ==
  subscribed => /\ reports # <<>> => reports[Len(reports)].told = actual
                /\ reports = <<>> /\ seen # None => seen = actual

Links ==
  /\ link # "up" => ~subscribed
  /\ link \in {"down", "closed"} => reports = <<>>
  /\ link = "up" /\ ~subscribed => reports = <<>> /\ seen = None

\* The first report, as far as it has been assigned.
Assigned ==
  reports # <<>> =>
    LET r == reports[1] IN
    /\ r.full \/ seen # None =>
         /\ field \in {"figure", "trays", "name"} => view.state = r.told.state
         /\ field \in {"trays", "name"} => view.figure = r.told.figure
    /\ seen # None /\ field = "figure" => view.figure = seen.figure

MomentInv ==
  /\ LinkTypeOK /\ Links /\ Latest
  /\ Chain(reports) /\ FirstFollows(reports, seen)
  /\ Assigned /\ ViewIsAMoment

\* A report of what changed is true and follows.
LEMMA ChangeFollows ==
  ASSUME NEW now \in Moments, NEW next \in Moments, NEW r \in Change(now, next)
  PROVE  Truthful(r) /\ Follows(r, now)
<1>1. next.state # Absent /\ next.figure # Absent /\ next.subtask_name # Absent
  BY MomentsAssumption, AbsentAssumption
<1>2. r.told = next /\ ~r.full
  BY ChangeShape
<1>3. /\ r.says.state \in {Absent, next.state}
      /\ r.says.figure \in {Absent, next.figure}
      /\ r.says.subtask_name \in {Absent, next.subtask_name}
  BY ChangeShape
<1>4. /\ r.says.state = Absent => next.state \in {Absent, now.state}
      /\ r.says.figure = Absent => next.figure \in {Absent, now.figure}
      /\ r.says.subtask_name = Absent => next.subtask_name \in {Absent, now.subtask_name}
  BY ChangeShape
<1>5. \/ r.says.trays = Absent /\ next.trays = now.trays
      \/ r.says.trays = next.trays
      \/ r.says.trays = OnlySpool(next.trays) /\ next.trays.ams = now.trays.ams
  BY ChangeTrays
<1>6. next.trays # Absent /\ OnlySpool(next.trays) # Absent
  <2>1. next.trays \in Blocks /\ Absent \notin Blocks
    BY MomentsAssumption
  <2>2. OnlySpool(next.trays) \in Blocks
    BY <2>1 DEF OnlySpool, Blocks
  <2> QED
    BY <2>1, <2>2
<1>7. Truthful(r)
  BY <1>2, <1>3, <1>5 DEF Truthful
<1>8. Follows(r, now)
  BY <1>1, <1>2, <1>4, <1>5, <1>6 DEF Follows
<1> QED
  BY <1>7, <1>8

LEMMA WholeTruthful ==
  ASSUME NEW now \in Moments
  PROVE  Truthful(Whole(now)) /\ \A m : Follows(Whole(now), m)
<1>1. now.state # Absent /\ now.figure # Absent /\ now.subtask_name # Absent
      /\ now.trays # Absent
  BY MomentsAssumption, AbsentAssumption
<1> QED
  BY <1>1, WholeShape DEF Truthful, Follows

\* A report that follows the last one, or the moment seen, joins the chain.
LEMMA ChainGrows ==
  ASSUME NEW q \in Seq(Reports), NEW r \in Reports, NEW moment,
         Chain(q), FirstFollows(q, moment), Truthful(r),
         q # <<>> => Follows(r, q[Len(q)].told),
         q = <<>> /\ moment # None => Follows(r, moment)
  PROVE  /\ Chain(Append(q, r)) /\ FirstFollows(Append(q, r), moment)
         /\ Append(q, r) # <<>> /\ Append(q, r)[Len(Append(q, r))] = r
         /\ q # <<>> => Append(q, r)[1] = q[1]
         /\ q = <<>> => Append(q, r)[1] = r
<1> DEFINE p == Append(q, r)
<1>1. /\ Len(p) = Len(q) + 1 /\ p[Len(p)] = r /\ p # <<>>
      /\ \A i \in 1..Len(q) : p[i] = q[i]
  OBVIOUS
<1> HIDE DEF p
<1>2. /\ q # <<>> => p[1] = q[1] /\ p[Len(p) - 1] = q[Len(q)]
      /\ q = <<>> => p[1] = r /\ Len(p) = 1
  BY <1>1
<1>3. \A i \in 1..Len(p) : Truthful(p[i])
  BY <1>1 DEF Chain
<1>4. ASSUME NEW i \in 2..Len(p) PROVE Follows(p[i], p[i - 1].told)
  <2>1. CASE i \in 2..Len(q)
    BY <1>1, <2>1 DEF Chain
  <2>2. CASE i = Len(p)
    BY <1>1, <1>2, <2>2
  <2> QED
    BY <1>1, <2>1, <2>2
<1>5. FirstFollows(p, moment)
  BY <1>2 DEF FirstFollows
<1> QED
  BY <1>1, <1>2, <1>3, <1>4, <1>5 DEF Chain, p

\* The chain without its first report follows that report's moment.
LEMMA ChainTail ==
  ASSUME NEW q \in Seq(Reports), q # <<>>, Chain(q)
  PROVE  /\ Chain(Tail(q)) /\ FirstFollows(Tail(q), q[1].told)
         /\ Tail(q) # <<>> => Tail(q)[Len(Tail(q))] = q[Len(q)]
         /\ Tail(q) = <<>> => q[Len(q)] = q[1]
<1> DEFINE p == Tail(q)
<1>1a. Len(p) = Len(q) - 1 /\ p \in Seq(Reports) /\ Len(q) \in Nat \ {0}
  OBVIOUS
<1>1b. \A i \in 1..Len(p) : p[i] = q[i + 1]
  OBVIOUS
<1> HIDE DEF p
<1>1c. p = <<>> <=> Len(q) = 1
  BY <1>1a
<1>1. /\ Len(p) = Len(q) - 1 /\ p \in Seq(Reports)
      /\ \A i \in 1..Len(p) : p[i] = q[i + 1]
      /\ p = <<>> <=> Len(q) = 1
  BY <1>1a, <1>1b, <1>1c
<1>2. \A i \in 1..Len(p) : Truthful(p[i])
  BY <1>1 DEF Chain
<1>3. ASSUME NEW i \in 2..Len(p) PROVE Follows(p[i], p[i - 1].told)
  <2>1. i + 1 \in 2..Len(q) /\ p[i] = q[i + 1] /\ p[i - 1] = q[(i + 1) - 1]
    BY <1>1
  <2> QED
    BY <2>1 DEF Chain
<1>4. FirstFollows(p, q[1].told)
  <2>1. SUFFICES ASSUME p # <<>> PROVE Follows(p[1], q[1].told)
    BY DEF FirstFollows
  <2>2. 2 \in 2..Len(q) /\ p[1] = q[2]
    BY <1>1, <2>1
  <2>3. Follows(q[2], q[2 - 1].told)
    BY <2>2 DEF Chain
  <2> QED
    BY <2>2, <2>3
<1> QED
  BY <1>1, <1>2, <1>3, <1>4 DEF Chain, p

\* A prefix of the chain is one.
LEMMA ChainPrefix ==
  ASSUME NEW q \in Seq(Reports), NEW n \in 0..Len(q), NEW moment,
         Chain(q), FirstFollows(q, moment)
  PROVE  /\ Chain(SubSeq(q, 1, n)) /\ FirstFollows(SubSeq(q, 1, n), moment)
         /\ SubSeq(q, 1, n) # <<>> => SubSeq(q, 1, n)[1] = q[1] /\ q # <<>>
<1> DEFINE p == SubSeq(q, 1, n)
<1>1. Len(p) = n /\ \A i \in 1..n : p[i] = q[i] /\ (p # <<>> => n > 0)
  OBVIOUS
<1>2. p # <<>> => p[1] = q[1] /\ q # <<>>
  OBVIOUS
<1> HIDE DEF p
<1>3. \A i \in 1..Len(p) : Truthful(p[i])
  BY <1>1 DEF Chain
<1>4. \A i \in 2..Len(p) : Follows(p[i], p[i - 1].told)
  BY <1>1 DEF Chain
<1> QED
  BY <1>2, <1>3, <1>4 DEF Chain, FirstFollows, p

\* A change of the printer, reported or not, keeps the invariant.
LEMMA MovesKeeps == ASSUME MomentInv, Moves PROVE MomentInv'
<1>1. LinkTypeOK'
  BY SendingTyped DEF MomentInv
<1>2. UNCHANGED <<subscribed, link, view, field, seen>>
  BY DEF Moves, linkVars, viewVars
<1>3. actual \in Moments /\ actual' \in Moments /\ reports \in Seq(Reports)
      /\ (field # "state" => reports # <<>>)
  BY DEF Moves, MomentInv, LinkTypeOK
<1>4. CASE ~subscribed
  <2>1. reports' = reports
    BY <1>4 DEF Moves
  <2> QED
    BY <1>1, <1>2, <1>4, <2>1
       DEF MomentInv, Links, Latest, Assigned, ViewIsAMoment, Between
<1>5. CASE subscribed
  <2>1. PICK r \in Change(actual, actual') : reports' = Append(reports, r)
    BY <1>5 DEF Moves
  <2>2. r \in Reports /\ r.told = actual' /\ Truthful(r) /\ Follows(r, actual)
    BY <1>3, ChangeShape, ChangeFollows
  <2>3. /\ reports # <<>> => reports[Len(reports)].told = actual
        /\ reports = <<>> /\ seen # None => seen = actual
    BY <1>5 DEF MomentInv, Latest
  <2>4. /\ Chain(reports') /\ FirstFollows(reports', seen)
        /\ reports' # <<>> /\ reports'[Len(reports')] = r
        /\ reports # <<>> => reports'[1] = reports[1]
    BY <1>3, <2>1, <2>2, <2>3, ChainGrows DEF MomentInv
  <2>5. Links' /\ Latest'
    BY <1>2, <1>5, <2>2, <2>4 DEF MomentInv, Links, Latest
  <2>6. Assigned'
    BY <1>2, <1>3, <2>4 DEF MomentInv, Assigned
  <2> QED
    BY <1>1, <1>2, <2>4, <2>5, <2>6 DEF MomentInv, ViewIsAMoment, Between
<1> QED
  BY <1>4, <1>5

\* So does a request that is served, with a report of everything,
LEMMA ServeKeeps == ASSUME MomentInv, Serve PROVE MomentInv'
<1>1. LinkTypeOK'
  BY SendingTyped DEF MomentInv
<1>2. UNCHANGED <<actual, link, view, field, seen>> /\ link = "up"
  BY DEF Serve, viewVars
<1>3. actual \in Moments /\ reports \in Seq(Reports) /\ (field # "state" => reports # <<>>)
  BY DEF MomentInv, LinkTypeOK
<1>4. CASE reports' = reports
  <2>1. Links' /\ Latest'
    BY <1>2, <1>4 DEF Serve, MomentInv, Links, Latest
  <2> QED
    BY <1>1, <1>2, <1>4, <2>1 DEF MomentInv, Assigned, ViewIsAMoment, Between
<1>5. CASE subscribed /\ subscribed' = subscribed /\ reports' = Append(reports, Whole(actual))
  <2>1. /\ Whole(actual) \in Reports /\ Whole(actual).told = actual
        /\ Truthful(Whole(actual)) /\ \A m : Follows(Whole(actual), m)
    BY <1>3, WholeShape, WholeTruthful
  <2>2. /\ Chain(reports') /\ FirstFollows(reports', seen)
        /\ reports' # <<>> /\ reports'[Len(reports')] = Whole(actual)
        /\ reports # <<>> => reports'[1] = reports[1]
    BY <1>3, <1>5, <2>1, ChainGrows DEF MomentInv
  <2>3. Links' /\ Latest'
    BY <1>2, <1>5, <2>1, <2>2 DEF MomentInv, Links, Latest
  <2>4. Assigned'
    BY <1>2, <1>3, <2>2 DEF MomentInv, Assigned
  <2> QED
    BY <1>1, <1>2, <2>2, <2>3, <2>4 DEF MomentInv, ViewIsAMoment, Between
<1> QED
  BY <1>4, <1>5 DEF Serve

\* or that gets no answer,
LEMMA IgnoreKeeps == ASSUME MomentInv, Ignore PROVE MomentInv'
<1>1. LinkTypeOK'
  BY SendingTyped DEF MomentInv
<1>2. UNCHANGED <<actual, subscribed, link, view, field, seen, reports>>
  BY DEF Ignore, printerVars, viewVars
<1> QED
  BY <1>1, <1>2 DEF MomentInv, Links, Latest, Assigned, ViewIsAMoment, Between

\* and whatever happens to the connection.
LEMMA ConnectingKeeps ==
  ASSUME MomentInv, OnConnect \/ OnConnectRefused \/ Break \/ OnDisconnect \/ Disconnect
  PROVE  MomentInv'
<1>1. LinkTypeOK'
  BY ConnectingTyped DEF MomentInv
<1>2. CASE OnConnect
  <2>1. /\ link = "down" /\ link' = "up" /\ seen' = None
        /\ UNCHANGED <<subscribed, reports, field, view>>
    BY <1>2 DEF OnConnect, Accepted, Fresh, printerVars
  <2>2. reports' = <<>> /\ ~subscribed'
    BY <2>1 DEF MomentInv, Links
  <2> QED
    BY <1>1, <2>1, <2>2 DEF MomentInv, Links, Latest, Chain, FirstFollows, Assigned,
                            ViewIsAMoment, Between
<1>3. CASE OnConnectRefused
  <2>1. UNCHANGED <<actual, subscribed, link, reports, view, field, seen>>
    BY <1>3 DEF OnConnectRefused, vars, printerVars, linkVars, viewVars
  <2> QED
    BY <1>1, <2>1 DEF MomentInv, Links, Latest, Chain, FirstFollows, Assigned,
                      ViewIsAMoment, Between
<1>4. CASE Break
  <2>1. /\ link' = "lost" /\ subscribed' = FALSE
        /\ UNCHANGED <<view, field, seen>>
    BY <1>4 DEF Break, viewVars
  <2>2. PICK n \in 0..Len(reports) : reports' = SubSeq(reports, 1, n)
    BY <1>4 DEF Break
  <2>3. /\ Chain(reports') /\ FirstFollows(reports', seen)
        /\ reports' # <<>> => reports'[1] = reports[1] /\ reports # <<>>
    BY <2>2, ChainPrefix DEF MomentInv, LinkTypeOK
  <2>4. Assigned'
    BY <2>1, <2>3 DEF MomentInv, Assigned
  <2> QED
    BY <1>1, <2>1, <2>3, <2>4 DEF MomentInv, Links, Latest, ViewIsAMoment, Between
<1>5. CASE OnDisconnect
  <2>1. /\ link' = "down" /\ reports = <<>> /\ link = "lost"
        /\ UNCHANGED <<actual, subscribed, reports, view, field, seen>>
    BY <1>5 DEF OnDisconnect, printerVars, viewVars
  <2> QED
    BY <1>1, <2>1 DEF MomentInv, Links, Latest, Assigned, ViewIsAMoment, Between
<1>6. CASE Disconnect
  <2>1. /\ link' = "closed" /\ reports' = <<>> /\ subscribed' = FALSE
        /\ UNCHANGED <<view, field, seen>>
    BY <1>6 DEF Disconnect, viewVars
  <2> QED
    BY <1>1, <2>1 DEF MomentInv, Links, Latest, Chain, FirstFollows, Assigned,
                      ViewIsAMoment, Between
<1> QED
  BY <1>2, <1>3, <1>4, <1>5, <1>6

\* What does not touch the reports, nor who gets them.
LEMMA GoesKeeps ==
  ASSUME MomentInv, LinkTypeOK', NEW to \in {"figure", "trays", "name"}, Goes(to), Assigned'
  PROVE  MomentInv'
<1>1. /\ UNCHANGED <<actual, subscribed, link, reports, seen>> /\ field' # "state"
  BY DEF Goes, Untouched, printerVars, linkVars
<1> QED
  BY <1>1 DEF MomentInv, Links, Latest, ViewIsAMoment, Between

LEMMA ApplyStateKeeps == ASSUME MomentInv, ApplyState PROVE MomentInv'
<1>1. LinkTypeOK'
  BY ApplyTyped DEF MomentInv, Apply
<1> DEFINE r == reports[1]
<1>2. /\ reports # <<>> /\ reports \in Seq(Reports) /\ view \in Views
      /\ field = "state" /\ field' = "figure" /\ UNCHANGED <<reports, seen>>
      /\ Says = r.says
  BY DEF ApplyState, Goes, MomentInv, LinkTypeOK, Says
<1>3. /\ view'.figure = view.figure
      /\ r.says.state # Absent => view'.state = r.says.state
      /\ r.says.state = Absent => view'.state = view.state
  BY <1>2 DEF ApplyState, Carries, Assign, Views
<1>4. Truthful(r) /\ (seen # None => Follows(r, seen))
  BY <1>2 DEF MomentInv, Chain, FirstFollows
<1>5. seen # None => view.state = seen.state /\ view.figure = seen.figure
  BY <1>2 DEF MomentInv, ViewIsAMoment, Between
<1>6. r.full \/ seen # None => view'.state = r.told.state
  BY <1>3, <1>4, <1>5 DEF Truthful, Follows
<1>7. Assigned'
  BY <1>2, <1>3, <1>5, <1>6 DEF Assigned
<1> QED
  BY <1>1, <1>7, GoesKeeps DEF ApplyState

LEMMA ApplyFigureKeeps == ASSUME MomentInv, ApplyFigure PROVE MomentInv'
<1>1. LinkTypeOK'
  BY ApplyTyped DEF MomentInv, Apply
<1> DEFINE r == reports[1]
<1>2. /\ reports # <<>> /\ reports \in Seq(Reports) /\ view \in Views
      /\ field = "figure" /\ field' = "trays" /\ UNCHANGED <<reports, seen>>
      /\ Says = r.says
  BY DEF ApplyFigure, Goes, MomentInv, LinkTypeOK, Says
<1>3. /\ view'.state = view.state
      /\ r.says.figure # Absent => view'.figure = r.says.figure
      /\ r.says.figure = Absent => view'.figure = view.figure
  BY <1>2 DEF ApplyFigure, Carries, Assign, Views
<1>4. Truthful(r) /\ (seen # None => Follows(r, seen))
  BY <1>2 DEF MomentInv, Chain, FirstFollows
<1>5. /\ r.full \/ seen # None => view.state = r.told.state
      /\ seen # None => view.figure = seen.figure
  BY <1>2 DEF MomentInv, Assigned
<1>6. r.full \/ seen # None => view'.figure = r.told.figure
  BY <1>3, <1>4, <1>5 DEF Truthful, Follows
<1>7. Assigned'
  BY <1>2, <1>3, <1>5, <1>6 DEF Assigned
<1> QED
  BY <1>1, <1>7, GoesKeeps DEF ApplyFigure

\* A report that is done with leaves its moment, and the rest of the chain.
LEMMA DoneKeeps ==
  ASSUME MomentInv, LinkTypeOK', reports # <<>>, field \in {"trays", "name"},
         view'.state = view.state, view'.figure = view.figure,
         NEW cut \in BOOLEAN, Done(cut)
  PROVE  MomentInv'
<1> DEFINE r == reports[1]
<1>1. /\ reports \in Seq(Reports) /\ Head(reports) = r
      /\ r.told \in Moments /\ None \notin Moments
  BY HeadTyped, MomentsAssumption DEF MomentInv, LinkTypeOK
<1>2. /\ reports' = Tail(reports) /\ field' = "state"
      /\ seen' = IF r.full \/ seen # None THEN r.told ELSE None
      /\ UNCHANGED <<actual, subscribed, link>>
  BY <1>1 DEF Done, Untouched, printerVars, linkVars
<1>3. /\ Chain(Tail(reports)) /\ FirstFollows(Tail(reports), r.told)
      /\ Tail(reports) # <<>> => Tail(reports)[Len(Tail(reports))] = reports[Len(reports)]
      /\ Tail(reports) = <<>> => reports[Len(reports)] = r
  BY <1>1, ChainTail DEF MomentInv
<1>4. FirstFollows(reports', seen')
  BY <1>2, <1>3 DEF FirstFollows
<1>5. Latest'
  BY <1>2, <1>3 DEF MomentInv, Latest
<1>6. Links'
  BY <1>2 DEF MomentInv, Links
<1>7. ViewIsAMoment'
  BY <1>2 DEF MomentInv, Assigned, ViewIsAMoment, Between
<1>8. Assigned'
  BY <1>2 DEF Assigned
<1> QED
  BY <1>2, <1>3, <1>4, <1>5, <1>6, <1>7, <1>8 DEF MomentInv

LEMMA ApplyRestKeeps == ASSUME MomentInv, ApplyTrays \/ ApplyName PROVE MomentInv'
<1>1. LinkTypeOK'
  BY ApplyTyped DEF MomentInv, Apply
<1>2. field \in {"trays", "name"} /\ reports # <<>> /\ view \in Views
  BY DEF ApplyTrays, ApplyName, MomentInv, LinkTypeOK
<1>3. view'.state = view.state /\ view'.figure = view.figure
  BY <1>2 DEF ApplyTrays, ApplyName, Assign, Views
<1>4. CASE field = "trays" /\ Goes("name")
  <2>1. Assigned'
    BY <1>2, <1>3, <1>4 DEF Goes, MomentInv, Assigned
  <2> QED
    BY <1>1, <1>4, <2>1, GoesKeeps
<1>5. CASE Done(TRUE) \/ Done(FALSE)
  BY <1>1, <1>2, <1>3, <1>5, DoneKeeps
<1> QED
  BY <1>4, <1>5 DEF ApplyTrays, ApplyName

LEMMA MomentInvariant == Spec => []MomentInv
<1>1. Init => MomentInv
  <2> SUFFICES ASSUME Init PROVE MomentInv
    OBVIOUS
  <2>1. LinkTypeOK
    BY LinkTypeInit
  <2> QED
    BY <2>1 DEF Init, MomentInv, Links, Latest, Chain, FirstFollows, Assigned,
                ViewIsAMoment, Between
<1>2. MomentInv /\ [Next]_vars => MomentInv'
  <2>1. MomentInv /\ Next => MomentInv'
    BY MovesKeeps, ServeKeeps, IgnoreKeeps, ConnectingKeeps, ApplyStateKeeps,
       ApplyFigureKeeps, ApplyRestKeeps DEF Next, Apply
  <2>2. MomentInv /\ UNCHANGED vars => MomentInv'
    <3> SUFFICES ASSUME MomentInv, UNCHANGED vars PROVE MomentInv'
      OBVIOUS
    <3>1. UNCHANGED <<printerVars, linkVars, viewVars, lossVars, reports>>
      BY DEF vars
    <3>2. LinkTypeOK'
      BY <3>1 DEF MomentInv, LinkTypeOK, printerVars, linkVars, viewVars, lossVars
    <3> QED
      BY <3>1, <3>2 DEF MomentInv, Links, Latest, Assigned, ViewIsAMoment, Between,
                        printerVars, linkVars, viewVars
  <2> QED
    BY <2>1, <2>2
<1> QED
  BY <1>1, <1>2, PTL DEF Spec

\* Between two reports the monitor's loop reads the state and the figures of
\* one moment of the printer (apply_report), whatever was lost before.
THEOREM ViewConsistent == Spec => []ViewIsAMoment
<1>1. MomentInv => ViewIsAMoment
  BY DEF MomentInv
<1> QED
  BY <1>1, MomentInvariant, PTL

-------------------------------------------------------------------------------
(* The view is the present moment once nothing is on its way.  That needs  *)
(* what became of the requests of this connection.                         *)

Asked ==
  link = "up" =>
    \/ requests = <<"subscribe", "pushall">>
    \/ requests = <<"pushall">> /\ subscribed
    \/ /\ requests = <<>> /\ subscribed
       /\ \/ unanswered \/ seen # None
          \/ \E i \in 1..Len(reports) : reports[i].full

LEMMA SendingAsks == ASSUME MomentInv, Asked, Moves \/ Serve \/ Ignore PROVE Asked'
<1>1. reports \in Seq(Reports) /\ actual \in Moments
  BY DEF MomentInv, LinkTypeOK
<1>2. CASE Moves
  <2>1. UNCHANGED <<subscribed, link, requests, seen, unanswered>>
    BY <1>2 DEF Moves, linkVars, viewVars, lossVars
  <2>2. reports' = reports \/ \E r \in Reports : reports' = Append(reports, r)
    <3>1. CASE subscribed
      <4>1. PICK r \in Change(actual, actual') : reports' = Append(reports, r)
        BY <1>2, <3>1 DEF Moves
      <4>2. r \in Reports
        BY <1>1, <1>2, ChangeShape DEF Moves
      <4> QED
        BY <4>1, <4>2
    <3> QED
      BY <1>2, <3>1 DEF Moves
  <2>3. (\E i \in 1..Len(reports) : reports[i].full)
          => \E i \in 1..Len(reports') : reports'[i].full
    BY <1>1, <2>2
  <2> QED
    BY <2>1, <2>3 DEF Asked
<1>3. CASE Serve
  <2>1. UNCHANGED <<link, seen, unanswered>> /\ link = "up" /\ requests' = Tail(requests)
    BY <1>3 DEF Serve, viewVars, lossVars
  <2>2. CASE requests = <<"subscribe", "pushall">>
    <3>1. subscribed' = TRUE /\ Tail(requests) = <<"pushall">>
      BY <1>3, <2>2 DEF Serve
    <3> QED
      BY <2>1, <3>1 DEF Asked
  <2>3. CASE requests = <<"pushall">> /\ subscribed
    <3>1. subscribed' = subscribed /\ reports' = Append(reports, Whole(actual))
          /\ Tail(requests) = <<>>
      BY <1>3, <2>3 DEF Serve
    <3>2. Whole(actual) \in Reports /\ Whole(actual).full
      BY <1>1, WholeShape
    <3>3. Len(reports) + 1 \in 1..Len(reports') /\ reports'[Len(reports) + 1] = Whole(actual)
      BY <1>1, <3>1, <3>2
    <3> QED
      BY <2>1, <2>3, <3>1, <3>2, <3>3 DEF Asked
  <2> QED
    BY <1>3, <2>1, <2>2, <2>3 DEF Asked, Serve
<1>4. CASE Ignore
  <2>1. /\ UNCHANGED <<subscribed, link, seen, reports>> /\ unanswered' = TRUE
        /\ requests' = Tail(requests) /\ Head(requests) = "pushall" /\ link = "up"
    BY <1>4 DEF Ignore, printerVars, viewVars
  <2>2. requests # <<"subscribe", "pushall">> /\ requests # <<>>
    BY <1>4 DEF Ignore
  <2>3. requests = <<"pushall">> /\ subscribed
    BY <2>1, <2>2, <1>4 DEF Asked, Ignore
  <2> QED
    BY <2>1, <2>3 DEF Asked
<1> QED
  BY <1>2, <1>3, <1>4

LEMMA ReadingAsks == ASSUME MomentInv, Asked, Apply PROVE Asked'
<1>1. /\ reports \in Seq(Reports) /\ reports # <<>>
      /\ None \notin Moments
  BY MomentsAssumption
     DEF MomentInv, LinkTypeOK, Apply, ApplyState, ApplyFigure, ApplyTrays, ApplyName
<1>2. UNCHANGED <<subscribed, link, requests, unanswered>>
  BY DEF Apply, ApplyState, ApplyFigure, ApplyTrays, ApplyName, Goes, Done, Untouched,
         printerVars, linkVars, lossVars
<1>3. CASE UNCHANGED <<reports, seen>>
  BY <1>2, <1>3 DEF Asked
<1>4. CASE \E cut \in BOOLEAN : Done(cut)
  <2>1. /\ reports' = Tail(reports) /\ Head(reports) = reports[1]
        /\ seen' = IF reports[1].full \/ seen # None THEN reports[1].told ELSE None
        /\ reports[1].told # None
    BY <1>1, <1>4, HeadTyped DEF Done
  <2>2. ASSUME NEW i \in 1..Len(reports), reports[i].full
        PROVE  seen' # None \/ \E j \in 1..Len(reports') : reports'[j].full
    <3>1. CASE i = 1
      BY <2>1, <2>2, <3>1
    <3>2. CASE i # 1
      <4>1. i - 1 \in 1..Len(reports') /\ reports'[i - 1] = reports[i]
        BY <1>1, <2>1, <3>2
      <4> QED
        BY <2>2, <4>1
    <3> QED
      BY <3>1, <3>2
  <2>3. seen # None => seen' # None
    BY <2>1
  <2> QED
    BY <1>2, <2>2, <2>3 DEF Asked
<1> QED
  BY <1>3, <1>4 DEF Apply, ApplyState, ApplyFigure, ApplyTrays, ApplyName, Goes

LEMMA AskedInvariant == Spec => []Asked
<1>1. Init => Asked
  BY DEF Init, Asked
<1>2. MomentInv /\ Asked /\ [Next]_vars => Asked'
  <2> SUFFICES ASSUME MomentInv, Asked, [Next]_vars PROVE Asked'
    OBVIOUS
  <2>1. CASE OnConnect
    BY <2>1 DEF OnConnect, Asked
  <2>2. CASE OnConnectRefused
    BY <2>2 DEF OnConnectRefused, vars, printerVars, linkVars, viewVars, lossVars, Asked
  <2>3. CASE OnDisconnect
    BY <2>3 DEF OnDisconnect, Asked
  <2>4. CASE Break \/ Disconnect
    BY <2>4 DEF Break, Disconnect, Asked
  <2>5. CASE UNCHANGED vars
    BY <2>5 DEF vars, printerVars, linkVars, viewVars, lossVars, Asked
  <2> QED
    BY <2>1, <2>2, <2>3, <2>4, <2>5, SendingAsks, ReadingAsks DEF Next
<1> QED
  BY <1>1, <1>2, MomentInvariant, PTL DEF Spec

\* Once everything on the way has been read, on a connection whose pushall
\* was answered, the loop knows the present moment of the printer: on_connect
\* subscribes before it asks, so nothing falls between the two.
THEOREM ViewCurrent == Spec => []CurrentWhenQuiet
<1>1. MomentInv /\ Asked => CurrentWhenQuiet
  <2> SUFFICES ASSUME MomentInv, Asked, link = "up", requests = <<>>, reports = <<>>,
                      ~unanswered
               PROVE  view.state = actual.state /\ view.figure = actual.figure
    BY DEF CurrentWhenQuiet
  <2>1. subscribed /\ seen # None
    BY DEF Asked
  <2>2. field = "state" /\ seen = actual
    BY <2>1 DEF MomentInv, LinkTypeOK, Latest
  <2> QED
    BY <2>1, <2>2 DEF MomentInv, ViewIsAMoment, Between
<1> QED
  BY <1>1, MomentInvariant, AskedInvariant, PTL

-------------------------------------------------------------------------------
(* Slots (parse_ams).                                                      *)

\* Units and trays that have their ids, as the printer numbers them.
Numbered(block) ==
  /\ \A u \in DOMAIN block.ams :
       /\ block.ams[u].id \in Nat
       /\ \A t \in DOMAIN block.ams[u].tray : block.ams[u].tray[t].id \in 0..TraysPerUnit - 1

Id(block, p) == block.ams[p[1]].id
TrayId(block, p) == block.ams[p[1]].tray[p[2]].id

\* "Slot numbering is unit * 4 + tray so a second AMS unit does not collide
\* with the first" (ams.py), nor with the external spool.
THEOREM SlotsApart ==
  ASSUME NEW block \in Blocks, Numbered(block),
         NEW p \in Loaded(block), NEW q \in Loaded(block)
  PROVE  /\ Number(block, p[1], p[2]) # ExternalSlot
         /\ Number(block, p[1], p[2]) = Number(block, q[1], q[2]) =>
              Id(block, p) = Id(block, q) /\ TrayId(block, p) = TrayId(block, q)
<1>1. ASSUME NEW r \in Loaded(block)
      PROVE  /\ Id(block, r) \in Nat /\ TrayId(block, r) \in 0..3
             /\ Number(block, r[1], r[2]) = Id(block, r) * 4 + TrayId(block, r)
  <2>1. r[1] \in DOMAIN block.ams /\ r[2] \in DOMAIN block.ams[r[1]].tray
    BY DEF Loaded, Places
  <2>2. Id(block, r) \in Nat /\ TrayId(block, r) \in 0..3
    BY <2>1 DEF Numbered, TraysPerUnit, Id, TrayId
  <2>3. Id(block, r) # Absent /\ TrayId(block, r) # Absent
    BY <2>2, AbsentAssumption
  <2> QED
    BY <2>2, <2>3 DEF Number, IdOr, TraysPerUnit, Id, TrayId
<1>2. /\ Id(block, p) \in Nat /\ TrayId(block, p) \in 0..3
      /\ Id(block, q) \in Nat /\ TrayId(block, q) \in 0..3
      /\ Number(block, p[1], p[2]) = Id(block, p) * 4 + TrayId(block, p)
      /\ Number(block, q[1], q[2]) = Id(block, q) * 4 + TrayId(block, q)
  BY <1>1
<1> QED
  BY <1>2 DEF ExternalSlot

-------------------------------------------------------------------------------
(* The name.                                                               *)

\* The steps of the printer, the broker and the connection leave what the
\* client holds alone; a new connection only forgets the moments it saw.
LEMMA ViewLeftAlone ==
  ASSUME MomentInv,
         \/ Moves \/ Serve \/ Ignore
         \/ OnConnect \/ OnConnectRefused \/ Break \/ OnDisconnect \/ Disconnect
         \/ UNCHANGED vars
  PROVE  /\ UNCHANGED <<view, field>>
         /\ UNCHANGED stocked
         /\ \/ UNCHANGED <<seen, missed>>
            \/ seen' = None /\ reports' = <<>> /\ field = "state"
<1>1. CASE OnConnect
  <2>1. reports = <<>> /\ field = "state"
    BY <1>1 DEF OnConnect, Accepted, MomentInv, Links, LinkTypeOK
  <2> QED
    BY <1>1, <2>1 DEF OnConnect, Fresh
<1>2. CASE Moves \/ Serve \/ Ignore \/ OnConnectRefused \/ Break \/ OnDisconnect \/ UNCHANGED vars
  BY <1>2 DEF Moves, Serve, Ignore, OnConnectRefused, Break, OnDisconnect, vars, viewVars
<1>3. CASE Disconnect
  BY <1>3 DEF Disconnect, viewVars
<1> QED
  BY <1>1, <1>2, <1>3

\* NameFollows at every moment, whatever report is being read: the name is
\* the last thing that is assigned.
NameKnown ==
  seen # None /\ "subtask_name" \notin missed /\ seen.subtask_name # Blank =>
    view.file_name = seen.subtask_name

\* The report that is being read, and what the chain says of it.
LEMMA HeadSays ==
  ASSUME MomentInv, reports # <<>>
  PROVE  /\ Head(reports) \in Reports /\ Says = Head(reports).says
         /\ Truthful(Head(reports)) /\ (seen # None => Follows(Head(reports), seen))
         /\ Head(reports).told \in Moments /\ Head(reports).full \in BOOLEAN
<1>1. reports \in Seq(Reports) /\ Head(reports) = reports[1]
  BY DEF MomentInv, LinkTypeOK
<1>2. Len(reports) \in Nat \ {0}
  BY <1>1
<1>3. Truthful(reports[1]) /\ (seen # None => Follows(reports[1], seen))
  BY <1>2 DEF MomentInv, Chain, FirstFollows
<1> QED
  BY <1>1, <1>3, HeadTyped DEF Says

LEMMA NameStep == ASSUME MomentInv, NameKnown, [Next]_vars PROVE NameKnown'
<1>1. CASE UNCHANGED <<seen, missed>> /\ view'.file_name = view.file_name
  BY <1>1 DEF NameKnown
<1>2. CASE seen' = None
  BY <1>2 DEF NameKnown
<1>3. CASE Done(TRUE)
  BY <1>3 DEF Done, NameKnown
<1>4. CASE ApplyName
  <2> DEFINE r == Head(reports)
  <2>1. /\ reports # <<>> /\ view \in Views /\ missed \subseteq {"trays", "subtask_name"}
    BY <1>4 DEF ApplyName, MomentInv, LinkTypeOK
  <2>2. /\ r \in Reports /\ Says = r.says /\ Truthful(r) /\ (seen # None => Follows(r, seen))
        /\ r.told \in Moments
    BY <2>1, HeadSays
  <2>3. /\ seen' = IF r.full \/ seen # None THEN r.told ELSE None
        /\ missed' = {f \in missed : ~Brings(f)}
    BY <1>4 DEF ApplyName, Done
  <2>4. Brings("subtask_name") <=> r.says.subtask_name # Absent
    BY <2>2 DEF Brings, Carries
  <2> SUFFICES ASSUME seen' # None, "subtask_name" \notin missed', r.told.subtask_name # Blank
               PROVE  view'.file_name = r.told.subtask_name
    BY <2>3 DEF NameKnown
  <2>5. CASE r.says.subtask_name # Absent
    <3>1. r.says.subtask_name = r.told.subtask_name
      BY <2>2, <2>5 DEF Truthful
    <3>2. Named
      BY <2>2, <2>5, <3>1 DEF Named, Carries
    <3>3. Assign("file_name", Says.subtask_name)
      BY <1>4, <3>2 DEF ApplyName
    <3> QED
      BY <2>1, <2>2, <3>1, <3>3 DEF Assign, Views
  <2>6. CASE r.says.subtask_name = Absent
    <3>1. seen # None /\ "subtask_name" \notin missed
      BY <2>2, <2>3, <2>4, <2>6 DEF Truthful
    <3>2. r.told.subtask_name = seen.subtask_name
      BY <2>2, <2>3, <2>6, <3>1 DEF Truthful, Follows
    <3>3. view.file_name = seen.subtask_name
      BY <3>1, <3>2 DEF NameKnown
    <3>4. view.file_name # None
      BY <2>2, <3>2, <3>3, MomentsAssumption
    <3>5. ~Named
      BY <2>2, <2>6 DEF Named, Carries
    <3>6. UNCHANGED view
      BY <1>4, <3>4, <3>5 DEF ApplyName
    <3> QED
      BY <3>2, <3>3, <3>6
  <2> QED
    BY <2>5, <2>6
<1>5. CASE ApplyState \/ ApplyFigure \/ (ApplyTrays /\ Goes("name"))
  <2>1. view \in Views
    BY DEF MomentInv, LinkTypeOK
  <2>2. view'.file_name = view.file_name /\ UNCHANGED <<seen, missed>>
    BY <1>5, <2>1 DEF ApplyState, ApplyFigure, ApplyTrays, Assign, Goes, Views
  <2> QED
    BY <1>1, <2>2
<1>6. CASE ApplyTrays
  BY <1>3, <1>5, <1>6 DEF ApplyTrays
<1>7. CASE \/ Moves \/ Serve \/ Ignore
           \/ OnConnect \/ OnConnectRefused \/ Break \/ OnDisconnect \/ Disconnect
           \/ UNCHANGED vars
  BY <1>1, <1>2, <1>7, ViewLeftAlone
<1> QED
  BY <1>4, <1>5, <1>6, <1>7 DEF Next, Apply

\* Between two reports the name is that of the moment seen, for a print that
\* has one, unless a report that was cut had it: the fallback to gcode_file
\* never replaces a name that is known.
THEOREM NameIsCurrent == Spec => []NameFollows
<1>1. Init => NameKnown
  BY DEF Init, NameKnown
<1>2. NameKnown => NameFollows
  BY DEF NameKnown, NameFollows, Between
<1> QED
  BY <1>1, <1>2, MomentInvariant, NameStep, PTL DEF Spec

-------------------------------------------------------------------------------
(* The slots.                                                              *)

\* The slots of the units alone.
Units(block) == {Number(block, p[1], p[2]) : p \in Loaded(block)}

OddUnit(block) == \E p \in Places(block) : block.ams[p[1]].tray[p[2]].spool = "odd"

LEMMA UnitsDecide ==
  ASSUME NEW b, NEW c, b.ams = c.ams
  PROVE  Units(b) = Units(c) /\ (OddUnit(b) <=> OddUnit(c))
<1>1. Places(b) = Places(c)
  BY DEF Places
<1>2. Loaded(b) = Loaded(c)
  BY <1>1 DEF Loaded
<1>3. \A u, t : Number(b, u, t) = Number(c, u, t)
  BY DEF Number
<1> QED
  BY <1>1, <1>2, <1>3 DEF Units, OddUnit

\* Of a report of the external spool alone nothing but the spool is read.
LEMMA SpoolParse ==
  ASSUME NEW block
  PROVE  /\ ParseRaises(OnlySpool(block)) <=> block.vt_tray = "odd"
         /\ ParseAms(OnlySpool(block)) =
              IF block.vt_tray = "loaded" THEN {ExternalSlot} ELSE {}
<1> DEFINE spool == OnlySpool(block)
<1>1. spool.ams = <<>> /\ spool.vt_tray = block.vt_tray
  BY DEF OnlySpool
<1>2. DOMAIN spool.ams = {}
  BY <1>1
<1>3. Places(spool) = {}
  BY <1>2 DEF Places
<1>4. Loaded(spool) = {}
  BY <1>3 DEF Loaded
<1> HIDE DEF spool
<1>5. {Number(spool, p[1], p[2]) : p \in Loaded(spool)} = {}
  BY <1>4
<1> QED
  BY <1>1, <1>3, <1>5 DEF ParseRaises, ParseAms, spool

\* What slots the view may hold when the trays are those of a block.
SlotsFit(slots, block) ==
  /\ ~ParseRaises(block)
  /\ ParseAms(block) # {} => slots \ {ExternalSlot} \subseteq ParseAms(block)

\* The slots fit the moment seen, or, once its trays have been read, that of
\* the report.
SlotsKnown ==
  /\ field # "name" /\ seen # None /\ "trays" \notin missed => SlotsFit(view.slots, seen.trays)
  /\ field = "name" /\ (seen # None \/ Head(reports).full)
       /\ ("trays" \notin missed \/ Brings("trays")) =>
       SlotsFit(view.slots, Head(reports).told.trays)

\* The steps of the printer, the broker and the connection leave the report
\* that is being read at the head.
LEMMA HeadStays ==
  ASSUME MomentInv, field # "state",
         \/ Moves \/ Serve \/ Ignore
         \/ OnConnect \/ OnConnectRefused \/ Break \/ OnDisconnect \/ Disconnect
         \/ UNCHANGED vars
  PROVE  Head(reports') = Head(reports) /\ UNCHANGED <<seen, missed, stocked>>
<1>1. reports \in Seq(Reports) /\ reports # <<>> /\ actual \in Moments
  BY DEF MomentInv, LinkTypeOK
<1>2. UNCHANGED <<seen, missed, stocked>>
  BY ViewLeftAlone
<1>3. \A r \in Reports : Head(Append(reports, r)) = Head(reports)
  BY <1>1
<1>4. CASE Moves
  <2>1. \A r \in Change(actual, actual') : r \in Reports
    BY <1>1, <1>4, ChangeShape DEF Moves
  <2> QED
    BY <1>2, <1>3, <1>4, <2>1 DEF Moves
<1>5. CASE Serve
  BY <1>1, <1>2, <1>3, <1>5, WholeShape DEF Serve
<1>6. CASE Break
  <2>1. PICK n \in 0..Len(reports) : n > 0 /\ reports' = SubSeq(reports, 1, n)
    BY <1>6 DEF Break
  <2>2. Head(SubSeq(reports, 1, n)) = Head(reports)
    BY <1>1, <2>1
  <2> QED
    BY <1>2, <2>1, <2>2
<1>7. CASE Ignore \/ OnConnectRefused \/ UNCHANGED vars
  BY <1>2, <1>7 DEF Ignore, OnConnectRefused, vars
<1>8. ~OnConnect /\ ~OnDisconnect /\ ~Disconnect
  BY <1>1 DEF OnConnect, OnDisconnect, Disconnect, Accepted, MomentInv, Links
<1> QED
  BY <1>4, <1>5, <1>6, <1>7, <1>8

\* Reading the trays of a report leaves the slots of its moment, if nothing
\* is missed.
LEMMA TraysFit ==
  ASSUME MomentInv, SlotsKnown, ApplyTrays, Goes("name"),
         seen # None \/ Head(reports).full,
         "trays" \notin missed \/ Brings("trays")
  PROVE  SlotsFit(view'.slots, Head(reports).told.trays)
<1> DEFINE r == Head(reports)
           now == r.told.trays
<1>1. /\ reports # <<>> /\ field = "trays" /\ view \in Views
      /\ None \notin Moments /\ Absent \notin Blocks
  BY MomentsAssumption DEF ApplyTrays, MomentInv, LinkTypeOK
<1>2. /\ Says = r.says /\ Truthful(r) /\ (seen # None => Follows(r, seen))
      /\ r.told \in Moments
  BY <1>1, HeadSays
<1>3. "trays" \notin missed /\ seen # None => SlotsFit(view.slots, seen.trays)
  BY <1>1 DEF SlotsKnown
<1>4. now \in Blocks
  BY <1>2, MomentsAssumption
<1> HIDE DEF r
<1>5. CASE r.says.trays = Absent
  <2>1. seen # None /\ "trays" \notin missed /\ now = seen.trays
    BY <1>2, <1>5 DEF Truthful, Follows, Brings, Carries, r
  <2>2. view' = view
    BY <1>2, <1>5 DEF ApplyTrays, Carries
  <2> QED
    BY <1>3, <2>1, <2>2 DEF r
<1>6. CASE r.says.trays = now
  <2>1. /\ ~ParseRaises(now)
        /\ IF ParseAms(now) = {} THEN UNCHANGED view ELSE Assign("slots", ParseAms(now))
    <3>1. Carries("trays") /\ Says.trays = now
      BY <1>1, <1>2, <1>4, <1>6 DEF Carries
    <3>2. ~Done(TRUE)
      BY <1>1 DEF Done, Goes
    <3> QED
      BY <3>1, <3>2 DEF ApplyTrays
  <2>2. ParseAms(now) # {} => view'.slots = ParseAms(now)
    BY <1>1, <2>1 DEF Assign, Views
  <2> QED
    BY <2>1, <2>2 DEF SlotsFit, r
<1>7. CASE /\ r.says.trays = OnlySpool(now)
           /\ r.says.trays # Absent /\ r.says.trays # now
  <2>1. /\ ~ParseRaises(OnlySpool(now))
        /\ IF ParseAms(OnlySpool(now)) = {} THEN UNCHANGED view
           ELSE Assign("slots", ParseAms(OnlySpool(now)))
    <3>1. Carries("trays") /\ Says.trays = OnlySpool(now)
      BY <1>2, <1>7 DEF Carries
    <3>2. ~Done(TRUE)
      BY <1>1 DEF Done, Goes
    <3> QED
      BY <3>1, <3>2 DEF ApplyTrays
  <2>2. now.vt_tray # "odd"
    BY <2>1, SpoolParse
  <2>3. OnlySpool(now).ams = now.ams => OnlySpool(now) = now
    BY <1>4 DEF OnlySpool, Blocks
  <2>4. seen # None /\ "trays" \notin missed /\ now.ams = seen.trays.ams
    <3>1. ~Brings("trays")
      BY <1>2, <1>7, <2>3 DEF Brings, r
    <3>2. ~r.full
      BY <1>2, <1>7 DEF Truthful, r
    <3> QED
      BY <1>2, <1>7, <3>1, <3>2 DEF Follows, r
  <2>5. SlotsFit(view.slots, seen.trays)
    BY <1>3, <2>4
  <2>6. ~OddUnit(now) /\ Units(now) = Units(seen.trays)
    BY <2>4, <2>5, UnitsDecide DEF SlotsFit, ParseRaises, OddUnit
  <2>7. ~ParseRaises(now)
    BY <2>2, <2>6 DEF ParseRaises, OddUnit
  <2>8. ASSUME ParseAms(now) # {} PROVE view'.slots \ {ExternalSlot} \subseteq ParseAms(now)
    <3>1. CASE now.vt_tray = "loaded"
      <4>1. ParseAms(OnlySpool(now)) = {ExternalSlot}
        BY <3>1, SpoolParse
      <4>2. view'.slots = {ExternalSlot}
        BY <1>1, <2>1, <4>1 DEF Assign, Views
      <4> QED
        BY <4>2
    <3>2. CASE now.vt_tray # "loaded"
      <4>1. ParseAms(OnlySpool(now)) = {}
        BY <3>2, SpoolParse
      <4>2. view' = view
        BY <2>1, <4>1
      <4>3. ParseAms(now) = Units(now)
        BY <3>2 DEF ParseAms, Units
      <4>4. /\ Units(seen.trays) \subseteq ParseAms(seen.trays)
            /\ ParseAms(seen.trays) \subseteq Units(seen.trays) \cup {ExternalSlot}
        BY DEF ParseAms, Units
      <4>5. view.slots \ {ExternalSlot} \subseteq ParseAms(seen.trays)
        BY <2>5, <2>6, <2>8, <4>3, <4>4 DEF SlotsFit
      <4> QED
        BY <2>6, <4>2, <4>3, <4>4, <4>5
    <3> QED
      BY <3>1, <3>2
  <2> QED
    BY <2>7, <2>8 DEF SlotsFit, r
<1> QED
  BY <1>2, <1>5, <1>6, <1>7 DEF Truthful

LEMMA SlotsStep == ASSUME MomentInv, SlotsKnown, [Next]_vars PROVE SlotsKnown'
<1>1. view \in Views /\ field \in {"state", "figure", "trays", "name"}
  BY DEF MomentInv, LinkTypeOK
<1>2. CASE ApplyState \/ ApplyFigure
  <2>1. /\ view'.slots = view.slots /\ UNCHANGED <<seen, missed>>
        /\ field # "name" /\ field' # "name"
    BY <1>1, <1>2 DEF ApplyState, ApplyFigure, Assign, Goes, Views
  <2> QED
    BY <2>1 DEF SlotsKnown
<1>3. CASE ApplyTrays /\ Goes("name")
  <2>1. UNCHANGED <<reports, seen, missed>> /\ field' = "name"
    BY <1>3 DEF Goes
  <2>2. Brings("trays")' <=> Brings("trays")
    BY <2>1 DEF Brings, Carries, Says
  <2>3. ASSUME seen # None \/ Head(reports).full, "trays" \notin missed \/ Brings("trays")
        PROVE  SlotsFit(view'.slots, Head(reports).told.trays)
    BY <1>3, <2>3, TraysFit
  <2> QED
    BY <2>1, <2>2, <2>3 DEF SlotsKnown
<1>4. CASE Done(TRUE)
  <2>1. "trays" \in missed' /\ field' = "state"
    BY <1>4 DEF Done
  <2> QED
    BY <2>1 DEF SlotsKnown
<1>5. CASE ApplyName
  <2>1. /\ field = "name" /\ field' = "state" /\ view'.slots = view.slots
        /\ missed' = {f \in missed : ~Brings(f)}
        /\ seen' = IF Head(reports).full \/ seen # None THEN Head(reports).told ELSE None
    BY <1>1, <1>5 DEF ApplyName, Assign, Done, Views
  <2>2. ASSUME seen' # None, "trays" \notin missed'
        PROVE  SlotsFit(view.slots, Head(reports).told.trays)
    BY <2>1, <2>2 DEF SlotsKnown
  <2>3. ASSUME seen' # None, "trays" \notin missed'
        PROVE  SlotsFit(view'.slots, seen'.trays)
    BY <2>1, <2>2, <2>3
  <2> QED
    BY <2>1, <2>3 DEF SlotsKnown
<1>6. CASE \/ Moves \/ Serve \/ Ignore
           \/ OnConnect \/ OnConnectRefused \/ Break \/ OnDisconnect \/ Disconnect
           \/ UNCHANGED vars
  <2>1. UNCHANGED <<view, field>>
    BY <1>6, ViewLeftAlone
  <2>2. CASE field = "name"
    <3>1. Head(reports') = Head(reports) /\ UNCHANGED <<seen, missed>>
      BY <1>6, <2>2, HeadStays
    <3>2. Brings("trays")' <=> Brings("trays")
      BY <3>1 DEF Brings, Carries, Says
    <3> QED
      BY <2>1, <2>2, <3>1, <3>2 DEF SlotsKnown
  <2>3. CASE field # "name"
    <3>1. UNCHANGED <<seen, missed>> \/ seen' = None
      BY <1>6, ViewLeftAlone
    <3> QED
      BY <2>1, <2>3, <3>1 DEF SlotsKnown
  <2> QED
    BY <2>2, <2>3
<1>7. CASE ApplyTrays
  BY <1>3, <1>4, <1>7 DEF ApplyTrays
<1> QED
  BY <1>2, <1>5, <1>6, <1>7 DEF Next, Apply

\* The units in the view are those of the last block that brought any and
\* had something loaded: the block being read, once its trays are assigned.
StockKnown ==
  view.slots \ {ExternalSlot} \subseteq ParseAms(IF field = "name" THEN Stocked ELSE stocked)

\* What reading the trays of a report does to the view.
LEMMA TraysStock ==
  ASSUME MomentInv, StockKnown, ApplyTrays, Goes("name")
  PROVE  view'.slots \ {ExternalSlot} \subseteq ParseAms(Stocked)
<1>1. /\ reports # <<>> /\ field = "trays" /\ view \in Views
      /\ Absent \notin Blocks
  BY MomentsAssumption DEF ApplyTrays, MomentInv, LinkTypeOK
<1>2. /\ Says = Head(reports).says /\ Truthful(Head(reports))
      /\ Head(reports).told.trays \in Blocks
  BY <1>1, HeadSays, MomentsAssumption
<1>3. view.slots \ {ExternalSlot} \subseteq ParseAms(stocked)
  BY <1>1 DEF StockKnown
<1>4. CASE ~Carries("trays")
  BY <1>3, <1>4 DEF ApplyTrays, Stocked, Brings
<1>5. CASE Carries("trays")
  <2>1. IF ParseAms(Says.trays) = {} THEN UNCHANGED view
        ELSE Assign("slots", ParseAms(Says.trays))
    <3>1. ~Done(TRUE)
      BY <1>1 DEF Done, Goes
    <3> QED
      BY <1>5, <3>1 DEF ApplyTrays
  <2>2. CASE ParseAms(Says.trays) = {}
    BY <1>3, <2>1, <2>2 DEF Stocked
  <2>3. CASE ParseAms(Says.trays) # {}
    <3>1. view'.slots = ParseAms(Says.trays)
      BY <1>1, <2>1, <2>3 DEF Assign, Views
    <3>2. CASE Brings("trays")
      BY <2>3, <3>1, <3>2 DEF Stocked
    <3>3. CASE ~Brings("trays")
      <4>1. Says.trays = OnlySpool(Head(reports).told.trays)
        BY <1>2, <1>5, <3>3 DEF Brings, Carries, Truthful
      <4>2. ParseAms(Says.trays) \subseteq {ExternalSlot}
        BY <4>1, SpoolParse
      <4> QED
        BY <3>1, <4>2
    <3> QED
      BY <3>2, <3>3
  <2> QED
    BY <2>2, <2>3
<1> QED
  BY <1>4, <1>5

LEMMA StockStep == ASSUME MomentInv, StockKnown, [Next]_vars PROVE StockKnown'
<1>1. view \in Views /\ field \in {"state", "figure", "trays", "name"}
  BY DEF MomentInv, LinkTypeOK
<1>2. CASE ApplyState \/ ApplyFigure
  <2>1. view'.slots = view.slots /\ UNCHANGED stocked /\ field # "name" /\ field' # "name"
    BY <1>1, <1>2 DEF ApplyState, ApplyFigure, Assign, Goes, Views
  <2> QED
    BY <2>1 DEF StockKnown
<1>3. CASE ApplyTrays /\ Goes("name")
  <2>1. UNCHANGED <<reports, stocked>> /\ field' = "name"
    BY <1>3 DEF Goes
  <2>2. Stocked' = Stocked
    BY <2>1 DEF Stocked, Brings, Carries, Says
  <2> QED
    BY <1>3, <2>1, <2>2, TraysStock DEF StockKnown
<1>4. CASE ApplyTrays /\ Done(TRUE)
  <2>1. UNCHANGED <<view, stocked>> /\ field = "trays" /\ field' = "state"
    BY <1>4 DEF ApplyTrays, Done, Goes
  <2> QED
    BY <2>1 DEF StockKnown
<1>5. CASE ApplyName
  <2>1. /\ field = "name" /\ field' = "state" /\ view'.slots = view.slots
        /\ stocked' = Stocked
    BY <1>1, <1>5 DEF ApplyName, Assign, Done, Views
  <2> QED
    BY <2>1 DEF StockKnown
<1>6. CASE \/ Moves \/ Serve \/ Ignore
           \/ OnConnect \/ OnConnectRefused \/ Break \/ OnDisconnect \/ Disconnect
           \/ UNCHANGED vars
  <2>1. UNCHANGED <<view, field, stocked>>
    BY <1>6, ViewLeftAlone
  <2>2. CASE field = "name"
    <3>1. Head(reports') = Head(reports)
      BY <1>6, <2>2, HeadStays
    <3>2. Stocked' = Stocked
      BY <2>1, <3>1 DEF Stocked, Brings, Carries, Says
    <3> QED
      BY <2>1, <2>2, <3>2 DEF StockKnown
  <2>3. CASE field # "name"
    BY <2>1, <2>3 DEF StockKnown
  <2> QED
    BY <2>2, <2>3
<1>7. CASE ApplyTrays
  BY <1>3, <1>4, <1>7 DEF ApplyTrays
<1> QED
  BY <1>2, <1>5, <1>6, <1>7 DEF Next, Apply

\* Reports of the external spool alone, blocks that parse to nothing and
\* blocks that raise: once the units have been read that a cut report may
\* have withheld, none of them leaves a slot in the view that the printer
\* does not have loaded, unless it has nothing loaded; and then the slots
\* left are of the last units read that had something.
THEOREM NoPhantomSlots == Spec => []UnitsAreLoaded
<1>1. Init => SlotsKnown /\ StockKnown
  BY DEF Init, SlotsKnown, StockKnown, NoView
<1>2. SlotsKnown /\ StockKnown => UnitsAreLoaded
  <2>1. CASE ParseAms(seen.trays) # {}
    BY <2>1 DEF SlotsKnown, SlotsFit, UnitsAreLoaded, Between
  <2>2. CASE ParseAms(seen.trays) = {}
    BY <2>2 DEF StockKnown, UnitsAreLoaded, Between
  <2> QED
    BY <2>1, <2>2
<1> QED
  BY <1>1, <1>2, MomentInvariant, SlotsStep, StockStep, PTL DEF Spec

================================================================================
