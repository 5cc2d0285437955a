----------------------------- MODULE MonitorProofs -----------------------------
(***************************************************************************)
(* Theorems about Monitor, for any number of prints and mishaps and all    *)
(* settings.                                                               *)
(***************************************************************************)
EXTENDS MonitorRequirements, TLAPS

-------------------------------------------------------------------------------
(* One session at a time.  That needs only the places of the loop, and     *)
(* where _end_session returns to.                                          *)

PlacesOK ==
  /\ pc \in Places
  /\ after \in {"sleep", "down"}
  /\ OneSessionInHand

-------------------------------------------------------------------------------
(* Types.                                                                  *)

\* What outlives the process, and the places in it that the process holds.
DiskOK ==
  /\ sessions \in Seq(SessionRecords)
  /\ rows \in Seq(Rows)
  /\ told \in Seq(Tellings)
  /\ Len(rows) = Len(sessions) /\ Len(told) = Len(sessions)
  /\ session \in 0..Len(sessions) /\ ending \in 0..Len(sessions)

\* What the process forgets.
MemoryOK ==
  /\ report \in [state : GcodeStates \cup {Unreported}, file : Nat, figures : Nat]
  /\ prints \in Nat
  /\ pc \in Places /\ after \in {"sleep", "down"}
  /\ frames \in 0..FrameHistory /\ interval \in {"normal", "suspicious"}
  /\ slice \in Nat /\ source \in {"unavailable", "disabled", "ftps"}
  /\ task \in [status : {"none", "reading", "found", "nothing"}, file : Nat]
  /\ attempted \in Nat /\ orphans \in Nat /\ history \in BOOLEAN
  /\ mishaps \in Nat /\ hurt \in BOOLEAN

\* Adding an element of the set.
LEMMA Adding ==
  ASSUME NEW S, NEW q \in Seq(S), NEW e \in S
  PROVE  Append(q, e) \in Seq(S) /\ Len(Append(q, e)) = Len(q) + 1
OBVIOUS

\* Replacing an element by another of the set.
LEMMA Replacing ==
  ASSUME NEW S, NEW q \in Seq(S), NEW i \in 1..Len(q), NEW e \in S
  PROVE  /\ [q EXCEPT ![i] = e] \in Seq(S)
         /\ Len([q EXCEPT ![i] = e]) = Len(q)
OBVIOUS

\* A post told after others.
LEMMA Telling ==
  /\ <<>> \in Tellings /\ <<"started">> \in Tellings
  /\ \A q \in Tellings, e \in Posts : Append(q, e) \in Tellings
BY DEF Tellings, Posts

\* A session is opened at the end of the disk's sequences.
LEMMA OpenDisk ==
  ASSUME DiskOK, MemoryOK, OpenSession PROVE DiskOK' /\ session' # 0
<1> USE DEF DiskOK
<1>1. /\ [print |-> report.figures, file |-> report.file, metadata |-> "open"]
           \in SessionRecords
      /\ NewRow("running") \in Rows /\ NewRow("missing") \in Rows
      /\ <<"started">> \in Tellings /\ <<>> \in Tellings
  BY Telling DEF MemoryOK, SessionRecords, Metadata, NewRow, Rows
<1>2. sessions' \in Seq(SessionRecords) /\ Len(sessions') = Len(sessions) + 1
  BY <1>1 DEF OpenSession
<1>3. rows' \in Seq(Rows) /\ Len(rows') = Len(rows) + 1
  <2>1. PICK row \in Rows : rows' = Append(rows, row)
    BY <1>1 DEF OpenSession
  <2> QED
    BY <2>1
<1>4. told' \in Seq(Tellings) /\ Len(told') = Len(told) + 1
  <2>1. PICK posts \in Tellings : told' = Append(told, posts)
    BY <1>1 DEF OpenSession
  <2> QED
    BY <2>1, Adding
<1>5. session' = Len(sessions') /\ ending' = ending
  BY DEF OpenSession
<1> QED
  BY <1>2, <1>3, <1>4, <1>5

\* Closing metadata.json and posting the finish notice.
LEMMA CloseDisk ==
  ASSUME DiskOK, NEW s \in 1..Len(sessions), NEW written,
         CloseMetadata(s, written), UNCHANGED rows, session' \in {session, 0},
         ending' \in {ending, session, 0}
  PROVE  DiskOK'
<1> USE DEF DiskOK
<1> DEFINE m == EndOf(written)
<1>1. m \in Metadata
  BY DEF EndOf, Metadata
<1>2. /\ [sessions[s] EXCEPT !.metadata = m] \in SessionRecords
      /\ Append(told[s], "finished") \in Tellings
  <2>1. sessions[s] \in SessionRecords /\ told[s] \in Tellings
    OBVIOUS
  <2>2. \A e \in SessionRecords : [e EXCEPT !.metadata = m] \in SessionRecords
    BY <1>1 DEF SessionRecords
  <2>3. "finished" \in Posts
    BY DEF Posts
  <2> QED
    BY <2>1, <2>2, <2>3, Telling
<1>3. sessions' \in Seq(SessionRecords) /\ Len(sessions') = Len(sessions)
  <2>1. sessions' = [sessions EXCEPT ![s] = [sessions[s] EXCEPT !.metadata = m]]
    BY DEF CloseMetadata
  <2> QED
    BY <1>2, <2>1, Replacing
<1>4. told' \in Seq(Tellings) /\ Len(told') = Len(told)
  <2>1. \/ told' = told
        \/ told' = [told EXCEPT ![s] = Append(told[s], "finished")]
    BY DEF CloseMetadata
  <2>2. PICK q \in Tellings : told' = told \/ told' = [told EXCEPT ![s] = q]
    BY <1>2, <2>1
  <2> QED
    BY <2>2, Replacing
<1> QED
  BY <1>3, <1>4

\* Beginning to end a session, or finding none.
LEMMA CloseBegins ==
  ASSUME DiskOK, NEW p, NEW written \in BOOLEAN,
         BeginClose(p, written) \/ NothingToClose(p)
  PROVE  DiskOK'
<1>1. CASE BeginClose(p, written) /\ WantsArchive(session)
  BY <1>1 DEF DiskOK, BeginClose
<1>2. CASE BeginClose(p, written) /\ ~WantsArchive(session)
  BY <1>2, CloseDisk DEF DiskOK, BeginClose
<1>3. CASE NothingToClose(p)
  BY <1>3 DEF DiskOK, NothingToClose, diskVars
<1> QED
  BY <1>1, <1>2, <1>3

\* Writing the row of the session that ends.
LEMMA RowsWritten ==
  ASSUME DiskOK, MemoryOK, ending # 0, WritePrintRow
  PROVE  rows' \in Seq(Rows) /\ Len(rows') = Len(rows)
<1> USE DEF DiskOK
<1>1. ending \in 1..Len(rows)
  OBVIOUS
<1>2. \A src \in {"none", source} : Finalized(rows[ending], src) \in Rows
  <2>1. rows[ending] \in Rows
    BY <1>1
  <2>2. slice \in Nat /\ report.figures \in Nat
        /\ source \in {"unavailable", "disabled", "ftps"}
    BY DEF MemoryOK
  <2> QED
    BY <2>1, <2>2 DEF Finalized, Rows
<1>3. \/ rows' = rows
      \/ \E src \in {"none", source} :
           rows' = [rows EXCEPT ![ending] = Finalized(rows[ending], src)]
  BY DEF WritePrintRow
<1> QED
  BY <1>1, <1>2, <1>3, Replacing

\* A step keeps the disk's types.
LEMMA DiskStep ==
  ASSUME DiskOK, MemoryOK, PlacesOK, [Next]_vars PROVE DiskOK'
<1> USE DEF DiskOK, diskVars
<1>1. CASE Report \/ TransferEnds \/ OrphanEnds \/ Tick \/ Collect
  BY <1>1 DEF Report, TransferEnds, OrphanEnds, Tick, Collect
<1>2. CASE Dispatch
  BY <1>2, OpenDisk, CloseBegins DEF Dispatch, OpenSessionRaises
<1>3. CASE ClosingFetchReturns
  <2>1. PICK written : CloseMetadata(ending, written)
    BY <1>3 DEF ClosingFetchReturns
  <2>2. ending \in 1..Len(sessions) /\ UNCHANGED <<rows, session, ending>>
    BY <1>3 DEF ClosingFetchReturns, PlacesOK, OneSessionInHand, Up
  <2> QED
    BY <2>1, <2>2, CloseDisk
<1>4. CASE ClosingFetchRaises
  BY <1>4 DEF ClosingFetchRaises
<1>5. CASE FinishClose
  <2>1. ending # 0
    BY <1>5 DEF FinishClose, PlacesOK, OneSessionInHand, Up
  <2> QED
    BY <1>5, <2>1, RowsWritten DEF FinishClose
<1>6. CASE Greet \/ Capture \/ Alerted \/ Sleep
  BY <1>6 DEF Greet, Capture, Alerted, Sleep
<1>7. CASE Analyze
  <2>1. session \in 1..Len(told)
    BY <1>7 DEF Analyze, PlacesOK, OneSessionInHand
  <2>2. Append(told[session], "alert") \in Tellings
    <3>1. told[session] \in Tellings /\ "alert" \in Posts
      BY <2>1 DEF Posts
    <3> QED
      BY <3>1, Telling
  <2>3. PICK q \in Tellings : told' = told \/ told' = [told EXCEPT ![session] = q]
    BY <1>7, <2>2 DEF Analyze
  <2>4. told' \in Seq(Tellings) /\ Len(told') = Len(told)
    BY <2>1, <2>3, Replacing
  <2>5. UNCHANGED <<sessions, rows, session, ending>>
    BY <1>7 DEF Analyze
  <2> QED
    BY <2>4, <2>5
<1>8. CASE CancelWatching \/ CancelClosing
  <2>1. CASE CancelWatching
    BY <2>1, CloseBegins DEF CancelWatching
  <2>2. CASE CancelClosing
    <3>1. UNCHANGED <<sessions, rows, told, session>> /\ ending' = 0
      BY <2>2 DEF CancelClosing
    <3> QED
      BY <3>1
  <2> QED
    BY <1>8, <2>1, <2>2
<1>9. CASE Kill
  BY <1>9 DEF Kill, FreshMemory
<1>10. CASE Restart
  <2>1. \A s \in DOMAIN rows : [rows[s] EXCEPT !.state = "unknown"] \in Rows
    <3>1. \A e \in Rows : [e EXCEPT !.state = "unknown"] \in Rows
      BY DEF Rows
    <3> QED
      BY <3>1
  <2>2. rows' \in Seq(Rows) /\ Len(rows') = Len(rows)
    BY <1>10, <2>1 DEF Restart, Reconciled
  <2> QED
    BY <1>10, <2>2 DEF Restart, FreshMemory
<1>11. CASE UNCHANGED vars
  BY <1>11 DEF vars
<1> QED
  BY <1>1, <1>2, <1>3, <1>4, <1>5, <1>6, <1>7, <1>8, <1>9, <1>10, <1>11
  DEF Next, Loop

\* A step keeps the types of what the process remembers.
LEMMA MemoryStep ==
  ASSUME DiskOK, MemoryOK, PlacesOK, [Next]_vars PROVE MemoryOK'
<1> USE SettingsAssumption, BoundsAssumption
<1> USE DEF MemoryOK, Places, Awaits, printerVars, sliceVars, watchVars,
            faultVars, NoTask, CancelTask, ResetSlice
<1>1. CASE Report
  BY <1>1 DEF Report, ReportState, ReportNewPrint, ReportName, GcodeStates,
              Terminal, FollowsInPrint
<1>2. CASE TransferEnds \/ OrphanEnds
  BY <1>2 DEF TransferEnds, OrphanEnds
<1>3. CASE Tick
  BY <1>3 DEF Tick, TickWithoutFetch, TickCancel, TickNothingToFetch,
              TickLaunch, TickWait
<1>4. CASE Collect
  BY <1>4 DEF Collect
<1>5. CASE Dispatch
  <2>1. CASE OpenSession \/ OpenSessionRaises
    <3>1. (UNCHANGED mishaps \/ Mishap) /\ hurt' = hurt
      BY <2>1 DEF OpenSession, OpenSessionRaises
    <3>2. mishaps' \in Nat
      BY <3>1 DEF Mishap
    <3>3. /\ UNCHANGED <<report, prints, history, after>>
          /\ pc' \in {"greet", "down"} /\ frames' = 0 /\ interval' = "normal"
          /\ UNCHANGED sliceVars \/ ResetSlice
      BY <1>5, <2>1 DEF Dispatch, OpenSession, OpenSessionRaises
    <3>4. /\ frames' \in 0..FrameHistory /\ interval' \in {"normal", "suspicious"}
          /\ pc' \in Places
      BY <3>3
    <3>5. /\ slice' \in Nat /\ source' \in {"unavailable", "disabled", "ftps"}
          /\ task' \in [status : {"none", "reading", "found", "nothing"}, file : Nat]
          /\ attempted' \in Nat /\ orphans' \in Nat
      BY <3>3
    <3> QED
      BY <3>1, <3>2, <3>3, <3>4, <3>5
  <2>2. CASE BeginClose("sleep", TRUE) \/ BeginClose("sleep", FALSE)
    <3>1. (UNCHANGED mishaps \/ Mishap) /\ hurt' = hurt
      BY <1>5, <2>2 DEF Dispatch, BeginClose
    <3>2. mishaps' \in Nat
      BY <3>1 DEF Mishap
    <3> QED
      BY <1>5, <2>2, <3>1, <3>2 DEF Dispatch, BeginClose
  <2>3. CASE NothingToClose("sleep") /\ UNCHANGED faultVars
    BY <1>5, <2>3 DEF Dispatch, NothingToClose
  <2>4. CASE /\ pc' \in {"sleep", "capture"}
             /\ UNCHANGED <<after, watchVars, sliceVars, faultVars>>
    BY <1>5, <2>4 DEF Dispatch
  <2> QED
    BY <1>5, <2>1, <2>2, <2>3, <2>4 DEF Dispatch
<1>6. CASE ClosingFetchReturns
  <2>1. ending \in 1..Len(sessions)
    BY <1>6 DEF ClosingFetchReturns, PlacesOK, OneSessionInHand, Up, DiskOK
  <2>2. sessions[ending].file \in Nat
    <3>1. sessions[ending] \in SessionRecords
      BY <2>1 DEF DiskOK
    <3> QED
      BY <3>1 DEF SessionRecords
  <2>3. (UNCHANGED mishaps \/ Mishap) /\ hurt' = hurt
    BY <1>6 DEF ClosingFetchReturns
  <2>4. mishaps' \in Nat
    BY <2>3 DEF Mishap
  <2> QED
    BY <1>6, <2>2, <2>3, <2>4 DEF ClosingFetchReturns
<1>7. CASE ClosingFetchRaises
  BY <1>7 DEF ClosingFetchRaises, Mishap
<1>8. CASE FinishClose
  <2>1. (UNCHANGED mishaps \/ Mishap) /\ hurt' \in BOOLEAN
    BY <1>8 DEF FinishClose, WritePrintRow
  <2>2. mishaps' \in Nat
    BY <2>1 DEF Mishap
  <2> QED
    BY <1>8, <2>1, <2>2 DEF FinishClose
<1>9. CASE Greet \/ Capture \/ Alerted \/ Sleep
  BY <1>9 DEF Greet, Capture, Alerted, Sleep
<1>10. CASE Analyze
  BY <1>10 DEF Analyze
<1>11. CASE CancelWatching
  BY <1>11 DEF CancelWatching, BeginClose, NothingToClose, Mishap
<1>12. CASE CancelClosing
  BY <1>12 DEF CancelClosing, Mishap
<1>13. CASE Kill \/ Restart
  <2>1. (UNCHANGED mishaps \/ Mishap) /\ hurt' \in BOOLEAN
    BY <1>13 DEF Kill, Restart
  <2>2. mishaps' \in Nat
    BY <2>1 DEF Mishap
  <2>3. pc' \in Places /\ prints' = prints /\ history' \in BOOLEAN
    BY <1>13 DEF Kill, Restart
  <2>4. FreshMemory
    BY <1>13 DEF Kill, Restart
  <2> QED
    BY <2>1, <2>2, <2>3, <2>4 DEF FreshMemory
<1>14. CASE UNCHANGED vars
  BY <1>14 DEF vars
<1> QED
  BY <1>1, <1>2, <1>3, <1>4, <1>5, <1>6, <1>7, <1>8, <1>9, <1>10, <1>11, <1>12,
     <1>13, <1>14 DEF Next, Loop
\* No step holds two sessions, or leaves the place where it holds one.
LEMMA PlacesStep ==
  ASSUME DiskOK, MemoryOK, PlacesOK, [Next]_vars PROVE PlacesOK'
<1> USE DEF PlacesOK, OneSessionInHand, Places, Awaits, Up
<1>1. CASE Report \/ TransferEnds \/ OrphanEnds
  BY <1>1 DEF Report, TransferEnds, OrphanEnds
<1>2. CASE Tick \/ Collect
  BY <1>2 DEF Tick, Collect, TickWithoutFetch, TickCancel, TickNothingToFetch,
              TickLaunch, TickWait
<1>3. CASE Dispatch
  <2>1. CASE OpenSession
    <3>1. session' # 0
      BY <2>1, OpenDisk
    <3> QED
      BY <1>3, <2>1, <3>1 DEF Dispatch, OpenSession
  <2>2. CASE \/ \E written \in BOOLEAN : BeginClose("sleep", written)
             \/ NothingToClose("sleep")
             \/ OpenSessionRaises
    BY <1>3, <2>2 DEF Dispatch, BeginClose, NothingToClose, OpenSessionRaises
  <2> QED
    BY <1>3, <2>1, <2>2 DEF Dispatch
<1>4. CASE ClosingFetchReturns \/ ClosingFetchRaises \/ FinishClose
  BY <1>4 DEF ClosingFetchReturns, ClosingFetchRaises, FinishClose
<1>5. CASE Greet \/ Capture \/ Analyze \/ Alerted \/ Sleep
  BY <1>5 DEF Greet, Capture, Analyze, Alerted, Sleep
<1>6. CASE CancelWatching \/ CancelClosing
  BY <1>6 DEF CancelWatching, CancelClosing, BeginClose, NothingToClose
<1>7. CASE Kill \/ Restart
  BY <1>7 DEF Kill, Restart, FreshMemory
<1>8. CASE UNCHANGED vars
  BY <1>8 DEF vars
<1> QED
  BY <1>1, <1>2, <1>3, <1>4, <1>5, <1>6, <1>7, <1>8 DEF Next, Loop

-------------------------------------------------------------------------------
(* What a step can do to the rows, the session in hand and the process.    *)

RowsLeftAlone == UNCHANGED <<rows, InHand, Up, history, hurt>>

RowOpens ==
  /\ Up /\ Up'
  /\ InHand = 0 /\ InHand' = Len(rows) + 1
  /\ \E state \in {"running", "missing"} :
       rows' = Append(rows, NewRow(state)) /\ (~history => state = "missing")
  /\ UNCHANGED <<history, hurt>>

RowLetGo ==
  /\ Up /\ pc = "closing_post"
  /\ InHand \in DOMAIN rows /\ InHand' = 0
  /\ UNCHANGED <<history, hurt>>
  /\ \/ ~HasRow(InHand) /\ UNCHANGED rows
     \/ /\ HasRow(InHand)
        /\ \E src \in {"none", source} :
             rows' = [rows EXCEPT ![InHand] = Finalized(@, src)]

RowLost ==
  /\ Up /\ InHand # 0 /\ InHand' = 0
  /\ hurt' = TRUE
  /\ UNCHANGED <<rows, history>>

ProcessStops ==
  /\ ~Up' /\ InHand' = 0
  /\ UNCHANGED <<rows, history>>
  /\ hurt' = TRUE \/ (InHand = 0 /\ hurt' = hurt)

ProcessStarts ==
  /\ ~Up /\ Up' /\ InHand' = 0
  /\ \/ history' = TRUE /\ rows' = Reconciled
     \/ history' = FALSE /\ UNCHANGED rows

\* Every step of the monitor is one of these.
LEMMA RowCases ==
  ASSUME DiskOK, MemoryOK, PlacesOK, [Next]_vars
  PROVE  \/ RowsLeftAlone
         \/ RowOpens
         \/ RowLetGo
         \/ RowLost
         \/ ProcessStops
         \/ ProcessStarts
<1> USE DEF PlacesOK, OneSessionInHand, Places, Awaits, Up, InHand, diskVars,
            faultVars
<1>1. CASE Report \/ TransferEnds \/ OrphanEnds
  BY <1>1 DEF Report, TransferEnds, OrphanEnds, RowsLeftAlone
<1>2. CASE Tick \/ Collect
  BY <1>2 DEF Tick, Collect, TickWithoutFetch, TickCancel, TickNothingToFetch,
              TickLaunch, TickWait, RowsLeftAlone
<1>3. CASE Dispatch
  <2>1. CASE OpenSession /\ session = 0
    <3>1. session' = Len(rows) + 1
      BY <2>1, OpenDisk DEF OpenSession, DiskOK
    <3>2. session' # 0
      BY <2>1, OpenDisk
    <3>3. \E state \in {"running", "missing"} :
            rows' = Append(rows, NewRow(state)) /\ (~history => state = "missing")
      BY <2>1 DEF OpenSession
    <3>4. InHand = 0 /\ InHand' = Len(rows) + 1
      BY <1>3, <2>1, <3>1, <3>2 DEF Dispatch, OpenSession
    <3> QED
      BY <1>3, <2>1, <3>3, <3>4 DEF Dispatch, OpenSession, RowOpens
  <2>2. CASE OpenSessionRaises /\ session = 0
    BY <1>3, <2>2 DEF Dispatch, OpenSessionRaises, ProcessStops
  <2>3. CASE /\ \/ \E written \in BOOLEAN : BeginClose("sleep", written)
                \/ NothingToClose("sleep")
             /\ hurt' = hurt
    <3>1. UNCHANGED <<hurt, history, rows>> /\ Up /\ Up' /\ ending = 0
      BY <1>3, <2>3 DEF Dispatch, BeginClose, NothingToClose
    <3>2. InHand' = InHand
      BY <1>3, <2>3, <3>1 DEF BeginClose, NothingToClose
    <3> QED
      BY <3>1, <3>2 DEF RowsLeftAlone
  <2>4. CASE pc' \in {"sleep", "capture"} /\ UNCHANGED <<session, ending, rows, hurt>>
    BY <1>3, <2>4 DEF Dispatch, RowsLeftAlone
  <2> QED
    BY <1>3, <2>1, <2>2, <2>3, <2>4 DEF Dispatch
<1>4. CASE ClosingFetchReturns
  BY <1>4 DEF ClosingFetchReturns, RowsLeftAlone
<1>5. CASE ClosingFetchRaises
  BY <1>5 DEF ClosingFetchRaises, ProcessStops
<1>6. CASE FinishClose
  <2>1. ending # 0 /\ session = 0 /\ InHand = ending /\ Up /\ pc = "closing_post"
    BY <1>6 DEF FinishClose
  <2>2. InHand' = 0 /\ ending \in DOMAIN rows
    BY <1>6, <2>1 DEF FinishClose, DiskOK
  <2>3. WritePrintRow
    BY <1>6 DEF FinishClose
  <2>4. \/ rows' = rows /\ hurt' = TRUE
        \/ ~HasRow(ending) /\ rows' = rows /\ hurt' = hurt
        \/ /\ HasRow(ending)
           /\ \E src \in {"none", source} : rows' = [rows EXCEPT ![ending] = Finalized(@, src)]
           /\ hurt' = hurt
    BY <2>3 DEF WritePrintRow
  <2>5. history' = history
    BY <1>6 DEF FinishClose
  <2> QED
    BY <2>1, <2>2, <2>4, <2>5 DEF RowLetGo, RowLost
<1>7. CASE Greet \/ Capture \/ Analyze \/ Alerted \/ Sleep
  BY <1>7 DEF Greet, Capture, Analyze, Alerted, Sleep, RowsLeftAlone
<1>8. CASE CancelWatching
  BY <1>8
  DEF CancelWatching, Suspended, BeginClose, NothingToClose, RowsLeftAlone,
      ProcessStops
<1>9. CASE CancelClosing \/ Kill
  BY <1>9 DEF CancelClosing, Kill, ProcessStops
<1>10. CASE Restart
  BY <1>10 DEF Restart, FreshMemory, ProcessStarts
<1>11. CASE UNCHANGED vars
  BY <1>11 DEF vars, RowsLeftAlone
<1> QED
  BY <1>1, <1>2, <1>3, <1>4, <1>5, <1>6, <1>7, <1>8, <1>9, <1>10, <1>11
  DEF Next, Loop
-------------------------------------------------------------------------------
(* The invariant, and the properties it gives.                             *)

MonitorInv == DiskOK /\ MemoryOK /\ PlacesOK /\ RunningRowsAreLive

\* A row that says running is of the session in hand, unless something was
\* lost.
LEMMA LiveStep ==
  ASSUME DiskOK, MemoryOK, PlacesOK, RunningRowsAreLive, [Next]_vars
  PROVE  RunningRowsAreLive'
<1> USE DEF RunningRowsAreLive, Running
<1> SUFFICES ASSUME history', ~hurt', NEW s \in DOMAIN rows',
                    (rows[s].state)' = "running"
             PROVE  s = InHand'
  OBVIOUS
<1>1. rows \in Seq(Rows) /\ Len(rows) \in Nat /\ DOMAIN rows = 1..Len(rows)
  BY DEF DiskOK
<1>2. CASE RowsLeftAlone
  BY <1>2 DEF RowsLeftAlone
<1>3. CASE RowOpens
  <2>1. PICK state \in {"running", "missing"} : rows' = Append(rows, NewRow(state))
    BY <1>3 DEF RowOpens
  <2>2. \A i \in DOMAIN rows : rows[i].state # "running"
    BY <1>1, <1>3 DEF RowOpens
  <2>3. /\ DOMAIN rows' = 1..Len(rows) + 1
        /\ \A i \in DOMAIN rows : rows'[i] = rows[i]
    BY <1>1, <2>1
  <2>4. s = Len(rows) + 1
    BY <1>1, <2>2, <2>3
  <2> QED
    BY <1>3, <2>4 DEF RowOpens
<1>4. CASE RowLetGo
  <2>1. \A i \in DOMAIN rows : rows[i].state = "running" => i = InHand
    BY <1>4 DEF RowLetGo
  <2>2. DOMAIN rows' = DOMAIN rows
    BY <1>4 DEF RowLetGo
  <2>3. \A i \in DOMAIN rows : i # InHand => rows'[i] = rows[i]
    BY <1>4 DEF RowLetGo
  <2>4. rows'[InHand].state # "running"
    <3>1. CASE ~HasRow(InHand) /\ UNCHANGED rows
      BY <1>4, <3>1 DEF RowLetGo, HasRow
    <3>2. CASE \E src \in {"none", source} :
                 rows' = [rows EXCEPT ![InHand] = Finalized(@, src)]
      <4>1. PICK src : rows' = [rows EXCEPT ![InHand] = Finalized(@, src)]
        BY <3>2
      <4>2. rows[InHand] \in Rows /\ InHand \in DOMAIN rows
        BY <1>1, <1>4 DEF RowLetGo
      <4>3. rows'[InHand] = Finalized(rows[InHand], src)
        BY <4>1, <4>2
      <4>4. Finalized(rows[InHand], src).state = "settled"
        BY <4>2 DEF Finalized, Rows
      <4> QED
        BY <4>3, <4>4
    <3> QED
      BY <1>4, <3>1, <3>2 DEF RowLetGo
  <2> QED
    BY <2>1, <2>2, <2>3, <2>4
<1>5. CASE RowLost
  BY <1>5 DEF RowLost
<1>6. CASE ProcessStops
  <2>1. InHand = 0 /\ hurt' = hurt /\ rows' = rows
    BY <1>6 DEF ProcessStops
  <2>2. history
    BY <1>6 DEF ProcessStops
  <2> QED
    BY <1>1, <2>1, <2>2
<1>7. CASE ProcessStarts
  <2>1. s \in DOMAIN rows /\ rows[s] \in Rows
    BY <1>1, <1>7 DEF ProcessStarts, Reconciled
  <2>2. rows'[s] = IF rows[s].state = "running"
                   THEN [rows[s] EXCEPT !.state = "unknown"] ELSE rows[s]
    BY <1>7, <2>1 DEF ProcessStarts, Reconciled
  <2>3. [rows[s] EXCEPT !.state = "unknown"].state = "unknown"
    BY <2>1 DEF Rows
  <2> QED
    BY <2>2, <2>3
<1> QED
  BY <1>2, <1>3, <1>4, <1>5, <1>6, <1>7, RowCases

\* The inductive invariant holds of every state the service reaches.
THEOREM MonitorInvariant == Spec => []MonitorInv
<1>1. Init => MonitorInv
  <2> SUFFICES ASSUME Init PROVE MonitorInv
    OBVIOUS
  <2>1. DiskOK
    BY DEF Init, DiskOK
  <2>2. MemoryOK
    <3>1. report \in [state : GcodeStates \cup {Unreported}, file : Nat, figures : Nat]
      BY DEF Init
    <3>2. frames \in 0..FrameHistory
      BY SettingsAssumption DEF Init
    <3>3. hurt \in BOOLEAN /\ history \in BOOLEAN
      BY DEF Init
    <3> QED
      BY <3>1, <3>2, <3>3 DEF Init, MemoryOK, Places, NoTask
  <2>3. PlacesOK
    BY DEF Init, PlacesOK, OneSessionInHand, Places, Up
  <2>4. RunningRowsAreLive
    <3>1. DOMAIN rows = {}
      BY DEF Init
    <3> QED
      BY <3>1 DEF RunningRowsAreLive
  <2> QED
    BY <2>1, <2>2, <2>3, <2>4 DEF MonitorInv
<1>2. MonitorInv /\ [Next]_vars => MonitorInv'
  BY DiskStep, MemoryStep, PlacesStep, LiveStep DEF MonitorInv
<1> QED
  BY <1>1, <1>2, PTL DEF Spec

\* Every variable keeps the range of values its Python counterpart has.
THEOREM TypeCorrect == Spec => []TypeOK
<1>1. MonitorInv => TypeOK
  BY DEF MonitorInv, DiskOK, MemoryOK, TypeOK
<1> QED
  BY <1>1, MonitorInvariant, PTL

\* The monitor never has two sessions in hand.
THEOREM SessionIsUnique == Spec => []OneSessionInHand
BY MonitorInvariant, PTL DEF MonitorInv, PlacesOK

\* A reader of the database sees a running row only for the session in hand,
\* unless this process lost a close or a write, or runs without the database.
THEOREM NoRowRunsOn == Spec => []RunningRowsAreLive
BY MonitorInvariant, PTL DEF MonitorInv

-------------------------------------------------------------------------------
(* The printer's SD card.                                                  *)

\* A task is started in PREPARE only.
LEMMA LaunchInPrepare ==
  ASSUME [Next]_vars, ~Reading, task'.status = "reading"
  PROVE  report.state = "PREPARE"
<1> USE DEF Reading, sliceVars, NoTask
<1>1. task' # task /\ task' # [status |-> "none", file |-> 0]
  OBVIOUS
<1>2. CASE Report \/ TransferEnds \/ OrphanEnds
  BY <1>1, <1>2 DEF Report, TransferEnds, OrphanEnds
<1>3. CASE Tick
  BY <1>1, <1>3
  DEF Tick, TickWithoutFetch, TickCancel, TickNothingToFetch, TickLaunch,
      TickWait, CancelTask, WorthFetching
<1>4. CASE Collect
  BY <1>1, <1>4 DEF Collect
<1>5. CASE Dispatch
  BY <1>1, <1>5
  DEF Dispatch, OpenSession, OpenSessionRaises, BeginClose, NothingToClose,
      ResetSlice, CancelTask
<1>6. CASE ClosingFetchReturns \/ ClosingFetchRaises \/ FinishClose
  BY <1>1, <1>6
  DEF ClosingFetchReturns, ClosingFetchRaises, FinishClose, ResetSlice, CancelTask
<1>7. CASE Greet \/ Capture \/ Analyze \/ Alerted \/ Sleep
  BY <1>1, <1>7 DEF Greet, Capture, Analyze, Alerted, Sleep
<1>8. CASE CancelWatching \/ CancelClosing \/ Kill \/ Restart
  BY <1>1, <1>8
  DEF CancelWatching, CancelClosing, Kill, Restart, BeginClose, NothingToClose,
      ResetSlice, CancelTask, FreshMemory
<1>9. CASE UNCHANGED vars
  BY <1>1, <1>9 DEF vars
<1> QED
  BY <1>2, <1>3, <1>4, <1>5, <1>6, <1>7, <1>8, <1>9 DEF Next, Loop

\* The fetch of a print that is over begins off print, or in a shutdown.
LEMMA ClosingFetchOffPrint ==
  ASSUME MemoryOK, [Next]_vars, pc # "closing_fetch", pc' = "closing_fetch"
  PROVE  report.state # "RUNNING" \/ after' = "down"
<1>1. CASE Report \/ TransferEnds \/ OrphanEnds
  BY <1>1 DEF Report, TransferEnds, OrphanEnds
<1>2. CASE Tick \/ Collect
  BY <1>2
  DEF Tick, Collect, TickWithoutFetch, TickCancel, TickNothingToFetch,
      TickLaunch, TickWait
<1>3. CASE Dispatch
  BY <1>3 DEF Dispatch, OpenSession, OpenSessionRaises, Terminal, Unreported
<1>4. CASE ClosingFetchReturns \/ ClosingFetchRaises \/ FinishClose
  BY <1>4 DEF MemoryOK, ClosingFetchReturns, ClosingFetchRaises, FinishClose
<1>5. CASE Greet \/ Capture \/ Analyze \/ Alerted \/ Sleep
  BY <1>5 DEF Greet, Capture, Analyze, Alerted, Sleep
<1>6. CASE CancelWatching \/ CancelClosing \/ Kill \/ Restart
  BY <1>6
  DEF CancelWatching, CancelClosing, Kill, Restart, BeginClose, NothingToClose
<1>7. CASE UNCHANGED vars
  BY <1>7 DEF vars
<1> QED
  BY <1>1, <1>2, <1>3, <1>4, <1>5, <1>6, <1>7 DEF Next, Loop

\* The loop sends no fetch to its thread while the printer reports RUNNING, a
\* shutdown apart.
THEOREM NoTransferBegunOnPrint == Spec => TransfersBeginOffPrint
<1>1. MonitorInv /\ [Next]_vars =>
        /\ ~Reading /\ task'.status = "reading" => report.state = "PREPARE"
        /\ pc # "closing_fetch" /\ pc' = "closing_fetch" =>
             report.state # "RUNNING" \/ after' = "down"
  BY LaunchInPrepare, ClosingFetchOffPrint DEF MonitorInv
<1> QED
  BY <1>1, MonitorInvariant, PTL DEF Spec, TransfersBeginOffPrint
-------------------------------------------------------------------------------
(* The rows keep the ledger.                                               *)

RowStates == {"running", "missing", "settled", "unknown"}

StatesOf(rs) == [s \in DOMAIN rs |-> rs[s].state]

\* Opening a row adds its state to the ledger.
LEMMA StatesAppended ==
  ASSUME rows \in Seq(Rows), NEW row \in Rows
  PROVE  StatesOf(Append(rows, row)) = Append(StatesOf(rows), row.state)
<1> DEFINE l == StatesOf(rows)
<1>1. /\ Len(rows) \in Nat /\ DOMAIN rows = 1..Len(rows)
      /\ DOMAIN Append(rows, row) = 1..Len(rows) + 1
      /\ \A i \in 1..Len(rows) : Append(rows, row)[i] = rows[i]
      /\ Append(rows, row)[Len(rows) + 1] = row
  OBVIOUS
<1>2. \A i \in 1..Len(rows) : rows[i].state \in RowStates
  <2>1. \A e \in Rows : e.state \in RowStates
    BY DEF Rows, RowStates
  <2>2. \A i \in 1..Len(rows) : rows[i] \in Rows
    OBVIOUS
  <2> QED
    BY <2>1, <2>2
<1>3. l \in Seq(RowStates) /\ Len(l) = Len(rows)
  BY <1>1, <1>2 DEF StatesOf
<1>4. row.state \in RowStates
  BY DEF Rows, RowStates
<1>5. /\ Append(l, row.state) \in Seq(RowStates)
      /\ DOMAIN Append(l, row.state) = 1..Len(rows) + 1
      /\ \A i \in 1..Len(rows) : Append(l, row.state)[i] = rows[i].state
      /\ Append(l, row.state)[Len(rows) + 1] = row.state
  BY <1>1, <1>3, <1>4 DEF StatesOf
<1> QED
  BY <1>1, <1>5 DEF StatesOf
\* The session in hand, as the ledger knows it.
Live == IF Recording THEN InHand ELSE 0

\* A step of the service is a step of the ledger, or none.
LEMMA LedgerStep ==
  ASSUME MonitorInv, [Next]_vars
  PROVE  [Ledger!LedgerNext]_(Ledger!lvars)
<1> DEFINE ledger == [s \in DOMAIN rows |-> rows[s].state]
<1>1. /\ rows \in Seq(Rows) /\ Len(rows) \in Nat /\ DOMAIN rows = 1..Len(rows)
      /\ \A s \in DOMAIN rows : rows[s] \in Rows
      /\ history \in BOOLEAN
  BY DEF MonitorInv, DiskOK, MemoryOK
<1>2. CASE RowsLeftAlone
  BY <1>2 DEF RowsLeftAlone, Recording, Ledger!lvars
<1>3. CASE RowOpens
  <2>1. PICK state \in {"running", "missing"} :
          rows' = Append(rows, NewRow(state)) /\ (~history => state = "missing")
    BY <1>3 DEF RowOpens
  <2>2. NewRow(state) \in Rows /\ NewRow(state).state = state
    BY <2>1 DEF NewRow, Rows
  <2>3. ledger' = Append(ledger, state)
    BY <1>1, <2>1, <2>2, StatesAppended DEF StatesOf
  <2>4. Len(ledger') = Len(rows) + 1
    <3>1. DOMAIN ledger' = 1..Len(rows) + 1
      BY <1>1, <2>1
    <3> QED
      BY <1>1, <3>1
  <2>5. CASE history
    <3>1. Recording /\ Recording' /\ Live = 0 /\ Live' = Len(ledger')
      BY <1>3, <2>4, <2>5 DEF RowOpens, Recording, Live
    <3> QED
      BY <2>3, <3>1 DEF Ledger!LedgerNext, Ledger!Open, Live
  <2>6. CASE ~history
    <3>1. Recording = FALSE /\ Recording' = FALSE /\ Live = 0 /\ Live' = 0
      BY <1>3, <2>6 DEF RowOpens, Recording, Live
    <3>2. ledger' = Append(ledger, "missing")
      BY <2>1, <2>3, <2>6
    <3> QED
      BY <3>1, <3>2 DEF Ledger!LedgerNext, Ledger!Unrecorded, Live
  <2> QED
    BY <2>5, <2>6
<1>4. CASE RowLost
  <2>1. CASE history
    <3>1. Recording /\ Recording' \in {TRUE, FALSE} /\ Live # 0 /\ Live' = 0
      BY <1>4, <2>1 DEF RowLost, Recording, Live, Up
    <3> QED
      BY <1>4, <3>1 DEF RowLost, Ledger!LedgerNext, Ledger!Release, Live
  <2>2. CASE ~history
    BY <1>4, <2>2 DEF RowLost, Recording, Ledger!lvars
  <2> QED
    BY <2>1, <2>2
<1>5. CASE RowLetGo
  <2>1. InHand \in DOMAIN rows /\ InHand # 0 /\ InHand' = 0 /\ rows[InHand] \in Rows
    BY <1>1, <1>5 DEF RowLetGo
  <2>2. CASE history
    <3>1. /\ Recording /\ Recording' \in {TRUE, FALSE}
          /\ Live = InHand /\ Live' = 0
      BY <1>5, <2>1, <2>2 DEF RowLetGo, Recording, Live, Up
    <3>2. \/ ledger' = ledger
          \/ /\ ledger[InHand] = "running"
             /\ ledger' = [ledger EXCEPT ![InHand] = "settled"]
      <4>1. CASE rows' = rows
        BY <4>1
      <4>2. CASE rows' # rows
        <5>1. PICK src : rows' = [rows EXCEPT ![InHand] = Finalized(@, src)]
          BY <1>5, <4>2 DEF RowLetGo
        <5>2. ledger[InHand] = "running"
          BY <1>5, <2>1, <4>2 DEF RowLetGo, HasRow
        <5>3. Finalized(rows[InHand], src).state = "settled"
          BY <2>1 DEF Finalized, Rows
        <5>4. /\ DOMAIN rows' = DOMAIN rows
              /\ rows'[InHand].state = "settled"
              /\ \A s \in DOMAIN rows : s # InHand => rows'[s] = rows[s]
          BY <2>1, <5>1, <5>3
        <5>5. ledger' = [ledger EXCEPT ![InHand] = "settled"]
          BY <5>4
        <5> QED
          BY <5>2, <5>5
      <4> QED
        BY <4>1, <4>2
    <3> QED
      BY <2>1, <3>1, <3>2 DEF Ledger!LedgerNext, Ledger!Release, Live
  <2>3. CASE ~history
    BY <1>5, <2>3 DEF RowLetGo, HasRow, Recording, Ledger!lvars
  <2> QED
    BY <2>2, <2>3
<1>6. CASE ProcessStops
  <2>1. ~Recording' /\ Live' = 0 /\ rows' = rows
    BY <1>6 DEF ProcessStops, Recording, Live
  <2> QED
    BY <2>1 DEF Ledger!LedgerNext, Ledger!Stop, Live
<1>7. CASE ProcessStarts
  <2>1. ~Recording /\ Live = 0 /\ Live' = 0
    BY <1>7 DEF ProcessStarts, Recording, Live
  <2>2. CASE history' = TRUE /\ rows' = Reconciled
    <3>1. Recording' = TRUE
      BY <1>7, <2>2 DEF ProcessStarts, Recording, Up
    <3>2. ledger' = [s \in DOMAIN ledger |->
                       IF ledger[s] = "running" THEN "unknown" ELSE ledger[s]]
      <4>1. \A s \in DOMAIN rows :
              [rows[s] EXCEPT !.state = "unknown"].state = "unknown"
        BY <1>1 DEF Rows
      <4> QED
        BY <2>2, <4>1 DEF Reconciled
    <3> QED
      BY <2>1, <3>1, <3>2 DEF Ledger!LedgerNext, Ledger!Start, Live
  <2>3. CASE history' = FALSE /\ UNCHANGED rows
    BY <2>1, <2>3 DEF Recording, Ledger!lvars
  <2> QED
    BY <1>7, <2>2, <2>3 DEF ProcessStarts
<1> QED
  BY <1>2, <1>3, <1>4, <1>5, <1>6, <1>7, RowCases DEF MonitorInv

\* Through signals, crashes, failed writes and restarts, with a database and
\* without, the rows live as the ledger says: opened alone, settled once, made
\* unknown only by a start.
THEOREM RowsKeepLedger == Spec => KeepsLedger
<1>1. Init => Ledger!LedgerInit
  <2> SUFFICES ASSUME Init PROVE Ledger!LedgerInit
    OBVIOUS
  <2>1. [s \in DOMAIN rows |-> rows[s].state] = <<>>
    BY DEF Init
  <2>2. InHand = 0 /\ Recording \in BOOLEAN
    BY DEF Init, InHand, Up, Recording
  <2> QED
    BY <2>1, <2>2 DEF Ledger!LedgerInit
<1> QED
  BY <1>1, LedgerStep, MonitorInvariant, PTL
  DEF Spec, KeepsLedger, Ledger!LedgerSpec
-------------------------------------------------------------------------------
(* What a step can tell Discord, and write of a session's end.             *)

TellsNothing == UNCHANGED <<sessions, told>>

\* A session begins.
FirstPosts == IF NotifyOnStart THEN <<"started">> ELSE <<>>

TellsStart ==
  /\ session' = Len(told) + 1
  /\ \E opened : sessions' = Append(sessions, opened)
  /\ told' = Append(told, FirstPosts)

\* The one in hand is closed, its finish notice posted.
TellsFinish ==
  /\ pc # "closing_post" /\ pc' = "closing_post"
  /\ ending' # 0 /\ ending' \in {session, ending} /\ session' = 0
  /\ \E written \in BOOLEAN : CloseMetadata(ending', written)

TellsAlert ==
  /\ session # 0 /\ session' = session /\ ending' = ending /\ sessions' = sessions
  /\ told' = [told EXCEPT ![session] = Append(@, "alert")]

LEMMA ClosingTells ==
  ASSUME PlacesOK, pc # "closing_post", NEW p, NEW written \in BOOLEAN,
         BeginClose(p, written) \/ NothingToClose(p)
  PROVE  TellsNothing \/ TellsFinish
<1>1. CASE BeginClose(p, written) /\ ~WantsArchive(session)
  <2>1. /\ pc' = "closing_post" /\ ending' = session /\ session # 0 /\ session' = 0
        /\ CloseMetadata(session, written)
    BY <1>1 DEF BeginClose
  <2> QED
    BY <2>1 DEF TellsFinish
<1>2. CASE (BeginClose(p, written) /\ WantsArchive(session)) \/ NothingToClose(p)
  BY <1>2 DEF BeginClose, NothingToClose, diskVars, TellsNothing
<1> QED
  BY <1>1, <1>2

\* Every step of the monitor is one of these.
LEMMA TellCases ==
  ASSUME DiskOK, MemoryOK, PlacesOK, [Next]_vars
  PROVE  TellsNothing \/ TellsStart \/ TellsFinish \/ TellsAlert
<1> USE DEF diskVars
<1>1. CASE Report \/ TransferEnds \/ OrphanEnds \/ Tick \/ Collect
  BY <1>1 DEF Report, TransferEnds, OrphanEnds, Tick, Collect, TellsNothing
<1>2. CASE Dispatch
  <2>1. CASE OpenSession
    <3>1. session' = Len(told) + 1
      BY <2>1, OpenDisk DEF OpenSession, DiskOK
    <3>2. told' = Append(told, FirstPosts)
      BY <2>1 DEF OpenSession, FirstPosts
    <3>3. \E opened : sessions' = Append(sessions, opened)
      BY <2>1 DEF OpenSession
    <3> QED
      BY <3>1, <3>2, <3>3 DEF TellsStart
  <2>2. CASE \E written \in BOOLEAN :
               BeginClose("sleep", written) \/ NothingToClose("sleep")
    <3>1. pc # "closing_post"
      BY <1>2 DEF Dispatch
    <3> QED
      BY <2>2, <3>1, ClosingTells
  <2>3. CASE UNCHANGED <<sessions, told>>
    BY <2>3 DEF TellsNothing
  <2> QED
    BY <1>2, <2>1, <2>2, <2>3 DEF Dispatch, OpenSessionRaises
<1>3. CASE ClosingFetchReturns
  <2>1. /\ pc = "closing_fetch" /\ pc' = "closing_post"
        /\ ending' = ending /\ session' = session
        /\ \E written \in BOOLEAN : CloseMetadata(ending, written)
    BY <1>3 DEF ClosingFetchReturns
  <2>2. ending # 0 /\ session = 0
    BY <2>1 DEF PlacesOK, OneSessionInHand, Up
  <2> QED
    BY <2>1, <2>2 DEF TellsFinish
<1>4. CASE ClosingFetchRaises \/ FinishClose \/ Greet \/ Capture \/ Alerted \/ Sleep
  BY <1>4
  DEF ClosingFetchRaises, FinishClose, Greet, Capture, Alerted, Sleep, TellsNothing
<1>5. CASE Analyze
  <2>1. session # 0 /\ UNCHANGED <<session, ending, sessions>>
    BY <1>5 DEF Analyze, PlacesOK, OneSessionInHand
  <2> QED
    BY <1>5, <2>1 DEF Analyze, TellsAlert, TellsNothing
<1>6. CASE CancelWatching
  <2>1. pc # "closing_post"
    BY <1>6 DEF CancelWatching, PlacesOK, OneSessionInHand, Up
  <2> QED
    BY <1>6, <2>1, ClosingTells DEF CancelWatching
<1>7. CASE CancelClosing \/ Kill \/ Restart
  BY <1>7 DEF CancelClosing, Kill, Restart, TellsNothing
<1>8. CASE UNCHANGED vars
  BY <1>8 DEF vars, TellsNothing
<1> QED
  BY <1>1, <1>2, <1>3, <1>4, <1>5, <1>6, <1>7, <1>8 DEF Next, Loop

-------------------------------------------------------------------------------
(* What Discord is told, in which order.                                   *)

\* The finish notice is posted of a session that is no longer open, and by
\* the close that has got as far.
FinishedIsOver ==
  \A s \in DOMAIN told :
    Finished(s) => s # session /\ (s = ending => pc = "closing_post")

\* No step comes back to a session that has been told to be over.
LEMMA OverStays ==
  ASSUME DiskOK, MemoryOK, PlacesOK, [Next]_vars, NEW s \in DOMAIN told,
         s # session, s = ending => pc = "closing_post"
  PROVE  s # session' /\ (s = ending' => pc' = "closing_post")
<1>1. s \in 1..Len(sessions) /\ Len(sessions) \in Nat
  BY DEF DiskOK
<1>2. CASE Report \/ TransferEnds \/ OrphanEnds
  BY <1>2 DEF Report, TransferEnds, OrphanEnds
<1>3. CASE Tick \/ Collect
  BY <1>3
  DEF Tick, Collect, TickWithoutFetch, TickCancel, TickNothingToFetch, TickLaunch,
      TickWait
<1>4. CASE Dispatch
  <2>1. s # ending
    BY <1>4 DEF Dispatch
  <2>2. CASE OpenSession
    <3>1. session' = Len(sessions) + 1
      BY <2>2 DEF OpenSession, DiskOK, Adding
    <3> QED
      BY <1>1, <2>1, <2>2, <3>1 DEF OpenSession
  <2>3. CASE \/ \E written \in BOOLEAN : BeginClose("sleep", written)
             \/ NothingToClose("sleep")
             \/ OpenSessionRaises
    BY <1>1, <2>1, <2>3 DEF BeginClose, NothingToClose, OpenSessionRaises
  <2> QED
    BY <1>4, <2>1, <2>2, <2>3 DEF Dispatch
<1>5. CASE ClosingFetchReturns \/ ClosingFetchRaises \/ FinishClose
  <2>1. /\ session' = session /\ ending' \in {ending, 0}
        /\ ending' = ending => pc' = "closing_post" \/ ending = 0
    BY <1>5 DEF ClosingFetchReturns, ClosingFetchRaises, FinishClose
  <2> QED
    BY <1>1, <2>1
<1>6. CASE Greet \/ Capture \/ Analyze \/ Alerted \/ Sleep
  BY <1>6 DEF Greet, Capture, Analyze, Alerted, Sleep
<1>7. CASE CancelWatching
  BY <1>1, <1>7 DEF CancelWatching, BeginClose, NothingToClose
<1>8. CASE CancelClosing \/ Kill \/ Restart
  BY <1>1, <1>8 DEF CancelClosing, Kill, Restart, FreshMemory
<1>9. CASE UNCHANGED vars
  BY <1>9 DEF vars
<1> QED
  BY <1>2, <1>3, <1>4, <1>5, <1>6, <1>7, <1>8, <1>9 DEF Next, Loop

\* A post is added to the posts of one session.
LEMMA PostAdded ==
  ASSUME told \in Seq(Tellings), NEW e \in DOMAIN told, NEW p \in Posts,
         told' = [told EXCEPT ![e] = Append(@, p)]
  PROVE  /\ DOMAIN told' = DOMAIN told
         /\ told'[e] = Append(told[e], p)
         /\ \A s \in DOMAIN told : s # e => told'[s] = told[s]
         /\ p # "finished" => (Finished(e)' => Finished(e))
<1>1. /\ DOMAIN told' = DOMAIN told
      /\ told'[e] = Append(told[e], p)
      /\ \A s \in DOMAIN told : s # e => told'[s] = told[s]
  OBVIOUS
<1>2. told[e] \in Seq(Posts)
  BY DEF Tellings
<1>3. ASSUME p # "finished", NEW i \in DOMAIN told'[e], told'[e][i] = "finished"
      PROVE  i \in DOMAIN told[e] /\ told[e][i] = "finished"
  BY <1>1, <1>2, <1>3
<1> QED
  BY <1>1, <1>3 DEF Finished

\* A step posts what may be posted, and nothing after the finish notice.
LEMMA PostsStep ==
  ASSUME DiskOK, MemoryOK, PlacesOK, FinishedIsOver, [Next]_vars
  PROVE  /\ FinishedIsOver'
         /\ DOMAIN told \subseteq DOMAIN told' /\ \A s \in DOMAIN told' : MayTell(s)
<1>1. /\ told \in Seq(Tellings) /\ Len(told) = Len(sessions) /\ Len(told) \in Nat
      /\ DOMAIN told = 1..Len(told)
      /\ session \in 0..Len(told) /\ ending \in 0..Len(told)
  BY DEF DiskOK
<1>2. ASSUME NEW s \in DOMAIN told, Finished(s)
      PROVE  s # session' /\ (s = ending' => pc' = "closing_post")
  BY <1>2, OverStays DEF FinishedIsOver
<1>3. CASE TellsNothing
  <2>1. told' = told
    BY <1>3 DEF TellsNothing
  <2> QED
    BY <1>2, <2>1 DEF FinishedIsOver, Finished, MayTell
<1>4. CASE TellsStart
  <2>1. /\ FirstPosts \in Tellings
        /\ \A i \in DOMAIN FirstPosts : FirstPosts[i] # "finished"
    BY Telling DEF FirstPosts
  <2>2. /\ DOMAIN told' = 1..Len(told) + 1
        /\ \A s \in DOMAIN told : told'[s] = told[s]
        /\ told'[Len(told) + 1] = FirstPosts
    BY <1>1, <1>4, <2>1 DEF TellsStart
  <2>3. ASSUME NEW s \in DOMAIN told'
        PROVE  \/ s \in DOMAIN told /\ told'[s] = told[s]
               \/ s \notin DOMAIN told /\ told'[s] = FirstPosts
    BY <1>1, <2>2
  <2>4. FinishedIsOver'
    <3>1. ASSUME NEW s \in DOMAIN told', Finished(s)'
          PROVE  s \in DOMAIN told /\ Finished(s)
      BY <2>1, <2>3, <3>1 DEF Finished
    <3> QED
      BY <1>2, <3>1 DEF FinishedIsOver
  <2>5. \A s \in DOMAIN told' : MayTell(s)
    BY <2>3 DEF MayTell, FirstPosts
  <2> QED
    BY <1>1, <2>2, <2>4, <2>5
<1>5. CASE TellsFinish
  <2>1. PICK e : e = ending'
    OBVIOUS
  <2>2. e \in DOMAIN told /\ e \in {session, ending} /\ e # 0 /\ pc # "closing_post"
        /\ session' = 0 /\ pc' = "closing_post"
    BY <1>1, <1>5, <2>1 DEF TellsFinish
  <2>3. ~Finished(e)
    BY <2>2 DEF FinishedIsOver
  <2>4. told' = told \/ told' = [told EXCEPT ![e] = Append(@, "finished")]
    BY <1>5, <2>1 DEF TellsFinish, CloseMetadata
  <2>5. /\ DOMAIN told' = DOMAIN told
        /\ \A s \in DOMAIN told :
             \/ told'[s] = told[s]
             \/ s = e /\ told'[s] = Append(told[s], "finished")
    <3>1. CASE told' = told
      BY <3>1
    <3>2. CASE told' = [told EXCEPT ![e] = Append(@, "finished")]
      BY <1>1, <2>2, <3>2
    <3> QED
      BY <2>4, <3>1, <3>2
  <2>6. FinishedIsOver'
    BY <1>1, <2>2, <2>5 DEF FinishedIsOver
  <2>7. \A s \in DOMAIN told' : MayTell(s)
    BY <1>1, <2>2, <2>3, <2>5 DEF MayTell
  <2> QED
    BY <2>5, <2>6, <2>7
<1>6. CASE TellsAlert
  <2>1. session \in DOMAIN told /\ session' = session /\ ending' = ending
        /\ told' = [told EXCEPT ![session] = Append(@, "alert")]
    BY <1>1, <1>6 DEF TellsAlert
  <2>2. ~Finished(session)
    BY <2>1 DEF FinishedIsOver
  <2>3. /\ DOMAIN told' = DOMAIN told
        /\ told'[session] = Append(told[session], "alert")
        /\ \A s \in DOMAIN told : s # session => told'[s] = told[s]
        /\ Finished(session)' => Finished(session)
    <3>1. "alert" \in Posts /\ "alert" # "finished"
      BY DEF Posts
    <3>2. PICK e \in DOMAIN told : e = session
      BY <2>1
    <3>3. told' = [told EXCEPT ![e] = Append(@, "alert")]
      BY <2>1, <3>2
    <3>4. /\ DOMAIN told' = DOMAIN told
          /\ told'[e] = Append(told[e], "alert")
          /\ \A s \in DOMAIN told : s # e => told'[s] = told[s]
          /\ Finished(e)' => Finished(e)
      BY <1>1, <3>1, <3>3, PostAdded
    <3> QED
      BY <2>1, <3>2, <3>4 DEF Finished
  <2>4. ASSUME NEW s \in DOMAIN told', Finished(s)'
        PROVE  s \in DOMAIN told /\ Finished(s)
    BY <2>1, <2>3, <2>4 DEF Finished
  <2>5. FinishedIsOver'
    BY <1>2, <2>4 DEF FinishedIsOver
  <2>6. \A s \in DOMAIN told' : MayTell(s)
    BY <2>1, <2>2, <2>3 DEF MayTell
  <2> QED
    BY <2>3, <2>5, <2>6
<1> QED
  BY <1>3, <1>4, <1>5, <1>6, TellCases

\* What is told of a session is exactly one start notice (if there is to be
\* one), alerts while it is open, at most one finish notice, and nothing more,
\* through any signals, crashes and restarts.
THEOREM DiscordIsToldInOrder == Spec => PostsInOrder
<1>1. Init => FinishedIsOver
  BY DEF Init, FinishedIsOver
<1>2. MonitorInv /\ FinishedIsOver /\ [Next]_vars =>
        /\ FinishedIsOver'
        /\ DOMAIN told \subseteq DOMAIN told' /\ \A s \in DOMAIN told' : MayTell(s)
  BY PostsStep DEF MonitorInv
<1> QED
  BY <1>1, <1>2, MonitorInvariant, PTL DEF Spec, PostsInOrder

-------------------------------------------------------------------------------
(* A settled row is announced.                                             *)

Announced(s) ==
  /\ sessions[s].metadata # "open"
  /\ NotifyOnFinish => told[s] # <<>> /\ told[s][Len(told[s])] = "finished"

CloseIsAnnounced == pc = "closing_post" => Announced(ending)

\* The metadata and the posts of a session that has just been closed.
LEMMA ClosedIsAnnounced ==
  ASSUME DiskOK, NEW s \in 1..Len(sessions), NEW written, CloseMetadata(s, written)
  PROVE  /\ (sessions'[s]).metadata # "open"
         /\ NotifyOnFinish => told'[s] = Append(told[s], "finished")
         /\ NotifyOnFinish => told'[s] # <<>> /\ told'[s][Len(told'[s])] = "finished"
<1>1. /\ sessions \in Seq(SessionRecords) /\ sessions[s] \in SessionRecords
      /\ told \in Seq(Tellings) /\ s \in 1..Len(told) /\ told[s] \in Tellings
  BY DEF DiskOK
<1>2. (sessions'[s]).metadata = EndOf(written)
  BY <1>1 DEF CloseMetadata, SessionRecords
<1>3. NotifyOnFinish => told'[s] = Append(told[s], "finished")
  BY <1>1 DEF CloseMetadata
<1>4. \A q \in Tellings : LET r == Append(q, "finished")
                        IN  r # <<>> /\ r[Len(r)] = "finished"
  BY DEF Tellings, Posts
<1> QED
  BY <1>1, <1>2, <1>3, <1>4 DEF EndOf

\* What is announced stays so.
LEMMA AnnouncedStays ==
  ASSUME DiskOK, MemoryOK, PlacesOK, FinishedIsOver, [Next]_vars,
         NEW s \in 1..Len(sessions), Announced(s)
  PROVE  Announced(s)'
<1> USE DEF Announced
<1>1. /\ sessions \in Seq(SessionRecords) /\ told \in Seq(Tellings)
      /\ Len(told) = Len(sessions) /\ Len(sessions) \in Nat
      /\ session \in 0..Len(sessions) /\ ending \in 0..Len(sessions)
      /\ told[s] \in Tellings
  BY DEF DiskOK
<1>2. CASE TellsNothing
  BY <1>2 DEF TellsNothing
<1>3. CASE TellsStart
  <2>1. sessions'[s] = sessions[s]
    BY <1>1, <1>3 DEF TellsStart
  <2>2. told'[s] = told[s]
    <3>1. FirstPosts \in Tellings
      BY Telling DEF FirstPosts
    <3> QED
      BY <1>1, <1>3, <3>1 DEF TellsStart
  <2> QED
    BY <2>1, <2>2
<1>4. CASE TellsFinish
  <2>1. PICK e \in 1..Len(sessions), written \in BOOLEAN :
          e = ending' /\ CloseMetadata(e, written)
    BY <1>1, <1>4 DEF TellsFinish
  <2>2. CASE s = e
    BY <2>1, <2>2, ClosedIsAnnounced
  <2>3. CASE s # e
    BY <1>1, <2>1, <2>3 DEF CloseMetadata
  <2> QED
    BY <2>2, <2>3
<1>5. CASE TellsAlert
  <2>1. sessions' = sessions /\ told' = [told EXCEPT ![session] = Append(@, "alert")]
    BY <1>5 DEF TellsAlert
  <2>2. CASE s = session
    <3>1. ~Finished(s)
      BY <1>1, <2>2 DEF FinishedIsOver
    <3>2. ~NotifyOnFinish
      BY <1>1, <3>1 DEF Finished
    <3> QED
      BY <2>1, <3>2
  <2>3. CASE s # session
    BY <1>1, <2>1, <2>3
  <2> QED
    BY <2>2, <2>3
<1> QED
  BY <1>2, <1>3, <1>4, <1>5, TellCases

\* _end_session is past the finish notice once metadata.json is closed.
LEMMA CloseIsAnnouncedStep ==
  ASSUME DiskOK, MemoryOK, PlacesOK, FinishedIsOver, CloseIsAnnounced, [Next]_vars
  PROVE  CloseIsAnnounced'
<1> SUFFICES ASSUME pc' = "closing_post" PROVE Announced(ending)'
  BY DEF CloseIsAnnounced
<1>1. /\ Len(sessions) \in Nat
      /\ session \in 0..Len(sessions) /\ ending \in 0..Len(sessions)
  BY DEF DiskOK
<1>2. CASE TellsFinish
  <2>1. PICK e \in 1..Len(sessions), written \in BOOLEAN :
          e = ending' /\ CloseMetadata(e, written)
    BY <1>1, <1>2 DEF TellsFinish
  <2>2. /\ (sessions'[e]).metadata # "open"
        /\ NotifyOnFinish => told'[e] # <<>> /\ told'[e][Len(told'[e])] = "finished"
    BY <2>1, ClosedIsAnnounced
  <2> QED
    BY <2>1, <2>2 DEF Announced
<1>3. CASE pc = "closing_post" /\ ending' = ending
  <2>1. PICK s : s = ending
    OBVIOUS
  <2>2. s \in 1..Len(sessions) /\ Announced(s)
    BY <1>1, <1>3, <2>1 DEF CloseIsAnnounced, PlacesOK, OneSessionInHand, Up
  <2>3. Announced(s)'
    BY <2>2, AnnouncedStays
  <2> QED
    BY <1>3, <2>1, <2>3 DEF Announced
<1>4. TellsFinish \/ (pc = "closing_post" /\ ending' = ending)
  <2>1. CASE Report \/ TransferEnds \/ OrphanEnds
    BY <2>1 DEF Report, TransferEnds, OrphanEnds
  <2>2. CASE Tick \/ Collect
    BY <2>2
    DEF Tick, Collect, TickWithoutFetch, TickCancel, TickNothingToFetch, TickLaunch,
        TickWait
  <2>3. CASE Dispatch \/ CancelWatching
    <3>1. pc # "closing_post"
      BY <2>3 DEF Dispatch, CancelWatching, PlacesOK, OneSessionInHand, Up
    <3>2. PICK p \in {"sleep", "down"}, written \in BOOLEAN : BeginClose(p, written)
      BY <2>3 DEF Dispatch, CancelWatching, NothingToClose, OpenSession, OpenSessionRaises
    <3>3. /\ ending' = session /\ session # 0 /\ session' = 0
          /\ CloseMetadata(session, written)
      BY <3>2 DEF BeginClose
    <3> QED
      BY <3>1, <3>3 DEF TellsFinish
  <2>4. CASE ClosingFetchReturns
    <3>1. /\ pc = "closing_fetch" /\ ending' = ending /\ session' = session
          /\ \E written \in BOOLEAN : CloseMetadata(ending, written)
      BY <2>4 DEF ClosingFetchReturns
    <3>2. ending # 0 /\ session = 0
      BY <3>1 DEF PlacesOK, OneSessionInHand, Up
    <3> QED
      BY <3>1, <3>2 DEF TellsFinish
  <2>5. CASE ClosingFetchRaises \/ FinishClose
    BY <2>5 DEF ClosingFetchRaises, FinishClose, PlacesOK
  <2>6. CASE Greet \/ Capture \/ Analyze \/ Alerted \/ Sleep
    BY <2>6 DEF Greet, Capture, Analyze, Alerted, Sleep
  <2>7. CASE CancelClosing \/ Kill \/ Restart
    BY <2>7 DEF CancelClosing, Kill, Restart
  <2>8. CASE UNCHANGED vars
    BY <2>8 DEF vars
  <2> QED
    BY <2>1, <2>2, <2>3, <2>4, <2>5, <2>6, <2>7, <2>8 DEF Next, Loop
<1> QED
  BY <1>2, <1>3, <1>4

\* A row is settled by the end of a close only.
LEMMA SettledStep ==
  ASSUME DiskOK, MemoryOK, PlacesOK, FinishedIsOver, CloseIsAnnounced,
         SettledRowsAreAnnounced, [Next]_vars
  PROVE  SettledRowsAreAnnounced'
<1>1. /\ rows \in Seq(Rows) /\ Len(rows) = Len(sessions) /\ Len(rows) \in Nat
      /\ DOMAIN rows = 1..Len(rows)
  BY DEF DiskOK
<1>2. ASSUME NEW s \in DOMAIN rows', (rows'[s]).state = "settled"
      PROVE  s \in 1..Len(sessions) /\ Announced(s)
  <2>1. CASE RowLetGo /\ s = InHand
    <3>1. s = ending /\ s \in DOMAIN rows
      BY <2>1 DEF RowLetGo, InHand, Up, PlacesOK, OneSessionInHand
    <3>2. pc = "closing_post"
      BY <2>1 DEF RowLetGo
    <3> QED
      BY <1>1, <3>1, <3>2 DEF CloseIsAnnounced
  <2>2. CASE s \in DOMAIN rows /\ rows[s].state = "settled"
    BY <1>1, <2>2 DEF SettledRowsAreAnnounced, Announced
  <2>3. (s \in DOMAIN rows /\ rows[s].state = "settled") \/ (RowLetGo /\ s = InHand)
    <3>1. CASE RowsLeftAlone \/ RowLost \/ ProcessStops
      BY <1>2, <3>1 DEF RowsLeftAlone, RowLost, ProcessStops
    <3>2. CASE RowOpens
      <4>1. PICK state \in {"running", "missing"} : rows' = Append(rows, NewRow(state))
        BY <3>2 DEF RowOpens
      <4>2. NewRow(state).state = state
        BY DEF NewRow
      <4> QED
        BY <1>1, <1>2, <4>1, <4>2
    <3>3. CASE RowLetGo
      BY <1>1, <1>2, <3>3 DEF RowLetGo
    <3>4. CASE ProcessStarts
      <4>1. s \in DOMAIN rows /\ rows[s] \in Rows
        BY <1>1, <1>2, <3>4 DEF ProcessStarts, Reconciled
      <4>2. \/ rows'[s] = rows[s]
            \/ rows'[s] = IF rows[s].state = "running"
                          THEN [rows[s] EXCEPT !.state = "unknown"] ELSE rows[s]
        BY <3>4, <4>1 DEF ProcessStarts, Reconciled
      <4>3. [rows[s] EXCEPT !.state = "unknown"].state = "unknown"
        BY <4>1 DEF Rows
      <4> QED
        BY <1>2, <4>1, <4>2, <4>3
    <3> QED
      BY <3>1, <3>2, <3>3, <3>4, RowCases
  <2> QED
    BY <2>1, <2>2, <2>3
<1>3. ASSUME NEW s \in DOMAIN rows', (rows'[s]).state = "settled"
      PROVE  Announced(s)'
  <2>1. s \in 1..Len(sessions) /\ Announced(s)
    BY <1>2, <1>3
  <2> QED
    BY <2>1, AnnouncedStays
<1> QED
  BY <1>3 DEF SettledRowsAreAnnounced, Announced

\* A settled row is the last thing _end_session writes: the reader of the
\* database who sees it finds the end in metadata.json, unless its writing
\* failed, and the finish notice tried and nothing told after it, however
\* often the process was stopped or restarted in between.
THEOREM SettledIsLast == Spec => []SettledRowsAreAnnounced
<1>1. Init => FinishedIsOver /\ CloseIsAnnounced /\ SettledRowsAreAnnounced
  BY DEF Init, FinishedIsOver, CloseIsAnnounced, SettledRowsAreAnnounced
<1> QED
  BY <1>1, MonitorInvariant, PostsStep, CloseIsAnnouncedStep, SettledStep, PTL
  DEF Spec, MonitorInv

-------------------------------------------------------------------------------
(* The fetch task and the slice.                                           *)

\* A task is launched while nothing has been obtained, and let go of by the
\* step that obtains something.
LEMMA TaskStep ==
  ASSUME PlacesOK, TaskMeansNoSlice, [Next]_vars PROVE TaskMeansNoSlice'
<1> USE DEF TaskMeansNoSlice, sliceVars, NoTask, ResetSlice, CancelTask
<1>1. CASE Report \/ OrphanEnds
  BY <1>1 DEF Report, OrphanEnds
<1>2. CASE TransferEnds
  <2>1. task # NoTask
    BY <1>2 DEF TransferEnds, Reading
  <2> QED
    BY <1>2, <2>1 DEF TransferEnds
<1>3. CASE Tick
  BY <1>3
  DEF Tick, TickWithoutFetch, TickCancel, TickNothingToFetch, TickLaunch, TickWait,
      MayFetch, FetchSettled
<1>4. CASE Collect
  BY <1>4 DEF Collect
<1>5. CASE Dispatch \/ CancelWatching
  <2>1. CASE \E p, written : BeginClose(p, written)
    BY <2>1 DEF BeginClose
  <2>2. CASE \E p : NothingToClose(p)
    BY <2>2 DEF NothingToClose
  <2>3. CASE UNCHANGED sliceVars /\ ending' = ending
    BY <2>3
  <2>4. CASE ResetSlice
    BY <2>4
  <2> QED
    BY <1>5, <2>1, <2>2, <2>3, <2>4
    DEF Dispatch, CancelWatching, OpenSession, OpenSessionRaises
<1>6. CASE ClosingFetchReturns
  <2>1. ending' # 0
    BY <1>6 DEF ClosingFetchReturns, PlacesOK, OneSessionInHand, Up
  <2> QED
    BY <2>1
<1>7. CASE ClosingFetchRaises \/ FinishClose
  BY <1>7 DEF ClosingFetchRaises, FinishClose
<1>8. CASE Greet \/ Capture \/ Analyze \/ Alerted \/ Sleep
  BY <1>8 DEF Greet, Capture, Analyze, Alerted, Sleep
<1>9. CASE CancelClosing \/ Kill \/ Restart
  BY <1>9 DEF CancelClosing, Kill, Restart, FreshMemory
<1>10. CASE UNCHANGED vars
  BY <1>10 DEF vars
<1> QED
  BY <1>1, <1>2, <1>3, <1>4, <1>5, <1>6, <1>7, <1>8, <1>9, <1>10 DEF Next, Loop

\* While the monitor holds a fetch task, outside _end_session, nothing has
\* been obtained: _tick_slice_fetch never returns early past a task it would
\* have to collect or to cancel.
THEOREM NoTaskIsForgotten == Spec => []TaskMeansNoSlice
<1>1. Init => TaskMeansNoSlice
  BY DEF Init, TaskMeansNoSlice
<1> QED
  BY <1>1, MonitorInvariant, TaskStep, PTL DEF Spec, MonitorInv

================================================================================
