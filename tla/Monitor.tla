-------------------------------- MODULE Monitor --------------------------------
(***************************************************************************)
(* PrintMonitor of app/detection/monitor.py: the loop that watches one     *)
(* printer, together with everything that acts while it waits: the MQTT    *)
(* thread that writes the shared PrinterState, the executor threads that   *)
(* read the printer's SD card over FTPS, a signal that cancels the loop's  *)
(* task, and the loss and restart of the process.                          *)
(*                                                                         *)
(* The coroutine gives way only at an await.  pc names the await it is at  *)
(* (or the plain code it is about to run), and every action is the code    *)
(* from one await to the next, which other threads cannot usefully divide: *)
(* reports come about once a second.                                       *)
(*                                                                         *)
(* Prints are numbered as the printer starts them.  The name of a print's  *)
(* file, its sliced archive and its progress and layer figures are all     *)
(* represented by that number, so that they can be told from those of      *)
(* another print; 0 stands for None.                                       *)
(***************************************************************************)
EXTENDS Naturals, Sequences, FiniteSets

CONSTANTS
  FrameHistory,       \* Settings.frame_history
  HasFtp,             \* whether build_monitor passed an FTP client
  EnableSliceFetch,   \* Settings.enable_slice_fetch
  NotifyOnStart,      \* Settings.notify_on_start
  NotifyOnFinish,     \* Settings.notify_on_finish
  MaxPrints,          \* bound: prints the printer starts
  MaxMishaps,         \* bound: signals, kills, disk and archive errors
  MaxAlerts           \* bound: alerts about one session

ASSUME SettingsAssumption ==
  /\ FrameHistory \in Nat \ {0}
  /\ {HasFtp, EnableSliceFetch, NotifyOnStart, NotifyOnFinish} \subseteq BOOLEAN

ASSUME BoundsAssumption == {MaxPrints, MaxMishaps, MaxAlerts} \subseteq Nat

Terminal == {"FINISH", "FAILED", "IDLE"}
GcodeStates == Terminal \cup {"PREPARE", "RUNNING", "PAUSE"}
Unreported == "None"

\* The awaits of the loop.  "tick" and "dispatch" are plain code; the process
\* is "down" before a restart.
Awaits == {"collect", "greet", "capture", "analyze", "alert", "closing_fetch",
           "closing_post", "sleep"}
Places == Awaits \cup {"tick", "dispatch", "down"}

NoTask == [status |-> "none", file |-> 0]

VARIABLES
  \* written by the MQTT thread
  report,     \* PrinterState: state, file_name, and whose figures it holds
  prints,     \* how many prints the printer has started
  \* the monitor object
  pc,
  after,      \* where _end_session returns to: the loop, or out of it
  session,    \* self.session: index into sessions, or 0
  ending,     \* the local variable session of _end_session, or 0
  frames,     \* len(self.buffer)
  interval,   \* self.next_interval
  slice,      \* self.slice_info: the print whose archive it came from, or 0
  source,     \* self._slice_source
  task,       \* self._slice_task and what its thread has returned
  attempted,  \* self._slice_attempted_for
  orphans,    \* executor threads still reading for a cancelled task
  history,    \* self.repository is not None
  \* what outlives the process
  sessions,   \* session directories: the print, its file, its metadata.json
  rows,       \* the prints table, one entry per session
  told,       \* the Discord posts attempted for each session, in order
  \* bookkeeping of the model
  mishaps,    \* mishaps so far
  hurt        \* this process lost a close or a write

printerVars == <<report, prints>>
sliceVars == <<slice, source, task, attempted, orphans>>
watchVars == <<frames, interval>>
diskVars == <<sessions, rows, told>>
faultVars == <<mishaps, hurt>>
vars == <<printerVars, history, pc, after, session, ending, watchVars,
          sliceVars, diskVars, faultVars>>

Reading == task.status = "reading"

Mishap == mishaps < MaxMishaps /\ mishaps' = mishaps + 1

\* A process that has started with a database, or without: build_repository
\* only logs that the history is unavailable.
Init ==
  /\ report = [state |-> Unreported, file |-> 0, figures |-> 0]
  /\ prints = 0
  /\ pc = "tick" /\ after = "sleep"
  /\ session = 0 /\ ending = 0
  /\ frames = 0 /\ interval = "normal"
  /\ slice = 0 /\ source = "unavailable" /\ task = NoTask /\ attempted = 0
  /\ orphans = 0
  /\ history \in BOOLEAN
  /\ sessions = <<>> /\ rows = <<>> /\ told = <<>>
  /\ mishaps = 0 /\ hurt = FALSE

--------------------------------------------------------------------------------
(* The MQTT thread.  Reports may be lost, so a state can be skipped.          *)

FollowsInPrint(s) ==
  CASE s = "PREPARE" -> {"RUNNING", "FAILED", "IDLE"}
    [] s = "RUNNING" -> {"PAUSE"} \cup Terminal
    [] s = "PAUSE"   -> {"RUNNING", "FAILED", "IDLE"}
    [] OTHER         -> {}

\* The print in progress moves on, or is first heard of by a new process.
ReportState ==
  /\ pc # "down"
  /\ prints > 0
  /\ \/ /\ report.state # Unreported
        /\ \E s \in FollowsInPrint(report.state) :
             report' = [report EXCEPT !.state = s]
     \/ /\ report.state = Unreported
        /\ \E s \in GcodeStates :
             report' = [state |-> s, file |-> prints, figures |-> prints]
  /\ UNCHANGED prints

\* The next print is reported, its name with it or still to come: file_name
\* keeps the last name until a report carries another.
ReportNewPrint ==
  /\ pc # "down"
  /\ prints < MaxPrints
  /\ prints' = prints + 1
  /\ \E s \in {"PREPARE", "RUNNING"}, f \in {report.file, prints + 1} :
       report' = [state |-> s, file |-> f, figures |-> prints + 1]

ReportName ==
  /\ pc # "down"
  /\ report.file < report.figures
  /\ report' = [report EXCEPT !.file = report.figures]
  /\ UNCHANGED prints

Report ==
  /\ ReportState \/ ReportNewPrint \/ ReportName
  /\ UNCHANGED <<history, pc, after, session, ending, watchVars, sliceVars,
                 diskVars, faultVars>>

--------------------------------------------------------------------------------
(* Reading the archive.                                                       *)

\* Cancelling the asyncio task abandons its thread, which reads on.
CancelTask ==
  /\ task' = NoTask
  /\ orphans' = IF Reading THEN orphans + 1 ELSE orphans

ResetSlice ==
  /\ CancelTask
  /\ slice' = 0 /\ attempted' = 0 /\ source' = "unavailable"

\* The thread behind the task returns the archive's figures, or None.
TransferEnds ==
  /\ Reading
  /\ \E outcome \in {"found", "nothing"} : task' = [task EXCEPT !.status = outcome]
  /\ UNCHANGED <<printerVars, history, pc, after, session, ending, watchVars,
                 slice, source, attempted, orphans, diskVars, faultVars>>

OrphanEnds ==
  /\ orphans > 0
  /\ orphans' = orphans - 1
  /\ UNCHANGED <<printerVars, history, pc, after, session, ending, watchVars,
                 slice, source, task, attempted, diskVars, faultVars>>

FetchSettled == ~HasFtp \/ slice # 0

\* _tick_slice_fetch, up to its await.
TickWithoutFetch ==
  /\ FetchSettled \/ ~EnableSliceFetch
  /\ source' = IF FetchSettled THEN source ELSE "disabled"
  /\ pc' = "dispatch"
  /\ UNCHANGED <<slice, task, attempted, orphans>>

MayFetch == ~FetchSettled /\ EnableSliceFetch

\* Mutant: a transfer that has left its window is not cancelled.
TickCancelForgets ==
  /\ MayFetch
  /\ task # NoTask
  /\ report.state # "PREPARE"
  /\ attempted' = 0
  /\ pc' = "dispatch"
  /\ UNCHANGED <<slice, source, task, orphans>>

TickCancel ==
  /\ MayFetch
  /\ task # NoTask
  /\ report.state # "PREPARE"
  /\ CancelTask
  /\ attempted' = 0
  /\ pc' = "dispatch"
  /\ UNCHANGED <<slice, source>>

\* Mutant: a fetch is launched in any state.
WorthFetchingAlways == report.file # 0 /\ attempted # report.file

WorthFetching ==
  /\ report.state = "PREPARE"
  /\ report.file # 0
  /\ attempted # report.file

TickNothingToFetch ==
  /\ MayFetch
  /\ task = NoTask
  /\ ~WorthFetching
  /\ pc' = "dispatch"
  /\ UNCHANGED sliceVars

TickLaunch ==
  /\ MayFetch
  /\ task = NoTask
  /\ WorthFetching
  /\ task' = [status |-> "reading", file |-> report.file]
  /\ pc' = "collect"
  /\ UNCHANGED <<slice, source, attempted, orphans>>

TickWait ==
  /\ MayFetch
  /\ task # NoTask
  /\ report.state = "PREPARE"
  /\ pc' = "collect"
  /\ UNCHANGED sliceVars

Tick ==
  /\ pc = "tick"
  /\ \/ TickWithoutFetch
     \/ TickCancel
     \/ TickNothingToFetch
     \/ TickLaunch
     \/ TickWait
  /\ UNCHANGED <<printerVars, history, after, session, ending, watchVars,
                 diskVars, faultVars>>

\* Mutant: a finished task is read but not let go of.
CollectKeepsTask ==
  /\ pc = "collect"
  /\ pc' = "dispatch"
  /\ attempted' = report.file
  /\ slice' = IF task.status = "found" THEN task.file ELSE 0
  /\ source' = IF task.status = "found" THEN "ftps" ELSE "unavailable"
  /\ UNCHANGED <<printerVars, history, after, session, ending, watchVars,
                 task, orphans, diskVars, faultVars>>

\* The rest of _tick_slice_fetch, after the wait of COLLECT_GRACE_SECONDS.
\* The name attempted is the one the shared state holds by now.
Collect ==
  /\ pc = "collect"
  /\ pc' = "dispatch"
  /\ \/ Reading /\ UNCHANGED sliceVars
     \/ /\ ~Reading
        /\ task' = NoTask
        /\ attempted' = report.file
        /\ slice' = IF task.status = "found" THEN task.file ELSE 0
        /\ source' = IF task.status = "found" THEN "ftps" ELSE "unavailable"
        /\ UNCHANGED orphans
  /\ UNCHANGED <<printerVars, history, after, session, ending, watchVars,
                 diskVars, faultVars>>

--------------------------------------------------------------------------------
(* Opening and closing a session.                                             *)

NewRow(state) == [state |-> state, slice |-> 0, figures |-> 0, source |-> "none"]

\* What the session directory's metadata.json says of the end: nothing yet
\* ("open"; also where its first writing failed, which is only logged), the
\* end, or still nothing because that writing failed, which is only logged too.
Metadata == {"open", "closed", "stale"}

EndOf(written) == IF written THEN "closed" ELSE "stale"

\* _start_session, then the start notice.  Without a database there is no row,
\* and with one the row may fail to be inserted.
OpenSession ==
  /\ frames' = 0 /\ interval' = "normal"
  /\ sessions' = Append(sessions, [print |-> report.figures,
                                   file |-> report.file,
                                   metadata |-> "open"])
  /\ session' = Len(sessions')
  /\ \/ history /\ rows' = Append(rows, NewRow("running")) /\ UNCHANGED mishaps
     \/ history /\ rows' = Append(rows, NewRow("missing")) /\ Mishap
     \/ ~history /\ rows' = Append(rows, NewRow("missing")) /\ UNCHANGED mishaps
  /\ told' = Append(told, IF NotifyOnStart THEN <<"started">> ELSE <<>>)
  /\ pc' = "greet"
  /\ UNCHANGED <<after, ending, sliceVars, hurt>>

\* The directory cannot be created: the exception leaves the loop, and the
\* finally clause finds no session to end.
OpenSessionRaises ==
  /\ Mishap
  /\ frames' = 0 /\ interval' = "normal"
  /\ ResetSlice
  /\ pc' = "down"
  /\ UNCHANGED <<after, session, ending, diskVars, hurt>>

\* Mutant: no finish notice for a print without an archive.
CloseMetadataQuietly(s, written) ==
  /\ sessions' = [sessions EXCEPT ![s].metadata = EndOf(written)]
  /\ told' = IF NotifyOnFinish /\ slice # 0
             THEN [told EXCEPT ![s] = Append(@, "finished")]
             ELSE told

\* session.close, whether its writing succeeds or fails, and the finish notice.
CloseMetadata(s, written) ==
  /\ sessions' = [sessions EXCEPT ![s].metadata = EndOf(written)]
  /\ told' = IF NotifyOnFinish
             THEN [told EXCEPT ![s] = Append(@, "finished")]
             ELSE told

WantsArchive(s) ==
  slice = 0 /\ HasFtp /\ EnableSliceFetch /\ sessions[s].file # 0

\* Mutant: the session stays the monitor's own while it is closed.
BeginCloseKeepsSession(returnTo, written) ==
  /\ session # 0
  /\ ending' = session
  /\ after' = returnTo
  /\ IF WantsArchive(session)
     THEN written /\ pc' = "closing_fetch" /\ UNCHANGED <<sessions, told>>
     ELSE pc' = "closing_post" /\ CloseMetadata(session, written)
  /\ UNCHANGED <<session, rows, watchVars, sliceVars>>

\* _end_session, up to its first await; with a fetch to make first, there is
\* no writing that could fail yet.
BeginClose(returnTo, written) ==
  /\ session # 0
  /\ session' = 0 /\ ending' = session
  /\ after' = returnTo
  /\ IF WantsArchive(session)
     THEN written /\ pc' = "closing_fetch" /\ UNCHANGED <<sessions, told>>
     ELSE pc' = "closing_post" /\ CloseMetadata(session, written)
  /\ UNCHANGED <<rows, watchVars, sliceVars>>

NothingToClose(returnTo) ==
  /\ session = 0
  /\ ResetSlice
  /\ pc' = returnTo
  /\ UNCHANGED <<after, session, ending, watchVars, diskVars>>

\* run_once after _tick_slice_fetch, up to its next await.
Dispatch ==
  /\ pc = "dispatch"
  /\ UNCHANGED <<printerVars, history>>
  /\ \/ /\ report.state \in {"PREPARE", "PAUSE"}
        /\ pc' = "sleep"
        /\ UNCHANGED <<after, session, ending, watchVars, sliceVars, diskVars,
                       faultVars>>
     \/ /\ report.state \in Terminal \cup {Unreported}
        /\ \/ BeginClose("sleep", TRUE) /\ UNCHANGED faultVars
           \/ BeginClose("sleep", FALSE) /\ Mishap /\ UNCHANGED hurt
           \/ NothingToClose("sleep") /\ UNCHANGED faultVars
     \/ /\ report.state = "RUNNING"
        /\ session = 0
        /\ OpenSession \/ OpenSessionRaises
     \/ /\ report.state = "RUNNING"
        /\ session # 0
        /\ pc' = "capture"
        /\ UNCHANGED <<after, session, ending, watchVars, sliceVars, diskVars,
                       faultVars>>

\* The fetch of a print that is over returns the archive's figures, or None.
ClosingFetchReturns ==
  /\ pc = "closing_fetch"
  /\ \/ slice' = sessions[ending].file /\ source' = "ftps"
     \/ slice' = 0 /\ source' = "unavailable"
  /\ \/ CloseMetadata(ending, TRUE) /\ UNCHANGED faultVars
     \/ CloseMetadata(ending, FALSE) /\ Mishap /\ UNCHANGED hurt
  /\ pc' = "closing_post"
  /\ UNCHANGED <<printerVars, history, after, session, ending, watchVars,
                 task, attempted, orphans, rows>>

\* It raises instead (a damaged archive), and nothing catches it before the
\* finally clause of run_forever, which finds no session.
ClosingFetchRaises ==
  /\ pc = "closing_fetch"
  /\ Mishap
  /\ hurt' = TRUE
  /\ ResetSlice
  /\ ending' = 0
  /\ pc' = "down"
  /\ UNCHANGED <<printerVars, history, after, session, watchVars, diskVars>>

Finalized(row, src) ==
  [row EXCEPT !.state = "settled", !.slice = slice, !.figures = report.figures,
              !.source = src]

\* Mutant: nothing is written about a print without an archive.
WritePrintRowWithSlice ==
  /\ UNCHANGED faultVars
  /\ rows' = IF slice # 0 /\ rows[ending].state = "running"
             THEN [rows EXCEPT ![ending] = Finalized(@, source)]
             ELSE rows

HasRow(s) == history /\ rows[s].state = "running"

\* _write_print_row: finalize, then the rest; each statement commits alone.
WritePrintRow ==
  \/ /\ ~HasRow(ending)
     /\ UNCHANGED <<rows, faultVars>>
  \/ /\ HasRow(ending)
     /\ rows' = [rows EXCEPT ![ending] = Finalized(@, source)]
     /\ UNCHANGED faultVars
  \/ /\ HasRow(ending)
     /\ rows' = [rows EXCEPT ![ending] = Finalized(@, "none")]
     /\ Mishap
     /\ UNCHANGED hurt
  \/ /\ HasRow(ending)
     /\ UNCHANGED rows
     /\ Mishap
     /\ hurt' = TRUE

\* The rest of _end_session, after the finish notice.
FinishClose ==
  /\ pc = "closing_post"
  /\ WritePrintRow
  /\ frames' = 0 /\ interval' = "normal"
  /\ ResetSlice
  /\ ending' = 0
  /\ pc' = after
  /\ UNCHANGED <<printerVars, history, after, session, sessions, told>>

--------------------------------------------------------------------------------
(* Watching a print.                                                          *)

Greet ==
  /\ pc = "greet"
  /\ pc' = "capture"
  /\ UNCHANGED <<printerVars, history, after, session, ending, watchVars,
                 sliceVars, diskVars, faultVars>>

\* Mutant: the buffer has no limit.
CaptureUnlimited ==
  /\ pc = "capture"
  /\ frames' = frames + 1
  /\ pc' = IF frames' < FrameHistory THEN "sleep" ELSE "analyze"
  /\ UNCHANGED <<printerVars, history, after, session, ending, interval,
                 sliceVars, diskVars, faultVars>>

Capture ==
  /\ pc = "capture"
  /\ \/ UNCHANGED frames /\ pc' = "sleep"                 \* capture_failed
     \/ /\ frames' = IF frames < FrameHistory THEN frames + 1 ELSE frames
        /\ pc' = IF frames' < FrameHistory THEN "sleep" ELSE "analyze"
  /\ UNCHANGED <<printerVars, history, after, session, ending, interval,
                 sliceVars, diskVars, faultVars>>

AlertsAbout(s) == {i \in DOMAIN told[s] : told[s][i] = "alert"}

\* The detector's decision, as far as the loop acts on it: it alerts only a
\* failure it has pending, and a candidate is pending exactly at the
\* suspicious interval (SuspicionAccounted in Detector).
Analyze ==
  /\ pc = "analyze"
  /\ \/ /\ interval' \in {"normal", "suspicious"}
        /\ pc' = "sleep"
        /\ UNCHANGED told
     \/ /\ interval = "suspicious"
        /\ Cardinality(AlertsAbout(session)) < MaxAlerts
        /\ interval' = "normal"
        /\ told' = [told EXCEPT ![session] = Append(@, "alert")]
        /\ pc' = "alert"
  /\ UNCHANGED <<printerVars, history, after, session, ending, frames,
                 sliceVars, sessions, rows, faultVars>>

Alerted ==
  /\ pc = "alert"
  /\ pc' = "sleep"
  /\ UNCHANGED <<printerVars, history, after, session, ending, watchVars,
                 sliceVars, diskVars, faultVars>>

Sleep ==
  /\ pc = "sleep"
  /\ pc' = "tick"
  /\ UNCHANGED <<printerVars, history, after, session, ending, watchVars,
                 sliceVars, diskVars, faultVars>>

--------------------------------------------------------------------------------
(* Signals, crashes and restarts.                                             *)

\* With a notice switched off, its place in the code is no await.
Suspended ==
  /\ pc \in Awaits
  /\ pc = "greet" => NotifyOnStart
  /\ pc = "closing_post" => NotifyOnFinish

\* SIGINT or SIGTERM cancels the task at its await; the finally clause of
\* run_forever then ends the session that is open, whatever the printer does.
CancelWatching ==
  /\ Suspended
  /\ ending = 0
  /\ Mishap
  /\ \/ \E written \in BOOLEAN : BeginClose("down", written)
     \/ NothingToClose("down")
  /\ UNCHANGED <<printerVars, history, hurt>>

\* Mutant: the session stays the monitor's until its close has ended, so the
\* finally clause ends it once more.
CancelClosingEndsAgain ==
  /\ Suspended
  /\ ending # 0
  /\ Mishap
  /\ CloseMetadata(ending, TRUE)
  /\ after' = "down" /\ pc' = "closing_post"
  /\ UNCHANGED <<printerVars, history, session, ending, watchVars, sliceVars,
                 rows, hurt>>

\* In the middle of _end_session self.session is already None: the close is
\* abandoned where it stands, and the archive is read on by its thread.
CancelClosing ==
  /\ Suspended
  /\ ending # 0
  /\ Mishap
  /\ hurt' = TRUE
  /\ ending' = 0
  /\ task' = NoTask
  /\ orphans' = orphans + (IF Reading THEN 1 ELSE 0)
                        + (IF pc = "closing_fetch" THEN 1 ELSE 0)
  /\ slice' = 0 /\ attempted' = 0 /\ source' = "unavailable"
  /\ pc' = "down"
  /\ UNCHANGED <<printerVars, history, after, session, watchVars, diskVars>>

\* A process that has just started knows nothing.
FreshMemory ==
  /\ report' = [state |-> Unreported, file |-> 0, figures |-> 0]
  /\ after' = "sleep" /\ session' = 0 /\ ending' = 0
  /\ frames' = 0 /\ interval' = "normal"
  /\ slice' = 0 /\ source' = "unavailable" /\ task' = NoTask /\ attempted' = 0
  /\ orphans' = 0

\* kill -9, or the power.
Kill ==
  /\ pc # "down" \/ orphans > 0
  /\ Mishap
  /\ hurt' = TRUE
  /\ FreshMemory
  /\ pc' = "down"
  /\ UNCHANGED <<prints, history, diskVars>>

\* Mutant: a start leaves the rows as it finds them.
RestartUnreconciled ==
  /\ pc = "down"
  /\ orphans = 0
  /\ FreshMemory
  /\ pc' = "tick"
  /\ hurt' = FALSE /\ history' = TRUE
  /\ UNCHANGED <<prints, diskVars, mishaps>>

\* reconcile_stale.
Reconciled ==
  [s \in DOMAIN rows |-> IF rows[s].state = "running"
                         THEN [rows[s] EXCEPT !.state = "unknown"] ELSE rows[s]]

\* restart: unless-stopped.  The interpreter joins the executor's threads
\* before it exits.  build_repository reconciles the rows left running, or
\* fails, and the service runs on without a database.
Restart ==
  /\ pc = "down"
  /\ orphans = 0
  /\ FreshMemory
  /\ pc' = "tick"
  /\ hurt' = FALSE
  /\ \/ history' = TRUE /\ rows' = Reconciled /\ UNCHANGED mishaps
     \/ history' = FALSE /\ UNCHANGED rows /\ Mishap
  /\ UNCHANGED <<prints, sessions, told>>

Loop ==
  \/ Tick \/ Collect \/ Dispatch
  \/ ClosingFetchReturns \/ ClosingFetchRaises \/ FinishClose
  \/ Greet \/ Capture \/ Analyze \/ Alerted \/ Sleep

Next ==
  \/ Report
  \/ TransferEnds \/ OrphanEnds
  \/ Loop
  \/ CancelWatching \/ CancelClosing
  \/ Kill \/ Restart

Spec == Init /\ [][Next]_vars

\* Every await of the loop ends: each client sets a timeout.  A thread's read
\* ends for the same reason, and Docker restarts the process, or whoever
\* stopped it does.  Nothing is assumed of the printer, of signals or of
\* crashes.
Fairness ==
  /\ WF_vars(Loop)
  /\ WF_vars(TransferEnds)
  /\ WF_vars(OrphanEnds)
  /\ WF_vars(Restart)

FairSpec == Spec /\ Fairness
================================================================================
