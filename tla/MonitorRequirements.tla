-------------------------- MODULE MonitorRequirements ---------------------------
(***************************************************************************)
(* What is required of Monitor.                                            *)
(***************************************************************************)
EXTENDS Monitor

Up == pc # "down"

\* The session the process answers for: the open one, or the one being ended.
InHand == IF ~Up THEN 0 ELSE IF session # 0 THEN session ELSE ending

\* The service keeps its history.
Recording == Up /\ history

Running(s) == s \in DOMAIN rows /\ rows[s].state = "running"

SessionRecords == [print : Nat, file : Nat, metadata : Metadata]
Rows == [state : {"running", "missing", "settled", "unknown"},
         slice : Nat, figures : Nat,
         source : {"none", "unavailable", "disabled", "ftps"}]
Posts == {"started", "alert", "finished"}
Tellings == Seq(Posts)

\* Every variable keeps the range of values its Python counterpart has.
TypeOK ==
  /\ report \in [state : GcodeStates \cup {Unreported}, file : Nat, figures : Nat]
  /\ prints \in Nat
  /\ pc \in Places /\ after \in {"sleep", "down"}
  /\ session \in 0..Len(sessions) /\ ending \in 0..Len(sessions)
  /\ frames \in 0..FrameHistory /\ interval \in {"normal", "suspicious"}
  /\ slice \in Nat /\ source \in {"unavailable", "disabled", "ftps"}
  /\ task \in [status : {"none", "reading", "found", "nothing"}, file : Nat]
  /\ attempted \in Nat /\ orphans \in Nat /\ history \in BOOLEAN
  /\ sessions \in Seq(SessionRecords)
  /\ rows \in Seq(Rows)
  /\ told \in Seq(Tellings)
  /\ Len(rows) = Len(sessions) /\ Len(told) = Len(sessions)
  /\ mishaps \in Nat /\ hurt \in BOOLEAN

--------------------------------------------------------------------------------
(* The history table against the monitor's memory.                            *)

\* While the history is kept, a row says running only for the session the
\* monitor has in hand, unless this process lost a close or a write: a reader
\* never sees a finished print as a live one, and a stop by one signal outside
\* _end_session leaves no row running behind.
RunningRowsAreLive ==
  history /\ ~hurt => \A s \in DOMAIN rows : Running(s) => s = InHand

\* The monitor never has two sessions in hand, and it is inside _end_session
\* exactly while it ends one.
OneSessionInHand ==
  /\ session # 0 => ending = 0
  /\ Up => (pc \in {"closing_fetch", "closing_post"} <=> ending # 0)
  /\ pc \in {"greet", "capture", "analyze", "alert"} => session # 0

Finished(s) == \E i \in DOMAIN told[s] : told[s][i] = "finished"

\* A settled row is the last thing a close writes: by then the end has been
\* written to metadata.json, or its writing has failed, and the finish notice
\* has been tried and nothing told since.
SettledRowsAreAnnounced ==
  \A s \in DOMAIN rows :
    rows[s].state = "settled" =>
      /\ sessions[s].metadata # "open"
      /\ NotifyOnFinish => told[s] # <<>> /\ told[s][Len(told[s])] = "finished"

\* The life of the rows as the README tells it, crashes and restarts included,
\* and starts without a database too.
Ledger == INSTANCE PrintLedger
          WITH ledger <- [s \in DOMAIN rows |-> rows[s].state],
               live <- IF Recording THEN InHand ELSE 0, up <- Recording

KeepsLedger == Ledger!LedgerSpec

\* Every row that says running is settled or made unknown in the end, the
\* process dead or alive: unless it runs while the printer is still at it, or
\* without a database, or after the write that settles the row has failed;
\* such a row waits for the next start.
RunningRowsSettle ==
  \A s \in 1..(MaxPrints + MaxMishaps) :
    Running(s) ~> \/ ~Running(s)
                  \/ Up /\ (report.state \notin Terminal \/ hurt \/ ~history)

--------------------------------------------------------------------------------
(* What Discord is told.                                                      *)

\* What a step may tell of a session: of a new one its start notice, if there
\* is to be one; an alert of the open one; the finish notice of one that is
\* open no longer; and nothing after that.
MayTell(s) ==
  \/ s \notin DOMAIN told /\ told'[s] = IF NotifyOnStart THEN <<"started">> ELSE <<>>
  \/ s \in DOMAIN told /\ told'[s] = told[s]
  \/ /\ s \in DOMAIN told /\ ~Finished(s)
     /\ \/ s = session /\ session' = s /\ told'[s] = Append(told[s], "alert")
        \/ s # session' /\ told'[s] = Append(told[s], "finished")

\* The posts about a session are exactly one start notice, then alerts while
\* it is the open one, then at most one finish notice, and nothing more.
PostsInOrder ==
  [][DOMAIN told \subseteq DOMAIN told' /\ \A s \in DOMAIN told' : MayTell(s)]_vars

--------------------------------------------------------------------------------
(* The printer's SD card.                                                     *)

\* An FTPS transfer is under way, on whichever thread.
CardBeingRead == Reading \/ pc = "closing_fetch" \/ orphans > 0

\* While the loop runs on, it sends a fetch to its thread only in PREPARE or
\* off print; when the thread then reads is NoReadWhileRunning below.
TransfersBeginOffPrint ==
  [][/\ ~Reading /\ task'.status = "reading" => report.state = "PREPARE"
     /\ pc # "closing_fetch" /\ pc' = "closing_fetch" =>
          report.state # "RUNNING" \/ after' = "down"]_vars

\* Outside _end_session a fetch task is only held while nothing has been
\* obtained: otherwise _tick_slice_fetch would return before it ever
\* collected or cancelled it.
TaskMeansNoSlice == task # NoTask /\ ending = 0 => slice = 0

\* A fetch task does not outlive the PREPARE window for ever.
FetchTasksEnd == []<>(task = NoTask \/ report.state = "PREPARE")

--------------------------------------------------------------------------------
(* What the documents say of the program.                                     *)

\* "No read is ever attempted while the printer reports RUNNING. [...] A
\* transfer still in flight when the printer leaves PREPARE is cancelled"
\* (README.md:254-257): at the latest once the loop has seen RUNNING itself,
\* and is past the call that cancels.
NoReadWhileRunning ==
  report.state = "RUNNING" /\ pc \in {"greet", "capture", "analyze", "alert"} =>
    ~CardBeingRead

\* "One row per print" (README.md:291): the figures a row is settled with are
\* those of the print it was opened for.
RowRecordsItsPrint ==
  \A s \in DOMAIN rows :
    rows[s].state = "settled" => rows[s].figures = sessions[s].print
================================================================================
