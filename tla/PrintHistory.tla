------------------------------ MODULE PrintHistory ------------------------------
(***************************************************************************)
(* The print history as it is written: PrintRepository of                  *)
(* app/storage/prints.py, driven by _start_session and _end_session of     *)
(* app/detection/monitor.py, on the database that Migration opens.         *)
(*                                                                         *)
(* Every statement commits alone, so the process can die, and a statement  *)
(* can fail, between any two.  Only a service that keeps history (at =     *)
(* "serving") is followed; a print is the index of its row.  Progress and  *)
(* layers are read from the live PrinterState when they are needed: each   *)
(* reading is a choice, because any report may have come before it.  The   *)
(* slice info is fetched at the close; what a fetch in PREPARE brings is   *)
(* the same, and when it may be made is Monitor's subject.                 *)
(***************************************************************************)
EXTENDS Migration, Records, FtpClient, Frames

CONSTANTS
  Figures,       \* readings of progress, layer and total_layers
  FinalStates,   \* the states a session is ended with
  MaxSlot,       \* the largest integer SQLite stores
  MaxRows        \* bound: rows of the prints table

ASSUME HistoryAssumption ==
  /\ Figures \subseteq [progress : Number, layer : Number, total_layers : Number]
  /\ {MaxSlot, MaxRows} \subseteq Nat

VARIABLES
  \* in the database file
  rows,        \* the table prints
  filaments,   \* the slots of print_filaments, for each print
  \* the process
  pc,          \* the statement or the call that comes next
  closing,     \* the locals of _end_session: final state and slice info
  notice,      \* the outcome and consumption Discord was told at this close
  left,        \* slots of save_filaments still to be inserted
  \* bookkeeping of the model: what each print really had
  truth        \* its captures, and the slots of its slice info once closing

historyVars == <<rows, filaments, pc, closing, notice, left, truth>>
storeVars == <<vars, frameVars, ftpVars, historyVars>>

NewRow(outcome) ==
  [outcome |-> outcome, ended |-> FALSE, consumed |-> NoFigure,
   source |-> "none", picture |-> NoPicture]

NoClose == [state |-> "none", info |-> [kind |-> "none"]]
NoNotice == [outcome |-> "none", consumed |-> NoFigure]

Watching == {"watch", "analyze"}
Fetching == {"connect", "retrieve", "notify"}
Closing == {"finalize", "source", "delete", "insert", "picture"}
Current == Len(rows)
Info == closing.info
Row == rows[Current]

\* A database of an earlier process may hold a row it left running.
StoreInit ==
  /\ Init
  /\ FramesInit
  /\ FtpInit
  /\ \/ rows = <<>> /\ filaments = <<>> /\ truth = <<>>
     \/ /\ version > 0
        /\ rows = <<NewRow("running")>> /\ filaments = <<{}>>
        /\ truth = <<[from |-> 0, to |-> 0, slots |-> {}]>>
  /\ pc = "opening" /\ closing = NoClose /\ notice = NoNotice /\ left = <<>>

--------------------------------------------------------------------------------
(* Opening the database and reconciling it: build_repository.                 *)

\* connect, and what Migration says of it.
OpenDatabase ==
  /\ pc = "opening"
  /\ Start \/ Execute \/ Refuse \/ RaiseVersion \/ DatabaseError \/ Crash
  /\ pc' = IF at' = "serving" THEN "reconcile" ELSE "opening"
  /\ UNCHANGED <<rows, filaments, closing, notice, left, truth, frameVars, ftpVars>>

\* Mutant: a start gives up every row that has no picture.
ReconcileAnyUnfinished ==
  /\ pc = "reconcile"
  /\ rows' = [s \in DOMAIN rows |->
                IF rows[s].picture = NoPicture /\ rows[s].outcome # "missing"
                THEN [rows[s] EXCEPT !.outcome = "unknown"] ELSE rows[s]]
  /\ pc' = "idle"
  /\ UNCHANGED <<vars, frameVars, ftpVars, filaments, closing, notice, left, truth>>

\* Mutant: a start leaves the rows as it finds them.
ReconcileNothing ==
  /\ pc = "reconcile"
  /\ pc' = "idle"
  /\ UNCHANGED <<vars, frameVars, ftpVars, rows, filaments, closing, notice, left, truth>>

\* reconcile_stale.
Reconcile ==
  /\ pc = "reconcile"
  /\ rows' = [s \in DOMAIN rows |->
                IF rows[s].outcome = "running"
                THEN [rows[s] EXCEPT !.outcome = "unknown"] ELSE rows[s]]
  /\ pc' = "idle"
  /\ UNCHANGED <<vars, frameVars, ftpVars, filaments, closing, notice, left, truth>>

\* build_repository swallows its error too: no history in this process.
ReconcileFails ==
  /\ pc = "reconcile"
  /\ Interruption
  /\ at' = "error" /\ pc' = "opening"
  /\ UNCHANGED <<schema, version, next, frameVars, ftpVars, rows, filaments, closing,
                 notice, left, truth>>

\* A service without history is stopped and started again.
StopWithoutHistory ==
  /\ at \in {"refused", "error"}
  /\ Stop
  /\ UNCHANGED <<historyVars, frameVars, ftpVars>>

--------------------------------------------------------------------------------
(* A print: its row, its frames, and its end.                                 *)

\* _start_session and insert_running, whose failure is only logged.
InsertRunning ==
  /\ pc = "idle"
  /\ Current < MaxRows
  /\ \/ rows' = Append(rows, NewRow("running")) /\ UNCHANGED interruptions
     \/ rows' = Append(rows, NewRow("missing")) /\ Interruption
  /\ filaments' = Append(filaments, {})
  /\ truth' = Append(truth, [from |-> captures, to |-> captures, slots |-> {}])
  /\ NewFrames
  /\ pc' = "watch"
  /\ UNCHANGED <<schema, version, at, next, ftpVars, closing, notice, left>>

\* A frame is taken; a full buffer goes to the analyzer.
Watch ==
  /\ pc = "watch"
  /\ CaptureFrame
  /\ truth' = [truth EXCEPT ![Current].to = captures']
  /\ pc' = IF Len(buffer') >= FrameHistory THEN "analyze" ELSE "watch"
  /\ UNCHANGED <<vars, ftpVars, rows, filaments, closing, notice, left>>

Analyzed ==
  /\ pc = "analyze"
  /\ SaveFrame
  /\ pc' = "watch"
  /\ UNCHANGED <<vars, ftpVars, rows, filaments, closing, notice, left, truth>>

Consumed(info, figures, outcome) ==
  ComputeConsumption(info.kind = "info" /\ info.weighed,
                     figures.layer, figures.total_layers, outcome)

\* _end_session without slice info: fetch_slice_info begins.
EndSession ==
  /\ pc \in Watching
  /\ pc' = "connect"
  /\ BeginFetch
  /\ UNCHANGED <<vars, frameVars, rows, filaments, closing, notice, left, truth>>

\* _fetch_archive: what it finds is handed to extract_slice_info.
Fetched(info) ==
  /\ info.kind # "raises"
  /\ closing' = [closing EXCEPT !.info = info]
  /\ truth' = [truth EXCEPT ![Current].slots =
                 IF info.kind = "info" THEN {info.slots[i] : i \in DOMAIN info.slots}
                 ELSE {}]
  /\ pc' = "notify"

\* The next path is tried, or there is none.
SearchOn ==
  IF NextPath = 0
  THEN Fetched([kind |-> "none"]) /\ UNCHANGED <<path, read, kept>>
  ELSE BeginTransfer(NextPath) /\ pc' = "retrieve" /\ UNCHANGED <<closing, truth>>

Connect ==
  /\ pc = "connect"
  /\ \/ SearchOn /\ UNCHANGED troubled
     \/ /\ Fetched([kind |-> "none"])                     \* FTPS connect failed
        /\ troubled' = TRUE
        /\ UNCHANGED <<path, read, kept>>
  /\ UNCHANGED <<vars, frameVars, file_name, card, rows, filaments, notice, left>>

Transfer ==
  /\ pc = "retrieve"
  /\ Collect
  /\ UNCHANGED <<vars, frameVars, historyVars>>

ArchiveObtained ==
  /\ pc = "retrieve" /\ Obtained
  /\ Fetched(Parse(card[Paths[path]].archive))
  /\ UNCHANGED <<vars, frameVars, ftpVars, rows, filaments, notice, left>>

\* The path has nothing to offer, or its transfer fails or times out.
TryNextPath ==
  /\ pc = "retrieve"
  /\ \/ NothingHere /\ UNCHANGED troubled
     \/ ~Obtained /\ troubled' = TRUE
  /\ SearchOn
  /\ UNCHANGED <<vars, frameVars, file_name, card, rows, filaments, notice, left>>

\* The finish notice, with the figures of the moment.
Notify ==
  /\ pc = "notify"
  /\ \E state \in FinalStates, figures \in Figures :
       LET outcome == DetermineOutcome(state, figures.progress) IN
       /\ closing' = [closing EXCEPT !.state = state]
       /\ notice' = [outcome |-> outcome,
                     consumed |-> Consumed(Info, figures, outcome)]
  /\ pc' = "finalize"
  /\ EndFetch
  /\ UNCHANGED <<vars, frameVars, rows, filaments, left, truth>>

EndClose ==
  /\ pc' = "idle"
  /\ closing' = NoClose /\ notice' = NoNotice /\ left' = <<>>
  /\ ClearBuffer
  /\ UNCHANGED <<captures, saved, files, truth, ftpVars>>

\* An UPDATE of a row that was never inserted changes nothing.
Update(row) == IF Row.outcome = "missing" THEN rows ELSE [rows EXCEPT ![Current] = row]

\* finalize.
Finalize ==
  /\ pc = "finalize"
  /\ \E figures \in Figures :
       LET outcome == DetermineOutcome(closing.state, figures.progress) IN
       rows' = Update([Row EXCEPT !.outcome = outcome, !.ended = TRUE,
                         !.consumed = Consumed(Info, figures, outcome)])
  /\ pc' = "source"
  /\ UNCHANGED <<vars, frameVars, ftpVars, filaments, closing, notice, left, truth>>

\* set_slice_source.
SetSliceSource ==
  /\ pc = "source"
  /\ rows' = Update([Row EXCEPT !.source =
                       IF Info.kind = "info" THEN "ftps" ELSE "unavailable"])
  /\ pc' = IF Info.kind = "info" THEN "delete" ELSE "picture"
  /\ UNCHANGED <<vars, frameVars, ftpVars, filaments, closing, notice, left, truth>>

\* save_filaments: one DELETE, then one INSERT for each slot.
DeleteFilaments ==
  /\ pc = "delete"
  /\ filaments' = [filaments EXCEPT ![Current] = {}]
  /\ left' = Info.slots
  /\ pc' = "insert"
  /\ UNCHANGED <<vars, frameVars, ftpVars, rows, closing, notice, truth>>

Storable(slot) == slot \in (-MaxSlot - 1)..MaxSlot

\* Mutant: foreign keys are not switched on.
RefusesOnlySlot(slot) == slot \in filaments[Current] \/ ~Storable(slot)

\* The foreign key wants a row, the primary key a slot that is not taken, and
\* a number that does not fit cannot be bound at all.
Refuses(slot) ==
  \/ Row.outcome = "missing"
  \/ slot \in filaments[Current]
  \/ ~Storable(slot)

InsertFilament ==
  /\ pc = "insert"
  /\ left # <<>> /\ ~Refuses(Head(left))
  /\ filaments' = [filaments EXCEPT ![Current] = @ \cup {Head(left)}]
  /\ left' = Tail(left)
  /\ UNCHANGED <<vars, frameVars, ftpVars, rows, pc, closing, notice, truth>>

\* IntegrityError or OverflowError ends _write_print_row; the rest is not written.
InsertRefused ==
  /\ pc = "insert"
  /\ left # <<>> /\ Refuses(Head(left))
  /\ EndClose
  /\ UNCHANGED <<vars, rows, filaments>>

FilamentsSaved ==
  /\ pc = "insert"
  /\ left = <<>>
  /\ pc' = "picture"
  /\ UNCHANGED <<vars, frameVars, ftpVars, rows, filaments, closing, notice, left, truth>>

\* _store_final_frame, and the end of _end_session.
StorePicture ==
  /\ pc = "picture"
  /\ \E picture \in FinalPictures :
       rows' = IF HasPicture THEN Update([Row EXCEPT !.picture = picture]) ELSE rows
  /\ EndClose
  /\ UNCHANGED <<vars, filaments>>

\* Mutant: each part of the write guards itself, so the next one goes on.
WriteFailsAlone ==
  /\ pc \in Closing
  /\ Interruption
  /\ IF pc = "picture" THEN EndClose
     ELSE /\ pc' = "picture"
          /\ UNCHANGED <<closing, notice, left, truth, frameVars, ftpVars>>
  /\ UNCHANGED <<schema, version, at, next, rows, filaments>>

\* A statement fails: logged, and the rest of the close is not written.
WriteFails ==
  /\ pc \in Closing
  /\ Interruption
  /\ EndClose
  /\ UNCHANGED <<schema, version, at, next, rows, filaments>>

Down ==
  /\ at' = "down" /\ pc' = "opening"
  /\ closing' = NoClose /\ notice' = NoNotice /\ left' = <<>>
  /\ buffer' = <<>>
  /\ EndFetch
  /\ UNCHANGED <<schema, version, next, captures, saved, files, rows, filaments,
                 truth>>

\* extract_slice_info raises out of _end_session, and the service ends.
ArchiveRaises ==
  /\ pc = "retrieve" /\ Obtained
  /\ Parse(card[Paths[path]].archive).kind = "raises"
  /\ Down
  /\ UNCHANGED interruptions

\* The service is stopped between prints, or lost anywhere.
GoesDown ==
  /\ at = "serving"
  /\ \/ pc = "idle" /\ UNCHANGED interruptions
     \/ Interruption
  /\ Down

StoreNext ==
  \/ OpenDatabase \/ Reconcile \/ ReconcileFails \/ StopWithoutHistory
  \/ InsertRunning \/ Watch \/ Analyzed \/ EndSession
  \/ Connect \/ Transfer \/ ArchiveObtained \/ TryNextPath \/ ArchiveRaises \/ Notify
  \/ Finalize \/ SetSliceSource
  \/ DeleteFilaments \/ InsertFilament \/ InsertRefused \/ FilamentsSaved
  \/ StorePicture \/ WriteFails \/ GoesDown

StoreSpec == StoreInit /\ [][StoreNext]_storeVars

--------------------------------------------------------------------------------
Consumptions == [method : Methods, part : Int, whole : Int]
Pictures == [frame : Nat, file : Nat]
Infos == {[kind |-> "none"], [kind |-> "raises"]}
           \cup [kind : {"info"}, slots : Seq(Int), weighed : BOOLEAN]

Rows == [outcome : Outcomes \cup {"missing"}, ended : BOOLEAN, consumed : Consumptions,
         source : {"none", "ftps", "unavailable"}, picture : Pictures]
Truths == [from : Nat, to : Nat, slots : SUBSET Int]

StoreTypeOK ==
  /\ TypeOK
  /\ rows \in Seq(Rows)
  /\ filaments \in Seq(SUBSET Int) /\ Len(filaments) = Len(rows)
  /\ truth \in Seq(Truths) /\ Len(truth) = Len(rows)
  /\ pc \in {"opening", "reconcile", "idle"} \cup Watching \cup Fetching \cup Closing
  /\ at = "serving" <=> pc # "opening"
  /\ closing \in [state : FinalStates \cup {"none"}, info : Infos]
  /\ notice \in [outcome : Outcomes \cup {"none"}, consumed : Consumptions]
  /\ left \in Seq(Int)
  /\ captures \in 0..MaxCaptures /\ saved \in 0..MaxSessionFrames
  /\ buffer \in Seq(1..MaxCaptures) /\ Len(buffer) <= FrameHistory
  /\ files \in Seq(0..MaxCaptures) /\ Len(files) <= saved
  /\ path \in 0..Len(Paths) /\ {read, kept} \subseteq Nat /\ troubled \in BOOLEAN

\* What the rows promise their readers: opened while nothing is in hand,
\* settled once, made unknown by a start only, never rewritten.
LedgerState(s) ==
  IF rows[s].ended THEN "settled" ELSE rows[s].outcome

Ledger == INSTANCE PrintLedger
          WITH ledger <- [s \in DOMAIN rows |-> LedgerState(s)],
               live <- IF pc \in Watching \cup Fetching \cup {"finalize"}
                       THEN Current ELSE 0,
               up <- pc \notin {"opening", "reconcile"}

WritesKeepLedger == [][Ledger!LedgerNext]_Ledger!lvars

\* A settled row is final: only the rest of its own close adds to it, and no
\* start, whatever it finds, rewrites it.
SettledRowsStay ==
  [][\A s \in DOMAIN rows :
       rows[s].ended /\ (s = Current => pc \notin Closing) =>
         rows'[s] = rows[s] /\ filaments'[s] = filaments[s]]_historyVars

\* A row with a picture is whole: the picture is the last thing a close
\* writes, and a statement that fails takes the later ones with it.
PictureMeansWhole ==
  \A s \in DOMAIN rows :
    rows[s].picture # NoPicture =>
      /\ rows[s].ended /\ rows[s].source # "none"
      /\ filaments[s] = truth[s].slots

\* Without a crash or an error every close is written to its end: no archive,
\* however its ids are written, makes the keys of print_filaments collide.
\* Only an id too large for SQLite cuts a write short.
UndisturbedRowsAreWhole ==
  interruptions = 0 =>
    \A s \in DOMAIN rows :
      rows[s].ended /\ (s = Current => pc \notin Closing)
      /\ (\A slot \in truth[s].slots : Storable(slot)) =>
        rows[s].source # "none" /\ filaments[s] = truth[s].slots

\* Filaments are only kept for a settled row that says where they come from,
\* and are those of its archive; a row whose end was not recorded, or that was
\* never inserted, tells nothing that a start or another close invented.
OnlySettledRowsTell ==
  \A s \in DOMAIN rows :
    /\ filaments[s] # {} =>
         /\ rows[s].ended /\ rows[s].source = "ftps"
         /\ filaments[s] \subseteq truth[s].slots
    /\ ~rows[s].ended =>
         /\ rows[s].consumed = NoFigure /\ rows[s].source = "none"
         /\ rows[s].picture = NoPicture

\* No row claims more filament than the plan, and only a completed print is
\* recorded as having used it exactly.
FiguresWithinPlan ==
  \A s \in DOMAIN rows :
    /\ WithinPlan(rows[s].consumed)
    /\ rows[s].consumed.method = "complete" => rows[s].outcome \in {"completed"}
    /\ rows[s].consumed.method = "layer_fraction" => rows[s].outcome # "completed"

\* A fetch that met no error brings the slice info of the first usable file
\* of the search, past the empty and the oversized ones, and none only when
\* the card has none.
FetchesFirstUsable ==
  pc = "notify" /\ ~troubled =>
    IF UsableFiles = {} THEN Info.kind = "none"
    ELSE \E f \in UsableFiles :
           /\ Info = Parse(card[f].archive)
           /\ \A g \in UsableFiles \ {f} : SearchedBefore(f, g)

\* Discord and the history tell the same end of a print that finished or
\* failed, whatever the printer reports between the two.
NoticeMatchesRow ==
  pc \in Closing \ {"finalize"} /\ Row.outcome # "missing" =>
    /\ closing.state # "IDLE" => notice.outcome = Row.outcome
    /\ closing.state = "FINISH" => notice.consumed = Row.consumed

\* What a row shows is of its own print: the copy, unless it could not be
\* made, is the last frame taken, and the file is one of its frames or torn.
\* Nothing of an earlier print, or of a lost process, is left in the buffer
\* or the directory.
PictureOfItsPrint ==
  \A s \in DOMAIN rows :
    rows[s].picture # NoPicture =>
      /\ truth[s].from < truth[s].to
      /\ rows[s].picture.frame \in {0, truth[s].to}
      /\ rows[s].picture.file \in {0} \cup (truth[s].from + 1)..truth[s].to

\* What prints.py says of the two: the path points at the full-resolution
\* original of the copy.
PathIsOriginal ==
  \A s \in DOMAIN rows :
    LET picture == rows[s].picture IN
    picture.frame # 0 /\ picture.file # 0 => picture.frame = picture.file

\* The buffer is the latest stretch of the session's captures, none missing
\* and oldest first, as the prompt tells the model.
BufferIsTimeline ==
  /\ \A i \in DOMAIN buffer : buffer[i] = captures - Len(buffer) + i
  /\ buffer # <<>> => truth[Current].from < buffer[1]
================================================================================
