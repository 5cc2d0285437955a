# bambu-watch in TLA+

`bambu-watch` watches one Bambu P1S printer: it follows the printer's MQTT
reports, takes a camera frame every so often while a print runs, asks a vision
model whether the print is failing, tells Discord, and keeps a history of prints
in SQLite. It is advisory and read-only: it must not disturb the printer, whose
SD card it reads over FTPS for the weight of the sliced file.

This directory is a model of it, checked by TLC, with theorems checked by TLAPS.
All line numbers are those of the files under `src/`.

## 1. Inventory

| Component | State it keeps | Operations | Works with |
|---|---|---|---|
| `detection/confirmation.py` `FailureDetector` | candidate, check counter, cooldown table | `process`, `reset` | called by the monitor after each analysis |
| `detection/monitor.py` `PrintMonitor` | session, frame buffer, interval, slice info, fetch task | `run_forever`, `run_once` and their parts | everything below |
| `detection/history.py` `SnapshotBuffer` | the last frames | `add`, `latest`, `ready`, `clear` | monitor |
| `bambu/models.py`, `bambu/mqtt_client.py` | the shared `PrinterState`, the connection | `apply_report`, `handle_payload`, `request_pushall`, paho's callbacks | written by the MQTT thread, read by the monitor |
| `bambu/ftp_client.py` | the chunks of one transfer | `fetch_slice_info` on an executor thread | monitor |
| `bambu/slice_info.py` | none | `extract_slice_info`, `parse_slice_info_xml` | FTPS client |
| `bambu/ams.py` | none | `parse_ams` | `PrinterState` |
| `bambu/camera.py` | none | `capture` | monitor |
| `vision/*` | none | `analyze`, prompt rendering | monitor |
| `notifications/discord.py` | none | three posts | monitor |
| `storage/session.py` | session directory | `create`, `save_frame`, `record`, `close` | monitor |
| `storage/prints.py`, `storage/database.py` | SQLite | `insert_running`, `finalize`, `save_filaments`, `reconcile_stale`, `migrate` | monitor, `main.py` |
| `storage/records.py` | none | `determine_outcome`, `compute_consumption` | repository, monitor |
| `main.py` | the task | `build_repository`, wiring, signals | Docker restarts the process |

Where the difficulty is:

- *Concurrency.* One coroutine, but the state it reads is written by the MQTT
  thread between (and during) its awaits, and the archive is read by an executor
  thread that cancelling the asyncio task does not stop.
- *Cancellation.* SIGTERM cancels the coroutine at whichever await it is at,
  also in the middle of ending a session, and a second signal cancels the
  clean-up.
- *Crashes.* `kill -9` (also Docker's, ten seconds after SIGTERM) or a power cut
  between two writes; the restart has to make sense of what is left.
- *Loss.* Reports are incremental and unacknowledged: a state can be skipped, a
  name can come later than the state it belongs to, a connection can break with
  reports on the way, and a report can raise half-way through its fields.
- *Statements.* SQLite commits each statement by itself, so a close that fails or
  dies leaves what it had written; the picture in a row and the path next to it,
  and the notice and the row, are computed at different moments.
- *Counting.* Budgets, cooldowns and thresholds of the confirmation logic, at
  their boundaries and over long sequences of verdicts.

A map of the modules (a composition extends what it composes):

    Verdicts -> Detector -> DetectorHistory  implements  AlertPolicy
    Monitor -> MonitorRequirements           implements  PrintLedger
    Migration, Records, Frames,
      SliceInfo -> FtpClient  -> PrintHistory  implements  PrintLedger
    Ams -> PrinterLink

Proofs are kept apart: `DetectorProofs`, `DetectorHistoryProofs`, `MonitorProofs`,
`MigrationProofs`, `PrinterLinkProofs`, and for `PrintHistory` the three modules
`PrintHistoryProofs -> HistoryRowProofs` and `PrintHistoryProofs -> FetchProofs`.

What makes each component correct is stated with its module below;
`PROJECT.json` lists the hazards at their lines with the properties that guard
them.

## 2. Modules

### Verdicts, Detector: the confirmation logic

`Verdicts` is the vocabulary: what an analysis can say (inconclusive, healthy, or
a failure of some type with some confidence) and when it is strong enough to
open a suspicion. Confidences are levels of a small ordered scale, because the
code only compares them with its two thresholds; "uncertain" and "failure" are
one, because the code only asks whether the status is "healthy".

`Detector` has one action per branch of `process`, in the order of the code
(`NoSuspicion`, `BelowSuspicion`, `OpenSuspicion` for both a first candidate and
a replacement, `NotConfirmed`, `Confirmed` with or without the cooldown), a
`Reset`, and the clock. `pending`, `checks` and `cooldowns` are the three
attributes of the class; `decision` is the `Decision` returned last. `parity` flips
with each call of `process`, so that a call that changes nothing else is still a
step and fairness can speak of it.

| Property | What it says |
|---|---|
| `SuspicionAccounted` | counter and candidate come and go together, the budget is not overdrawn, and the fast interval is asked for exactly while a candidate is pending |
| `CooldownsOfThisSession` | the cooldown table never holds a key of another session nor a future instant, so that it does not grow from print to print |
| `SuspicionSettled` | every suspicion ends, unless candidates replace one another for ever |

### AlertPolicy, DetectorHistory: what the detector promises

`AlertPolicy` is the abstract specification. It knows no candidate and no
counter; it looks at the whole list of a session's verdicts and says when an
alert *may* be raised (an earlier strong verdict of the same type, nothing but
unresolved verdicts since, not too many of them, no alert within the cooldown)
and when it *must* be (that earlier verdict opened the suspicion).
`DetectorHistory` is `Detector` with two history variables, the verdicts and the
alerts, and implements the policy (`ImplementsPolicy`). `CandidateHasEvidence` and
`EvidenceIsPending` are the two halves of why: the counter points at the verdict
that opened the candidate, and every open suspicion in the list is the candidate.
`CooldownsTellAlerts` ties the cooldown table to the alerts raised.

### Monitor, MonitorRequirements, PrintLedger: the loop

`Monitor` is the service. `pc` is the await the coroutine is at and each action
is the code from one await to the next:

| Action | Code |
|---|---|
| `Tick...`, `Collect` | `_tick_slice_fetch` up to and after its 0.05 s wait |
| `Dispatch` | the rest of the synchronous part of `run_once`, with `OpenSession` (`_start_session`) and `BeginClose` (`_end_session`) |
| `Greet`, `Capture`, `Analyze`, `Alerted`, `Sleep` | the awaits of a watched print and the sleep between passes |
| `ClosingFetchReturns`, `ClosingFetchRaises`, `FinishClose` | `_end_session` after its fetch and after its notice, the row written by `_write_print_row` included |
| `Report...` | the MQTT thread |
| `TransferEnds`, `OrphanEnds` | executor threads, of a live or a cancelled task |
| `CancelWatching`, `CancelClosing` | a signal, and the `finally` clause of `run_forever` |
| `Kill`, `Restart` | loss of the process; the next start, with `reconcile_stale` or without a database (`history`) |

Prints are numbered. A file name, an archive and a set of progress figures are
represented by the number of the print they belong to, so that the model can tell
when something of one print ends up with another. The detector appears as its
decision: an alert only from the suspicious interval, which `SuspicionAccounted`
justifies.

Database and disk errors are mishaps that the model may choose at each write that
the code guards with a `try` (the insertion of a row, the end in `metadata.json`,
`finalize`, the statements after it, the reconciliation of a start) or does not (the
creation of the session directory, an exception out of `fetch_slice_info`). A
service that starts without a database, whose `history` is then FALSE, watches its
prints all the same and writes no rows. `told` is the sequence of the posts tried
for each session, so that a repeated one is seen. Camera, vision and Discord
failures cost nothing and are free choices (`Capture` fails or not; a failed post
changes nothing the model tracks).

`MonitorRequirements` states what is required:

| Property | What it says |
|---|---|
| `RunningRowsAreLive` | while the history is kept, a row says "running" only for the session the process has in hand, unless this process lost a close or a write; a stop by one signal outside `_end_session` leaves none |
| `OneSessionInHand` | never an open and an ending session together; `pc` and the session agree |
| `SettledRowsAreAnnounced` | for a settled row, the end is in `metadata.json` or writing it failed, the notice has been tried, and nothing was told since |
| `KeepsLedger` | the life of the rows implements `PrintLedger`: opened only when nothing is in hand, settled once, made unknown only by a start, never touched afterwards, nor by a service without a database |
| `PostsInOrder` | exactly one start notice, then alerts while the session is the open one, then at most one finish notice, and nothing more |
| `TransfersBeginOffPrint` | the loop sends a fetch to its thread in PREPARE or off print, or in a shutdown; when the thread reads is `NoReadWhileRunning` of section 5 |
| `TaskMeansNoSlice` | a task is never held while its result would be ignored |
| `RunningRowsSettle`, `FetchTasksEnd` | liveness of rows and of fetch tasks |

### Migration: opening the database

`Migration` is `connect` and `migrate`, one action per statement, because each
statement is durable by itself. `schema` is the set of what has been created,
`version` is `user_version`, and a start can be cut off, or meet a database error,
before any statement. A statement that cannot be repeated (`ALTER TABLE`) is
refused when its column is there.

| Property | What it says |
|---|---|
| `VersionTellsSchema` | the version recorded is never ahead of the schema |
| `ServesWholeSchema` | history is only kept on the whole schema |
| `OnlySecondStepTears` | a start fails by itself only on a database left halfway through the second script |

### PrintHistory, with Records, SliceInfo, FtpClient and Frames: the close of a print

`PrintHistory` composes five modules into the life of the database file. Its
process opens the database as `Migration` says, reconciles it, and then goes
through prints; `pc` is the statement or call that comes next, and every step is
one committed statement, so a crash (`GoesDown`) or an error (`WriteFails`) can
come between any two. A service whose database cannot be opened keeps no history
and is only stopped.

| Action | Code |
|---|---|
| `OpenDatabase`, `Reconcile`, `ReconcileFails` | `build_repository`: `connect`, `reconcile_stale`, and the exception it swallows |
| `InsertRunning` | `_start_session` and `insert_running`, which may fail and is only logged (a row "missing") |
| `Watch`, `Analyzed` | a captured frame, and `save_frame` after its analysis |
| `EndSession`, `Connect`, `Transfer`, `TryNextPath`, `ArchiveObtained`, `ArchiveRaises` | the fetch of `_end_session`: every directory with every candidate name, chunk by chunk |
| `Notify` | `_notify_finished` with the figures of that moment |
| `Finalize`, `SetSliceSource`, `DeleteFilaments`, `InsertFilament`, `FilamentsSaved`, `StorePicture` | the statements of `_write_print_row` in their order |
| `InsertRefused`, `WriteFails` | the exception that ends `_write_print_row`: a key, a number SQLite cannot store, or the database |

- `Records` is `determine_outcome` and `compute_consumption`. A consumption is the
  fraction of the plan, `part / whole`; grams and money are this fraction times a
  constant.
- `SliceInfo` is the parser: which slots the `<filament>` elements yield, when the
  file is given up and when an exception escapes. Ids are numbers in tenths, since
  the code truncates floats.
- `FtpClient` is `candidate_names` and `_retrieve`. A name is the sequence of its
  suffixes, each in small letters or in capitals, which the code takes for the same;
  `card` is what the SD card holds.
- `Frames` is the buffer, the frame files with their cap and failing writes, and the
  final picture, whose copy may fail to be made while its path is stored. Captures
  are numbered, so that the model knows whose frame is shown. `truth` remembers, per
  print, its captures and the slots of its archive.

| Property | What it says |
|---|---|
| `PictureMeansWhole` | a row with a picture has everything else: readers may take the picture as the mark of a whole row |
| `UndisturbedRowsAreWhole` | without crash or error each close is written to its end: no archive makes the keys collide |
| `OnlySettledRowsTell` | filaments belong to a settled row and to its archive; a row whose end was not recorded has no figures |
| `FiguresWithinPlan` | consumption stays within the plan and is exact only for a completed print |
| `NoticeMatchesRow` | notice and row agree on the outcome of a print that ended FINISH or FAILED, and on the consumption of one that ended FINISH, whatever reports come in between; of a stopped print they may tell two things |
| `PictureOfItsPrint` | the copy, unless it could not be made, is the last frame of this print, and its file shows this print too |
| `BufferIsTimeline` | the buffer is the latest stretch of the session's captures, oldest first, without gaps |
| `FetchesFirstUsable` | a fetch without errors brings the first usable file of the search, past empty and oversized ones |
| `WritesKeepLedger` | the rows implement `PrintLedger`, here with every statement a step of its own |
| `SettledRowsStay` | a settled row is final, but for the rest of its own close |

The model has the notice and the fetch switched on (`notify_on_finish`,
`enable_slice_fetch`), every print a name, and follows the fetch at
the close; what a fetch in PREPARE brings is the same, and when it is made is the
subject of `Monitor`.

### PrinterLink, with Ams: what the loop knows of the printer

`PrinterLink` has the printer, which moves from one moment to another and publishes
what changed; the broker, which serves subscription and pushall in their order;
the connection, which can break, losing whatever has not reached the client; and
the client. paho runs the callbacks one after the other, but the loop can look at
the `PrinterState` between any two assignments of `apply_report`, so each is a step:
`ApplyState`, `ApplyFigure` (for progress, layer, total and remaining time alike),
`ApplyTrays`, `ApplyName`. A report whose trays raise is cut there and its name is
lost. `Ignore` is a pushall that gets no answer; with QoS 0 nothing tells.

`Ams` is `parse_ams`: the number of a tray from the ids of unit and tray or their
places, the external spool at -1, and a colour that is no text.

| Property | What it says |
|---|---|
| `ViewIsAMoment` | between two reports the state and the figures are those of one moment of the printer |
| `NameFollows` | the name too, unless a report was cut before it and none has brought a name since, or the print has none |
| `UnitsAreLoaded` | no AMS slot is shown that is not loaded, as long as the units of the last report that was cut have been read since; with nothing loaded at all, the slots shown are of the last units that had something |
| `CurrentWhenQuiet` | when all has been read and the pushall was answered, the moment is the present one |
| `HearsPrinter` | a connection that stays up, and is answered, learns of a print already running |

`seen` is the moment of the last report read since a full one; before the first
full report of a connection nothing is promised. `missed` says which of the trays
and the name a report was cut before, without a later report that brought them.
`stocked` is the last block that brought the units and parsed to something: a block
that parses to nothing replaces nothing, so its slots are what may stay shown.

## 3. Runs and bounds

| Run | Instance | Shows |
|---|---|---|
| `detector` | 2 failure types, 3 confidence levels (below, between, above the thresholds), budget 3, cooldown 2, 2 sessions, times 0..2, with fairness | type, cooldown table, liveness |
| `detector_history` | the same, 5 verdicts per session | the invariants over the history, and the policy |
| `detector_fast_interval` | as `detector` | violated: see 5 |
| `detector_two_confirmations` | as `detector_history` | violated: see 5 |
| `monitor` | 2 prints, 1 mishap, buffer of 2, 2 alerts of a session, a first process with or without a database | safety across two prints |
| `monitor_mishaps` | 1 print, 2 mishaps, buffer of 1, 1 alert of a session, with fairness | two mishaps in a row, liveness |
| `migration_torn` | new, old and current database, 3 crashes or errors | violated: see 5 |
| `print_history` | new, old and current database with or without a row left running, 2 rows, 3 captures, buffer of 2, 1 saved frame, 2 directories, 5 cards, 3 readings of the figures, 2 crashes or errors | schema, rows, filaments, fetch, pictures, ledger |
| `printer_link` | 6 moments, 3 changes of the printer, 2 lost connections, 1 ignored pushall, with fairness of broker and network thread | the state the loop reads |
| `picture_original` | as `print_history`, no crash or error | violated: see 5 |
| `monitor_no_read`, `monitor_one_row` | no mishap | violated: see 5 |

Bounds. Two failure types are what replacement needs. A budget of 3 leaves one tick
between opening and abandoning; five verdicts hold an alert, a second suspicion and
its suppression or second alert, and the replacement of a candidate inside either; a
cooldown of 2 with times 0..2 has instants inside, at the end of and outside it.
`MaxResults` stops `DetectorHistory` when its list is full, so this run does not
check deadlock; `Detector` itself never stops. Two interruptions of `print_history`
cut off the second script and the start that repeats it, a close and the
reconciliation after it, or two statements of two closes. Two rows hold one that is
left and one that is in hand, and three captures overrun a buffer of two and reach a
second print. The cards hold one file that is usable beside one that is empty, one
that is too large, one spelled the other way, one in capitals and one in the second
directory, and archives with a repeated slot, an element without an id, an id that
is not finite (which raises as damaged data does), one too large to store, and a
file that is no archive. `MaxSlot` stands for the largest integer of SQLite. Three
changes of the printer are one before a connection, one during it and one after, and
two lost connections leave a report of each on its way; `printer_link` does not
check deadlock, since the printer's changes are bounded and the client may
disconnect. Two prints are what confusing one print with the next needs, and two
mishaps what a second signal during the clean-up of the first, or a crash after a
failed write, needs: the first are in `monitor`, the second in `monitor_mishaps`,
since the two together are too many states for a run kept here. Two alerts let an
alert follow an alert, and a finish notice two.

Every property of a passing run has a mutant: a definition of the model replaced
by the form a plausible bug would give it (marked `Mutant:` in the modules), under
which TLC finds the property violated.

## 4. Fairness

`Detector`: weak fairness of `process`, since the loop analyses frames for as long
as a print runs. `Monitor`: weak fairness of the loop (each await ends: the HTTP,
camera and FTPS clients set timeouts), of the executor threads (socket timeouts),
and of the restart (`restart: unless-stopped`, or whoever stopped the service starts
it again; after `docker stop` Docker does not). None of the printer, of signals or
of crashes. `PrinterLink`: weak fairness of the broker, which serves what it was
sent, and of the network thread, which paho's `loop_start` runs for as long as the
client lives. None of the printer's changes, of connecting, or of lost connections.

## 5. Where code and documents disagree

- `FastIntervalEnds`: the budget does not bound the fast interval when verdicts
  alternate between two types (`confirmation.py:121-122` says it does).
- `TwoConfirmations`: an alert needs one check at the confirmation threshold, not
  the two of README.md:424-425; the first only needs the suspicion threshold.
- `NoReadWhileRunning`: the card can be read during a print: a transfer that is
  overtaken by the print in the 0.05 s wait, a cancelled task whose thread reads
  on, a fetch begun by a shutdown in mid-print (README.md:254-257).
- `RowRecordsItsPrint`: a row can be settled with the figures of the next print.
- `StartsBringUpToDate`: a crash inside the second schema script leaves a database
  that no later start can open (`database.py:113`).
- `PathIsOriginal`: the path stored with the final picture is that of the last file
  saved, which is not the original of the copy once the cap is reached, a write
  fails, or the last capture was not analysed (`prints.py:150-151`,
  README.md:309-311).

Seen while modelling, without a run of their own:

- `_retrieve` says it aborts past the size cap (`ftp_client.py:139`); the callback
  drops the chunks but the whole file is still read.
- `parse_ams` "never raises" (`ams.py:48`), but a colour that is a number does, and
  takes the name of its report with it; `NameFollows` therefore excepts cut reports.
- `fetch_slice_info` "returns None on any failure" (`ftp_client.py:72`), but an
  archive is read outside its `try`: ids like "nan" and data that does not inflate
  end the service in the middle of a close (`ArchiveRaises`).
- A report of the external spool alone replaces the slots of the AMS units, although
  slots are said to be replaced only by an AMS block (`models.py:52-53`): slots can
  be missing, which `UnitsAreLoaded` allows.
- A block whose trays are all empty replaces nothing (`models.py:55-57`): when the
  last filament is taken out, its slot stays shown. `UnitsAreLoaded` bounds what may
  be shown then by `stocked`.
- If the external spool is what raises, the units read in the same report are lost
  with it (`ams.py:71`), and a later report of the spool alone says nothing of them:
  a slot that is gone stays shown until the units are reported again.
  `UnitsAreLoaded` leaves that time out by `missed`. This clause came out of the
  proof: without it the invariant has no strengthening, and TLC finds the
  counterexample once a moment of the printer has such a spool.
- `slice_info_source` is never "disabled": `build_monitor` passes no FTP client when
  fetching is switched off (`main.py:47`), and `_tick_slice_fetch` returns on that
  before it records the source (`monitor.py:209-213`, README.md:434).
- The notice and the row of a stopped print are computed from two readings of the
  progress, and a failing write of `metadata.json` is only logged, so a settled row
  may have a session that never ends there (`session.py:139-140`).
- The ages of the images in the prompt are computed from the interval now in force,
  whatever the earlier frames were apart (`prompts.py:52`).

## 6. Proofs

Every safety property the passing runs check is a theorem of the specification it
is checked of, with the constants left open: any thresholds and budget, any number
of failure types, sessions, verdicts, prints and mishaps, any moments of a printer,
any cards, archives and directories, any sizes of the frame buffer and of the
caps. The theorems assume what the modules assume of their constants: settings and
bounds are natural numbers (a frame buffer of at least one), `None`, `Absent` and the
like are no values of the type they stand beside, `Moments`, `Figures` and `Cards`
are records of their fields, and a name has at most the two suffixes a print is
reported with, each in small letters or capitals (`FtpAssumption`: what is left of it
is one stem).

| Module | Theorem | Property |
|---|---|---|
| `DetectorProofs` | `TypeCorrect`, `SuspicionIsAccounted`, `CooldownsStayInSession` | `TypeOK`, `SuspicionAccounted`, `CooldownsOfThisSession` |
| `DetectorHistoryProofs` | `CandidateIsEvidence`, `EvidenceIsNotForgotten`, `CooldownsAreTheAlerts` | `CandidateHasEvidence`, `EvidenceIsPending`, `CooldownsTellAlerts` |
| | `DetectorImplementsPolicy` | `ImplementsPolicy` |
| `MonitorProofs` | `TypeCorrect`, `SessionIsUnique`, `NoRowRunsOn`, `NoTransferBegunOnPrint` | `TypeOK`, `OneSessionInHand`, `RunningRowsAreLive`, `TransfersBeginOffPrint` |
| | `RowsKeepLedger` | `KeepsLedger` |
| | `SettledIsLast`, `DiscordIsToldInOrder`, `NoTaskIsForgotten` | `SettledRowsAreAnnounced`, `PostsInOrder`, `TaskMeansNoSlice` |
| `PrinterLinkProofs` | `LinkTypeCorrect`, `ViewConsistent`, `ViewCurrent` | `LinkTypeOK`, `ViewIsAMoment`, `CurrentWhenQuiet` |
| | `NameIsCurrent`, `NoPhantomSlots` | `NameFollows`, `UnitsAreLoaded` |
| | `SlotsApart` | (a lemma about `ParseAms`) |
| `MigrationProofs` | `VersionIsHonest`, `HistoryHasSchema`, `FirstStepNeverTears` | `VersionTellsSchema`, `ServesWholeSchema`, `OnlySecondStepTears`, of a start by itself |
| `PrintHistoryProofs` | `ServiceVersionIsHonest`, `ServiceHasSchema`, `ServiceTearsSecondStepOnly` | the same three, of the whole service |
| | `StoreTypeCorrect` | `StoreTypeOK` |
| `HistoryRowProofs` | `PicturesMeanWholeRows`, `UnsettledRowsTellNothing`, `NoRowOverclaims`, `UndisturbedClosesAreWhole` | `PictureMeansWhole`, `OnlySettledRowsTell`, `FiguresWithinPlan`, `UndisturbedRowsAreWhole` |
| | `NoticeTellsTheRow`, `SettledRowsAreFinal` | `NoticeMatchesRow`, `SettledRowsStay` |
| | `BufferIsThePrints`, `PicturesAreTheirPrints` | `BufferIsTimeline`, `PictureOfItsPrint` |
| | `WritesImplementLedger` | `WritesKeepLedger` |
| `FetchProofs` | `FirstUsableIsFetched` | `FetchesFirstUsable` |

*The detector implements the policy.* The inductive invariant `HistoryInv`, which
has the types of the two history variables in it, is what makes one candidate and
one counter stand for a list of verdicts. `CandidateHasEvidence` says where in the
list the counter points; a further verdict moves the counter and the length of the
list together (`OldSupports`), so it keeps pointing there. `EvidenceIsPending` is
the converse, and its step needs the first: a verdict that opens a suspicion follows
a dismissive one or none, and then nothing can be pending, because a pending
candidate means the last verdict was a failure (`PendingAfterFailure`).
`CooldownsTellAlerts` is not inductive alone: that a new alert is the latest, and
that a new session has none yet, needs `RaisedInThePast`. With these, `AlertAllowed`
and `AlertRaised` are the two halves of the refinement.

*The service keeps the ledger.* The many actions of `Monitor` do only six things
to the rows, the session in hand and the process; `RowCases` proves that every
step is one of them, from the types and from `OneSessionInHand` (which is
inductive once the places of the loop are typed). `NoRowRunsOn` and
`RowsKeepLedger` then follow from the six cases alone. `NoRowRunsOn` needs the
premise `~hurt`: a lost close leaves its row behind until the next start, and
`ProcessStarts` is the step that clears them; and it needs `history`, since a start
without a database clears nothing. To the ledger a service without a database is one
that is down (`Recording`), whose sessions have missing rows (`Unrecorded`).

*What Discord is told.* A step tells nothing, a start, an alert or a finish
(`TellCases`), each one post. That nothing follows a finish notice needs
`FinishedIsOver`: a session that was told to be over is not the open one, and if it
is the one being ended, the close has got past its notice; no step comes back to it
(`OverStays`). A settled row is announced because a close that is at its last await
has tried to write the metadata and to post the notice (`CloseIsAnnounced`), and
only such a close settles a row; that the notice is still the last post is
`FinishedIsOver` again. `TaskMeansNoSlice` needs nothing but the places of the loop.

*The schema is never behind its version.* The invariant adds to the property that
everything before the next statement has been created (`ScriptProgress`); that the
first script has no statement that refuses to be repeated is a lemma of its own
(`FirstScriptRepeats`). For the service, `SchemaCases` says that a step of
`PrintHistory` is a step of `Migration`, or leaves the schema alone and at most ends
the process.

*The rows.* `RowsInv` has three parts. `TypesInv` types the tables, the close, the
frames and the fetch. `RowsSound` says of every row, with its filaments and what
its archive really held, all that any reader may rely on (`Sound`); it is what the
properties follow from. It is not inductive, because a row is written by several
statements: `CurrentOK` says of the session in hand what has already been written
when each statement comes next (`Due`), and that the slots inserted and the slots
left make up those of the archive, with none of them twice (`SlotsDue`), which is
why no key can collide. Each statement has a lemma about its effect on the tables
(`FinalizeEffect`, `InsertEffect`, `ReconcileEffect`...), and `CurrentStep` and
`NobodysStep` put them together. `FiguresWithinPlan` is `ConsumptionSound`, a lemma
about `ComputeConsumption`. `UndisturbedRowsAreWhole` follows because a close that
is left without an error has come to its end (`CloseLeft`). `NoticeMatchesRow` holds
between the notice and the row by `NoticeDue`, and then because the outcome of a
print that ended does not look at the figures, and that of a finished print
uses the whole plan. The refinement of `PrintLedger` maps a row to "settled" once it
has an end; `LedgerStep` takes one statement after the other.

*The pictures.* `SessionFrames` says that the captures since the start of the
session in hand are its print's, that the buffer lies within them and that its
files show no others; whether the copy is made or fails, a row shows nothing else.
A session leaves its buffer empty whichever way it ends
(`SessionEnds`), so the next one cannot show its frames. `FramesInv` adds that the
buffer is the last captures, without a gap.

*The search.* `SearchDue` says that a search that met no error has left no usable
file behind on its path, and that a chunk is dropped only past the cap. From paths,
which run through the directories with two or three names each (`SpellingsOrdered`),
to the order in which files are to be found, lead the lemmas `PathsPaired`,
`UsableIsOnPath`, `PathIsUsable` and `EarlierIsSearchedBefore`.

*The view is a moment.* While a report is being applied the view is a mixture, and
which moment it will be depends on every report that is still on its way.
`MomentInv` therefore speaks of the whole way from the printer to the client: each
report tells what changed since the one before it (`Chain`), the first since the
moment last seen (`FirstFollows`), the last tells the present (`Latest`), and the
fields assigned so far are those of the report in hand, the others those of the
moment before (`Assigned`). A broken connection cuts the way at the far end only,
and without a subscription nothing is on it (`Links`). `ViewConsistent`
is its value between reports. `ViewCurrent` adds `Asked`: as long as a pushall is on
its way, or a full report, or the view has had one.

*The name and the slots.* The name is assigned last, so `NameKnown` is `NameFollows`
at every moment. The slots are assigned before it: `SlotsKnown` says that they fit
the moment seen or, between the two assignments, the moment of the report in hand. A
report of the external spool alone takes the units for empty, which fits any moment
with a readable block (`SpoolParse`); that the moment's block is readable is what
`missed` is needed for. A block that parses to nothing leaves the slots of an
earlier one: `StockKnown` says that they are within those of `stocked`, and
`StockStep` that a report which brings the units moves both together.

*Slots.* `SlotsApart` says that trays 0 to 3 of numbered units get numbers of their
own and never that of the external spool.

Only model-checked: liveness (`SuspicionSettled`, `RunningRowsSettle`,
`FetchTasksEnd`, `HearsPrinter`), which TLAPS does not reach, and that the six
documented properties of section 5 are violated.

## 7. Not modelled, and the plan

Left out, and why:

- The camera (`bambu/camera.py`): the framing of one TCP stream inside one timeout;
  to the loop a capture succeeds or fails.
- The vision call and its prompts (`vision/*`): one request whose failure or refusal
  is an inconclusive result, which the detector models take as an input.
- Discord's texts and HTTP (`notifications/discord.py`): a post is tried once and
  its result only logged. When it is tried, and with which outcome and figures, is
  in `Monitor` and `PrintHistory`.
- Reading the environment (`config.py`) and the two scripts, which are run by hand.
- `detections.jsonl`, and the counts of checks, alerts and tokens, durations and
  costs: written and shown, never read back.
- A payload that is no report is dropped before it touches any state.
- In `Monitor`: two prints of the same file are two prints, while the code
  recognises a file by its name only to avoid fetching twice in one PREPARE.

What can still be proved, in this order:

1. The steps of the liveness properties that are safety: that a tick of an open
   suspicion moves its counter towards the budget (`SuspicionSettled`), that a
   close only moves forwards through its statements (`RunningRowsSettle`).
2. Lemmas about `CandidateNames` and `ParseSliceInfo` that a reader may want by
   themselves: no spelling twice, and slots of an accepted archive that are apart
   (now inside `Spellings` and `ParseTyped`).
