--------------------------- MODULE PrintHistoryProofs ---------------------------
(***************************************************************************)
(* Theorems about PrintHistory: the types, the schema under the service    *)
(* that uses it, and what the rows of the history are worth.               *)
(***************************************************************************)
EXTENDS PrintHistory, MigrationProofs, SequenceTheorems

-------------------------------------------------------------------------------
(* The schema.  The service that writes the history stops and starts as    *)
(* Migration allows, so its invariant carries over.                        *)

\* A step of the service is a step of the migration, or leaves the schema and
\* may at most end the process or count an interruption.
LEMMA SchemaCases ==
  ASSUME StoreNext
  PROVE  \/ Next
         \/ /\ UNCHANGED <<schema, version, next>>
            /\ at' \in {at, "down", "error"}
            /\ UNCHANGED interruptions \/ Interruption
<1> USE DEF vars
<1>1. CASE OpenDatabase
  BY <1>1 DEF OpenDatabase, Next
<1>2. CASE Reconcile \/ ReconcileFails
  BY <1>2 DEF Reconcile, ReconcileFails
<1>3. CASE StopWithoutHistory
  BY <1>3 DEF StopWithoutHistory, Next
<1>4. CASE InsertRunning \/ Watch \/ Analyzed \/ EndSession
  BY <1>4 DEF InsertRunning, Watch, Analyzed, EndSession
<1>5. CASE Connect \/ Transfer \/ ArchiveObtained \/ TryNextPath \/ Notify
  BY <1>5 DEF Connect, Transfer, ArchiveObtained, TryNextPath, Notify
<1>6. CASE ArchiveRaises \/ GoesDown
  BY <1>6 DEF ArchiveRaises, GoesDown, Down
<1>7. CASE Finalize \/ SetSliceSource \/ DeleteFilaments \/ InsertFilament \/ FilamentsSaved
  BY <1>7 DEF Finalize, SetSliceSource, DeleteFilaments, InsertFilament, FilamentsSaved
<1>8. CASE InsertRefused \/ StorePicture \/ WriteFails
  BY <1>8 DEF InsertRefused, StorePicture, WriteFails
<1> QED
  BY <1>1, <1>2, <1>3, <1>4, <1>5, <1>6, <1>7, <1>8 DEF StoreNext

LEMMA SchemaStep == ASSUME MigrationInv, [StoreNext]_storeVars PROVE MigrationInv'
<1>1. CASE Next
  BY <1>1, InvariantStep
<1>2. CASE /\ UNCHANGED <<schema, version, next>>
           /\ at' \in {at, "down", "error"}
           /\ UNCHANGED interruptions \/ Interruption
  BY <1>2, InterruptionsAssumption
  DEF MigrationInv, TypeOK, VersionTellsSchema, ScriptProgress, ServesCurrentVersion,
      OnlySecondStepTears, Interruption, Step
<1>3. CASE UNCHANGED storeVars
  BY <1>3, InvariantStep DEF storeVars
<1> QED
  BY <1>1, <1>2, <1>3, SchemaCases

\* The schema is sound under the whole life of the service: opened, written,
\* cut off and opened again.
LEMMA SchemaInvariant == StoreSpec => []MigrationInv
<1>1. StoreInit => MigrationInv
  BY MigrationInit DEF StoreInit
<1> QED
  BY <1>1, SchemaStep, PTL DEF StoreSpec

\* The version the database records is honest while history is written.
THEOREM ServiceVersionIsHonest == StoreSpec => []VersionTellsSchema
BY SchemaInvariant, PTL DEF MigrationInv

\* The statements of PrintRepository always meet the whole schema.
THEOREM ServiceHasSchema == StoreSpec => []ServesWholeSchema
<1>1. MigrationInv => ServesWholeSchema
  BY DEF MigrationInv, TypeOK, VersionTellsSchema, ServesCurrentVersion,
         ServesWholeSchema, Everything
<1> QED
  BY <1>1, SchemaInvariant, PTL

\* Nothing the service writes tears the first script.
THEOREM ServiceTearsSecondStepOnly == StoreSpec => []OnlySecondStepTears
BY SchemaInvariant, PTL DEF MigrationInv

-------------------------------------------------------------------------------
(* What the pure functions return.                                         *)

\* One outcome for every final state and progress, never "running".
LEMMA OutcomeTyped ==
  ASSUME NEW state, NEW progress \in Number
  PROVE  DetermineOutcome(state, progress) \in Outcomes \ {"running"}
BY DEF DetermineOutcome, Outcomes

\* The final state alone decides, unless it is IDLE.
LEMMA OutcomeSettled ==
  ASSUME NEW state, state # "IDLE", NEW p, NEW q
  PROVE  DetermineOutcome(state, p) = DetermineOutcome(state, q)
BY DEF DetermineOutcome

\* A finished print is completed.
LEMMA FinishCompletes ==
  ASSUME NEW p PROVE DetermineOutcome("FINISH", p) = "completed"
BY DEF DetermineOutcome

\* A layer is pulled into 0..top.
LEMMA ClampedWithin ==
  ASSUME NEW n \in Int, NEW top \in Int, top > 0
  PROVE  Clamped(n, top) \in 0..top
BY DEF Clamped

\* What a figure may be, told together.
SoundFigure(c, outcome) ==
  /\ c \in Consumptions
  /\ WithinPlan(c)
  /\ c.method = "complete" => outcome = "completed"
  /\ c.method = "layer_fraction" => outcome # "completed"

LEMMA NoFigureSound == ASSUME NEW outcome PROVE SoundFigure(NoFigure, outcome)
BY DEF SoundFigure, NoFigure, Consumptions, Methods, WithinPlan

\* A figure stays within the plan, whatever layers the printer reports.
LEMMA ConsumptionSound ==
  ASSUME NEW planned, NEW layer \in Number, NEW total_layers \in Number,
         NEW outcome \in Outcomes
  PROVE  SoundFigure(ComputeConsumption(planned, layer, total_layers, outcome), outcome)
<1>1. CASE planned /\ outcome = "completed"
  <2> DEFINE all == [method |-> "complete", part |-> 1, whole |-> 1]
  <2>1. ComputeConsumption(planned, layer, total_layers, outcome) = all
    BY <1>1 DEF ComputeConsumption
  <2>2. SoundFigure(all, outcome)
    BY <1>1 DEF SoundFigure, Consumptions, Methods, WithinPlan
  <2> HIDE DEF all
  <2> QED
    BY <2>1, <2>2
<1>2. CASE /\ planned /\ outcome \notin {"completed", "running"}
           /\ LayersKnown(layer, total_layers)
  <2>1. layer \in Int /\ total_layers \in Int /\ total_layers > 0
    BY <1>2 DEF LayersKnown, Number
  <2>2. Clamped(layer, total_layers) \in 0..total_layers
    BY <2>1, ClampedWithin
  <2>3. outcome # "completed"
    BY <1>2
  <2> DEFINE share == [method |-> "layer_fraction",
                       part |-> Clamped(layer, total_layers), whole |-> total_layers]
  <2>4. ComputeConsumption(planned, layer, total_layers, outcome) = share
    BY <1>2 DEF ComputeConsumption
  <2>5. SoundFigure(share, outcome)
    BY <2>1, <2>2, <2>3 DEF SoundFigure, Consumptions, Methods, WithinPlan
  <2> HIDE DEF share
  <2> QED
    BY <2>4, <2>5
<1>3. CASE /\ ~(planned /\ outcome = "completed")
           /\ ~(/\ planned /\ outcome \notin {"completed", "running"}
                /\ LayersKnown(layer, total_layers))
  <2>1. ComputeConsumption(planned, layer, total_layers, outcome) = NoFigure
    BY <1>3 DEF ComputeConsumption
  <2> QED
    BY <2>1, NoFigureSound
<1> QED
  BY <1>1, <1>2, <1>3

\* A completed print used its plan exactly, whatever layers are reported.
LEMMA CompletedUsesPlan ==
  ASSUME NEW planned, NEW l, NEW m, NEW t, NEW u
  PROVE  ComputeConsumption(planned, l, t, "completed")
           = ComputeConsumption(planned, m, u, "completed")
BY DEF ComputeConsumption

\* The slots of an archive are integers, one for each element.
LEMMA SlotsTyped ==
  ASSUME NEW ids \in Seq(RawIds), ~Raises(ids), ~Unusable(ids)
  PROVE  /\ Slots(ids) \in Seq(Int)
         /\ \A i \in 1..Len(ids), j \in 1..Len(ids) : i # j => Slots(ids)[i] # Slots(ids)[j]
         /\ Len(Slots(ids)) = Len(ids)
<1>1. Len(ids) \in Nat /\ DOMAIN ids = 1..Len(ids)
      /\ \A i \in 1..Len(ids) : ids[i] \in RawIds
  OBVIOUS
<1>2. \A i \in 1..Len(ids) : ~Repeated(ids, i)
  BY <1>1 DEF Unusable
<1>3. \A i \in 1..Len(ids) : ids[i] # Endless
  <2> SUFFICES ASSUME NEW i \in 1..Len(ids), ids[i] = Endless PROVE FALSE
    OBVIOUS
  <2>1. \A j \in 1..(i - 1) : j \in 1..Len(ids)
    BY <1>1
  <2> QED
    BY <1>1, <1>2, <2>1 DEF Raises
<1>4. \A i \in 1..Len(ids) : Resolved(ids, i) \in Int
  <2>1. \A n \in Int : Truncated(n) \in Int
    BY DEF Truncated
  <2>2. \A i \in 1..Len(ids) : i \in Int /\ (ids[i] = Absent \/ ids[i] \in Int)
    BY <1>1, <1>3 DEF RawIds
  <2> QED
    BY <2>1, <2>2 DEF Resolved
<1>5. Slots(ids) = [i \in 1..Len(ids) |-> Resolved(ids, i)]
  BY <1>1 DEF Slots
<1>6. Slots(ids) \in Seq(Int) /\ Len(Slots(ids)) = Len(ids)
  <2>1. [i \in 1..Len(ids) |-> Resolved(ids, i)] \in [1..Len(ids) -> Int]
    BY <1>4
  <2>2. Slots(ids) \in Seq(Int)
    BY <1>1, <1>5, <2>1, SeqDef
  <2> QED
    BY <1>1, <1>5, <2>2, LenProperties
<1>7. \A i \in 1..Len(ids), j \in 1..Len(ids) :
        j < i => Resolved(ids, j) # Resolved(ids, i)
  <2> SUFFICES ASSUME NEW i \in 1..Len(ids), NEW j \in 1..Len(ids), j < i,
                      Resolved(ids, j) = Resolved(ids, i)
               PROVE  FALSE
    OBVIOUS
  <2>1. j \in 1..(i - 1)
    BY <1>1
  <2> QED
    BY <1>2, <1>3, <2>1 DEF Repeated
<1>8. \A i \in 1..Len(ids), j \in 1..Len(ids) :
        i # j => Slots(ids)[i] # Slots(ids)[j]
  BY <1>1, <1>5, <1>7
<1> QED
  BY <1>6, <1>8

\* What extract_slice_info returns of an archive, and that its slots do not
\* repeat: this is what keeps the keys of print_filaments apart.
Apart(slots) ==
  \A i \in 1..Len(slots), j \in 1..Len(slots) : i # j => slots[i] # slots[j]

LEMMA ParseTyped ==
  ASSUME NEW archive \in Archives
  PROVE  /\ Parse(archive) \in Infos
         /\ Parse(archive).kind = "info" => Apart(Parse(archive).slots)
<1>1. /\ archive.content \in {"readable", "unreadable", "damaged"}
      /\ archive.ids \in Seq(RawIds) /\ archive.weighed \in BOOLEAN
  BY DEF Archives, Contents
<1>2. CASE \/ archive.content # "readable" \/ Raises(archive.ids) \/ Unusable(archive.ids)
  <2>1. Parse(archive) \in {[kind |-> "none"], [kind |-> "raises"]}
    BY <1>1, <1>2 DEF Parse, Filaments
  <2>2. Parse(archive) \in Infos
    BY <2>1 DEF Infos
  <2>3. Parse(archive).kind # "info"
    BY <2>1
  <2> QED
    BY <2>2, <2>3
<1>3. CASE archive.content = "readable" /\ ~Raises(archive.ids) /\ ~Unusable(archive.ids)
  <2>1. Parse(archive) = [kind |-> "info", slots |-> Slots(archive.ids),
                          weighed |-> archive.weighed]
    BY <1>3 DEF Parse, Filaments
  <2>2. Parse(archive) \in Infos
    BY <1>1, <1>3, <2>1, SlotsTyped DEF Infos
  <2>3. Parse(archive).slots = Slots(archive.ids)
    BY <2>1
  <2> QED
    BY <1>1, <1>3, <2>2, <2>3, SlotsTyped DEF Apart
<1> QED
  BY <1>1, <1>2, <1>3

-------------------------------------------------------------------------------
(* Types.                                                                  *)

\* A session is the monitor's from its row to the end of its close.
InHand == pc \in Watching \cup Fetching \cup Closing

PlacesOK ==
  /\ pc \in {"opening", "reconcile", "idle"} \cup Watching \cup Fetching \cup Closing
  /\ at = "serving" <=> pc # "opening"

\* The tables, row by row with what the prints really had.
TablesOK ==
  /\ rows \in Seq(Rows)
  /\ filaments \in Seq(SUBSET Int) /\ Len(filaments) = Len(rows)
  /\ truth \in Seq(Truths) /\ Len(truth) = Len(rows)
  /\ InHand => rows # <<>>

\* The locals of _end_session: slots are written only of an archive that has
\* been read.
CloseOK ==
  /\ closing \in [state : FinalStates \cup {"none"}, info : Infos]
  /\ notice \in [outcome : Outcomes \cup {"none"}, consumed : Consumptions]
  /\ left \in Seq(Int)
  /\ pc \in {"delete", "insert"} => Info.kind = "info"

FramesOK ==
  /\ captures \in 0..MaxCaptures /\ saved \in 0..MaxSessionFrames
  /\ buffer \in Seq(1..MaxCaptures) /\ Len(buffer) <= FrameHistory
  /\ files \in Seq(0..MaxCaptures) /\ Len(files) <= saved

\* A path is being read only while a fetch is on, and what is kept of it is
\* what was read at most.
FetchOK ==
  /\ file_name \in FileNames \cup {<<>>}
  /\ path \in 0..Len(Paths) /\ read \in Nat /\ kept \in Nat /\ kept <= read
  /\ troubled \in BOOLEAN
  /\ pc \notin {"retrieve", "notify"} => path = 0
  /\ pc = "retrieve" => path # 0
  /\ pc \in Fetching => card \in Cards

LEMMA PlacesStep ==
  ASSUME PlacesOK, [StoreNext]_storeVars PROVE PlacesOK'
<1> USE DEF PlacesOK, Watching, Fetching, Closing
<1>1. CASE OpenDatabase
  BY <1>1 DEF OpenDatabase
<1>2. CASE Reconcile \/ ReconcileFails
  BY <1>2 DEF Reconcile, ReconcileFails, vars
<1>3. CASE StopWithoutHistory
  BY <1>3 DEF StopWithoutHistory, Stop, historyVars
<1>4. CASE InsertRunning \/ Watch \/ Analyzed \/ EndSession
  BY <1>4 DEF InsertRunning, Watch, Analyzed, EndSession, vars
<1>5. CASE Connect \/ ArchiveObtained \/ TryNextPath
  BY <1>5 DEF Connect, ArchiveObtained, TryNextPath, SearchOn, Fetched, vars
<1>6. CASE Transfer \/ Notify
  BY <1>6 DEF Transfer, Notify, vars, historyVars
<1>7. CASE ArchiveRaises \/ GoesDown
  BY <1>7 DEF ArchiveRaises, GoesDown, Down
<1>8. CASE Finalize \/ SetSliceSource \/ DeleteFilaments \/ InsertFilament \/ FilamentsSaved
  BY <1>8 DEF Finalize, SetSliceSource, DeleteFilaments, InsertFilament, FilamentsSaved,
              vars
<1>9. CASE InsertRefused \/ StorePicture \/ WriteFails
  BY <1>9 DEF InsertRefused, StorePicture, WriteFails, EndClose, vars
<1>10. CASE UNCHANGED storeVars
  BY <1>10 DEF storeVars, vars, historyVars
<1> QED
  BY <1>1, <1>2, <1>3, <1>4, <1>5, <1>6, <1>7, <1>8, <1>9, <1>10 DEF StoreNext

\* What a step does to the frames.
LEMMA FrameCases ==
  ASSUME [StoreNext]_storeVars
  PROVE  \/ UNCHANGED frameVars
         \/ NewFrames /\ pc' = "watch" /\ pc = "idle"
         \/ CaptureFrame /\ pc = "watch"
         \/ SaveFrame /\ pc = "analyze"
         \/ ClearBuffer /\ UNCHANGED <<captures, saved, files>> /\ ~InHand'
<1> USE DEF InHand, Watching, Fetching, Closing
<1>1. CASE OpenDatabase \/ Reconcile \/ ReconcileFails \/ StopWithoutHistory
  BY <1>1 DEF OpenDatabase, Reconcile, ReconcileFails, StopWithoutHistory
<1>2. CASE InsertRunning \/ Watch \/ Analyzed \/ EndSession
  BY <1>2 DEF InsertRunning, Watch, Analyzed, EndSession
<1>3. CASE Connect \/ ArchiveObtained \/ TryNextPath \/ Transfer \/ Notify
  BY <1>3 DEF Connect, ArchiveObtained, TryNextPath, Transfer, Notify
<1>4. CASE ArchiveRaises \/ GoesDown
  BY <1>4 DEF ArchiveRaises, GoesDown, Down, ClearBuffer
<1>5. CASE Finalize \/ SetSliceSource \/ DeleteFilaments \/ InsertFilament \/ FilamentsSaved
  BY <1>5 DEF Finalize, SetSliceSource, DeleteFilaments, InsertFilament, FilamentsSaved
<1>6. CASE InsertRefused \/ StorePicture \/ WriteFails
  BY <1>6 DEF InsertRefused, StorePicture, WriteFails, EndClose
<1>7. CASE UNCHANGED storeVars
  BY <1>7 DEF storeVars
<1> QED
  BY <1>1, <1>2, <1>3, <1>4, <1>5, <1>6, <1>7 DEF StoreNext

LEMMA FramesStep ==
  ASSUME FramesOK, [StoreNext]_storeVars PROVE FramesOK'
<1> USE FramesAssumption DEF FramesOK
<1>1. CASE UNCHANGED frameVars
  BY <1>1 DEF frameVars
<1>2. CASE NewFrames
  BY <1>2 DEF NewFrames, ClearBuffer
<1>3. CASE CaptureFrame
  <2>1. captures' \in 1..MaxCaptures
    BY <1>3 DEF CaptureFrame
  <2>2. /\ Added(captures') \in Seq(1..MaxCaptures)
        /\ Len(Added(captures')) <= FrameHistory
    <3>1. CASE Ready
      <4>1. buffer # <<>>
        BY <3>1 DEF Ready
      <4>2. Tail(buffer) \in Seq(1..MaxCaptures) /\ Len(Tail(buffer)) = Len(buffer) - 1
        BY <4>1, HeadTailProperties
      <4>3. Added(captures') = Append(Tail(buffer), captures')
        BY <3>1 DEF Added
      <4> QED
        BY <2>1, <4>2, <4>3, AppendProperties
    <3>2. CASE ~Ready
      <4>1. Added(captures') = Append(buffer, captures') /\ Len(buffer) < FrameHistory
        BY <3>2 DEF Added, Ready
      <4> QED
        BY <2>1, <4>1, AppendProperties
    <3> QED
      BY <3>1, <3>2
  <2> QED
    BY <1>3, <2>1, <2>2 DEF CaptureFrame
<1>4. CASE SaveFrame
  <2>1. \A f \in 0..MaxCaptures :
          Append(files, f) \in Seq(0..MaxCaptures) /\ Len(Append(files, f)) = Len(files) + 1
    BY AppendProperties
  <2>2. CASE UNCHANGED frameVars
    BY <2>2, <1>1
  <2>3. CASE /\ saved < MaxSessionFrames /\ saved' = saved + 1
             /\ files' = files \/ \E f \in 0..MaxCaptures : files' = Append(files, f)
             /\ UNCHANGED <<captures, buffer>>
    <3>1. files' \in Seq(0..MaxCaptures) /\ Len(files') <= Len(files) + 1
      <4>1. files \in Seq(0..MaxCaptures) /\ Len(files) \in Nat
        OBVIOUS
      <4>2. CASE files' = files
        BY <4>1, <4>2
      <4>3. CASE \E f \in 0..MaxCaptures : files' = Append(files, f)
        BY <2>1, <4>1, <4>3
      <4> QED
        BY <2>3, <4>2, <4>3
    <3> QED
      BY <2>3, <3>1
  <2>4. captures \in 0..MaxCaptures /\ 0 \in 0..MaxCaptures
    OBVIOUS
  <2> QED
    BY <1>4, <2>2, <2>3, <2>4 DEF SaveFrame
<1>5. CASE ClearBuffer /\ UNCHANGED <<captures, saved, files>>
  BY <1>5 DEF ClearBuffer
<1> QED
  BY <1>1, <1>2, <1>3, <1>4, <1>5, FrameCases

\* The paths of a fetch are a sequence, two or three for each directory.
PathsOf(name) ==
  LET names == CandidateNames(name)
  IN [k \in 1..(Len(FtpDirs) * Len(names)) |->
        <<FtpDirs[((k - 1) \div Len(names)) + 1], names[((k - 1) % Len(names)) + 1]>>]

LEMMA TwoOrThreeNames == ASSUME NEW name PROVE Len(CandidateNames(name)) \in {2, 3}
<1> DEFINE plain == Append(Stem(name), "3mf")
           sliced == Stem(name) \o <<"gcode", "3mf">>
<1>1. CASE ~EndsWith(name, ArchiveSuffix) \/ name = plain
  <2>1. CandidateNames(name) = <<plain, sliced>> \/ CandidateNames(name) = <<sliced, plain>>
    BY <1>1 DEF CandidateNames
  <2> HIDE DEF plain, sliced
  <2> QED
    BY <2>1
<1>2. CASE EndsWith(name, ArchiveSuffix) /\ name # plain /\ name = sliced
  <2>1. CandidateNames(name) = <<sliced, plain>>
    BY <1>2 DEF CandidateNames
  <2> HIDE DEF plain, sliced
  <2> QED
    BY <2>1
<1>3. CASE EndsWith(name, ArchiveSuffix) /\ name # plain /\ name # sliced
  <2>1. CandidateNames(name) = <<name, plain, sliced>>
    BY <1>3 DEF CandidateNames
  <2> HIDE DEF plain, sliced
  <2> QED
    BY <2>1
<1> QED
  BY <1>1, <1>2, <1>3

LEMMA PathsCounted ==
  ASSUME NEW name
  PROVE  /\ Len(PathsOf(name)) = Len(FtpDirs) * Len(CandidateNames(name))
         /\ Len(PathsOf(name)) \in Nat
         /\ DOMAIN PathsOf(name) = 1..Len(PathsOf(name))
<1> DEFINE n == Len(FtpDirs) * Len(CandidateNames(name))
<1>1. Len(FtpDirs) \in Nat
  BY FtpAssumption
<1>2. n \in Nat
  BY <1>1, TwoOrThreeNames
<1>3. DOMAIN PathsOf(name) = 1..n /\ PathsOf(name) = [k \in 1..n |-> PathsOf(name)[k]]
  BY DEF PathsOf
<1> HIDE DEF n
<1> DEFINE S == {PathsOf(name)[k] : k \in 1..n}
<1>4. PathsOf(name) \in [1..n -> S]
  BY <1>3
<1>5. PathsOf(name) \in Seq(S)
  BY <1>2, <1>4, SeqDef
<1>6. DOMAIN PathsOf(name) = 1..Len(PathsOf(name)) /\ Len(PathsOf(name)) \in Nat
  BY <1>5, LenProperties
<1>7. Len(PathsOf(name)) = n
  BY <1>2, <1>3, <1>6
<1> QED
  BY <1>6, <1>7 DEF n

\* The paths are those of the name the session was opened with.
LEMMA PathsKept ==
  /\ Paths = PathsOf(file_name)
  /\ Paths' = PathsOf(file_name')
BY DEF Paths, PathsOf

\* What a step does to the fetch.
LEMMA FetchCases ==
  ASSUME [StoreNext]_storeVars
  PROVE  \/ UNCHANGED ftpVars /\ pc' = pc
         \/ UNCHANGED ftpVars /\ pc \notin Fetching /\ pc' \notin Fetching
         \/ UNCHANGED ftpVars /\ pc = "retrieve" /\ pc' = "notify"
         \/ BeginFetch /\ pc \in Watching /\ pc' = "connect"
         \/ /\ UNCHANGED <<file_name, card>> /\ troubled' \in {troubled, TRUE}
            /\ \/ pc' = "notify" /\ UNCHANGED <<path, read, kept>>
               \/ pc' = "retrieve" /\ BeginTransfer(NextPath) /\ NextPath # 0
            /\ pc \in {"connect", "retrieve"}
         \/ Collect /\ pc = "retrieve" /\ pc' = "retrieve"
         \/ EndFetch /\ pc' \notin {"connect", "retrieve", "notify"}
<1> USE DEF Watching, Fetching, Closing
<1>1. CASE OpenDatabase \/ Reconcile \/ ReconcileFails \/ StopWithoutHistory
  BY <1>1 DEF OpenDatabase, Reconcile, ReconcileFails, StopWithoutHistory, historyVars
<1>2. CASE InsertRunning \/ Watch \/ Analyzed \/ EndSession
  BY <1>2 DEF InsertRunning, Watch, Analyzed, EndSession
<1>3. CASE Connect \/ TryNextPath
  BY <1>3 DEF Connect, TryNextPath, SearchOn, Fetched
<1>4. CASE ArchiveObtained \/ Transfer \/ Notify
  BY <1>4 DEF ArchiveObtained, Fetched, Transfer, Notify, historyVars
<1>5. CASE ArchiveRaises \/ GoesDown
  BY <1>5 DEF ArchiveRaises, GoesDown, Down
<1>6. CASE Finalize \/ SetSliceSource \/ DeleteFilaments \/ InsertFilament \/ FilamentsSaved
  BY <1>6 DEF Finalize, SetSliceSource, DeleteFilaments, InsertFilament, FilamentsSaved
<1>7. CASE InsertRefused \/ StorePicture \/ WriteFails
  BY <1>7 DEF InsertRefused, StorePicture, WriteFails, EndClose
<1>8. CASE UNCHANGED storeVars
  BY <1>8 DEF storeVars, historyVars
<1> QED
  BY <1>1, <1>2, <1>3, <1>4, <1>5, <1>6, <1>7, <1>8 DEF StoreNext

LEMMA FetchStep ==
  ASSUME FetchOK, [StoreNext]_storeVars PROVE FetchOK'
<1>1. /\ Len(Paths) \in Nat /\ Len(Paths') \in Nat
      /\ file_name' = file_name => Paths' = Paths
  BY PathsKept, PathsCounted
<1> USE DEF Fetching, Watching, BeginFetch, BeginTransfer, Collect, EndFetch, ftpVars
<1>2. troubled' \in BOOLEAN /\ file_name' \in FileNames \cup {<<>>}
  BY FetchCases DEF FetchOK
<1>3. pc' \in Fetching => card' \in Cards
  BY FetchCases DEF FetchOK
<1>4. read' \in Nat /\ kept' \in Nat /\ kept' <= read'
  <2>1. read \in Nat /\ kept \in Nat /\ kept <= read
    BY DEF FetchOK
  <2>2. \/ read' = read /\ kept' = kept
        \/ read' = 0 /\ kept' = 0
        \/ read' = read + 1 /\ kept' \in {0, kept + 1}
    BY FetchCases
  <2> QED
    BY <2>1, <2>2
<1>5. /\ path' \in 0..Len(Paths')
      /\ pc' \notin {"retrieve", "notify"} => path' = 0
      /\ pc' = "retrieve" => path' # 0
  <2>1. /\ path \in 0..Len(Paths)
        /\ pc \notin {"retrieve", "notify"} => path = 0
        /\ pc = "retrieve" => path # 0
    BY DEF FetchOK
  <2>2. \/ path' = path /\ Paths' = Paths /\ pc' = pc
        \/ path' = path /\ Paths' = Paths /\ pc \notin Fetching /\ pc' \notin Fetching
        \/ path' = path /\ Paths' = Paths /\ pc' = "notify"
        \/ path' = path /\ pc \in Watching /\ pc' = "connect"
        \/ path' = NextPath /\ NextPath # 0 /\ Paths' = Paths /\ pc' = "retrieve"
        \/ path' = 0 /\ pc' \notin {"connect", "retrieve", "notify"}
    BY <1>1, FetchCases
  <2>3. NextPath \in 0..Len(Paths)
    BY <1>1, <2>1 DEF NextPath
  <2> QED
    BY <1>1, <2>1, <2>2, <2>3
<1> QED
  BY <1>2, <1>3, <1>4, <1>5 DEF FetchOK

\* An archive that has been obtained was read from the card.
LEMMA ArchiveTyped ==
  ASSUME FetchOK, pc = "retrieve", Obtained
  PROVE  card[Paths[path]].archive \in Archives
<1>1. Present
  BY DEF FetchOK, Obtained, Size
<1>2. card \in Cards
  BY DEF FetchOK, Fetching
<1> QED
  BY <1>1, <1>2, FtpAssumption DEF Present

\* An update rewrites the current row, or nothing when it was never inserted.
LEMMA UpdateEffect ==
  ASSUME TablesOK, InHand, NEW row \in Rows
  PROVE  /\ Update(row) \in Seq(Rows) /\ Len(Update(row)) = Len(rows)
         /\ \A s \in 1..Len(rows) : s # Current => Update(row)[s] = rows[s]
         /\ Row.outcome = "missing" => Update(row)[Current] = Row
         /\ Row.outcome # "missing" => Update(row)[Current] = row
<1>1. rows \in Seq(Rows) /\ Current \in 1..Len(rows)
  BY DEF TablesOK, Current
<1>2. CASE Row.outcome = "missing"
  BY <1>1, <1>2 DEF Update, Row
<1>3. CASE Row.outcome # "missing"
  <2>1. Update(row) = [rows EXCEPT ![Current] = row]
    BY <1>3 DEF Update
  <2> QED
    BY <1>1, <1>3, <2>1, ExceptSeq
<1> QED
  BY <1>2, <1>3

\* The current row is a row.
LEMMA RowTyped ==
  ASSUME TablesOK, InHand
  PROVE  Current \in 1..Len(rows) /\ Row \in Rows
BY DEF TablesOK, Current, Row

\* What the notice and the row of a completed print say was consumed.
WholePlan == ComputeConsumption(Info.kind = "info" /\ Info.weighed, None, None, "completed")

\* finalize ends the row, with an outcome and a figure that go together.
LEMMA FinalizeEffect ==
  ASSUME TablesOK, Finalize
  PROVE  \E row \in Rows :
           /\ rows' = Update(row)
           /\ row.ended /\ row.outcome \in Outcomes \ {"running"}
           /\ SoundFigure(row.consumed, row.outcome)
           /\ row.source = Row.source /\ row.picture = Row.picture
           /\ closing.state # "IDLE" =>
                row.outcome = DetermineOutcome(closing.state, None)
           /\ closing.state = "FINISH" => row.consumed = WholePlan
<1>1. PICK figures \in Figures :
        rows' = Update([Row EXCEPT
                  !.outcome = DetermineOutcome(closing.state, figures.progress),
                  !.ended = TRUE,
                  !.consumed = Consumed(Info, figures,
                                 DetermineOutcome(closing.state, figures.progress))])
  BY DEF Finalize
<1> DEFINE outcome == DetermineOutcome(closing.state, figures.progress)
           consumed == Consumed(Info, figures, outcome)
<1>2. /\ figures.progress \in Number /\ figures.layer \in Number
      /\ figures.total_layers \in Number
  BY HistoryAssumption
<1>3. outcome \in Outcomes \ {"running"}
  BY <1>2, OutcomeTyped
<1>4. SoundFigure(consumed, outcome)
  BY <1>2, <1>3, ConsumptionSound DEF Consumed
<1>5. closing.state # "IDLE" => outcome = DetermineOutcome(closing.state, None)
  BY OutcomeSettled
<1>6. closing.state = "FINISH" => consumed = WholePlan
  BY FinishCompletes, CompletedUsesPlan DEF Consumed, WholePlan
<1>7. Row \in Rows
  BY RowTyped DEF Finalize, InHand, Closing
<1> HIDE DEF outcome, consumed
<1>8. consumed \in Consumptions
  BY <1>4 DEF SoundFigure
<1> DEFINE row == [Row EXCEPT !.outcome = outcome, !.ended = TRUE, !.consumed = consumed]
<1>9. /\ row \in Rows /\ row.ended /\ row.outcome = outcome /\ row.consumed = consumed
      /\ row.source = Row.source /\ row.picture = Row.picture
  BY <1>3, <1>7, <1>8 DEF Rows
<1>10. rows' = Update(row)
  BY <1>1 DEF outcome, consumed
<1> HIDE DEF row
<1> QED
  BY <1>3, <1>4, <1>5, <1>6, <1>9, <1>10

\* set_slice_source writes the source and nothing else.
LEMMA SourceEffect ==
  ASSUME TablesOK, SetSliceSource
  PROVE  \E row \in Rows :
           /\ rows' = Update(row)
           /\ row.source \in {"ftps", "unavailable"}
           /\ Info.kind = "info" => row.source = "ftps"
           /\ row.ended = Row.ended /\ row.outcome = Row.outcome
           /\ row.consumed = Row.consumed /\ row.picture = Row.picture
<1> DEFINE source == IF Info.kind = "info" THEN "ftps" ELSE "unavailable"
           row == [Row EXCEPT !.source = source]
<1>1. Row \in Rows
  BY RowTyped DEF SetSliceSource, InHand, Closing
<1>2. source \in {"ftps", "unavailable"} /\ (Info.kind = "info" => source = "ftps")
  OBVIOUS
<1>3. rows' = Update(row)
  BY DEF SetSliceSource
<1> HIDE DEF source
<1>4. /\ row \in Rows /\ row.source = source
      /\ row.ended = Row.ended /\ row.outcome = Row.outcome
      /\ row.consumed = Row.consumed /\ row.picture = Row.picture
  BY <1>1, <1>2 DEF Rows
<1> HIDE DEF row
<1> QED
  BY <1>2, <1>3, <1>4

\* The last frame of the buffer and of the directory are captures.
LEMMA PictureTyped == ASSUME FramesOK PROVE FinalPictures \subseteq Pictures
<1>1. LastOf(buffer) \in Nat
  <2>1. buffer # <<>> => Len(buffer) \in 1..Len(buffer)
    BY DEF FramesOK
  <2> QED
    BY <2>1, FramesAssumption DEF FramesOK, LastOf
<1>2. LastOf(files) \in Nat
  <2>1. files # <<>> => Len(files) \in 1..Len(files)
    BY DEF FramesOK
  <2> QED
    BY <2>1, FramesAssumption DEF FramesOK, LastOf
<1> QED
  BY <1>1, <1>2 DEF FinalPictures, Pictures

\* The picture is written into the row, or the row is left as it is.
LEMMA PictureEffect ==
  ASSUME TablesOK, FramesOK, StorePicture
  PROVE  \/ rows' = rows
         \/ /\ buffer # <<>>
            /\ \E row \in Rows :
                 /\ rows' = Update(row)
                 /\ row.picture \in FinalPictures
                 /\ row.ended = Row.ended /\ row.outcome = Row.outcome
                 /\ row.consumed = Row.consumed /\ row.source = Row.source
<1>1. CASE ~HasPicture
  BY <1>1 DEF StorePicture
<1>2. CASE HasPicture
  <2>1. PICK picture \in FinalPictures : rows' = Update([Row EXCEPT !.picture = picture])
    BY <1>2 DEF StorePicture
  <2> DEFINE row == [Row EXCEPT !.picture = picture]
  <2>2. Row \in Rows
    BY RowTyped DEF StorePicture, InHand, Closing
  <2>3. /\ row \in Rows /\ row.picture \in FinalPictures
        /\ row.ended = Row.ended /\ row.outcome = Row.outcome
        /\ row.consumed = Row.consumed /\ row.source = Row.source
    BY <2>2, PictureTyped DEF Rows
  <2>4. rows' = Update(row) /\ buffer # <<>>
    BY <1>2, <2>1 DEF HasPicture
  <2> HIDE DEF row
  <2> QED
    BY <2>3, <2>4
<1> QED
  BY <1>1, <1>2

\* reconcile_stale changes outcomes, and only those left running.
LEMMA ReconcileEffect ==
  ASSUME TablesOK, Reconcile
  PROVE  /\ rows' \in Seq(Rows) /\ Len(rows') = Len(rows)
         /\ \A s \in 1..Len(rows) :
              /\ rows[s].outcome = "running" => rows'[s].outcome = "unknown"
              /\ rows[s].outcome # "running" => rows'[s] = rows[s]
              /\ rows'[s].ended = rows[s].ended /\ rows'[s].consumed = rows[s].consumed
              /\ rows'[s].source = rows[s].source /\ rows'[s].picture = rows[s].picture
<1> DEFINE new(s) == IF rows[s].outcome = "running"
                     THEN [rows[s] EXCEPT !.outcome = "unknown"] ELSE rows[s]
<1>1. Len(rows) \in Nat /\ DOMAIN rows = 1..Len(rows)
      /\ \A s \in 1..Len(rows) : rows[s] \in Rows
  BY DEF TablesOK
<1>2. rows' = [s \in 1..Len(rows) |-> new(s)]
  BY <1>1 DEF Reconcile
<1>3. \A s \in 1..Len(rows) :
        /\ new(s) \in Rows
        /\ rows[s].outcome = "running" => new(s).outcome = "unknown"
        /\ rows[s].outcome # "running" => new(s) = rows[s]
        /\ new(s).ended = rows[s].ended /\ new(s).consumed = rows[s].consumed
        /\ new(s).source = rows[s].source /\ new(s).picture = rows[s].picture
  BY <1>1 DEF Rows, Outcomes
<1> HIDE DEF new
<1>4. rows' \in [1..Len(rows) -> Rows]
  BY <1>2, <1>3
<1>5. rows' \in Seq(Rows) /\ DOMAIN rows' = 1..Len(rows)
  BY <1>1, <1>2, <1>4, SeqDef
<1>6. Len(rows') = Len(rows)
  BY <1>1, <1>5, LenProperties
<1> QED
  BY <1>2, <1>3, <1>5, <1>6

LEMMA NewRowTyped ==
  ASSUME NEW outcome \in {"running", "missing"}
  PROVE  /\ NewRow(outcome) \in Rows /\ ~NewRow(outcome).ended
         /\ NewRow(outcome).outcome = outcome
         /\ NewRow(outcome).consumed = NoFigure /\ NewRow(outcome).source = "none"
         /\ NewRow(outcome).picture = NoPicture
BY DEF NewRow, Rows, Outcomes, Consumptions, NoFigure, Methods, Pictures, NoPicture

\* A capture is the latest of the print in hand.
LEMMA CaptureEffect ==
  ASSUME TablesOK, FramesOK, Watch
  PROVE  /\ truth' \in Seq(Truths) /\ Len(truth') = Len(truth)
         /\ \A s \in 1..Len(rows) : s # Current => truth'[s] = truth[s]
         /\ truth'[Current].to = captures' /\ truth'[Current].from = truth[Current].from
         /\ truth'[Current].slots = truth[Current].slots
<1> DEFINE new == [truth[Current] EXCEPT !.to = captures']
<1>1. Current \in 1..Len(truth) /\ Len(truth) = Len(rows) /\ truth \in Seq(Truths)
  BY RowTyped DEF TablesOK, Watch, InHand, Watching
<1>2. truth' = [truth EXCEPT ![Current] = new]
  BY DEF Watch
<1>3. captures' \in Nat
  BY FramesAssumption DEF Watch, CaptureFrame, FramesOK
<1>4. truth[Current] \in Truths
  BY <1>1
<1>5. new \in Truths /\ new.to = captures' /\ new.from = truth[Current].from
      /\ new.slots = truth[Current].slots
  BY <1>3, <1>4 DEF Truths
<1> HIDE DEF new
<1> QED
  BY <1>1, <1>2, <1>5, ExceptSeq

\* The slots a fetched archive names.
InfoSlots(info) ==
  IF info.kind = "info" THEN {info.slots[i] : i \in DOMAIN info.slots} ELSE {}

LEMMA FetchedEffect ==
  ASSUME TablesOK, CloseOK, InHand, NEW info \in Infos, Fetched(info)
  PROVE  /\ truth' \in Seq(Truths) /\ Len(truth') = Len(truth)
         /\ \A s \in 1..Len(rows) : s # Current => truth'[s] = truth[s]
         /\ truth'[Current].slots = InfoSlots(info)
         /\ truth'[Current].from = truth[Current].from
         /\ truth'[Current].to = truth[Current].to
         /\ closing' \in [state : FinalStates \cup {"none"}, info : Infos]
         /\ closing'.info = info /\ info.kind # "raises" /\ pc' = "notify"
<1> DEFINE new == [truth[Current] EXCEPT !.slots = InfoSlots(info)]
<1>1. Current \in 1..Len(truth) /\ Len(truth) = Len(rows) /\ truth \in Seq(Truths)
  BY RowTyped DEF TablesOK
<1>2. truth' = [truth EXCEPT ![Current] = new]
  BY DEF Fetched, InfoSlots
<1>3. InfoSlots(info) \in SUBSET Int
  <2>1. CASE info.kind = "info"
    <3>1. info.slots \in Seq(Int)
      BY <2>1 DEF Infos
    <3>2. \A i \in DOMAIN info.slots : info.slots[i] \in Int
      BY <3>1
    <3> QED
      BY <2>1, <3>2 DEF InfoSlots
  <2>2. CASE info.kind # "info"
    BY <2>2 DEF InfoSlots
  <2> QED
    BY <2>1, <2>2
<1>4. truth[Current] \in Truths
  BY <1>1
<1>5. new \in Truths /\ new.slots = InfoSlots(info) /\ new.from = truth[Current].from
      /\ new.to = truth[Current].to
  BY <1>3, <1>4 DEF Truths
<1> HIDE DEF new
<1>6. closing' = [closing EXCEPT !.info = info] /\ info.kind # "raises" /\ pc' = "notify"
  BY DEF Fetched
<1>7. /\ closing' \in [state : FinalStates \cup {"none"}, info : Infos]
      /\ closing'.info = info
  BY <1>6 DEF CloseOK
<1> QED
  BY <1>1, <1>2, <1>5, <1>6, <1>7, ExceptSeq

\* What _fetch_archive may hand over: nothing, or what an archive holds.
LEMMA FetchEnds ==
  ASSUME FetchOK, Connect \/ TryNextPath \/ ArchiveObtained
  PROVE  \/ UNCHANGED <<closing, truth>> /\ pc' = "retrieve"
         \/ \E info \in Infos :
              Fetched(info) /\ (info.kind = "info" => Apart(info.slots))
<1>1. [kind |-> "none"] \in Infos /\ [kind |-> "none"].kind # "info"
  BY DEF Infos
<1>2. CASE Connect \/ TryNextPath
  BY <1>1, <1>2 DEF Connect, TryNextPath, SearchOn
<1>3. CASE ArchiveObtained
  <2>1. card[Paths[path]].archive \in Archives
    BY <1>3, ArchiveTyped DEF ArchiveObtained
  <2> QED
    BY <1>3, <2>1, ParseTyped DEF ArchiveObtained
<1> QED
  BY <1>2, <1>3

\* Deleting and inserting slots touches those of the current print only.
LEMMA FilamentsEffect ==
  ASSUME TablesOK, InHand, NEW slots \in SUBSET Int,
         filaments' = [filaments EXCEPT ![Current] = slots]
  PROVE  /\ filaments' \in Seq(SUBSET Int) /\ Len(filaments') = Len(filaments)
         /\ \A s \in 1..Len(rows) : s # Current => filaments'[s] = filaments[s]
         /\ filaments'[Current] = slots
<1>1. Current \in 1..Len(filaments) /\ Len(filaments) = Len(rows)
      /\ filaments \in Seq(SUBSET Int)
  BY RowTyped DEF TablesOK
<1> QED
  BY <1>1, ExceptSeq

\* The head of what is left to be inserted is a slot, and so is all after it.
LEMMA LeftTyped ==
  ASSUME CloseOK, left # <<>>
  PROVE  Head(left) \in Int /\ Tail(left) \in Seq(Int)
BY HeadTailProperties DEF CloseOK

\* A print is opened at the end of the tables.
LEMMA InsertEffect ==
  ASSUME TablesOK, FramesOK, InsertRunning
  PROVE  /\ \E outcome \in {"running", "missing"} : rows' = Append(rows, NewRow(outcome))
         /\ rows' \in Seq(Rows) /\ Len(rows') = Len(rows) + 1
         /\ filaments' \in Seq(SUBSET Int) /\ Len(filaments') = Len(rows')
         /\ truth' \in Seq(Truths) /\ Len(truth') = Len(rows')
         /\ \A s \in 1..Len(rows) : /\ rows'[s] = rows[s] /\ filaments'[s] = filaments[s]
                                    /\ truth'[s] = truth[s]
         /\ rows'[Len(rows')] \in {NewRow("running"), NewRow("missing")}
         /\ filaments'[Len(rows')] = {}
         /\ truth'[Len(rows')].from = captures /\ truth'[Len(rows')].to = captures
<1>1. PICK outcome \in {"running", "missing"} : rows' = Append(rows, NewRow(outcome))
  BY DEF InsertRunning
<1> DEFINE opened == [from |-> captures, to |-> captures, slots |-> {}]
<1>2. filaments' = Append(filaments, {}) /\ truth' = Append(truth, opened)
  BY DEF InsertRunning
<1>3. captures \in Nat
  BY FramesAssumption DEF FramesOK
<1>4. opened \in Truths /\ opened.from = captures /\ opened.to = captures
  BY <1>3 DEF Truths
<1> HIDE DEF opened
<1>5. NewRow(outcome) \in Rows
  BY NewRowTyped
<1>6. /\ Len(rows) \in Nat /\ Len(filaments) = Len(rows) /\ Len(truth) = Len(rows)
      /\ rows \in Seq(Rows) /\ filaments \in Seq(SUBSET Int) /\ truth \in Seq(Truths)
  BY DEF TablesOK
<1>7. /\ rows' \in Seq(Rows) /\ Len(rows') = Len(rows) + 1
      /\ \A s \in 1..Len(rows) : rows'[s] = rows[s]
      /\ rows'[Len(rows')] = NewRow(outcome)
  BY <1>1, <1>5, <1>6, AppendProperties
<1>8. /\ filaments' \in Seq(SUBSET Int) /\ Len(filaments') = Len(rows) + 1
      /\ \A s \in 1..Len(rows) : filaments'[s] = filaments[s]
      /\ filaments'[Len(rows) + 1] = {}
  BY <1>2, <1>6, AppendProperties
<1>9. /\ truth' \in Seq(Truths) /\ Len(truth') = Len(rows) + 1
      /\ \A s \in 1..Len(rows) : truth'[s] = truth[s]
      /\ truth'[Len(rows) + 1] = opened
  BY <1>2, <1>4, <1>6, AppendProperties
<1> QED
  BY <1>1, <1>4, <1>7, <1>8, <1>9

LEMMA TablesStep ==
  ASSUME TablesOK, CloseOK, FramesOK, FetchOK, [StoreNext]_storeVars
  PROVE  TablesOK'
<1> USE DEF InHand, Watching, Fetching, Closing
<1>1. CASE OpenDatabase \/ ReconcileFails \/ StopWithoutHistory \/ GoesDown \/ ArchiveRaises
  BY <1>1 DEF OpenDatabase, ReconcileFails, StopWithoutHistory, GoesDown, ArchiveRaises,
              Down, TablesOK, historyVars
<1>2. CASE Reconcile
  <2>1. UNCHANGED <<filaments, truth>> /\ pc' = "idle"
    BY <1>2 DEF Reconcile
  <2> QED
    BY <1>2, <2>1, ReconcileEffect DEF TablesOK
<1>3. CASE InsertRunning
  <2>1. rows' # <<>>
    BY <1>3, InsertEffect DEF TablesOK
  <2> QED
    BY <1>3, <2>1, InsertEffect DEF TablesOK
<1>4. CASE Watch
  <2>1. UNCHANGED <<rows, filaments>> /\ pc = "watch"
    BY <1>4 DEF Watch
  <2> QED
    BY <1>4, <2>1, CaptureEffect DEF TablesOK
<1>5. CASE Connect \/ TryNextPath \/ ArchiveObtained
  <2>1. UNCHANGED <<rows, filaments>> /\ pc \in Fetching
    BY <1>5 DEF Connect, TryNextPath, ArchiveObtained
  <2>2. truth' \in Seq(Truths) /\ Len(truth') = Len(truth)
    BY <1>5, <2>1, FetchEnds, FetchedEffect DEF TablesOK
  <2> QED
    BY <2>1, <2>2 DEF TablesOK
<1>6. CASE Analyzed \/ EndSession \/ Transfer \/ Notify \/ FilamentsSaved \/ UNCHANGED storeVars
  BY <1>6 DEF Analyzed, EndSession, Transfer, Notify, FilamentsSaved, historyVars,
              storeVars, TablesOK
<1>7. CASE InsertRefused \/ WriteFails
  BY <1>7 DEF InsertRefused, WriteFails, EndClose, TablesOK
<1>8. CASE Finalize \/ SetSliceSource \/ StorePicture
  <2>1. UNCHANGED <<filaments, truth>> /\ InHand
    BY <1>8 DEF Finalize, SetSliceSource, StorePicture, EndClose
  <2>2. rows' = rows \/ \E row \in Rows : rows' = Update(row)
    BY <1>8, FinalizeEffect, SourceEffect, PictureEffect
  <2>3. rows' \in Seq(Rows) /\ Len(rows') = Len(rows)
    BY <2>1, <2>2, UpdateEffect DEF TablesOK
  <2>4. rows' # <<>>
    BY <2>1, <2>3 DEF TablesOK
  <2> QED
    BY <2>1, <2>3, <2>4 DEF TablesOK
<1>9. CASE DeleteFilaments \/ InsertFilament
  <2>1. UNCHANGED <<rows, truth>> /\ InHand
    BY <1>9 DEF DeleteFilaments, InsertFilament
  <2>2. \E slots \in SUBSET Int : filaments' = [filaments EXCEPT ![Current] = slots]
    <3>1. CASE DeleteFilaments
      BY <3>1 DEF DeleteFilaments
    <3>2. CASE InsertFilament
      <4>1. filaments[Current] \in SUBSET Int
        BY <2>1, RowTyped DEF TablesOK
      <4>2. Head(left) \in Int
        BY <3>2, LeftTyped DEF InsertFilament
      <4> QED
        BY <3>2, <4>1, <4>2 DEF InsertFilament
    <3> QED
      BY <1>9, <3>1, <3>2
  <2> QED
    BY <2>1, <2>2, FilamentsEffect DEF TablesOK
<1> QED
  BY <1>1, <1>2, <1>3, <1>4, <1>5, <1>6, <1>7, <1>8, <1>9 DEF StoreNext

LEMMA CloseStep ==
  ASSUME TablesOK, CloseOK, FetchOK, [StoreNext]_storeVars
  PROVE  CloseOK'
<1> USE DEF InHand, Watching, Fetching, Closing
<1>1. /\ NoClose \in [state : FinalStates \cup {"none"}, info : Infos]
      /\ NoNotice \in [outcome : Outcomes \cup {"none"}, consumed : Consumptions]
  BY DEF NoClose, NoNotice, Infos, NoFigure, Consumptions, Methods
<1>2. CASE OpenDatabase \/ Reconcile \/ ReconcileFails \/ StopWithoutHistory
  BY <1>2 DEF OpenDatabase, Reconcile, ReconcileFails, StopWithoutHistory, CloseOK,
              Info, historyVars
<1>3. CASE GoesDown \/ ArchiveRaises
  BY <1>1, <1>3, EmptySeq DEF GoesDown, ArchiveRaises, Down, CloseOK
<1>4. CASE InsertRefused \/ StorePicture \/ WriteFails
  BY <1>1, <1>4, EmptySeq DEF InsertRefused, StorePicture, WriteFails, EndClose, CloseOK
<1>5. CASE InsertRunning \/ Watch \/ Analyzed \/ EndSession \/ Transfer \/ FilamentsSaved
           \/ Finalize \/ UNCHANGED storeVars
  BY <1>5 DEF InsertRunning, Watch, Analyzed, EndSession, Transfer, FilamentsSaved,
              Finalize, historyVars, storeVars, CloseOK, Info
<1>6. CASE SetSliceSource
  BY <1>6 DEF SetSliceSource, CloseOK, Info
<1>7. CASE Connect \/ TryNextPath \/ ArchiveObtained
  <2>1. UNCHANGED <<notice, left>> /\ pc \in Fetching
    BY <1>7 DEF Connect, TryNextPath, ArchiveObtained
  <2>2. pc' \in {"retrieve", "notify"}
        /\ closing' \in [state : FinalStates \cup {"none"}, info : Infos]
    BY <1>7, <2>1, FetchEnds, FetchedEffect DEF CloseOK
  <2> QED
    BY <2>1, <2>2 DEF CloseOK
<1>8. CASE Notify
  <2>1. PICK state \in FinalStates, figures \in Figures :
          /\ closing' = [closing EXCEPT !.state = state]
          /\ notice' = [outcome |-> DetermineOutcome(state, figures.progress),
                        consumed |-> Consumed(Info, figures,
                                       DetermineOutcome(state, figures.progress))]
    BY <1>8 DEF Notify
  <2>2. DetermineOutcome(state, figures.progress) \in Outcomes
    BY OutcomeTyped, HistoryAssumption
  <2>3. Consumed(Info, figures, DetermineOutcome(state, figures.progress)) \in Consumptions
    BY <2>2, ConsumptionSound, HistoryAssumption DEF Consumed, SoundFigure
  <2>4. closing' \in [state : FinalStates \cup {"none"}, info : Infos]
    BY <2>1 DEF CloseOK
  <2>5. left' = left /\ pc' = "finalize"
    BY <1>8 DEF Notify
  <2> QED
    BY <2>1, <2>2, <2>3, <2>4, <2>5 DEF CloseOK
<1>9. CASE DeleteFilaments
  <2>1. Info.slots \in Seq(Int)
    BY <1>9 DEF DeleteFilaments, CloseOK, Info, Infos
  <2> QED
    BY <1>9, <2>1 DEF DeleteFilaments, CloseOK, Info
<1>10. CASE InsertFilament
  BY <1>10, LeftTyped DEF InsertFilament, CloseOK, Info
<1> QED
  BY <1>2, <1>3, <1>4, <1>5, <1>6, <1>7, <1>8, <1>9, <1>10 DEF StoreNext

\* Everything but what the rows are worth.
TypesInv ==
  /\ MigrationInv
  /\ PlacesOK
  /\ TablesOK
  /\ CloseOK
  /\ FramesOK
  /\ FetchOK

LEMMA TypesInit == ASSUME StoreInit PROVE TypesInv
<1>1. MigrationInv /\ at = "down" /\ pc = "opening"
  BY MigrationInit DEF StoreInit, Init
<1>2. PlacesOK
  BY <1>1 DEF PlacesOK
<1>3. TablesOK
  <2>1. CASE rows = <<>> /\ filaments = <<>> /\ truth = <<>>
    BY <1>1, <2>1, EmptySeq DEF TablesOK, InHand, Watching, Fetching, Closing
  <2>2. CASE /\ rows = <<NewRow("running")>> /\ filaments = <<{}>>
             /\ truth = <<[from |-> 0, to |-> 0, slots |-> {}]>>
    <3>1. NewRow("running") \in Rows /\ [from |-> 0, to |-> 0, slots |-> {}] \in Truths
          /\ {} \in SUBSET Int
      BY NewRowTyped DEF Truths
    <3>2. rows \in Seq(Rows) /\ Len(rows) = 1
      <4> HIDE DEF NewRow
      <4> QED
        BY <2>2, <3>1
    <3>3. truth \in Seq(Truths) /\ Len(truth) = 1
      BY <2>2, <3>1
    <3>4. filaments \in Seq(SUBSET Int) /\ Len(filaments) = 1
      BY <2>2, <3>1
    <3> QED
      BY <1>1, <3>2, <3>3, <3>4 DEF TablesOK, InHand, Watching, Fetching, Closing
  <2> QED
    BY <2>1, <2>2 DEF StoreInit
<1>4. CloseOK
  BY <1>1, EmptySeq
  DEF StoreInit, CloseOK, NoClose, NoNotice, Infos, NoFigure, Consumptions, Methods
<1>5. FramesOK
  BY FramesAssumption, EmptySeq DEF StoreInit, FramesInit, FramesOK
<1>6. FetchOK
  <2>1. Len(Paths) \in Nat
    BY PathsKept, PathsCounted
  <2>2. troubled = FALSE /\ file_name = <<>> /\ path = 0 /\ read = 0 /\ kept = 0
    BY DEF StoreInit, FtpInit
  <2>3. troubled \in BOOLEAN /\ file_name \in FileNames \cup {<<>>}
    BY <2>2
  <2>4. path \in 0..Len(Paths) /\ read \in Nat /\ kept \in Nat /\ kept <= read
    BY <2>1, <2>2
  <2> QED
    BY <1>1, <2>2, <2>3, <2>4 DEF FetchOK, Fetching
<1> QED
  BY <1>1, <1>2, <1>3, <1>4, <1>5, <1>6 DEF TypesInv

LEMMA TypesStep == ASSUME TypesInv, [StoreNext]_storeVars PROVE TypesInv'
BY SchemaStep, PlacesStep, TablesStep, CloseStep, FramesStep, FetchStep DEF TypesInv

LEMMA TypesInvariant == StoreSpec => []TypesInv
BY TypesInit, TypesStep, PTL DEF StoreSpec

\* Every variable keeps its type, whatever the printer reports, the card
\* holds and the database refuses.
THEOREM StoreTypeCorrect == StoreSpec => []StoreTypeOK
<1>1. TypesInv => StoreTypeOK
  BY DEF TypesInv, MigrationInv, PlacesOK, TablesOK, CloseOK, FramesOK, FetchOK,
         StoreTypeOK
<1> QED
  BY <1>1, TypesInvariant, PTL

================================================================================
