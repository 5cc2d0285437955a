---------------------------- MODULE HistoryRowProofs ----------------------------
(***************************************************************************)
(* Theorems about PrintHistory: what the rows of the history are worth,    *)
(* wherever a close was cut off, and that they keep the promises of        *)
(* PrintLedger.                                                            *)
(***************************************************************************)
EXTENDS PrintHistoryProofs

-------------------------------------------------------------------------------
(* What is untouched by a step.                                            *)

\* A session keeps its row until it is let go of.
LEMMA CurrentKept ==
  ASSUME TypesInv, TablesOK', [StoreNext]_storeVars, InHand
  PROVE  Len(rows') = Len(rows) /\ Current' = Current /\ Current \in 1..Len(rows)
<1> USE DEF InHand, Watching, Fetching, Closing
<1>1. TablesOK /\ CloseOK /\ FramesOK /\ FetchOK /\ PlacesOK
  BY DEF TypesInv
<1>2. Current \in 1..Len(rows)
  BY <1>1, RowTyped
<1>3. CASE GoesDown \/ ArchiveRaises \/ InsertRefused \/ WriteFails
  BY <1>2, <1>3 DEF GoesDown, ArchiveRaises, Down, InsertRefused, WriteFails, Current
<1>4. CASE Watch \/ Analyzed \/ EndSession \/ Transfer \/ Notify \/ FilamentsSaved
           \/ UNCHANGED storeVars
  BY <1>2, <1>4 DEF Watch, Analyzed, EndSession, Transfer, Notify, FilamentsSaved,
              historyVars, storeVars, Current
<1>5. CASE Connect \/ TryNextPath \/ ArchiveObtained \/ DeleteFilaments \/ InsertFilament
  BY <1>2, <1>5 DEF Connect, TryNextPath, ArchiveObtained, DeleteFilaments,
              InsertFilament, Current
<1>6. CASE Finalize \/ SetSliceSource \/ StorePicture
  <2>1. rows' = rows \/ \E row \in Rows : rows' = Update(row)
    BY <1>1, <1>6, FinalizeEffect, SourceEffect, PictureEffect
  <2>2. Len(rows') = Len(rows)
    BY <1>1, <2>1, UpdateEffect
  <2> QED
    BY <1>2, <2>2 DEF Current
<1>7. ~OpenDatabase /\ ~Reconcile /\ ~ReconcileFails /\ ~StopWithoutHistory /\ ~InsertRunning
  BY <1>1 DEF OpenDatabase, Reconcile, ReconcileFails, StopWithoutHistory, InsertRunning,
           PlacesOK
<1> QED
  BY <1>3, <1>4, <1>5, <1>6, <1>7 DEF StoreNext

\* The rows that are no session's are left alone, but by a start.
LEMMA Elsewhere ==
  ASSUME TypesInv, [StoreNext]_storeVars, ~Reconcile,
         NEW s \in 1..Len(rows), InHand => s # Current
  PROVE  rows'[s] = rows[s] /\ filaments'[s] = filaments[s] /\ truth'[s] = truth[s]
<1> USE DEF InHand, Watching, Fetching, Closing
<1>1. TablesOK /\ CloseOK /\ FramesOK /\ FetchOK
  BY DEF TypesInv
<1>2. CASE OpenDatabase \/ ReconcileFails \/ StopWithoutHistory \/ GoesDown \/ ArchiveRaises
           \/ InsertRefused \/ WriteFails \/ UNCHANGED storeVars
  BY <1>2 DEF OpenDatabase, ReconcileFails, StopWithoutHistory, GoesDown, ArchiveRaises,
              Down, InsertRefused, WriteFails, EndClose, historyVars, storeVars
<1>3. CASE Analyzed \/ EndSession \/ Transfer \/ Notify \/ FilamentsSaved
  BY <1>3 DEF Analyzed, EndSession, Transfer, Notify, FilamentsSaved, historyVars
<1>4. CASE InsertRunning
  BY <1>1, <1>4, InsertEffect
<1>5. CASE Watch
  <2>1. UNCHANGED <<rows, filaments>> /\ InHand
    BY <1>5 DEF Watch
  <2> QED
    BY <1>1, <1>5, <2>1, CaptureEffect
<1>6. CASE Connect \/ TryNextPath \/ ArchiveObtained
  <2>1. UNCHANGED <<rows, filaments>> /\ InHand
    BY <1>6 DEF Connect, TryNextPath, ArchiveObtained
  <2> QED
    BY <1>1, <1>6, <2>1, FetchEnds, FetchedEffect
<1>7. CASE Finalize \/ SetSliceSource \/ StorePicture
  <2>1. UNCHANGED <<filaments, truth>> /\ InHand
    BY <1>7 DEF Finalize, SetSliceSource, StorePicture, EndClose
  <2>2. rows' = rows \/ \E row \in Rows : rows' = Update(row)
    BY <1>1, <1>7, FinalizeEffect, SourceEffect, PictureEffect
  <2> QED
    BY <1>1, <2>1, <2>2, UpdateEffect
<1>8. CASE DeleteFilaments \/ InsertFilament
  <2>1. UNCHANGED <<rows, truth>> /\ InHand
    BY <1>8 DEF DeleteFilaments, InsertFilament
  <2>2. s # Current /\ filaments \in Seq(SUBSET Int) /\ Len(filaments) = Len(rows)
    BY <1>1, <2>1 DEF TablesOK
  <2>3. filaments'[s] = filaments[s]
    BY <1>8, <2>2 DEF DeleteFilaments, InsertFilament
  <2> QED
    BY <2>1, <2>3
<1> QED
  BY <1>2, <1>3, <1>4, <1>5, <1>6, <1>7, <1>8 DEF StoreNext

-------------------------------------------------------------------------------
(* What a row tells.                                                       *)

\* A row, its slots in print_filaments, and the slots its archive names: what
\* holds of them in every state.  The inductive part is that a row whose end
\* was not recorded has nothing else recorded either.
Sound(row, slots, all) ==
  /\ ~row.ended => /\ row.consumed = NoFigure /\ row.source = "none"
                   /\ row.picture = NoPicture /\ slots = {}
  /\ row.ended => row.outcome \notin {"running", "missing"}
  /\ slots # {} => row.source = "ftps" /\ slots \subseteq all
  /\ row.picture # NoPicture => row.source # "none" /\ slots = all
  /\ SoundFigure(row.consumed, row.outcome)

RowsSound == \A s \in 1..Len(rows) : Sound(rows[s], filaments[s], truth[s].slots)

\* What a close has already written at each of its statements.
Due(place, row, slots, all) ==
  /\ place \in Watching \cup Fetching \cup {"finalize"} =>
       ~row.ended /\ row.outcome \in {"running", "missing"}
  /\ place \in Closing \ {"finalize"} => row.ended \/ row.outcome = "missing"
  /\ place \in Closing => row.picture = NoPicture
  /\ place \in {"source", "delete"} => slots = {}
  /\ place \in {"delete", "insert"} => (row.ended => row.source = "ftps")
  /\ place = "picture" => (row.ended => row.source # "none" /\ slots = all)

\* The slots of the archive are apart, and what has been inserted and what is
\* left make them up.
SlotsDue ==
  /\ pc \in {"notify"} \cup Closing =>
       /\ Info.kind # "raises"
       /\ truth[Current].slots = InfoSlots(Info)
       /\ Info.kind = "info" => Apart(Info.slots)
  /\ pc = "insert" =>
       /\ Apart(left)
       /\ \A i \in 1..Len(left) : left[i] \notin filaments[Current]
       /\ truth[Current].slots = filaments[Current] \cup {left[i] : i \in 1..Len(left)}

CurrentOK ==
  InHand => /\ Due(pc, Row, filaments[Current], truth[Current].slots)
            /\ SlotsDue

RowsInv == TypesInv /\ RowsSound /\ CurrentOK

LEMMA RowsInit == ASSUME StoreInit PROVE RowsInv
<1>1. TypesInv
  BY TypesInit
<1>2. CurrentOK
  BY DEF StoreInit, CurrentOK, InHand, Watching, Fetching, Closing
<1>3. RowsSound
  <2>1. CASE rows = <<>>
    BY <2>1 DEF RowsSound
  <2>2. CASE /\ rows = <<NewRow("running")>> /\ filaments = <<{}>>
    <3>1. Sound(NewRow("running"), {}, truth[1].slots)
      BY NewRowTyped, NoFigureSound DEF Sound
    <3>2. \A s \in 1..Len(rows) : s = 1
      <4> HIDE DEF NewRow
      <4> QED
        BY <2>2
    <3>3. rows[1] = NewRow("running") /\ filaments[1] = {}
      BY <2>2
    <3> QED
      BY <3>1, <3>2, <3>3 DEF RowsSound
  <2> QED
    BY <2>1, <2>2 DEF StoreInit
<1> QED
  BY <1>1, <1>2, <1>3 DEF RowsInv

\* A session may end without a word more to its row.
LEMMA SessionLet ==
  ASSUME RowsInv, ~InHand' PROVE CurrentOK'
BY DEF CurrentOK

\* The session in hand: its row stays sound and its close on course.
LEMMA CurrentStep ==
  ASSUME RowsInv, TypesInv', [StoreNext]_storeVars, InHand
  PROVE  Sound(rows[Current], filaments[Current], truth[Current].slots)' /\ CurrentOK'
<1> USE DEF InHand, Watching, Fetching, Closing
<1>1. TablesOK /\ CloseOK /\ FramesOK /\ FetchOK /\ PlacesOK /\ TablesOK'
  BY DEF RowsInv, TypesInv
<1>2. Len(rows') = Len(rows) /\ Current' = Current /\ Current \in 1..Len(rows)
  BY CurrentKept, <1>1 DEF RowsInv
<1>3. /\ Sound(Row, filaments[Current], truth[Current].slots)
      /\ Due(pc, Row, filaments[Current], truth[Current].slots)
      /\ SlotsDue
  BY <1>2 DEF RowsInv, RowsSound, CurrentOK, Row
<1>4. Row \in Rows
  BY <1>1, RowTyped
<1>5. Row' = rows'[Current]
  BY <1>2 DEF Row
<1>6. ASSUME UNCHANGED <<rows, filaments, truth>>
      PROVE  Sound(rows[Current], filaments[Current], truth[Current].slots)'
  BY <1>3, <1>6 DEF Current, Row
<1>7. CASE GoesDown \/ ArchiveRaises \/ InsertRefused \/ WriteFails
  <2>1. UNCHANGED <<rows, filaments, truth>> /\ ~InHand'
    BY <1>7 DEF GoesDown, ArchiveRaises, Down, InsertRefused, WriteFails, EndClose
  <2> QED
    BY <1>6, <2>1 DEF CurrentOK
<1>8. CASE Watch
  <2>1. /\ rows' = rows /\ filaments' = filaments /\ pc = "watch" /\ pc' \in Watching
        /\ truth'[Current].slots = truth[Current].slots
    BY <1>1, <1>8, CaptureEffect DEF Watch
  <2>2. Sound(rows[Current], filaments[Current], truth[Current].slots)'
    BY <1>2, <1>3, <2>1 DEF Row
  <2>3. Due(pc, Row, filaments[Current], truth[Current].slots)'
    BY <1>2, <1>3, <1>5, <2>1 DEF Due, Row
  <2>4. SlotsDue'
    BY <2>1 DEF SlotsDue
  <2> QED
    BY <2>2, <2>3, <2>4 DEF CurrentOK
<1>9. CASE Analyzed \/ EndSession \/ Transfer \/ UNCHANGED storeVars
  <2>1. /\ UNCHANGED <<rows, filaments, truth, left, closing>>
        /\ \/ pc' = pc
           \/ pc \in Watching /\ pc' \in Watching \cup {"connect"}
    BY <1>9 DEF Analyzed, EndSession, Transfer, historyVars, storeVars
  <2>2. Due(pc, Row, filaments[Current], truth[Current].slots)'
    BY <1>2, <1>3, <1>5, <2>1 DEF Due, Row
  <2>3. SlotsDue'
    BY <1>2, <1>3, <2>1 DEF SlotsDue, Info
  <2> QED
    BY <1>6, <2>1, <2>2, <2>3 DEF CurrentOK
<1>10. CASE Connect \/ TryNextPath \/ ArchiveObtained
  <2>1. /\ rows' = rows /\ filaments' = filaments /\ pc \in Fetching
        /\ pc' \in {"retrieve", "notify"}
    <3>1. UNCHANGED <<rows, filaments>> /\ pc \in Fetching
      BY <1>10 DEF Connect, TryNextPath, ArchiveObtained
    <3> QED
      BY <1>1, <1>10, <3>1, FetchEnds, FetchedEffect
  <2>2. filaments[Current] = {} /\ Row.picture = NoPicture /\ ~Row.ended
    BY <1>3, <2>1 DEF Due, Sound
  <2>3. Sound(rows[Current], filaments[Current], truth[Current].slots)'
    BY <1>2, <1>3, <2>1, <2>2 DEF Row, Sound
  <2>4. Due(pc, Row, filaments[Current], truth[Current].slots)'
    BY <1>2, <1>3, <1>5, <2>1 DEF Due, Row
  <2>5. SlotsDue'
    <3>1. CASE pc' = "retrieve"
      BY <3>1 DEF SlotsDue
    <3>2. CASE pc' = "notify"
      <4>1. PICK info \in Infos : Fetched(info) /\ (info.kind = "info" => Apart(info.slots))
        BY <1>1, <1>10, <3>2, FetchEnds
      <4>2. /\ truth'[Current].slots = InfoSlots(info)
            /\ closing'.info = info /\ info.kind # "raises"
        BY <1>1, <4>1, FetchedEffect
      <4> QED
        BY <1>2, <3>2, <4>1, <4>2 DEF SlotsDue, Info
    <3> QED
      BY <2>1, <3>1, <3>2
  <2> QED
    BY <2>3, <2>4, <2>5 DEF CurrentOK
<1>11. CASE Notify
  <2>1. /\ UNCHANGED <<rows, filaments, truth, left>> /\ pc = "notify" /\ pc' = "finalize"
    BY <1>11 DEF Notify
  <2>2. Info' = Info
    BY <1>1, <1>11 DEF Notify, Info, CloseOK
  <2>3. Due(pc, Row, filaments[Current], truth[Current].slots)'
    BY <1>2, <1>3, <1>5, <2>1 DEF Due, Row, Sound
  <2>4. SlotsDue'
    BY <1>2, <1>3, <2>1, <2>2 DEF SlotsDue
  <2> QED
    BY <1>6, <2>1, <2>3, <2>4 DEF CurrentOK
<1>12. CASE Finalize
  <2>1. /\ UNCHANGED <<filaments, truth, left, closing>>
        /\ pc = "finalize" /\ pc' = "source"
    BY <1>12 DEF Finalize
  <2>2. PICK row \in Rows :
           /\ rows' = Update(row)
           /\ row.ended /\ row.outcome \in Outcomes \ {"running"}
           /\ SoundFigure(row.consumed, row.outcome)
           /\ row.source = Row.source /\ row.picture = Row.picture
    BY <1>1, <1>12, FinalizeEffect
  <2>3. /\ Row.outcome = "missing" => rows'[Current] = Row
        /\ Row.outcome # "missing" => rows'[Current] = row
    BY <1>1, <2>2, UpdateEffect
  <2>4. ~Row.ended /\ Row.picture = NoPicture /\ filaments[Current] = {}
    BY <1>3, <2>1 DEF Due, Sound
  <2>5. Sound(rows[Current], filaments[Current], truth[Current].slots)'
    <3>1. Sound(row, filaments[Current], truth[Current].slots)
      BY <2>2, <2>4 DEF Sound, Outcomes
    <3> QED
      BY <1>2, <1>3, <2>1, <2>3, <3>1
  <2>6. Due(pc, Row, filaments[Current], truth[Current].slots)'
    BY <1>2, <1>5, <2>1, <2>2, <2>3, <2>4 DEF Due
  <2>7. SlotsDue'
    BY <1>2, <1>3, <2>1 DEF SlotsDue, Info
  <2> QED
    BY <2>5, <2>6, <2>7 DEF CurrentOK
<1>13. CASE SetSliceSource
  <2>1. /\ UNCHANGED <<filaments, truth, left, closing>> /\ pc = "source"
        /\ pc' = IF Info.kind = "info" THEN "delete" ELSE "picture"
    BY <1>13 DEF SetSliceSource
  <2>2. PICK row \in Rows :
           /\ rows' = Update(row)
           /\ row.source \in {"ftps", "unavailable"}
           /\ Info.kind = "info" => row.source = "ftps"
           /\ row.ended = Row.ended /\ row.outcome = Row.outcome
           /\ row.consumed = Row.consumed /\ row.picture = Row.picture
    BY <1>1, <1>13, SourceEffect
  <2>3. /\ Row.outcome = "missing" => rows'[Current] = Row
        /\ Row.outcome # "missing" => rows'[Current] = row
    BY <1>1, <2>2, UpdateEffect
  <2>4. /\ Row.ended \/ Row.outcome = "missing"
        /\ Row.picture = NoPicture /\ filaments[Current] = {}
    BY <1>3, <2>1 DEF Due
  <2>5. Row.outcome = "missing" => ~Row.ended
    BY <1>3 DEF Sound
  <2>6. Sound(rows[Current], filaments[Current], truth[Current].slots)'
    <3>1. Row.outcome # "missing" => Sound(row, filaments[Current], truth[Current].slots)
      BY <1>3, <2>2, <2>4 DEF Sound
    <3> QED
      BY <1>2, <1>3, <2>1, <2>3, <3>1
  <2>7. Info.kind # "info" => truth[Current].slots = {}
    BY <1>3, <2>1 DEF SlotsDue, InfoSlots
  <2>8. Due(pc, Row, filaments[Current], truth[Current].slots)'
    <3>1. CASE Info.kind = "info"
      BY <3>1, <1>2, <1>5, <2>1, <2>2, <2>3, <2>4, <2>5 DEF Due
    <3>2. CASE Info.kind # "info"
      BY <3>2, <1>2, <1>5, <2>1, <2>2, <2>3, <2>4, <2>5, <2>7 DEF Due
    <3> QED
      BY <3>1, <3>2
  <2>9. SlotsDue'
    BY <1>2, <1>3, <2>1 DEF SlotsDue, Info
  <2> QED
    BY <2>6, <2>8, <2>9 DEF CurrentOK
<1>14. CASE DeleteFilaments
  <2>1. /\ UNCHANGED <<rows, truth, closing>> /\ pc = "delete" /\ pc' = "insert"
        /\ filaments' = [filaments EXCEPT ![Current] = {}] /\ left' = Info.slots
    BY <1>14 DEF DeleteFilaments
  <2>2. filaments'[Current] = {} /\ filaments[Current] = {}
    BY <1>1, <1>3, <2>1, FilamentsEffect DEF Due
  <2>3. Sound(rows[Current], filaments[Current], truth[Current].slots)'
    BY <1>2, <1>3, <2>1, <2>2 DEF Row
  <2>4. Due(pc, Row, filaments[Current], truth[Current].slots)'
    BY <1>2, <1>3, <1>5, <2>1, <2>2 DEF Due, Row
  <2>5. Info.kind = "info" /\ Info.slots \in Seq(Int)
    BY <1>1, <2>1 DEF CloseOK, Info, Infos
  <2>6. SlotsDue'
    <3>1. truth[Current].slots = {Info.slots[i] : i \in 1..Len(Info.slots)}
      BY <1>3, <2>1, <2>5, LenProperties DEF SlotsDue, InfoSlots
    <3>2. Apart(Info.slots) /\ Info.kind # "raises"
          /\ truth[Current].slots = InfoSlots(Info)
      BY <1>3, <2>1, <2>5 DEF SlotsDue
    <3> QED
      BY <1>2, <2>1, <2>2, <2>5, <3>1, <3>2 DEF SlotsDue, Info
  <2> QED
    BY <2>3, <2>4, <2>6 DEF CurrentOK
<1>15. CASE InsertFilament
  <2> DEFINE slot == Head(left)
  <2>1. /\ UNCHANGED <<rows, truth, closing, pc>> /\ pc = "insert"
        /\ left # <<>> /\ ~Refuses(slot)
        /\ filaments' = [filaments EXCEPT ![Current] = filaments[Current] \cup {slot}]
        /\ left' = Tail(left)
    BY <1>15 DEF InsertFilament
  <2>2. slot \in Int /\ filaments[Current] \in SUBSET Int
    BY <1>1, <1>2, <2>1, LeftTyped DEF TablesOK
  <2>3. filaments'[Current] = filaments[Current] \cup {slot}
    BY <1>1, <2>1, <2>2, FilamentsEffect
  <2>4. /\ Apart(left)
        /\ \A i \in 1..Len(left) : left[i] \notin filaments[Current]
        /\ truth[Current].slots = filaments[Current] \cup {left[i] : i \in 1..Len(left)}
    BY <1>3, <2>1 DEF SlotsDue
  <2>5. /\ left \in Seq(Int) /\ Len(left) \in Nat \ {0} /\ slot = left[1]
        /\ Len(left') = Len(left) - 1
        /\ \A i \in 1..Len(left') : left'[i] = left[i + 1]
    BY <1>1, <2>1, HeadTailProperties, EmptySeq DEF CloseOK
  <2>6. Row.ended /\ Row.source = "ftps"
    BY <1>3, <2>1 DEF Due, Refuses
  <2>7. slot \in truth[Current].slots
    BY <2>4, <2>5
  <2>8. Sound(rows[Current], filaments[Current], truth[Current].slots)'
    <3>1. Row.picture = NoPicture
      BY <1>3, <2>1 DEF Due
    <3>2. filaments[Current] \subseteq truth[Current].slots
      BY <2>4
    <3> QED
      BY <1>2, <1>3, <2>1, <2>3, <2>6, <2>7, <3>1, <3>2 DEF Row, Sound
  <2>9. Due(pc, Row, filaments[Current], truth[Current].slots)'
    BY <1>2, <1>3, <1>5, <2>1 DEF Due, Row
  <2>10. SlotsDue'
    <3>1. Apart(left')
      <4> SUFFICES ASSUME NEW i \in 1..Len(left'), NEW j \in 1..Len(left'), i # j
                   PROVE  left'[i] # left'[j]
        BY DEF Apart
      <4>1. i + 1 \in 1..Len(left) /\ j + 1 \in 1..Len(left) /\ i + 1 # j + 1
        BY <2>5
      <4>2. left[i + 1] # left[j + 1]
        BY <2>4, <4>1 DEF Apart
      <4> QED
        BY <2>5, <4>2
    <3>2. \A i \in 1..Len(left') : left'[i] \notin filaments'[Current]
      BY <2>3, <2>4, <2>5 DEF Apart
    <3>3. truth[Current].slots = filaments'[Current] \cup {left'[i] : i \in 1..Len(left')}
      <4>1. \A i \in 1..Len(left) : i = 1 \/ (i - 1 \in 1..Len(left') /\ left'[i - 1] = left[i])
        BY <2>5
      <4>2. \A i \in 1..Len(left') : i + 1 \in 1..Len(left)
        BY <2>5
      <4>3. {left[i] : i \in 1..Len(left)} = {slot} \cup {left'[i] : i \in 1..Len(left')}
        <5>1. ASSUME NEW i \in 1..Len(left)
              PROVE  left[i] \in {slot} \cup {left'[k] : k \in 1..Len(left')}
          BY <2>5, <4>1
        <5>2. ASSUME NEW i \in 1..Len(left')
              PROVE  left'[i] \in {left[k] : k \in 1..Len(left)}
          BY <2>5, <4>2
        <5>3. slot \in {left[k] : k \in 1..Len(left)}
          BY <2>5
        <5> HIDE DEF slot
        <5> QED
          BY <5>1, <5>2, <5>3
      <4> HIDE DEF slot
      <4> QED
        BY <2>3, <2>4, <4>3
    <3> QED
      BY <1>2, <1>3, <2>1, <3>1, <3>2, <3>3 DEF SlotsDue, Info
  <2> QED
    BY <2>8, <2>9, <2>10 DEF CurrentOK
<1>16. CASE FilamentsSaved
  <2>1. /\ UNCHANGED <<rows, filaments, truth, left, closing>>
        /\ pc = "insert" /\ pc' = "picture" /\ left = <<>>
    BY <1>16 DEF FilamentsSaved
  <2>2. truth[Current].slots = filaments[Current]
    <3>1. 1..Len(left) = {}
      BY <2>1, EmptySeq
    <3>2. {left[i] : i \in 1..Len(left)} = {}
      BY <3>1
    <3>3. truth[Current].slots = filaments[Current] \cup {left[i] : i \in 1..Len(left)}
      BY <1>3, <2>1 DEF SlotsDue
    <3> QED
      BY <3>2, <3>3
  <2>3. Due(pc, Row, filaments[Current], truth[Current].slots)'
    BY <1>2, <1>3, <1>5, <2>1, <2>2 DEF Due, Row
  <2>4. SlotsDue'
    BY <1>2, <1>3, <2>1 DEF SlotsDue, Info
  <2> QED
    BY <1>6, <2>1, <2>3, <2>4 DEF CurrentOK
<1>17. CASE StorePicture
  <2>1. UNCHANGED <<filaments, truth>> /\ pc = "picture" /\ ~InHand'
    BY <1>17 DEF StorePicture, EndClose
  <2>2. CASE rows' = rows
    BY <1>6, <2>1, <2>2 DEF CurrentOK
  <2>3. CASE rows' # rows
    <3>1. PICK row \in Rows :
                 /\ rows' = Update(row)
                 /\ row.ended = Row.ended /\ row.outcome = Row.outcome
                 /\ row.consumed = Row.consumed /\ row.source = Row.source
      BY <1>1, <1>17, <2>3, PictureEffect
    <3>2. Row.outcome # "missing" /\ rows'[Current] = row
      BY <1>1, <2>3, <3>1, UpdateEffect DEF Update
    <3>3. Row.ended /\ Row.source # "none" /\ filaments[Current] = truth[Current].slots
      BY <1>3, <2>1, <3>2 DEF Due
    <3>4. Sound(row, filaments[Current], truth[Current].slots)
      BY <1>3, <3>1, <3>3 DEF Sound
    <3> QED
      BY <1>2, <2>1, <3>2, <3>4 DEF CurrentOK
  <2> QED
    BY <2>2, <2>3
<1>18. ~OpenDatabase /\ ~Reconcile /\ ~ReconcileFails /\ ~StopWithoutHistory /\ ~InsertRunning
  BY <1>1 DEF OpenDatabase, Reconcile, ReconcileFails, StopWithoutHistory, InsertRunning,
           PlacesOK
<1> QED
  BY <1>7, <1>8, <1>9, <1>10, <1>11, <1>12, <1>13, <1>14, <1>15, <1>16, <1>17, <1>18
  DEF StoreNext

\* Without a session in hand, only a start or a new print touches the tables.
LEMMA NobodysStep ==
  ASSUME [StoreNext]_storeVars, ~InHand, ~InsertRunning, ~Reconcile
  PROVE  UNCHANGED <<rows, filaments, truth>> /\ buffer' \in {buffer, <<>>} /\ ~InHand'
<1> USE DEF InHand, Watching, Fetching, Closing, frameVars
<1>1. CASE OpenDatabase \/ ReconcileFails \/ StopWithoutHistory \/ UNCHANGED storeVars
  BY <1>1 DEF OpenDatabase, ReconcileFails, StopWithoutHistory, historyVars, storeVars
<1>2. CASE GoesDown
  BY <1>2 DEF GoesDown, Down
<1>3. ~Watch /\ ~Analyzed /\ ~EndSession
  BY DEF Watch, Analyzed, EndSession
<1>4. ~Connect /\ ~Transfer /\ ~ArchiveObtained /\ ~TryNextPath /\ ~ArchiveRaises /\ ~Notify
  BY DEF Connect, Transfer, ArchiveObtained, TryNextPath, ArchiveRaises, Notify
<1>5. ~Finalize /\ ~SetSliceSource /\ ~DeleteFilaments /\ ~InsertFilament /\ ~FilamentsSaved
  BY DEF Finalize, SetSliceSource, DeleteFilaments, InsertFilament, FilamentsSaved
<1>6. ~InsertRefused /\ ~StorePicture /\ ~WriteFails
  BY DEF InsertRefused, StorePicture, WriteFails
<1> QED
  BY <1>1, <1>2, <1>3, <1>4, <1>5, <1>6 DEF StoreNext

LEMMA RowsStep == ASSUME RowsInv, [StoreNext]_storeVars PROVE RowsInv'
<1>1. TypesInv /\ TypesInv' /\ TablesOK /\ TablesOK' /\ FramesOK
  BY TypesStep DEF RowsInv, TypesInv
<1>2. CASE Reconcile
  <2>1. UNCHANGED <<filaments, truth>> /\ ~InHand'
    BY <1>2 DEF Reconcile, InHand, Watching, Fetching, Closing
  <2>2. ASSUME NEW s \in 1..Len(rows)
        PROVE  Sound(rows'[s], filaments[s], truth[s].slots)
    <3>1. Sound(rows[s], filaments[s], truth[s].slots)
      BY DEF RowsInv, RowsSound
    <3>2. CASE rows[s].outcome # "running"
      BY <1>1, <1>2, <3>1, <3>2, ReconcileEffect
    <3>3. CASE rows[s].outcome = "running"
      <4>1. ~rows[s].ended
        BY <3>1, <3>3 DEF Sound
      <4>2. rows'[s].ended = rows[s].ended /\ rows'[s].consumed = rows[s].consumed
            /\ rows'[s].source = rows[s].source /\ rows'[s].picture = rows[s].picture
        BY <1>1, <1>2, ReconcileEffect
      <4> QED
        BY <3>1, <4>1, <4>2, NoFigureSound DEF Sound
    <3> QED
      BY <3>2, <3>3
  <2>3. Len(rows') = Len(rows)
    BY <1>1, <1>2, ReconcileEffect
  <2> QED
    BY <1>1, <2>1, <2>2, <2>3 DEF RowsInv, RowsSound, CurrentOK
<1>3. CASE InsertRunning
  <2> DEFINE t == Len(rows')
  <2>1. /\ pc' = "watch" /\ t = Len(rows) + 1 /\ Len(rows) \in Nat
        /\ rows'[t] \in {NewRow("running"), NewRow("missing")}
        /\ filaments'[t] = {}
    BY <1>1, <1>3, InsertEffect DEF InsertRunning, TablesOK
  <2> HIDE DEF t
  <2>2. \A all : Sound(rows'[t], filaments'[t], all)
    BY <2>1, NewRowTyped, NoFigureSound DEF Sound
  <2>3. \A all : Due("watch", rows'[t], filaments'[t], all)
    BY <2>1, NewRowTyped DEF Due, Watching, Fetching, Closing
  <2>4. \A s \in 1..Len(rows) : Sound(rows'[s], filaments'[s], truth'[s].slots)
    BY <1>1, <1>3, InsertEffect DEF RowsInv, RowsSound
  <2>5. RowsSound'
    <3>1. \A s \in 1..t : s \in 1..Len(rows) \/ s = t
      BY <2>1
    <3> QED
      BY <2>2, <2>4, <3>1 DEF RowsSound, t
  <2>6. CurrentOK'
    <3>1. SlotsDue'
      BY <2>1 DEF SlotsDue, Closing
    <3> QED
      BY <2>1, <2>3, <3>1 DEF CurrentOK, Row, Current, t
  <2> QED
    BY <1>1, <2>5, <2>6 DEF RowsInv
<1>4. CASE ~Reconcile /\ ~InsertRunning /\ ~InHand
  <2>1. UNCHANGED <<rows, filaments, truth>> /\ ~InHand'
    BY <1>4, NobodysStep
  <2> QED
    BY <1>1, <2>1 DEF RowsInv, RowsSound, CurrentOK
<1>5. CASE ~Reconcile /\ ~InsertRunning /\ InHand
  <2>1. Len(rows') = Len(rows) /\ Current' = Current
    BY <1>1, <1>5, CurrentKept
  <2>2. Sound(rows'[Current], filaments'[Current], truth'[Current].slots) /\ CurrentOK'
    BY <1>1, <1>5, <2>1, CurrentStep
  <2>3. ASSUME NEW s \in 1..Len(rows), s # Current
        PROVE  Sound(rows'[s], filaments'[s], truth'[s].slots)
    BY <1>1, <1>5, <2>3, Elsewhere DEF RowsInv, RowsSound
  <2> QED
    BY <1>1, <2>1, <2>2, <2>3 DEF RowsInv, RowsSound
<1> QED
  BY <1>2, <1>3, <1>4, <1>5

LEMMA RowsInvariant == StoreSpec => []RowsInv
BY RowsInit, RowsStep, PTL DEF StoreSpec

\* A row with a picture is whole, wherever an earlier close was cut off.
THEOREM PicturesMeanWholeRows == StoreSpec => []PictureMeansWhole
<1>1. RowsInv => PictureMeansWhole
  BY DEF RowsInv, TypesInv, TablesOK, RowsSound, Sound, PictureMeansWhole
<1> QED
  BY <1>1, RowsInvariant, PTL

\* Filaments are an archive's and a settled row's, and a row whose end was not
\* recorded tells nothing.
THEOREM UnsettledRowsTellNothing == StoreSpec => []OnlySettledRowsTell
<1>1. RowsInv => OnlySettledRowsTell
  <2> SUFFICES ASSUME RowsInv, NEW s \in DOMAIN rows
               PROVE  /\ filaments[s] # {} =>
                           /\ rows[s].ended /\ rows[s].source = "ftps"
                           /\ filaments[s] \subseteq truth[s].slots
                      /\ ~rows[s].ended =>
                           /\ rows[s].consumed = NoFigure /\ rows[s].source = "none"
                           /\ rows[s].picture = NoPicture
    BY DEF OnlySettledRowsTell
  <2>1. s \in 1..Len(rows)
    BY DEF RowsInv, TypesInv, TablesOK
  <2>2. Sound(rows[s], filaments[s], truth[s].slots)
    BY <2>1 DEF RowsInv, RowsSound
  <2> QED
    BY <2>2 DEF Sound
<1> QED
  BY <1>1, RowsInvariant, PTL

\* No row claims more than the plan, and only a completed print the whole of it.
THEOREM NoRowOverclaims == StoreSpec => []FiguresWithinPlan
<1>1. RowsInv => FiguresWithinPlan
  <2> SUFFICES ASSUME RowsInv, NEW s \in DOMAIN rows
               PROVE  SoundFigure(rows[s].consumed, rows[s].outcome)
    BY DEF FiguresWithinPlan, SoundFigure
  <2>1. s \in 1..Len(rows)
    BY DEF RowsInv, TypesInv, TablesOK
  <2> QED
    BY <2>1 DEF RowsInv, RowsSound, Sound
<1> QED
  BY <1>1, RowsInvariant, PTL

-------------------------------------------------------------------------------
(* An undisturbed close is written to its end.                             *)

\* Every step counts its interruption, if it is one.
LEMMA InterruptionsCounted ==
  ASSUME [StoreNext]_storeVars PROVE interruptions' \in {interruptions, interruptions + 1}
<1>1. CASE Next
  BY <1>1 DEF Next, Start, Execute, Refuse, RaiseVersion, DatabaseError, Crash, Stop,
              Interruption
<1>2. CASE UNCHANGED interruptions \/ Interruption
  BY <1>2 DEF Interruption
<1>3. CASE UNCHANGED storeVars
  BY <1>3 DEF storeVars, vars
<1> QED
  BY <1>1, <1>2, <1>3, SchemaCases

\* The rows are written by the close alone.
LEMMA RowsKeptOpen ==
  ASSUME PlacesOK, [StoreNext]_storeVars, InHand, pc \notin Closing PROVE rows' = rows
<1> USE DEF InHand, Watching, Fetching, Closing
<1>1. CASE Watch \/ Analyzed \/ EndSession \/ Connect \/ TryNextPath \/ Transfer
           \/ ArchiveObtained \/ Notify
  BY <1>1 DEF Watch, Analyzed, EndSession, Connect, TryNextPath, Transfer,
              ArchiveObtained, Notify, historyVars
<1>2. CASE GoesDown \/ ArchiveRaises \/ UNCHANGED storeVars
  BY <1>2 DEF GoesDown, ArchiveRaises, Down, storeVars, historyVars
<1>3. ~OpenDatabase /\ ~Reconcile /\ ~ReconcileFails /\ ~StopWithoutHistory /\ ~InsertRunning
  BY DEF OpenDatabase, Reconcile, ReconcileFails, StopWithoutHistory, InsertRunning, PlacesOK
<1>4. ~Finalize /\ ~SetSliceSource /\ ~DeleteFilaments /\ ~InsertFilament /\ ~FilamentsSaved
  BY DEF Finalize, SetSliceSource, DeleteFilaments, InsertFilament, FilamentsSaved
<1>5. ~InsertRefused /\ ~StorePicture /\ ~WriteFails
  BY DEF InsertRefused, StorePicture, WriteFails
<1> QED
  BY <1>1, <1>2, <1>3, <1>4, <1>5 DEF StoreNext

\* The ways out of a close.
LEMMA CloseLeft ==
  ASSUME PlacesOK, [StoreNext]_storeVars, pc \in Closing, pc' \notin Closing
  PROVE  InsertRefused \/ StorePicture \/ Interruption
<1> USE DEF Watching, Fetching, Closing
<1>1. CASE WriteFails \/ GoesDown
  BY <1>1 DEF WriteFails, GoesDown
<1>2. ~Finalize /\ ~SetSliceSource /\ ~DeleteFilaments /\ ~InsertFilament /\ ~FilamentsSaved
      /\ ~UNCHANGED storeVars
  BY DEF Finalize, SetSliceSource, DeleteFilaments, InsertFilament, FilamentsSaved,
         storeVars, historyVars
<1>3. ~OpenDatabase /\ ~Reconcile /\ ~ReconcileFails /\ ~StopWithoutHistory /\ ~InsertRunning
  BY DEF OpenDatabase, Reconcile, ReconcileFails, StopWithoutHistory, InsertRunning, PlacesOK
<1>4. ~Watch /\ ~Analyzed /\ ~EndSession
  BY DEF Watch, Analyzed, EndSession
<1>5. ~Connect /\ ~Transfer /\ ~ArchiveObtained /\ ~TryNextPath /\ ~ArchiveRaises /\ ~Notify
  BY DEF Connect, Transfer, ArchiveObtained, TryNextPath, ArchiveRaises, Notify
<1> QED
  BY <1>1, <1>2, <1>3, <1>4, <1>5 DEF StoreNext

\* A row the close of which is over, and what a close without mishap makes of it.
Whole(row, slots, all) ==
  row.ended /\ (\A slot \in all : Storable(slot)) => row.source # "none" /\ slots = all

LEMMA UndisturbedStep ==
  ASSUME RowsInv, UndisturbedRowsAreWhole, [StoreNext]_storeVars
  PROVE  UndisturbedRowsAreWhole'
<1> SUFFICES ASSUME interruptions' = 0, NEW s \in DOMAIN rows',
                    s = Current' => pc' \notin Closing
             PROVE  Whole(rows'[s], filaments'[s], truth'[s].slots)
  BY DEF UndisturbedRowsAreWhole, Whole, Storable
<1>1. /\ TypesInv /\ TypesInv' /\ PlacesOK /\ TablesOK /\ TablesOK' /\ FramesOK
      /\ CloseOK
  BY RowsStep DEF RowsInv, TypesInv
<1>2. interruptions \in Nat
  BY InterruptionsAssumption DEF RowsInv, TypesInv, MigrationInv, TypeOK
<1>3. interruptions = 0 /\ ~Interruption
  BY <1>2, InterruptionsCounted DEF Interruption
<1>4. /\ DOMAIN rows = 1..Len(rows) /\ DOMAIN rows' = 1..Len(rows')
      /\ Len(rows) \in Nat /\ Len(rows') \in Nat
  BY <1>1 DEF TablesOK
<1>5. ASSUME s \in 1..Len(rows), s = Current => pc \notin Closing
      PROVE  Whole(rows[s], filaments[s], truth[s].slots)
  BY <1>3, <1>4, <1>5 DEF UndisturbedRowsAreWhole, Whole
<1>6. CASE Reconcile
  <2>1. UNCHANGED <<filaments, truth>> /\ pc = "reconcile" /\ s \in 1..Len(rows)
    BY <1>1, <1>4, <1>6, ReconcileEffect DEF Reconcile
  <2>2. rows'[s].ended = rows[s].ended /\ rows'[s].source = rows[s].source
    BY <1>1, <1>6, <2>1, ReconcileEffect
  <2>3. Whole(rows[s], filaments[s], truth[s].slots)
    BY <1>5, <2>1 DEF Closing
  <2> QED
    BY <2>1, <2>2, <2>3 DEF Whole
<1>7. CASE InsertRunning
  <2>1. pc = "idle" /\ Len(rows') = Len(rows) + 1
    BY <1>1, <1>7, InsertEffect DEF InsertRunning
  <2>2. CASE s = Len(rows')
    BY <1>1, <1>7, <2>2, InsertEffect, NewRowTyped DEF Whole
  <2>3. CASE s # Len(rows')
    <3>1. s \in 1..Len(rows)
      BY <1>4, <2>1, <2>3
    <3>2. Whole(rows[s], filaments[s], truth[s].slots)
      BY <1>5, <2>1, <3>1 DEF Closing
    <3> QED
      BY <1>1, <1>7, <3>1, <3>2, InsertEffect
  <2> QED
    BY <2>2, <2>3
<1>8. CASE ~Reconcile /\ ~InsertRunning /\ ~InHand
  <2>1. UNCHANGED <<rows, filaments, truth>>
    BY <1>8, NobodysStep
  <2> QED
    BY <1>4, <1>5, <1>8, <2>1 DEF InHand
<1>9. CASE ~Reconcile /\ ~InsertRunning /\ InHand
  <2>1. Len(rows') = Len(rows) /\ Current' = Current /\ s \in 1..Len(rows)
    BY <1>1, <1>4, <1>9, CurrentKept
  <2>2. CASE s # Current
    BY <1>1, <1>5, <1>9, <2>1, <2>2, Elsewhere
  <2>3. CASE s = Current /\ pc \notin Closing
    <3>1. rows' = rows
      BY <1>1, <1>9, <2>3, RowsKeptOpen
    <3>2. ~Row.ended
      BY <1>9, <2>3 DEF RowsInv, CurrentOK, Due, InHand
    <3> QED
      BY <2>3, <3>1, <3>2 DEF Whole, Row
  <2>4. CASE s = Current /\ pc \in Closing
    <3>1. /\ Sound(Row, filaments[s], truth[s].slots)
          /\ Due(pc, Row, filaments[s], truth[s].slots)
          /\ SlotsDue
      BY <1>9, <2>1, <2>4 DEF RowsInv, RowsSound, CurrentOK, Row
    <3>2. CASE InsertRefused
      <4>1. /\ UNCHANGED <<rows, filaments, truth>> /\ pc = "insert"
            /\ left # <<>> /\ Refuses(Head(left))
        BY <3>2 DEF InsertRefused, EndClose
      <4>2. 1 \in 1..Len(left) /\ Head(left) = left[1]
        BY <1>1, <4>1, EmptySeq DEF CloseOK
      <4>3. Head(left) \notin filaments[s] /\ Head(left) \in truth[s].slots
        BY <2>4, <3>1, <4>1, <4>2 DEF SlotsDue
      <4>4. Row.outcome = "missing" \/ ~Storable(Head(left))
        BY <2>4, <4>1, <4>3 DEF Refuses
      <4> QED
        BY <2>4, <3>1, <4>1, <4>3, <4>4 DEF Whole, Sound, Row
    <3>3. CASE StorePicture
      <4>1. UNCHANGED <<filaments, truth>> /\ pc = "picture"
        BY <3>3 DEF StorePicture, EndClose
      <4>2. rows'[s].ended = Row.ended /\ rows'[s].source = Row.source
        BY <1>1, <1>9, <2>4, <3>3, PictureEffect, UpdateEffect DEF Row
      <4> QED
        BY <3>1, <4>1, <4>2 DEF Whole, Due
    <3> QED
      BY <1>1, <1>3, <2>1, <2>4, <3>2, <3>3, CloseLeft
  <2> QED
    BY <2>2, <2>3, <2>4
<1> QED
  BY <1>6, <1>7, <1>8, <1>9

\* Only a crash, an error or an id no database takes cuts a close short: the
\* keys of print_filaments never collide, whatever the archive is.
THEOREM UndisturbedClosesAreWhole == StoreSpec => []UndisturbedRowsAreWhole
<1>1. StoreInit => UndisturbedRowsAreWhole
  <2> SUFFICES ASSUME StoreInit, NEW s \in DOMAIN rows PROVE ~rows[s].ended
    BY DEF UndisturbedRowsAreWhole
  <2> QED
    BY DEF StoreInit, NewRow
<1> QED
  BY <1>1, RowsInvariant, UndisturbedStep, PTL DEF StoreSpec

-------------------------------------------------------------------------------
(* The notice and the row.                                                 *)

\* Between the notice and the row, the notice already says what both will.
NoticeDue ==
  pc = "finalize" =>
    /\ closing.state # "IDLE" =>
         notice.outcome = DetermineOutcome(closing.state, None)
    /\ closing.state = "FINISH" => notice.consumed = WholePlan

LEMMA NoticeStep ==
  ASSUME RowsInv, NoticeDue, NoticeMatchesRow, [StoreNext]_storeVars
  PROVE  NoticeDue' /\ NoticeMatchesRow'
<1> USE DEF Watching, Fetching, Closing
<1>1. PlacesOK /\ TablesOK /\ CloseOK /\ FramesOK
  BY DEF RowsInv, TypesInv
<1>2. CASE pc' \notin Closing
  BY <1>2 DEF NoticeDue, NoticeMatchesRow
<1>3. CASE Notify
  <2>1. pc' = "finalize"
    BY <1>3 DEF Notify
  <2>2. PICK state \in FinalStates, figures \in Figures :
          /\ closing' = [closing EXCEPT !.state = state]
          /\ notice' = [outcome |-> DetermineOutcome(state, figures.progress),
                        consumed |-> Consumed(Info, figures,
                                       DetermineOutcome(state, figures.progress))]
    BY <1>3 DEF Notify
  <2>3. closing'.state = state /\ Info' = Info
    BY <1>1, <2>2 DEF CloseOK, Info
  <2>4. WholePlan' = WholePlan
    BY <2>3 DEF WholePlan
  <2>5. state # "IDLE" =>
          notice'.outcome = DetermineOutcome(state, None)
    BY <2>2, OutcomeSettled
  <2>6. state = "FINISH" => notice'.consumed = WholePlan
    BY <2>2, FinishCompletes, CompletedUsesPlan DEF Consumed, WholePlan
  <2> QED
    BY <2>1, <2>3, <2>4, <2>5, <2>6 DEF NoticeDue, NoticeMatchesRow
<1>4. CASE Finalize
  <2>1. UNCHANGED <<notice, closing>> /\ pc = "finalize" /\ pc' = "source"
    BY <1>4 DEF Finalize
  <2>2. PICK row \in Rows :
           /\ rows' = Update(row)
           /\ closing.state # "IDLE" =>
                row.outcome = DetermineOutcome(closing.state, None)
           /\ closing.state = "FINISH" => row.consumed = WholePlan
    BY <1>1, <1>4, FinalizeEffect
  <2>3. /\ Current' = Current
        /\ Row.outcome = "missing" => Row' = Row
        /\ Row.outcome # "missing" => Row' = row
    BY <1>1, <2>1, <2>2, UpdateEffect DEF InHand, Current, Row
  <2> QED
    BY <2>1, <2>2, <2>3 DEF NoticeDue, NoticeMatchesRow
<1>5. CASE SetSliceSource
  <2>1. UNCHANGED <<notice, closing>> /\ pc = "source"
    BY <1>5 DEF SetSliceSource
  <2>2. PICK row \in Rows :
           /\ rows' = Update(row)
           /\ row.outcome = Row.outcome /\ row.consumed = Row.consumed
    BY <1>1, <1>5, SourceEffect
  <2>3. Row'.outcome = Row.outcome /\ Row'.consumed = Row.consumed
    BY <1>1, <2>1, <2>2, UpdateEffect DEF InHand, Current, Row
  <2>4. pc' # "finalize"
    BY <1>5 DEF SetSliceSource
  <2> QED
    BY <2>1, <2>3, <2>4 DEF NoticeDue, NoticeMatchesRow
<1>6. CASE DeleteFilaments \/ InsertFilament \/ FilamentsSaved
  <2>1. UNCHANGED <<notice, closing, rows>> /\ pc \in {"delete", "insert"}
        /\ pc' \in {"insert", "picture"}
    BY <1>6 DEF DeleteFilaments, InsertFilament, FilamentsSaved
  <2> QED
    BY <2>1 DEF NoticeDue, NoticeMatchesRow, Row, Current
<1>7. CASE UNCHANGED storeVars
  BY <1>7 DEF storeVars, historyVars, NoticeDue, NoticeMatchesRow, Row, Current, WholePlan,
              Info
<1>8. ASSUME pc' \in Closing, ~Notify, ~Finalize, ~SetSliceSource, ~DeleteFilaments,
             ~InsertFilament, ~FilamentsSaved, ~UNCHANGED storeVars
      PROVE  FALSE
  <2>1. ~OpenDatabase /\ ~Reconcile /\ ~ReconcileFails /\ ~InsertRunning
    BY <1>8 DEF OpenDatabase, Reconcile, ReconcileFails, InsertRunning
  <2>2. ~StopWithoutHistory
    BY <1>1, <1>8 DEF StopWithoutHistory, PlacesOK, historyVars
  <2>3. ~Watch /\ ~Analyzed /\ ~EndSession
    BY <1>8 DEF Watch, Analyzed, EndSession
  <2>4. ~Connect /\ ~TryNextPath /\ ~ArchiveObtained /\ ~ArchiveRaises
    BY <1>8 DEF Connect, TryNextPath, SearchOn, Fetched, ArchiveObtained, ArchiveRaises, Down
  <2>5. ~Transfer
    BY <1>8 DEF Transfer, historyVars
  <2>6. ~InsertRefused /\ ~StorePicture /\ ~WriteFails /\ ~GoesDown
    BY <1>8 DEF InsertRefused, StorePicture, WriteFails, GoesDown, Down, EndClose
  <2> QED
    BY <1>8, <2>1, <2>2, <2>3, <2>4, <2>5, <2>6 DEF StoreNext
<1> QED
  BY <1>2, <1>3, <1>4, <1>5, <1>6, <1>7, <1>8

\* Discord and the history tell one end of a print that finished or failed,
\* whatever is reported between the two.
THEOREM NoticeTellsTheRow == StoreSpec => []NoticeMatchesRow
<1>1. StoreInit => NoticeDue /\ NoticeMatchesRow
  BY DEF StoreInit, NoticeDue, NoticeMatchesRow, Closing
<1> QED
  BY <1>1, RowsInvariant, NoticeStep, PTL DEF StoreSpec

-------------------------------------------------------------------------------
(* A settled row is final.                                                 *)

LEMMA SettledStep ==
  ASSUME RowsInv, [StoreNext]_storeVars, NEW s \in DOMAIN rows, rows[s].ended,
         s = Current => pc \notin Closing
  PROVE  rows'[s] = rows[s] /\ filaments'[s] = filaments[s]
<1>1. /\ TypesInv /\ TypesInv' /\ TablesOK /\ TablesOK' /\ FramesOK
  BY RowsStep DEF RowsInv, TypesInv
<1>2. s \in 1..Len(rows)
  BY <1>1 DEF TablesOK
<1>3. Sound(rows[s], filaments[s], truth[s].slots)
  BY <1>2 DEF RowsInv, RowsSound
<1>4. CASE Reconcile
  <2>1. filaments' = filaments
    BY <1>4 DEF Reconcile
  <2>2. rows[s].outcome # "running"
    BY <1>3 DEF Sound
  <2> QED
    BY <1>1, <1>2, <1>4, <2>1, <2>2, ReconcileEffect
<1>5. CASE ~Reconcile /\ (InHand => s # Current)
  BY <1>1, <1>2, <1>5, Elsewhere
<1>6. CASE InHand /\ s = Current
  BY <1>6 DEF RowsInv, CurrentOK, Due, Row, InHand
<1> QED
  BY <1>4, <1>5, <1>6

\* What a close has settled, no start, no crash and no other print rewrites.
THEOREM SettledRowsAreFinal == StoreSpec => SettledRowsStay
<1>1. RowsInv /\ [StoreNext]_storeVars =>
        \A s \in DOMAIN rows :
          rows[s].ended /\ (s = Current => pc \notin Closing) =>
            rows'[s] = rows[s] /\ filaments'[s] = filaments[s]
  BY SettledStep
<1> QED
  BY <1>1, RowsInvariant, PTL DEF StoreSpec, SettledRowsStay

-------------------------------------------------------------------------------
(* The rows keep the ledger.                                               *)

StateOf(row) == IF row.ended THEN "settled" ELSE row.outcome
StatesOf(table) == [s \in DOMAIN table |-> StateOf(table[s])]
Live == IF pc \in Watching \cup Fetching \cup {"finalize"} THEN Current ELSE 0
Up == pc \notin {"opening", "reconcile"}

RowStates == Outcomes \cup {"missing", "settled"}

LEMMA StateTyped == ASSUME NEW row \in Rows PROVE StateOf(row) \in RowStates
BY DEF Rows, StateOf, RowStates

LEMMA StatesTyped ==
  ASSUME NEW table \in Seq(Rows)
  PROVE  /\ StatesOf(table) \in Seq(RowStates) /\ Len(StatesOf(table)) = Len(table)
         /\ DOMAIN StatesOf(table) = 1..Len(table)
<1>1. Len(table) \in Nat /\ DOMAIN table = 1..Len(table)
      /\ \A s \in 1..Len(table) : table[s] \in Rows
  OBVIOUS
<1>2. StatesOf(table) \in [1..Len(table) -> RowStates]
  BY <1>1, StateTyped DEF StatesOf
<1>3. StatesOf(table) \in Seq(RowStates)
  BY <1>1, <1>2, SeqDef
<1> QED
  BY <1>1, <1>2, <1>3, LenProperties

\* Opening a row adds its state to the ledger.
LEMMA StatesAppended ==
  ASSUME NEW table \in Seq(Rows), NEW row \in Rows
  PROVE  StatesOf(Append(table, row)) = Append(StatesOf(table), StateOf(row))
<1> DEFINE l == StatesOf(table)
           longer == Append(table, row)
<1>1. /\ longer \in Seq(Rows) /\ Len(longer) = Len(table) + 1
      /\ \A i \in 1..Len(table) : longer[i] = table[i]
      /\ longer[Len(table) + 1] = row
  BY AppendProperties
<1>2. l \in Seq(RowStates) /\ Len(l) = Len(table)
      /\ DOMAIN StatesOf(longer) = 1..Len(table) + 1
  BY <1>1, StatesTyped
<1>3. StateOf(row) \in RowStates
  BY StateTyped
<1>4. /\ Append(l, StateOf(row)) \in Seq(RowStates)
      /\ Len(Append(l, StateOf(row))) = Len(table) + 1
      /\ \A i \in 1..Len(table) : Append(l, StateOf(row))[i] = l[i]
      /\ Append(l, StateOf(row))[Len(table) + 1] = StateOf(row)
  BY <1>2, <1>3, AppendProperties
<1>5. StatesOf(longer) \in Seq(RowStates) /\ Len(StatesOf(longer)) = Len(table) + 1
  BY <1>1, StatesTyped
<1>6. /\ \A i \in 1..Len(table) : l[i] = StateOf(table[i])
      /\ \A i \in 1..Len(table) + 1 : StatesOf(longer)[i] = StateOf(longer[i])
  <2>1. DOMAIN table = 1..Len(table) /\ DOMAIN longer = 1..Len(table) + 1
    BY <1>1
  <2> HIDE DEF longer
  <2> QED
    BY <2>1 DEF StatesOf
<1> HIDE DEF longer, l
<1>7. \A i \in 1..Len(table) + 1 : StatesOf(longer)[i] = Append(l, StateOf(row))[i]
  <2>1. \A i \in 1..Len(table) + 1 : i \in 1..Len(table) \/ i = Len(table) + 1
    OBVIOUS
  <2> QED
    BY <1>1, <1>4, <1>6, <2>1
<1> QED
  BY <1>4, <1>5, <1>7, SeqEqual DEF longer, l

\* Tables that agree on ended and outcome are the same ledger.
LEMMA StatesSame ==
  ASSUME NEW table \in Seq(Rows), NEW other \in Seq(Rows), Len(other) = Len(table),
         \A s \in 1..Len(table) : StateOf(other[s]) = StateOf(table[s])
  PROVE  StatesOf(other) = StatesOf(table)
<1>1. DOMAIN table = 1..Len(table) /\ DOMAIN other = 1..Len(table)
  OBVIOUS
<1> QED
  BY <1>1 DEF StatesOf

\* The session in hand never has more than its row's place in the ledger.
LEMMA LedgerStep ==
  ASSUME RowsInv, [StoreNext]_storeVars
  PROVE  [Ledger!LedgerNext]_(Ledger!lvars)
<1> DEFINE l == StatesOf(rows)
           lNext == StatesOf(rows')
<1> USE DEF Watching, Fetching, Closing
<1>1. /\ TypesInv /\ PlacesOK /\ TablesOK /\ CloseOK /\ FramesOK /\ TablesOK'
      /\ rows \in Seq(Rows) /\ rows' \in Seq(Rows)
  BY RowsStep DEF RowsInv, TypesInv, TablesOK
<1>2. /\ [s \in DOMAIN rows |-> LedgerState(s)] = l
      /\ [s \in DOMAIN rows |-> LedgerState(s)]' = lNext
  BY DEF LedgerState, StatesOf, StateOf
<1>3. ASSUME lNext = l, Live' = Live, Up' = Up
      PROVE  UNCHANGED Ledger!lvars
  BY <1>2, <1>3 DEF Ledger!lvars, Live, Up
<1>4. ASSUME lNext = l, Live' = 0, ~Up' PROVE Ledger!LedgerNext
  <2>1. Ledger!Stop
    BY <1>2, <1>4 DEF Ledger!Stop, Live, Up
  <2> QED
    BY <2>1 DEF Ledger!LedgerNext
<1>5. CASE OpenDatabase \/ ReconcileFails \/ StopWithoutHistory \/ UNCHANGED storeVars
  <2>1. rows' = rows /\ Up' = Up /\ Live' = Live
    BY <1>1, <1>5 DEF OpenDatabase, ReconcileFails, StopWithoutHistory, storeVars,
                      historyVars, Live, Up, Current
  <2> QED
    BY <1>3, <2>1
<1>6. CASE GoesDown \/ ArchiveRaises
  <2>1. rows' = rows /\ ~Up' /\ Live' = 0
    BY <1>6 DEF GoesDown, ArchiveRaises, Down, Up, Live
  <2> QED
    BY <1>4, <2>1
<1>7. CASE Reconcile
  <2>1. ~Up /\ Up' /\ Live' = Live
    BY <1>7 DEF Reconcile, Up, Live
  <2>2. lNext = [s \in DOMAIN l |-> IF l[s] = "running" THEN "unknown" ELSE l[s]]
    <3>1. /\ DOMAIN lNext = 1..Len(rows) /\ DOMAIN l = 1..Len(rows)
          /\ Len(rows') = Len(rows)
      BY <1>1, <1>7, ReconcileEffect, StatesTyped
    <3>2. ASSUME NEW s \in 1..Len(rows)
          PROVE  lNext[s] = IF l[s] = "running" THEN "unknown" ELSE l[s]
      <4>1. lNext[s] = StateOf(rows'[s]) /\ l[s] = StateOf(rows[s])
        BY <3>1 DEF StatesOf
      <4>2. /\ rows[s].outcome = "running" => rows'[s].outcome = "unknown"
            /\ rows[s].outcome # "running" => rows'[s] = rows[s]
            /\ rows'[s].ended = rows[s].ended
        BY <1>1, <1>7, ReconcileEffect
      <4>3. CASE rows[s].ended
        BY <4>1, <4>2, <4>3 DEF StateOf
      <4>4. CASE ~rows[s].ended
        BY <4>1, <4>2, <4>4 DEF StateOf
      <4> QED
        BY <4>3, <4>4
    <3>3. lNext = [s \in 1..Len(rows) |-> lNext[s]]
      BY <3>1 DEF StatesOf
    <3> HIDE DEF l, lNext
    <3> QED
      BY <3>1, <3>2, <3>3
  <2>3. Ledger!Start
    BY <1>2, <2>1, <2>2 DEF Ledger!Start, Up, Live
  <2> QED
    BY <2>3 DEF Ledger!LedgerNext
<1>8. CASE InsertRunning
  <2>1. PICK outcome \in {"running", "missing"} : rows' = Append(rows, NewRow(outcome))
    BY <1>8 DEF InsertRunning
  <2>2. NewRow(outcome) \in Rows /\ StateOf(NewRow(outcome)) = outcome
    BY NewRowTyped DEF StateOf
  <2>3. lNext = Append(l, outcome)
    BY <1>1, <2>1, <2>2, StatesAppended
  <2>4. Len(lNext) = Len(rows')
    BY <1>1, StatesTyped
  <2>5. Up /\ Up' /\ Live = 0 /\ Live' = Len(rows')
    BY <1>8 DEF InsertRunning, Up, Live, Current
  <2>6. Ledger!Open
    <3> HIDE DEF l, lNext
    <3> QED
      BY <1>2, <2>3, <2>4, <2>5 DEF Ledger!Open, Up, Live
  <2> QED
    BY <2>6 DEF Ledger!LedgerNext
<1>9. CASE Watch \/ Analyzed \/ EndSession \/ Transfer \/ Connect \/ TryNextPath
           \/ ArchiveObtained \/ Notify
  <2>1. /\ rows' = rows /\ pc \in Watching \cup Fetching
        /\ pc' \in Watching \cup Fetching \cup {"finalize"}
    BY <1>9 DEF Watch, Analyzed, EndSession, Transfer, Connect, TryNextPath, SearchOn,
                Fetched, ArchiveObtained, Notify, historyVars
  <2>2. Live' = Live /\ Up' = Up
    BY <2>1 DEF Live, Up, Current
  <2> QED
    BY <1>3, <2>1, <2>2
<1>10. CASE DeleteFilaments \/ InsertFilament \/ FilamentsSaved \/ InsertRefused
  <2>1. /\ rows' = rows /\ pc \in {"delete", "insert"}
        /\ pc' \in {"insert", "picture", "idle"}
    BY <1>10 DEF DeleteFilaments, InsertFilament, FilamentsSaved, InsertRefused, EndClose
  <2>2. Live' = Live /\ Up' = Up
    BY <2>1 DEF Live, Up
  <2> QED
    BY <1>3, <2>1, <2>2
<1>11. CASE SetSliceSource \/ StorePicture
  <2>1. /\ pc \in {"source", "picture"} /\ pc' \in {"delete", "picture", "idle"} /\ InHand
    BY <1>11 DEF SetSliceSource, StorePicture, EndClose, InHand
  <2>2. Live' = Live /\ Up' = Up
    BY <2>1 DEF Live, Up
  <2>3. CASE rows' = rows
    BY <1>3, <2>2, <2>3
  <2>4. CASE rows' # rows
    <3>1. PICK row \in Rows :
            rows' = Update(row) /\ row.ended = Row.ended /\ row.outcome = Row.outcome
      BY <1>1, <1>11, <2>4, SourceEffect, PictureEffect
    <3>2. /\ Len(rows') = Len(rows)
          /\ \A s \in 1..Len(rows) : s # Current => rows'[s] = rows[s]
          /\ rows'[Current] \in {row, rows[Current]}
      BY <1>1, <2>1, <3>1, UpdateEffect DEF Row
    <3>3. \A s \in 1..Len(rows) : StateOf(rows'[s]) = StateOf(rows[s])
      BY <3>1, <3>2 DEF StateOf, Row
    <3>4. lNext = l
      BY <1>1, <3>2, <3>3, StatesSame
    <3> QED
      BY <1>3, <2>2, <3>4
  <2> QED
    BY <2>3, <2>4
<1>12. CASE WriteFails
  <2>1. rows' = rows /\ pc' = "idle" /\ pc \in Closing
    BY <1>12 DEF WriteFails, EndClose
  <2>2. CASE pc # "finalize"
    <3>1. Live' = Live /\ Up' = Up
      BY <2>1, <2>2 DEF Live, Up
    <3> QED
      BY <1>3, <2>1, <3>1
  <2>3. CASE pc = "finalize"
    <3>1. Live # 0 /\ Live' = 0 /\ Up' = Up
      BY <1>1, <2>1, <2>3, RowTyped DEF Live, Up, InHand
    <3>2. Ledger!Release
      BY <1>2, <2>1, <3>1 DEF Ledger!Release, Live, Up
    <3> QED
      BY <3>2 DEF Ledger!LedgerNext
  <2> QED
    BY <2>2, <2>3
<1>13. CASE Finalize
  <2>1. pc = "finalize" /\ pc' = "source" /\ InHand
    BY <1>13 DEF Finalize, InHand
  <2>2. Current \in 1..Len(rows) /\ Row \in Rows
    BY <1>1, <2>1, RowTyped
  <2>3. Live = Current /\ Live # 0 /\ Live' = 0 /\ Up' = Up
    BY <2>1, <2>2 DEF Live, Up
  <2>4. \/ lNext = l
        \/ l[Current] = "running" /\ lNext = [l EXCEPT ![Current] = "settled"]
    <3>1. PICK row \in Rows : rows' = Update(row) /\ row.ended
      BY <1>1, <1>13, FinalizeEffect
    <3>2. CASE Row.outcome = "missing"
      BY <3>1, <3>2 DEF Update
    <3>3. CASE Row.outcome # "missing"
      <4>1. ~Row.ended /\ Row.outcome = "running"
        BY <2>1, <3>3 DEF RowsInv, CurrentOK, Due
      <4>2. DOMAIN l = 1..Len(rows) /\ l[Current] = StateOf(Row)
        BY <1>1, <2>2, StatesTyped DEF StatesOf, Row
      <4>3. /\ Len(rows') = Len(rows) /\ rows'[Current] = row
            /\ \A s \in 1..Len(rows) : s # Current => rows'[s] = rows[s]
        BY <1>1, <2>1, <3>1, <3>3, UpdateEffect
      <4>4. DOMAIN lNext = 1..Len(rows)
        BY <1>1, <4>3, StatesTyped
      <4>5. \A s \in 1..Len(rows) : lNext[s] = IF s = Current THEN "settled" ELSE l[s]
        <5>1. \A s \in 1..Len(rows) : lNext[s] = StateOf(rows'[s]) /\ l[s] = StateOf(rows[s])
          BY <4>2, <4>4 DEF StatesOf
        <5>2. StateOf(rows'[Current]) = "settled"
          BY <3>1, <4>3 DEF StateOf
        <5>3. ASSUME NEW s \in 1..Len(rows)
              PROVE  lNext[s] = IF s = Current THEN "settled" ELSE l[s]
          <6> HIDE DEF l, lNext
          <6> QED
            BY <4>3, <5>1, <5>2
        <5> QED
          BY <5>3
      <4>6. lNext = [s \in 1..Len(rows) |-> lNext[s]]
        BY <4>4 DEF StatesOf
      <4>7. l[Current] = "running"
        BY <4>1, <4>2 DEF StateOf
      <4>8. l = [s \in 1..Len(rows) |-> l[s]]
        BY <4>2 DEF StatesOf
      <4> HIDE DEF l, lNext
      <4> QED
        BY <2>2, <4>5, <4>6, <4>7, <4>8
    <3> QED
      BY <3>2, <3>3
  <2>5. Ledger!Release
    <3> HIDE DEF l, lNext
    <3> QED
      BY <1>2, <2>3, <2>4 DEF Ledger!Release, Live, Up
  <2> QED
    BY <2>5 DEF Ledger!LedgerNext
<1> QED
  BY <1>5, <1>6, <1>7, <1>8, <1>9, <1>10, <1>11, <1>12, <1>13 DEF StoreNext

\* The statements of PrintRepository, with their failures and the starts
\* between them, do to the rows what PrintLedger allows and no more.
THEOREM WritesImplementLedger == StoreSpec => WritesKeepLedger
BY RowsInvariant, LedgerStep, PTL DEF StoreSpec, WritesKeepLedger

-------------------------------------------------------------------------------
(* The pictures.                                                           *)

\* While a session is in hand its print owns the captures since its start:
\* the buffer is the latest of them, and the files show no others.
SessionFrames ==
  InHand =>
    /\ truth[Current].to = captures
    /\ truth[Current].from + Len(buffer) <= captures
    /\ \A i \in 1..Len(files) :
         files[i] = 0 \/ files[i] \in (truth[Current].from + 1)..captures

FramesInv ==
  /\ SessionFrames
  /\ ~InHand => buffer = <<>>
  /\ pc = "analyze" => buffer # <<>>
  /\ \A i \in 1..Len(buffer) : buffer[i] = captures - Len(buffer) + i

\* Letting go of a session empties the buffer, and only a new print takes one up.
LEMMA SessionEnds ==
  ASSUME PlacesOK, [StoreNext]_storeVars, InHand, ~InHand' PROVE buffer' = <<>>
<1> USE DEF InHand, Watching, Fetching, Closing
<1>1. CASE GoesDown \/ ArchiveRaises \/ InsertRefused \/ StorePicture \/ WriteFails
  BY <1>1 DEF GoesDown, ArchiveRaises, Down, InsertRefused, StorePicture, WriteFails,
              EndClose, ClearBuffer
<1>2. ~Watch /\ ~Analyzed /\ ~EndSession /\ ~Transfer /\ ~Notify /\ ~UNCHANGED storeVars
  BY DEF Watch, Analyzed, EndSession, Transfer, Notify, historyVars, storeVars
<1>3. ~Connect /\ ~TryNextPath /\ ~ArchiveObtained
  BY DEF Connect, TryNextPath, SearchOn, Fetched, ArchiveObtained
<1>4. ~Finalize /\ ~SetSliceSource /\ ~DeleteFilaments /\ ~InsertFilament /\ ~FilamentsSaved
  BY DEF Finalize, SetSliceSource, DeleteFilaments, InsertFilament, FilamentsSaved
<1>5. ~OpenDatabase /\ ~Reconcile /\ ~ReconcileFails /\ ~StopWithoutHistory /\ ~InsertRunning
  BY DEF OpenDatabase, Reconcile, ReconcileFails, StopWithoutHistory, InsertRunning, PlacesOK
<1> QED
  BY <1>1, <1>2, <1>3, <1>4, <1>5 DEF StoreNext

\* What a session in hand does to its frames.
LEMMA SessionGoesOn ==
  ASSUME PlacesOK, TablesOK, CloseOK, FetchOK, [StoreNext]_storeVars, InHand, InHand'
  PROVE  \/ Watch \/ Analyzed
         \/ /\ UNCHANGED frameVars /\ (pc' # "analyze" \/ pc' = pc)
            /\ truth'[Current].from = truth[Current].from
            /\ truth'[Current].to = truth[Current].to
<1> USE DEF InHand, Watching, Fetching, Closing
<1>1. CASE EndSession \/ Transfer \/ Notify \/ UNCHANGED storeVars
  BY <1>1 DEF EndSession, Transfer, Notify, historyVars, storeVars
<1>2. CASE Connect \/ TryNextPath \/ ArchiveObtained
  <2>1. UNCHANGED frameVars
    BY <1>2 DEF Connect, TryNextPath, ArchiveObtained
  <2>2. pc' # "analyze" /\ truth'[Current].from = truth[Current].from
        /\ truth'[Current].to = truth[Current].to
    BY <1>2, FetchEnds, FetchedEffect
  <2> QED
    BY <2>1, <2>2
<1>3. CASE Finalize \/ SetSliceSource \/ DeleteFilaments \/ InsertFilament \/ FilamentsSaved
  BY <1>3 DEF Finalize, SetSliceSource, DeleteFilaments, InsertFilament, FilamentsSaved
<1>4. ~GoesDown /\ ~ArchiveRaises /\ ~InsertRefused /\ ~StorePicture /\ ~WriteFails
  BY DEF GoesDown, ArchiveRaises, Down, InsertRefused, StorePicture, WriteFails, EndClose
<1>5. ~OpenDatabase /\ ~Reconcile /\ ~ReconcileFails /\ ~StopWithoutHistory /\ ~InsertRunning
  BY DEF OpenDatabase, Reconcile, ReconcileFails, StopWithoutHistory, InsertRunning, PlacesOK
<1> QED
  BY <1>1, <1>2, <1>3, <1>4, <1>5 DEF StoreNext

\* The buffer is shifted by one capture.
LEMMA CaptureShifts ==
  ASSUME FramesOK, CaptureFrame,
         \A i \in 1..Len(buffer) : buffer[i] = captures - Len(buffer) + i
  PROVE  /\ captures' = captures + 1 /\ captures \in Nat /\ Len(buffer) \in Nat
         /\ Len(buffer') \in 1..Len(buffer) + 1
         /\ \A i \in 1..Len(buffer') : buffer'[i] = captures' - Len(buffer') + i
<1>1. /\ captures \in Nat /\ captures' = captures + 1 /\ captures' \in 1..MaxCaptures
      /\ buffer \in Seq(1..MaxCaptures) /\ Len(buffer) \in Nat
  BY FramesAssumption DEF FramesOK, CaptureFrame
<1>2. CASE Ready
  <2>1. buffer # <<>> /\ Len(buffer) > 0
    BY <1>1, <1>2, FramesAssumption DEF Ready
  <2> DEFINE rest == Tail(buffer)
  <2>2. /\ rest \in Seq(1..MaxCaptures) /\ Len(rest) = Len(buffer) - 1
        /\ \A i \in 1..Len(rest) : rest[i] = buffer[i + 1]
    BY <1>1, <2>1, HeadTailProperties
  <2>3. buffer' = Append(rest, captures')
    BY <1>2 DEF CaptureFrame, Added
  <2> HIDE DEF rest
  <2>4. /\ Len(buffer') = Len(buffer)
        /\ \A i \in 1..Len(rest) : buffer'[i] = buffer[i + 1]
        /\ buffer'[Len(buffer)] = captures'
    BY <1>1, <2>1, <2>2, <2>3, AppendProperties
  <2>5. ASSUME NEW i \in 1..Len(buffer') PROVE buffer'[i] = captures' - Len(buffer') + i
    <3>1. CASE i = Len(buffer)
      BY <1>1, <2>4, <3>1
    <3>2. CASE i # Len(buffer)
      <4>1. i \in 1..Len(rest) /\ i + 1 \in 1..Len(buffer)
        BY <1>1, <2>2, <2>4, <3>2
      <4>2. buffer[i + 1] = captures - Len(buffer) + (i + 1)
        BY <4>1
      <4> QED
        BY <1>1, <2>4, <4>1, <4>2
    <3> QED
      BY <3>1, <3>2
  <2> QED
    BY <1>1, <2>1, <2>4, <2>5
<1>3. CASE ~Ready
  <2>1. buffer' = Append(buffer, captures')
    BY <1>3 DEF CaptureFrame, Added
  <2>2. /\ Len(buffer') = Len(buffer) + 1
        /\ \A i \in 1..Len(buffer) : buffer'[i] = buffer[i]
        /\ buffer'[Len(buffer) + 1] = captures'
    BY <1>1, <2>1, AppendProperties
  <2>3. ASSUME NEW i \in 1..Len(buffer') PROVE buffer'[i] = captures' - Len(buffer') + i
    <3>1. CASE i = Len(buffer) + 1
      BY <1>1, <2>2, <3>1
    <3>2. CASE i # Len(buffer) + 1
      <4>1. i \in 1..Len(buffer)
        BY <1>1, <2>2, <3>2
      <4>2. buffer[i] = captures - Len(buffer) + i
        BY <4>1
      <4> QED
        BY <1>1, <2>2, <4>1, <4>2
    <3> QED
      BY <3>1, <3>2
  <2> QED
    BY <1>1, <2>2, <2>3
<1> QED
  BY <1>2, <1>3

LEMMA FramesInvStep ==
  ASSUME RowsInv, FramesInv, [StoreNext]_storeVars PROVE FramesInv'
<1>1. /\ TypesInv /\ TypesInv' /\ PlacesOK /\ TablesOK /\ TablesOK' /\ CloseOK /\ FetchOK
      /\ FramesOK /\ FramesOK'
  BY RowsStep DEF RowsInv, TypesInv
<1>2. CASE ~InHand'
  <2>1. buffer' = <<>>
    <3>1. CASE InHand
      BY <1>1, <1>2, <3>1, SessionEnds
    <3>2. CASE ~InHand
      <4>1. ~InsertRunning
        BY <1>2 DEF InsertRunning, InHand, Watching
      <4>2. CASE Reconcile
        BY <3>2, <4>2 DEF FramesInv, Reconcile, frameVars
      <4>3. CASE ~Reconcile
        BY <3>2, <4>1, <4>3, NobodysStep DEF FramesInv
      <4> QED
        BY <4>2, <4>3
    <3> QED
      BY <3>1, <3>2
  <2>2. 1..Len(buffer') = {}
    BY <2>1, EmptySeq
  <2> QED
    BY <1>2, <2>1, <2>2 DEF FramesInv, SessionFrames, InHand, Watching
<1>3. CASE InHand' /\ ~InHand
  <2>1. InsertRunning
    <3>1. ~Reconcile
      BY <1>3 DEF Reconcile, InHand, Watching, Fetching, Closing
    <3> QED
      BY <1>3, <3>1, NobodysStep
  <2>2. /\ buffer' = <<>> /\ files' = <<>> /\ captures' = captures /\ pc' = "watch"
    BY <2>1 DEF InsertRunning, NewFrames, ClearBuffer
  <2>3. 1..Len(buffer') = {} /\ 1..Len(files') = {} /\ Len(buffer') = 0
    BY <2>2, EmptySeq
  <2>4. truth'[Current'].from = captures /\ truth'[Current'].to = captures
    BY <1>1, <2>1, InsertEffect DEF Current
  <2>5. captures \in Nat
    BY <1>1, FramesAssumption DEF FramesOK
  <2> QED
    BY <1>3, <2>2, <2>3, <2>4, <2>5 DEF FramesInv, SessionFrames
<1>4. CASE InHand' /\ InHand
  <2>1. Current' = Current /\ Current \in 1..Len(rows)
    BY <1>1, <1>4, CurrentKept
  <2>2. /\ truth[Current].to = captures
        /\ truth[Current].from + Len(buffer) <= captures
        /\ \A i \in 1..Len(files) :
             files[i] = 0 \/ files[i] \in (truth[Current].from + 1)..captures
        /\ \A i \in 1..Len(buffer) : buffer[i] = captures - Len(buffer) + i
        /\ pc = "analyze" => buffer # <<>>
    BY <1>4 DEF FramesInv, SessionFrames
  <2>3. /\ truth[Current].from \in Nat /\ captures \in Nat
        /\ Len(buffer) \in Nat /\ Len(files) \in Nat
    <3>1. truth[Current] \in Truths
      BY <1>1, <2>1 DEF TablesOK
    <3> QED
      BY <1>1, <3>1, FramesAssumption DEF Truths, FramesOK
  <2>4. CASE UNCHANGED frameVars /\ (pc' # "analyze" \/ pc' = pc)
             /\ truth'[Current].from = truth[Current].from
             /\ truth'[Current].to = truth[Current].to
    <3>1. captures' = captures /\ buffer' = buffer /\ files' = files
      BY <2>4 DEF frameVars
    <3> QED
      BY <1>4, <2>1, <2>2, <2>4, <3>1 DEF FramesInv, SessionFrames
  <2>5. CASE Watch
    <3>1. CaptureFrame /\ files' = files
      BY <2>5 DEF Watch, CaptureFrame
    <3>2. truth'[Current].to = captures' /\ truth'[Current].from = truth[Current].from
      BY <1>1, <2>5, CaptureEffect
    <3>3. /\ captures' = captures + 1
          /\ Len(buffer') \in 1..Len(buffer) + 1
          /\ \A i \in 1..Len(buffer') : buffer'[i] = captures' - Len(buffer') + i
      BY <1>1, <2>2, <3>1, CaptureShifts
    <3>4. buffer' # <<>>
      BY <2>3, <3>3, EmptySeq
    <3>5. truth[Current].from + Len(buffer') <= captures'
      BY <2>2, <2>3, <3>3
    <3>6. \A i \in 1..Len(files') :
             files'[i] = 0 \/ files'[i] \in (truth[Current].from + 1)..captures'
      BY <2>2, <2>3, <3>1, <3>3
    <3> QED
      BY <1>4, <2>1, <3>2, <3>3, <3>4, <3>5, <3>6 DEF FramesInv, SessionFrames
  <2>6. CASE Analyzed
    <3>1. /\ truth' = truth /\ captures' = captures /\ buffer' = buffer /\ pc' = "watch"
          /\ pc = "analyze"
          /\ files' \in {files, Append(files, captures), Append(files, 0)}
      BY <2>6 DEF Analyzed, SaveFrame, frameVars
    <3>2. captures \in (truth[Current].from + 1)..captures
      <4>1. Len(buffer) # 0
        BY <1>1, <2>2, <3>1, EmptySeq DEF FramesOK
      <4> QED
        BY <2>2, <2>3, <4>1
    <3>3. \A i \in 1..Len(files') :
             files'[i] = 0 \/ files'[i] \in (truth[Current].from + 1)..captures
      <4>1. files \in Seq(0..MaxCaptures) /\ captures \in 0..MaxCaptures
            /\ 0 \in 0..MaxCaptures
        BY <1>1, FramesAssumption DEF FramesOK
      <4>2. ASSUME NEW f \in {captures, 0}, files' = Append(files, f),
                   NEW i \in 1..Len(files')
            PROVE  files'[i] = 0 \/ files'[i] \in (truth[Current].from + 1)..captures
        <5>1. f \in 0..MaxCaptures
          BY <4>1, <4>2
        <5>2. /\ Len(files') = Len(files) + 1 /\ files'[Len(files) + 1] = f
              /\ \A j \in 1..Len(files) : files'[j] = files[j]
          BY <4>1, <4>2, <5>1, AppendProperties
        <5>3. i \in 1..Len(files) \/ i = Len(files) + 1
          BY <2>3, <5>2
        <5> QED
          BY <2>2, <3>2, <4>2, <5>2, <5>3
      <4> QED
        BY <2>2, <3>1, <4>2
    <3> QED
      BY <1>4, <2>1, <2>2, <3>1, <3>3 DEF FramesInv, SessionFrames
  <2> QED
    BY <1>1, <1>4, <2>4, <2>5, <2>6, SessionGoesOn
<1> QED
  BY <1>2, <1>3, <1>4

LEMMA FramesInvariant == StoreSpec => []FramesInv
<1>1. StoreInit => FramesInv
  <2> SUFFICES ASSUME StoreInit PROVE FramesInv
    OBVIOUS
  <2>1. buffer = <<>> /\ pc = "opening"
    BY DEF StoreInit, FramesInit
  <2>2. 1..Len(buffer) = {}
    BY <2>1, EmptySeq
  <2> QED
    BY <2>1, <2>2 DEF FramesInv, SessionFrames, InHand, Watching, Fetching, Closing
<1> QED
  BY <1>1, RowsInvariant, FramesInvStep, PTL DEF StoreSpec

\* The buffer handed to the model is the latest stretch of this print's
\* captures: no gap, no other print.
THEOREM BufferIsThePrints == StoreSpec => []BufferIsTimeline
<1>1. RowsInv /\ FramesInv => BufferIsTimeline
  <2> SUFFICES ASSUME RowsInv, FramesInv PROVE BufferIsTimeline
    OBVIOUS
  <2>1. /\ buffer \in Seq(1..MaxCaptures) /\ captures \in Nat
        /\ DOMAIN buffer = 1..Len(buffer) /\ Len(buffer) \in Nat
    BY FramesAssumption DEF RowsInv, TypesInv, FramesOK
  <2>2. ASSUME buffer # <<>> PROVE truth[Current].from < buffer[1]
    <3>1. InHand /\ Len(buffer) > 0 /\ 1 \in 1..Len(buffer)
      BY <2>1, <2>2, EmptySeq DEF FramesInv
    <3>2. buffer[1] = captures - Len(buffer) + 1
          /\ truth[Current].from + Len(buffer) <= captures
      BY <3>1 DEF FramesInv, SessionFrames
    <3>3. truth[Current].from \in Nat
      <4>1. Current \in 1..Len(truth) /\ truth \in Seq(Truths)
        BY <3>1, RowTyped DEF RowsInv, TypesInv, TablesOK
      <4>2. truth[Current] \in Truths
        BY <4>1
      <4> QED
        BY <4>2 DEF Truths
    <3> QED
      BY <2>1, <3>2, <3>3
  <2>3. \A i \in DOMAIN buffer : buffer[i] = captures - Len(buffer) + i
    BY <2>1 DEF FramesInv
  <2> QED
    BY <2>2, <2>3 DEF BufferIsTimeline
<1> QED
  BY <1>1, RowsInvariant, FramesInvariant, PTL

\* A row's picture and what its print had.
Depicts(picture, print) ==
  picture # NoPicture =>
    /\ print.from < print.to
    /\ picture.frame \in {0, print.to}
    /\ picture.file \in {0} \cup (print.from + 1)..print.to

\* The picture that a close stores is of the print it closes.
LEMMA FinalPictureDepicts ==
  ASSUME RowsInv, FramesInv, InHand, buffer # <<>>, NEW picture \in FinalPictures
  PROVE  Depicts(picture, truth[Current])
<1>1. /\ buffer \in Seq(1..MaxCaptures) /\ files \in Seq(0..MaxCaptures)
      /\ captures \in Nat /\ Len(buffer) \in Nat /\ Len(files) \in Nat
  BY FramesAssumption DEF RowsInv, TypesInv, FramesOK
<1>2. Len(buffer) \in 1..Len(buffer) /\ Len(buffer) > 0
  BY <1>1, EmptySeq
<1>3. LastOf(buffer) = captures
  <2>1. buffer[Len(buffer)] = captures - Len(buffer) + Len(buffer)
    BY <1>2 DEF FramesInv
  <2> QED
    BY <1>1, <2>1 DEF LastOf
<1>4. truth[Current].from \in Nat
  <2>1. Current \in 1..Len(truth) /\ truth \in Seq(Truths)
    BY RowTyped DEF RowsInv, TypesInv, TablesOK
  <2>2. truth[Current] \in Truths
    BY <2>1
  <2> QED
    BY <2>2 DEF Truths
<1>5. /\ truth[Current].to = captures
      /\ truth[Current].from + Len(buffer) <= captures
      /\ \A i \in 1..Len(files) :
           files[i] = 0 \/ files[i] \in (truth[Current].from + 1)..captures
  BY DEF FramesInv, SessionFrames
<1>6. LastOf(files) \in {0} \cup (truth[Current].from + 1)..captures
  <2>1. files # <<>> => Len(files) \in 1..Len(files)
    BY <1>1, EmptySeq
  <2> QED
    BY <1>5, <2>1 DEF LastOf
<1>7. picture.frame \in {0, LastOf(buffer)} /\ picture.file = LastOf(files)
  BY DEF FinalPictures
<1> QED
  BY <1>1, <1>2, <1>3, <1>4, <1>5, <1>6, <1>7 DEF Depicts

\* A close writes its picture last and no other way.
LEMMA PictureKept ==
  ASSUME TypesInv, [StoreNext]_storeVars, InHand, ~StorePicture
  PROVE  rows'[Current].picture = rows[Current].picture
<1> USE DEF InHand, Watching, Fetching, Closing
<1>1. TablesOK /\ PlacesOK
  BY DEF TypesInv
<1>2. CASE pc \notin Closing
  BY <1>1, <1>2, RowsKeptOpen
<1>3. CASE Finalize \/ SetSliceSource
  <2>1. PICK row \in Rows : rows' = Update(row) /\ row.picture = Row.picture
    BY <1>1, <1>3, FinalizeEffect, SourceEffect
  <2>2. rows'[Current] = Row \/ rows'[Current] = row
    BY <1>1, <2>1, UpdateEffect
  <2> QED
    BY <2>1, <2>2 DEF Row
<1>4. CASE DeleteFilaments \/ InsertFilament \/ FilamentsSaved \/ InsertRefused \/ WriteFails
  BY <1>4 DEF DeleteFilaments, InsertFilament, FilamentsSaved, InsertRefused, WriteFails
<1>5. CASE GoesDown \/ UNCHANGED storeVars
  BY <1>5 DEF GoesDown, Down, storeVars, historyVars
<1>6. ASSUME pc \in Closing
      PROVE  /\ ~Watch /\ ~Analyzed /\ ~EndSession /\ ~Connect /\ ~Transfer /\ ~Notify
             /\ ~TryNextPath /\ ~ArchiveObtained /\ ~ArchiveRaises
  BY <1>6 DEF Watch, Analyzed, EndSession, Connect, Transfer, Notify, TryNextPath,
              ArchiveObtained, ArchiveRaises
<1>7. ~OpenDatabase /\ ~Reconcile /\ ~ReconcileFails /\ ~StopWithoutHistory /\ ~InsertRunning
  BY <1>1 DEF OpenDatabase, Reconcile, ReconcileFails, StopWithoutHistory, InsertRunning,
              PlacesOK
<1> QED
  BY <1>2, <1>3, <1>4, <1>5, <1>6, <1>7 DEF StoreNext

LEMMA PictureStep ==
  ASSUME RowsInv, FramesInv, PictureOfItsPrint, [StoreNext]_storeVars
  PROVE  PictureOfItsPrint'
<1> SUFFICES ASSUME NEW s \in DOMAIN rows' PROVE Depicts(rows'[s].picture, truth'[s])
  BY DEF PictureOfItsPrint, Depicts
<1>1. /\ TypesInv /\ TypesInv' /\ PlacesOK /\ TablesOK /\ TablesOK' /\ FramesOK
      /\ DOMAIN rows = 1..Len(rows) /\ DOMAIN rows' = 1..Len(rows')
      /\ Len(rows) \in Nat /\ Len(rows') \in Nat
  BY RowsStep DEF RowsInv, TypesInv, TablesOK
<1>2. s \in 1..Len(rows) => Depicts(rows[s].picture, truth[s])
  BY <1>1 DEF PictureOfItsPrint, Depicts
<1>3. CASE Reconcile
  BY <1>1, <1>2, <1>3, ReconcileEffect DEF Reconcile
<1>4. CASE InsertRunning
  <2>1. CASE s = Len(rows')
    BY <1>1, <1>4, <2>1, InsertEffect, NewRowTyped DEF Depicts
  <2>2. CASE s # Len(rows')
    <3>1. Len(rows') = Len(rows) + 1 /\ s \in 1..Len(rows')
      BY <1>1, <1>4, InsertEffect
    <3>2. s \in 1..Len(rows)
      BY <1>1, <2>2, <3>1
    <3> QED
      BY <1>1, <1>2, <1>4, <3>2, InsertEffect
  <2> QED
    BY <2>1, <2>2
<1>5. CASE ~Reconcile /\ ~InsertRunning /\ ~InHand
  <2>1. rows' = rows /\ truth' = truth
    BY <1>5, NobodysStep
  <2> QED
    BY <1>1, <1>2, <2>1
<1>6. CASE ~Reconcile /\ ~InsertRunning /\ InHand
  <2>1. Len(rows') = Len(rows) /\ s \in 1..Len(rows) /\ Current \in 1..Len(rows)
    BY <1>1, <1>6, CurrentKept
  <2>2. CASE s # Current
    BY <1>1, <1>2, <1>6, <2>1, <2>2, Elsewhere
  <2>3. CASE s = Current
    <3>1. Row.picture = NoPicture
      BY <1>6, <2>1 DEF RowsInv, RowsSound, CurrentOK, Sound, Due, InHand, Row
    <3>2. CASE ~StorePicture
      BY <1>1, <1>6, <2>3, <3>1, <3>2, PictureKept DEF Depicts, Row
    <3>3. CASE StorePicture
      <4>1. truth' = truth
        BY <3>3 DEF StorePicture, EndClose
      <4>2. CASE rows' = rows
        BY <2>3, <3>1, <4>2 DEF Depicts, Row
      <4>3. CASE rows' # rows
        <5>1. PICK row \in Rows :
                buffer # <<>> /\ rows' = Update(row) /\ row.picture \in FinalPictures
          BY <1>1, <3>3, <4>3, PictureEffect
        <5>2. rows'[Current] = Row \/ rows'[Current] = row
          BY <1>1, <1>6, <5>1, UpdateEffect
        <5>3. Depicts(row.picture, truth[Current])
          BY <1>6, <5>1, FinalPictureDepicts
        <5> QED
          BY <2>3, <3>1, <4>1, <5>1, <5>2, <5>3 DEF Depicts
      <4> QED
        BY <4>2, <4>3
    <3> QED
      BY <3>2, <3>3
  <2> QED
    BY <2>2, <2>3
<1> QED
  BY <1>3, <1>4, <1>5, <1>6

\* A print is remembered by its own last frame, and by a file that shows it.
THEOREM PicturesAreTheirPrints == StoreSpec => []PictureOfItsPrint
<1>1. StoreInit => PictureOfItsPrint
  <2> SUFFICES ASSUME StoreInit, NEW s \in DOMAIN rows PROVE rows[s].picture = NoPicture
    BY DEF PictureOfItsPrint
  <2> QED
    BY DEF StoreInit, NewRow
<1> QED
  BY <1>1, RowsInvariant, FramesInvariant, PictureStep, PTL DEF StoreSpec

================================================================================
