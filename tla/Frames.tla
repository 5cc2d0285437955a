--------------------------------- MODULE Frames ---------------------------------
(***************************************************************************)
(* The pictures of a print: SnapshotBuffer of app/detection/history.py,    *)
(* the frame files of a session directory (app/storage/session.py) and the *)
(* picture a closed print is remembered by (app/detection/monitor.py).     *)
(*                                                                         *)
(* Captures are numbered as the camera delivers them, over all sessions.   *)
(* This module has the steps; PrintHistory says when they are taken.       *)
(***************************************************************************)
EXTENDS Naturals, Sequences

CONSTANTS
  FrameHistory,       \* Settings.frame_history, the capacity of the buffer
  SaveFrames,         \* Settings.save_frames
  StoreFinalFrame,    \* Settings.store_final_frame
  MaxSessionFrames,   \* Settings.max_session_frames
  MaxCaptures         \* bound: captures of a run

ASSUME FramesAssumption ==
  /\ FrameHistory \in Nat \ {0} /\ MaxSessionFrames \in Nat /\ MaxCaptures \in Nat
  /\ {SaveFrames, StoreFinalFrame} \subseteq BOOLEAN

VARIABLES
  captures,   \* how many frames the camera has delivered
  buffer,     \* the deque of the last ones
  saved,      \* session._saved_frames
  files       \* frames/NNNN.jpg in order: the capture in each, 0 if it is torn

frameVars == <<captures, buffer, saved, files>>

FramesInit == captures = 0 /\ buffer = <<>> /\ saved = 0 /\ files = <<>>

Ready == Len(buffer) >= FrameHistory

\* Mutant: a buffer that keeps what it has.
KeepBuffer == UNCHANGED buffer

ClearBuffer == buffer' = <<>>

\* Mutant: the newest frame takes the place of the newest.
AddedAtEnd(frame) ==
  IF Ready THEN [buffer EXCEPT ![Len(buffer)] = frame] ELSE Append(buffer, frame)

\* deque(maxlen=capacity): the oldest frame is pushed out.
Added(frame) == Append(IF Ready THEN Tail(buffer) ELSE buffer, frame)

\* A session starts with its own directory and an empty buffer.
NewFrames ==
  /\ ClearBuffer
  /\ saved' = 0 /\ files' = <<>>
  /\ UNCHANGED captures

CaptureFrame ==
  /\ captures < MaxCaptures
  /\ captures' = captures + 1
  /\ buffer' = Added(captures')
  /\ UNCHANGED <<saved, files>>

\* Mutant: one frame more than the cap.
SaveFrameOverCap ==
  IF ~SaveFrames \/ saved > MaxSessionFrames
  THEN UNCHANGED frameVars
  ELSE /\ saved' = saved + 1
       /\ files' = Append(files, captures)
       /\ UNCHANGED <<captures, buffer>>

\* save_frame: the number is taken whether or not the file can be written,
\* and a disk that fills up leaves no file or a torn one.
SaveFrame ==
  IF ~SaveFrames \/ saved >= MaxSessionFrames
  THEN UNCHANGED frameVars
  ELSE /\ saved' = saved + 1
       /\ \/ files' = Append(files, captures)
          \/ UNCHANGED files
          \/ files' = Append(files, 0)
       /\ UNCHANGED <<captures, buffer>>

NoPicture == [frame |-> 0, file |-> 0]

LastOf(s) == IF s = <<>> THEN 0 ELSE s[Len(s)]

\* _store_final_frame: a copy of the last frame of the buffer, if it can be
\* scaled down, and the path of the last file, if there is one.
FinalPictures == [frame : {LastOf(buffer), 0}, file : {LastOf(files)}]

HasPicture == StoreFinalFrame /\ buffer # <<>>
================================================================================
