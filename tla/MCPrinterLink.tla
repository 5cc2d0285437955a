----------------------------- MODULE MCPrinterLink -----------------------------
(***************************************************************************)
(* A printer with two prints for TLC to check PrinterLink with.            *)
(***************************************************************************)
EXTENDS PrinterLink

Moment(state, figure, name, trays) ==
  [state |-> state, figure |-> figure, subtask_name |-> name,
   gcode_file |-> "Metadata/plate_1.gcode", trays |-> trays]

Loads(id, spool) == [id |-> id, spool |-> spool]

\* Two units, the second by its place, with and without the external spool;
\* one unit; nothing at all; and a colour that is no text, of a tray or
\* of the external spool.
TwoUnits(external) ==
  [ams |-> <<[id |-> 0, tray |-> <<Loads(1, "loaded"), Loads(2, "empty")>>],
             [id |-> Absent, tray |-> <<Loads(Absent, "loaded")>>]>>,
   vt_tray |-> external]
OneUnit ==
  [ams |-> <<[id |-> 0, tray |-> <<Loads(2, "loaded")>>]>>, vt_tray |-> Absent]
NothingLoaded == [ams |-> <<>>, vt_tray |-> "empty"]
OddColour == [ams |-> <<[id |-> 0, tray |-> <<Loads(0, "odd")>>]>>, vt_tray |-> "loaded"]

SomeMoments ==
  {Moment("RUNNING", 60, "Mask", TwoUnits("loaded")),
   Moment("FINISH", 100, "Mask", TwoUnits("empty")),
   Moment("RUNNING", 1, "Vase", NothingLoaded),
   Moment("RUNNING", 1, "Box", OddColour),
   Moment("RUNNING", 3, "Lid", TwoUnits("odd")),
   Moment("RUNNING", 2, Blank, OneUnit)}
================================================================================
