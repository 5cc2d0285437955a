---------------------------------- MODULE Ams -----------------------------------
(***************************************************************************)
(* The filament slots of one report: parse_ams of app/bambu/ams.py.        *)
(*                                                                         *)
(* A block holds the trays of the AMS units and the external spool, each   *)
(* with what the printer says of its filament: "loaded" (a type or a       *)
(* colour), "empty" (neither) or "odd" (a colour that is no text).  An id  *)
(* is Absent when it is missing or no number.                              *)
(***************************************************************************)
EXTENDS Integers, Sequences

CONSTANT Absent

ASSUME AbsentAssumption == Absent \notin Int

TraysPerUnit == 4
ExternalSlot == -1

Spool == {"loaded", "empty", "odd"}
Tray == [id : Int \cup {Absent}, spool : Spool]
Unit == [id : Int \cup {Absent}, tray : Seq(Tray)]
Blocks == [ams : Seq(Unit), vt_tray : Spool \cup {Absent}]

IdOr(id, index) == IF id = Absent THEN index - 1 ELSE id

Number(block, u, t) ==
  IdOr(block.ams[u].id, u) * TraysPerUnit + IdOr(block.ams[u].tray[t].id, t)

Places(block) ==
  UNION {{<<u, t>> : t \in DOMAIN block.ams[u].tray} : u \in DOMAIN block.ams}

Loaded(block) == {p \in Places(block) : block.ams[p[1]].tray[p[2]].spool = "loaded"}

\* normalize_color strips what is no text, although parse_ams "never raises".
ParseRaises(block) ==
  \/ \E p \in Places(block) : block.ams[p[1]].tray[p[2]].spool = "odd"
  \/ block.vt_tray = "odd"

ParseAms(block) ==
  {Number(block, p[1], p[2]) : p \in Loaded(block)}
    \cup IF block.vt_tray = "loaded" THEN {ExternalSlot} ELSE {}
================================================================================
