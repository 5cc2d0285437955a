-------------------------------- MODULE SliceInfo -------------------------------
(***************************************************************************)
(* The filaments of a sliced archive: parse_slice_info_xml and             *)
(* extract_slice_info of app/bambu/slice_info.py.                          *)
(*                                                                         *)
(* A <filament> element is represented by its id, the number the           *)
(* attribute reads as, in tenths: Absent when there is none or it is no    *)
(* number at all, Endless for the "nan" and "inf" that float() takes and   *)
(* int() refuses.  weighed says whether any element carries a weight.      *)
(* Colours, types and the sums themselves are left out.                    *)
(***************************************************************************)
EXTENDS Integers, Sequences

CONSTANTS Absent, Endless

ASSUME IdsAssumption ==
  Absent \notin Int /\ Endless \notin Int /\ Absent # Endless

RawIds == Int \cup {Absent, Endless}

\* A file that is no archive, or holds no XML, is unreadable; some damage to
\* its compressed data raises what the code does not expect.
Contents == {"readable", "unreadable", "damaged"}
Archives == [content : Contents, ids : Seq(RawIds), weighed : BOOLEAN]

\* int() of a float drops the fraction.
Truncated(tenths) == IF tenths >= 0 THEN tenths \div 10 ELSE -((-tenths) \div 10)

\* An element without an id takes its place in the file as its slot.
Resolved(ids, i) == IF ids[i] = Absent THEN i ELSE Truncated(ids[i])

\* Mutant: only ids that are written in the file are compared.
RepeatedAsWritten(ids, i) == \E j \in 1..(i - 1) : ids[j] # Absent /\ ids[j] = ids[i]

Repeated(ids, i) ==
  /\ ids[i] # Endless
  /\ \E j \in 1..(i - 1) : ids[j] # Endless /\ Resolved(ids, j) = Resolved(ids, i)

\* The elements are read in order: a repeated slot gives the file up, but an
\* endless id before that raises.
Raises(ids) ==
  \E i \in DOMAIN ids : ids[i] = Endless /\ \A j \in 1..(i - 1) : ~Repeated(ids, j)

Slots(ids) == [i \in DOMAIN ids |-> Resolved(ids, i)]

Unusable(ids) == ids = <<>> \/ \E i \in DOMAIN ids : Repeated(ids, i)

\* parse_slice_info_xml.
Filaments(ids, weighed) ==
  IF Raises(ids) THEN [kind |-> "raises"]
  ELSE IF Unusable(ids) THEN [kind |-> "none"]
  ELSE [kind |-> "info", slots |-> Slots(ids), weighed |-> weighed]

\* extract_slice_info.
Parse(archive) ==
  CASE archive.content = "unreadable" -> [kind |-> "none"]
    [] archive.content = "damaged" -> [kind |-> "raises"]
    [] archive.content = "readable" -> Filaments(archive.ids, archive.weighed)
================================================================================
