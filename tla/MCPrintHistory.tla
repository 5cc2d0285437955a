----------------------------- MODULE MCPrintHistory -----------------------------
(***************************************************************************)
(* The readings and archives with which TLC checks PrintHistory.           *)
(***************************************************************************)
EXTENDS PrintHistory, TLC

Reading(p, l, t) == [progress |-> p, layer |-> l, total_layers |-> t]

\* Nothing known, just short of done, done, and a layer past the last.
SomeFigures == {Reading(None, None, None), Reading(98, 1, 2), Reading(99, 3, 2)}

Archive(ids, weighed) == [content |-> "readable", ids |-> ids, weighed |-> weighed]

NoArchive == [content |-> "unreadable", ids |-> <<>>, weighed |-> FALSE]

ThreeSlots == Archive(<<10, Absent, 35>>, TRUE)

File(size, archive) == [size |-> size, archive |-> archive]

Shouted == <<"GCODE", "3MF">>

SomeNames == {<<>>, <<"gcode">>, <<"gcode", "3mf">>, Shouted}

SomeDirs == <<"/", "/cache">>

Spelled3mf == <<"3mf">>
SpelledBoth == <<"gcode", "3mf">>

HalfStorable == Archive(<<10, 990>>, FALSE)

\* Both spellings in the second directory; an oversized and an empty file
\* before a usable one, which has no weights and an id out of range; an
\* element without an id whose place is another's slot, beside a file in
\* capitals; a file that is no archive, beside one in capitals with an id no
\* slot can be made of; an empty card.
SomeCards ==
  {(<<"/cache", SpelledBoth>> :> File(1, ThreeSlots))
     @@ (<<"/cache", Spelled3mf>> :> File(1, HalfStorable)),
   (<<"/", Spelled3mf>> :> File(2, ThreeSlots))
     @@ (<<"/", SpelledBoth>> :> File(0, NoArchive))
     @@ (<<"/cache", SpelledBoth>> :> File(1, HalfStorable)),
   (<<"/", SpelledBoth>> :> File(1, Archive(<<20, Absent, 50>>, TRUE)))
     @@ (<<"/", Shouted>> :> File(1, ThreeSlots)),
   (<<"/", Spelled3mf>> :> File(1, NoArchive))
     @@ (<<"/", Shouted>> :> File(1, Archive(<<10, Endless>>, TRUE))),
   <<>>}
================================================================================
