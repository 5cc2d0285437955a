------------------------------- MODULE FetchProofs -------------------------------
(***************************************************************************)
(* Theorems about the search of PrintHistory and FtpClient: which of the   *)
(* files on the card the slice info of a print comes from.                 *)
(***************************************************************************)
EXTENDS PrintHistoryProofs

-------------------------------------------------------------------------------
(* The candidate names.                                                    *)

Plain == <<"3mf">>
Sliced == <<"gcode", "3mf">>
ReportedNames ==
  {<<>>} \cup {<<s>> : s \in GcodeSuffix \cup ArchiveSuffix}
         \cup {<<g, a>> : g \in GcodeSuffix, a \in ArchiveSuffix}

LEMMA SpellingsDiffer ==
  /\ Plain # Sliced /\ Len(Plain) = 1 /\ Len(Sliced) = 2
  /\ Plain[1] = "3mf" /\ Sliced[2] = "3mf" /\ Sliced[1] = "gcode"
BY DEF Plain, Sliced

\* An archive's ending is no G-code's.
LEMMA SuffixesDiffer == ArchiveSuffix \cap GcodeSuffix = {}
BY DEF ArchiveSuffix, GcodeSuffix

LEMMA StemIsEmpty ==
  ASSUME NEW name \in ReportedNames PROVE Stem(name) = <<>>
<1> USE DEF Stripped, EndsWith
<1>1. \A S : Stripped(<<>>, S) = <<>>
  OBVIOUS
<1>2. ASSUME NEW s, NEW S PROVE Stripped(<<s>>, S) = IF s \in S THEN <<>> ELSE <<s>>
  <2>1. Len(<<s>>) = 1 /\ <<s>>[1] = s /\ <<s>> # <<>>
    OBVIOUS
  <2>2. SubSeq(<<s>>, 1, Len(<<s>>) - 1) = <<>>
    BY <2>1
  <2> QED
    BY <2>1, <2>2
<1>3. ASSUME NEW g \in GcodeSuffix, NEW a \in ArchiveSuffix
      PROVE  Stripped(<<g, a>>, ArchiveSuffix) = <<g>>
  <2> DEFINE rest == SubSeq(<<g, a>>, 1, 1)
             S == GcodeSuffix \cup ArchiveSuffix
  <2>1. <<g, a>> \in Seq(S) /\ <<g>> \in Seq(S) /\ Len(<<g>>) = 1 /\ Len(<<g, a>>) = 2
    OBVIOUS
  <2>2. rest \in Seq(S) /\ Len(rest) = 1 /\ rest[1] = <<g, a>>[1]
    BY <2>1, SubSeqProperties
  <2>3. Stripped(<<g, a>>, ArchiveSuffix) = rest
    BY <2>1
  <2> HIDE DEF rest
  <2>4. \A i \in 1..1 : rest[i] = <<g>>[i]
    BY <2>2
  <2> QED
    BY <2>1, <2>2, <2>3, <2>4, SeqEqual
<1> HIDE DEF Stripped, EndsWith
<1>4. CASE name = <<>>
  BY <1>1, <1>4 DEF Stem
<1>5. ASSUME NEW s \in GcodeSuffix \cup ArchiveSuffix, name = <<s>> PROVE Stem(name) = <<>>
  BY <1>1, <1>2, <1>5, SuffixesDiffer DEF Stem
<1>6. ASSUME NEW g \in GcodeSuffix, NEW a \in ArchiveSuffix, name = <<g, a>>
      PROVE  Stem(name) = <<>>
  BY <1>2, <1>3, <1>6 DEF Stem
<1> QED
  BY <1>4, <1>5, <1>6 DEF ReportedNames

\* A reported name that is an archive's comes first, then the shorter of the
\* two usual ones.
LEMMA Spellings ==
  ASSUME NEW name \in ReportedNames
  PROVE  \/ /\ CandidateNames(name) = <<Plain, Sliced>>
            /\ name # Sliced /\ ArchiveNames(name) = {Plain, Sliced}
         \/ /\ CandidateNames(name) = <<Sliced, Plain>>
            /\ name = Sliced /\ ArchiveNames(name) = {Plain, Sliced}
         \/ /\ CandidateNames(name) = <<name, Plain, Sliced>>
            /\ name \notin {Plain, Sliced} /\ ArchiveNames(name) = {name, Plain, Sliced}
<1>1. Append(Stem(name), "3mf") = Plain /\ Stem(name) \o <<"gcode", "3mf">> = Sliced
  <2>1. Stem(name) = <<>>
    BY StemIsEmpty
  <2> QED
    BY <2>1 DEF Plain, Sliced
<1>2. EndsWith(Sliced, ArchiveSuffix) /\ EndsWith(Plain, ArchiveSuffix)
  BY DEF EndsWith, Sliced, Plain, ArchiveSuffix
<1>3. ArchiveNames(name) =
        {Plain, Sliced} \cup {n \in {name} : EndsWith(n, ArchiveSuffix)}
  BY DEF ArchiveNames, Plain, Sliced
<1>4. CASE ~EndsWith(name, ArchiveSuffix)
  <2>1. CandidateNames(name) = <<Plain, Sliced>>
    BY <1>1, <1>4 DEF CandidateNames
  <2> QED
    BY <1>2, <1>3, <1>4, <2>1
<1>5. CASE name = Plain
  <2>1. CandidateNames(name) = <<Plain, Sliced>>
    BY <1>1, <1>5 DEF CandidateNames
  <2> QED
    BY <1>3, <1>5, <2>1, SpellingsDiffer
<1>6. CASE name = Sliced
  <2>1. CandidateNames(name) = <<Sliced, Plain>>
    BY <1>1, <1>2, <1>6, SpellingsDiffer DEF CandidateNames
  <2> QED
    BY <1>3, <1>6, <2>1
<1>7. CASE EndsWith(name, ArchiveSuffix) /\ name \notin {Plain, Sliced}
  <2>1. CandidateNames(name) = <<name, Plain, Sliced>>
    BY <1>1, <1>7 DEF CandidateNames
  <2> QED
    BY <1>3, <1>7, <2>1
<1> QED
  BY <1>4, <1>5, <1>6, <1>7

\* The candidates are the names an archive may have, in the order of the
\* search.
LEMMA SpellingsOrdered ==
  ASSUME NEW name \in ReportedNames
  PROVE  LET names == CandidateNames(name) IN
         /\ Len(names) \in {2, 3}
         /\ \A j \in 1..Len(names) : names[j] \in ArchiveNames(name)
         /\ \A n \in ArchiveNames(name) : \E j \in 1..Len(names) : names[j] = n
         /\ \A i \in 1..Len(names), j \in 1..Len(names) :
              i < j => IF name \in {names[i], names[j]} THEN names[i] = name
                       ELSE Len(names[i]) < Len(names[j])
<1> DEFINE names == CandidateNames(name)
<1>1. CASE names = <<Plain, Sliced>> /\ name # Sliced /\ ArchiveNames(name) = {Plain, Sliced}
  <2>1. Len(names) = 2 /\ names[1] = Plain /\ names[2] = Sliced
    BY <1>1
  <2> HIDE DEF names
  <2>2. \A j \in 1..2 : names[j] \in ArchiveNames(name)
    BY <1>1, <2>1
  <2>3. \A i \in 1..2, j \in 1..2 : i < j => i = 1 /\ j = 2
    OBVIOUS
  <2>4. \A n \in ArchiveNames(name) : \E j \in 1..2 : names[j] = n
    BY <1>1, <2>1
  <2>5. IF name \in {names[1], names[2]} THEN names[1] = name
        ELSE Len(names[1]) < Len(names[2])
    <3>1. Len(Plain) < Len(Sliced)
      BY SpellingsDiffer
    <3>2. Len(names[1]) < Len(names[2])
      BY <2>1, <3>1, Zenon
    <3> QED
      BY <1>1, <2>1, <3>2
  <2> QED
    BY <2>1, <2>2, <2>3, <2>4, <2>5 DEF names
<1>2. CASE names = <<Sliced, Plain>> /\ name = Sliced /\ ArchiveNames(name) = {Plain, Sliced}
  <2>1. Len(names) = 2 /\ names[1] = Sliced /\ names[2] = Plain
    BY <1>2
  <2> HIDE DEF names
  <2>2. \A j \in 1..2 : names[j] \in ArchiveNames(name)
    BY <1>2, <2>1
  <2>3. \A i \in 1..2, j \in 1..2 : i < j => i = 1 /\ j = 2
    OBVIOUS
  <2>4. \A n \in ArchiveNames(name) : \E j \in 1..2 : names[j] = n
    BY <1>2, <2>1
  <2> QED
    BY <1>2, <2>1, <2>2, <2>3, <2>4 DEF names
<1>3. CASE /\ names = <<name, Plain, Sliced>> /\ name \notin {Plain, Sliced}
           /\ ArchiveNames(name) = {name, Plain, Sliced}
  <2>1. Len(names) = 3 /\ names[1] = name /\ names[2] = Plain /\ names[3] = Sliced
    BY <1>3
  <2> HIDE DEF names
  <2>2. \A j \in 1..3 : names[j] \in ArchiveNames(name)
    BY <1>3, <2>1
  <2>3. \A i \in 1..3, j \in 1..3 : i < j => i = 1 \/ (i = 2 /\ j = 3)
    OBVIOUS
  <2>4. \A n \in ArchiveNames(name) : \E j \in 1..3 : names[j] = n
    BY <1>3, <2>1
  <2>5. \A i \in 1..3, j \in 1..3 :
          i < j => IF name \in {names[i], names[j]} THEN names[i] = name
                   ELSE Len(names[i]) < Len(names[j])
    <3> SUFFICES ASSUME NEW i \in 1..3, NEW j \in 1..3, i < j
                 PROVE  IF name \in {names[i], names[j]} THEN names[i] = name
                        ELSE Len(names[i]) < Len(names[j])
      OBVIOUS
    <3>1. CASE i = 1
      BY <2>1, <3>1
    <3>2. CASE i = 2 /\ j = 3
      <4>1. name \notin {names[i], names[j]}
        BY <1>3, <2>1, <3>2
      <4>2. names[i] = Plain /\ names[j] = Sliced
        BY <2>1, <3>2
      <4>3. Len(Plain) < Len(Sliced)
        BY SpellingsDiffer
      <4>4. Len(names[i]) < Len(names[j])
        BY <4>2, <4>3, Zenon
      <4> QED
        BY <4>1, <4>4
    <3> QED
      BY <2>3, <3>1, <3>2
  <2> QED
    BY <2>1, <2>2, <2>4, <2>5 DEF names
<1> QED
  BY <1>1, <1>2, <1>3, Spellings

-------------------------------------------------------------------------------
(* The paths.                                                              *)

\* Where the k-th path stands with n candidate names: its directory, and
\* which of the names.
Directory(k, n) == ((k - 1) \div n) + 1
Spelling(k, n) == ((k - 1) % n) + 1

LEMMA PlaceOfPath ==
  ASSUME NEW d \in Nat, NEW n \in {2, 3}, NEW k \in 1..(d * n)
  PROVE  Directory(k, n) \in 1..d /\ Spelling(k, n) \in 1..n
<1>1. CASE n = 2
  BY <1>1 DEF Directory, Spelling
<1>2. CASE n = 3
  BY <1>2 DEF Directory, Spelling
<1> QED
  BY <1>1, <1>2

LEMMA PathAtPlace ==
  ASSUME NEW d \in Nat, NEW n \in {2, 3}, NEW i \in 1..d, NEW j \in 1..n
  PROVE  \E k \in 1..(d * n) : Directory(k, n) = i /\ Spelling(k, n) = j
<1> DEFINE k == n * (i - 1) + j
<1>1. k \in 1..(d * n) /\ Directory(k, n) = i /\ Spelling(k, n) = j
  <2>1. CASE n = 2
    BY <2>1 DEF Directory, Spelling
  <2>2. CASE n = 3
    BY <2>2 DEF Directory, Spelling
  <2> QED
    BY <2>1, <2>2
<1> HIDE DEF k
<1> QED
  BY <1>1

LEMMA PathsPaired ==
  ASSUME NEW name \in ReportedNames
  PROVE  LET n == Len(CandidateNames(name)) IN
         /\ Len(FtpDirs) \in Nat /\ n \in {2, 3}
         /\ Len(PathsOf(name)) = Len(FtpDirs) * n
         /\ \A k \in 1..(Len(FtpDirs) * n) :
              PathsOf(name)[k] =
                <<FtpDirs[Directory(k, n)], CandidateNames(name)[Spelling(k, n)]>>
<1> DEFINE n == Len(CandidateNames(name))
<1>1. Len(FtpDirs) \in Nat /\ n \in {2, 3}
  BY FtpAssumption, SpellingsOrdered
<1>2. Len(PathsOf(name)) = Len(FtpDirs) * n
  BY PathsCounted
<1>3. PathsOf(name) = [k \in 1..(Len(FtpDirs) * n) |->
        <<FtpDirs[((k - 1) \div n) + 1], CandidateNames(name)[((k - 1) % n) + 1]>>]
  BY DEF PathsOf
<1> HIDE DEF n
<1>4. \A k \in 1..(Len(FtpDirs) * n) :
        PathsOf(name)[k] =
          <<FtpDirs[Directory(k, n)], CandidateNames(name)[Spelling(k, n)]>>
  BY <1>3 DEF Directory, Spelling
<1> QED
  BY <1>1, <1>2, <1>4 DEF n

\* Every usable file is on the paths of the search.
LEMMA UsableIsOnPath ==
  ASSUME file_name \in ReportedNames, card \in Cards, NEW f \in UsableFiles
  PROVE  \E k \in 1..Len(Paths) : f = Paths[k]
<1> DEFINE names == CandidateNames(file_name)
           n == Len(names)
<1>1. /\ f \in DOMAIN card /\ f[2] \in ArchiveNames(file_name)
      /\ \E i \in DOMAIN FtpDirs : f[1] = FtpDirs[i]
  BY DEF UsableFiles
<1>2. f = <<f[1], f[2]>>
  BY <1>1, FtpAssumption
<1>3. PICK i \in 1..Len(FtpDirs) : f[1] = FtpDirs[i]
  BY <1>1, FtpAssumption
<1>4. PICK j \in 1..n : f[2] = names[j]
  BY <1>1, SpellingsOrdered
<1>5. /\ Len(FtpDirs) \in Nat /\ n \in {2, 3}
      /\ Len(Paths) = Len(FtpDirs) * n
      /\ \A k \in 1..(Len(FtpDirs) * n) :
           Paths[k] = <<FtpDirs[Directory(k, n)], names[Spelling(k, n)]>>
  BY PathsPaired, PathsKept
<1> HIDE DEF n, names
<1>6. PICK k \in 1..(Len(FtpDirs) * n) : Directory(k, n) = i /\ Spelling(k, n) = j
  BY <1>5, PathAtPlace
<1>7. Paths[k] = <<f[1], f[2]>> /\ k \in 1..Len(Paths)
  BY <1>3, <1>4, <1>5, <1>6
<1> QED
  BY <1>2, <1>7

\* A file that is on the card, neither empty nor over the cap, is usable if it
\* is on a path.
LEMMA PathIsUsable ==
  ASSUME file_name \in ReportedNames, NEW k \in 1..Len(Paths),
         Paths[k] \in DOMAIN card, card[Paths[k]].size \in 1..MaxFetchBytes
  PROVE  Paths[k] \in UsableFiles
<1> DEFINE names == CandidateNames(file_name)
           n == Len(names)
<1>1. /\ Len(FtpDirs) \in Nat /\ n \in {2, 3} /\ k \in 1..(Len(FtpDirs) * n)
      /\ Paths[k] = <<FtpDirs[Directory(k, n)], names[Spelling(k, n)]>>
  BY PathsPaired, PathsKept
<1>2. \A j \in 1..n : names[j] \in ArchiveNames(file_name)
  BY SpellingsOrdered
<1> HIDE DEF n, names
<1>3. Directory(k, n) \in 1..Len(FtpDirs) /\ Spelling(k, n) \in 1..n
  BY <1>1, PlaceOfPath
<1>4. /\ Paths[k][1] = FtpDirs[Directory(k, n)]
      /\ Paths[k][2] \in ArchiveNames(file_name)
  BY <1>1, <1>2, <1>3
<1>5. Directory(k, n) \in DOMAIN FtpDirs
  BY <1>3, FtpAssumption
<1> QED
  BY <1>4, <1>5 DEF UsableFiles

\* The order of the paths is the order of the search.
LEMMA EarlierIsSearchedBefore ==
  ASSUME file_name \in ReportedNames, NEW k \in 1..Len(Paths), NEW l \in 1..Len(Paths),
         k < l
  PROVE  SearchedBefore(Paths[k], Paths[l])
<1> DEFINE names == CandidateNames(file_name)
           n == Len(names)
<1>1. /\ Len(FtpDirs) \in Nat /\ n \in {2, 3}
      /\ k \in 1..(Len(FtpDirs) * n) /\ l \in 1..(Len(FtpDirs) * n)
      /\ Paths[k] = <<FtpDirs[Directory(k, n)], names[Spelling(k, n)]>>
      /\ Paths[l] = <<FtpDirs[Directory(l, n)], names[Spelling(l, n)]>>
  BY PathsPaired, PathsKept
<1>2. \A i \in 1..n, j \in 1..n :
        i < j => IF file_name \in {names[i], names[j]} THEN names[i] = file_name
                 ELSE Len(names[i]) < Len(names[j])
  BY SpellingsOrdered
<1> HIDE DEF n, names
<1>3. /\ Directory(k, n) \in 1..Len(FtpDirs) /\ Directory(l, n) \in 1..Len(FtpDirs)
      /\ Spelling(k, n) \in 1..n /\ Spelling(l, n) \in 1..n
  BY <1>1, PlaceOfPath
<1>4. \/ Directory(k, n) < Directory(l, n)
      \/ Directory(k, n) = Directory(l, n) /\ Spelling(k, n) < Spelling(l, n)
  <2>1. CASE n = 2
    BY <1>1, <2>1 DEF Directory, Spelling
  <2>2. CASE n = 3
    BY <1>1, <2>2 DEF Directory, Spelling
  <2> QED
    BY <1>1, <2>1, <2>2
<1>5. /\ Paths[k][1] = FtpDirs[Directory(k, n)] /\ Paths[l][1] = FtpDirs[Directory(l, n)]
      /\ Paths[k][2] = names[Spelling(k, n)] /\ Paths[l][2] = names[Spelling(l, n)]
  BY <1>1
<1>6. CASE Directory(k, n) < Directory(l, n)
  <2>1. Directory(k, n) \in DOMAIN FtpDirs /\ Directory(l, n) \in DOMAIN FtpDirs
    BY <1>3, FtpAssumption
  <2> QED
    BY <1>5, <1>6, <2>1 DEF SearchedBefore
<1>7. CASE Directory(k, n) = Directory(l, n) /\ Spelling(k, n) < Spelling(l, n)
  <2>1. IF file_name \in {Paths[k][2], Paths[l][2]} THEN Paths[k][2] = file_name
        ELSE Len(Paths[k][2]) < Len(Paths[l][2])
    BY <1>2, <1>3, <1>5, <1>7
  <2>2. Paths[k][1] = Paths[l][1]
    BY <1>5, <1>7
  <2> QED
    BY <2>1, <2>2 DEF SearchedBefore
<1> QED
  BY <1>4, <1>6, <1>7

-------------------------------------------------------------------------------
(* The search.                                                             *)

\* The callback keeps all it is handed until the cap is passed, and a search
\* that met no error leaves nothing usable behind it.
SearchDue ==
  pc = "retrieve" =>
    /\ read <= MaxFetchBytes => kept = read
    /\ ~troubled => \A k \in 1..(path - 1) : Paths[k] \notin UsableFiles

LEMMA NamesAreReported == ASSUME FetchOK PROVE file_name \in ReportedNames
BY FtpAssumption DEF FetchOK, ReportedNames

\* A path that has nothing to offer is not usable.
LEMMA NothingIsUnusable ==
  ASSUME FetchOK, SearchDue, pc = "retrieve", NothingHere
  PROVE  Paths[path] \notin UsableFiles
<1> SUFFICES ASSUME Paths[path] \in UsableFiles PROVE FALSE
  OBVIOUS
<1>1. Size \in 1..MaxFetchBytes
  BY DEF UsableFiles, Size, Present
<1>2. read = Size /\ (read > MaxFetchBytes \/ kept = 0)
  BY DEF NothingHere, Overflow
<1>3. read <= MaxFetchBytes => kept = read
  BY DEF SearchDue
<1> QED
  BY <1>1, <1>2, <1>3, FtpAssumption

\* A path that has been obtained is usable.
LEMMA ObtainedIsUsable ==
  ASSUME FetchOK, pc = "retrieve", Obtained
  PROVE  path \in 1..Len(Paths) /\ Paths[path] \in UsableFiles
<1>1. Len(Paths) \in Nat
  BY PathsKept, PathsCounted
<1>2. path \in 1..Len(Paths) /\ read \in Nat /\ kept \in Nat /\ kept <= read
  BY <1>1 DEF FetchOK
<1>3. read = Size /\ ~(read > MaxFetchBytes) /\ kept > 0
  BY DEF Obtained, Overflow
<1>4. Present
  BY <1>2, <1>3 DEF Size
<1>5. Paths[path] \in DOMAIN card /\ card[Paths[path]].size \in 1..MaxFetchBytes
  BY <1>2, <1>3, <1>4, FtpAssumption DEF Present, Size
<1> QED
  BY <1>2, <1>5, NamesAreReported, PathIsUsable

\* With no path usable, no file is.
LEMMA NonePathsNoneUsable ==
  ASSUME FetchOK, pc \in Fetching, \A k \in 1..Len(Paths) : Paths[k] \notin UsableFiles
  PROVE  UsableFiles = {}
<1>1. file_name \in ReportedNames /\ card \in Cards
  BY NamesAreReported DEF FetchOK
<1> QED
  BY <1>1, UsableIsOnPath

\* The fetch stays with one card and one name.
LEMMA SameSearch ==
  ASSUME card' = card, file_name' = file_name
  PROVE  /\ UsableFiles' = UsableFiles /\ Paths' = Paths
         /\ \A f, g : SearchedBefore(f, g)' <=> SearchedBefore(f, g)
BY PathsKept DEF UsableFiles, SearchedBefore

\* The search goes on from a place that has nothing usable up to it.
LEMMA SearchGoesOn ==
  ASSUME TypesInv, pc \in {"connect", "retrieve"}, SearchOn,
         UNCHANGED <<file_name, card>>,
         ~troubled' => \A k \in 1..path : Paths[k] \notin UsableFiles
  PROVE  SearchDue' /\ FetchesFirstUsable'
<1>1. FetchOK /\ TablesOK /\ CloseOK /\ pc \in Fetching /\ InHand
  BY DEF TypesInv, InHand, Fetching
<1>2. Len(Paths) \in Nat /\ path \in 0..Len(Paths)
  BY <1>1, PathsKept, PathsCounted DEF FetchOK
<1>3. UsableFiles' = UsableFiles /\ Paths' = Paths
  BY SameSearch
<1>4. CASE NextPath = 0
  <2>1. Fetched([kind |-> "none"]) /\ [kind |-> "none"] \in Infos
    BY <1>4 DEF SearchOn, Infos
  <2>2. pc' = "notify" /\ Info'.kind = "none"
    <3>1. closing'.info = [kind |-> "none"] /\ pc' = "notify"
      BY <1>1, <2>1, FetchedEffect
    <3> QED
      BY <3>1 DEF Info
  <2>3. path = Len(Paths)
    BY <1>2, <1>4 DEF NextPath
  <2>4. ~troubled' => UsableFiles = {}
    BY <1>1, <2>3, NonePathsNoneUsable
  <2> QED
    BY <1>3, <2>2, <2>4 DEF SearchDue, FetchesFirstUsable
<1>5. CASE NextPath # 0
  <2>1. path' = path + 1 /\ read' = 0 /\ kept' = 0 /\ pc' = "retrieve"
    BY <1>5 DEF SearchOn, BeginTransfer, NextPath
  <2>2. path' - 1 = path
    BY <1>2, <2>1
  <2> QED
    BY <1>3, <2>1, <2>2 DEF SearchDue, FetchesFirstUsable
<1> QED
  BY <1>4, <1>5

\* Elsewhere no search ends.
LEMMA SearchCases ==
  ASSUME PlacesOK, [StoreNext]_storeVars, pc' \in {"retrieve", "notify"}
  PROVE  \/ Connect \/ Transfer \/ ArchiveObtained \/ TryNextPath
         \/ UNCHANGED <<closing, ftpVars, pc>>
<1> USE DEF Watching, Fetching, Closing
<1>1. CASE UNCHANGED storeVars
  BY <1>1 DEF storeVars, historyVars
<1>2. ~OpenDatabase /\ ~Reconcile /\ ~ReconcileFails
  BY DEF OpenDatabase, Reconcile, ReconcileFails
<1>3. ~StopWithoutHistory
  BY DEF StopWithoutHistory, PlacesOK, historyVars
<1>4. ~InsertRunning /\ ~Watch /\ ~Analyzed /\ ~EndSession /\ ~Notify
  BY DEF InsertRunning, Watch, Analyzed, EndSession, Notify
<1>5. ~GoesDown /\ ~ArchiveRaises /\ ~InsertRefused /\ ~StorePicture /\ ~WriteFails
  BY DEF GoesDown, ArchiveRaises, Down, InsertRefused, StorePicture, WriteFails, EndClose
<1>6. ~Finalize /\ ~SetSliceSource /\ ~DeleteFilaments /\ ~FilamentsSaved /\ ~InsertFilament
  BY DEF Finalize, SetSliceSource, DeleteFilaments, FilamentsSaved, InsertFilament
<1> QED
  BY <1>1, <1>2, <1>3, <1>4, <1>5, <1>6 DEF StoreNext

LEMMA SearchStep ==
  ASSUME TypesInv, SearchDue, FetchesFirstUsable, [StoreNext]_storeVars
  PROVE  SearchDue' /\ FetchesFirstUsable'
<1>1. FetchOK /\ PlacesOK /\ TablesOK /\ CloseOK
  BY DEF TypesInv
<1>2. CASE pc' \notin {"retrieve", "notify"}
  BY <1>2 DEF SearchDue, FetchesFirstUsable
<1>3. CASE Connect
  <2>1. /\ UNCHANGED <<file_name, card>> /\ pc = "connect"
        /\ \/ SearchOn
           \/ Fetched([kind |-> "none"]) /\ troubled' = TRUE
    BY <1>3 DEF Connect
  <2>2. CASE SearchOn
    <3>1. path = 0
      BY <1>1, <2>1 DEF FetchOK
    <3>2. 1..path = {}
      BY <3>1
    <3> QED
      BY <2>1, <2>2, <3>2, SearchGoesOn
  <2>3. CASE Fetched([kind |-> "none"]) /\ troubled' = TRUE
    <3>1. pc' = "notify"
      BY <2>3 DEF Fetched
    <3> QED
      BY <2>3, <3>1 DEF SearchDue, FetchesFirstUsable
  <2> QED
    BY <2>1, <2>2, <2>3
<1>4. CASE TryNextPath
  <2>1. /\ UNCHANGED <<file_name, card>> /\ pc = "retrieve" /\ SearchOn
        /\ (NothingHere /\ troubled' = troubled) \/ troubled' = TRUE
    BY <1>4 DEF TryNextPath
  <2>2. Len(Paths) \in Nat /\ path \in 0..Len(Paths)
    BY <1>1, PathsKept, PathsCounted DEF FetchOK
  <2>3. ASSUME ~troubled', NEW k \in 1..path PROVE Paths[k] \notin UsableFiles
    <3>1. NothingHere /\ ~troubled
      BY <2>1, <2>3
    <3>2. k \in 1..(path - 1) \/ k = path
      BY <2>2
    <3> QED
      BY <1>1, <2>1, <3>1, <3>2, NothingIsUnusable DEF SearchDue
  <2> QED
    BY <2>1, <2>3, SearchGoesOn
<1>5. CASE Transfer
  <2>1. /\ UNCHANGED <<file_name, card, path, troubled, pc>> /\ pc = "retrieve"
        /\ read' = read + 1
        /\ kept' = IF read' > MaxFetchBytes THEN 0 ELSE kept + 1
    BY <1>5 DEF Transfer, Collect, historyVars
  <2>2. read' <= MaxFetchBytes => kept' = read'
    <3>1. read \in Nat /\ kept \in Nat /\ MaxFetchBytes \in Nat
      BY <1>1, FtpAssumption DEF FetchOK
    <3>2. read <= MaxFetchBytes => kept = read
      BY <2>1 DEF SearchDue
    <3> QED
      BY <2>1, <3>1, <3>2
  <2>3. UsableFiles' = UsableFiles /\ Paths' = Paths
    BY <2>1, SameSearch
  <2> QED
    BY <2>1, <2>2, <2>3 DEF SearchDue, FetchesFirstUsable
<1>6. CASE ArchiveObtained
  <2>1. /\ pc = "retrieve" /\ Obtained /\ UNCHANGED <<file_name, card, troubled>>
        /\ Fetched(Parse(card[Paths[path]].archive))
    BY <1>6 DEF ArchiveObtained, ftpVars
  <2>2. pc' = "notify" /\ Info' = Parse(card[Paths[path]].archive)
    <3>1. card[Paths[path]].archive \in Archives
      BY <1>1, <2>1, ArchiveTyped
    <3>2. Parse(card[Paths[path]].archive) \in Infos
      BY <3>1, ParseTyped
    <3>3. InHand
      BY <2>1 DEF InHand, Fetching
    <3> QED
      BY <1>1, <2>1, <3>2, <3>3, FetchedEffect DEF Info
  <2>3. path \in 1..Len(Paths) /\ Paths[path] \in UsableFiles
    BY <1>1, <2>1, ObtainedIsUsable
  <2>4. ASSUME ~troubled, NEW g \in UsableFiles \ {Paths[path]}
        PROVE  SearchedBefore(Paths[path], g)
    <3>1. file_name \in ReportedNames /\ card \in Cards
      BY <1>1, <2>1, NamesAreReported DEF FetchOK, Fetching
    <3>2. PICK l \in 1..Len(Paths) : g = Paths[l]
      BY <3>1, UsableIsOnPath
    <3>3. \A k \in 1..(path - 1) : Paths[k] \notin UsableFiles
      BY <2>1, <2>4 DEF SearchDue
    <3>4. Len(Paths) \in Nat
      BY PathsKept, PathsCounted
    <3>5. l # path /\ l \notin 1..(path - 1)
      BY <3>2, <3>3
    <3>6. path < l
      BY <2>3, <3>4, <3>5
    <3> QED
      BY <2>3, <3>1, <3>2, <3>6, EarlierIsSearchedBefore
  <2>5. UsableFiles' = UsableFiles
        /\ \A f, g : SearchedBefore(f, g)' <=> SearchedBefore(f, g)
    BY <2>1, SameSearch
  <2>6. FetchesFirstUsable'
    <3>1. CASE troubled'
      BY <3>1 DEF FetchesFirstUsable
    <3>2. CASE ~troubled'
      <4>1. PICK first : first = Paths[path]
        OBVIOUS
      <4>2. /\ first \in UsableFiles'
            /\ Info' = Parse(card[first].archive)
        BY <2>2, <2>3, <2>5, <4>1
      <4>3. ASSUME NEW g \in UsableFiles' \ {first} PROVE SearchedBefore(first, g)'
        <5>1. SearchedBefore(first, g)
          BY <2>1, <2>4, <2>5, <3>2, <4>1
        <5> QED
          BY <2>5, <5>1
      <4>4. card' = card /\ UsableFiles' # {}
        BY <2>1, <4>2
      <4> QED
        BY <4>2, <4>3, <4>4 DEF FetchesFirstUsable
    <3> QED
      BY <3>1, <3>2
  <2> QED
    BY <2>2, <2>6 DEF SearchDue
<1>7. CASE UNCHANGED <<closing, ftpVars, pc>>
  <2>1. UNCHANGED <<file_name, card, path, read, kept, troubled>> /\ Info' = Info
    BY <1>7 DEF ftpVars, Info
  <2>2. UsableFiles' = UsableFiles /\ Paths' = Paths
    BY <2>1, SameSearch
  <2> QED
    BY <1>7, <2>1, <2>2 DEF SearchDue, FetchesFirstUsable, SearchedBefore
<1> QED
  BY <1>1, <1>2, <1>3, <1>4, <1>5, <1>6, <1>7, SearchCases

\* A fetch without errors brings the slice info of the first usable file of
\* the search, for any directories and any card, and none only if there is none.
THEOREM FirstUsableIsFetched == StoreSpec => []FetchesFirstUsable
<1>1. StoreInit => SearchDue /\ FetchesFirstUsable
  BY DEF StoreInit, SearchDue, FetchesFirstUsable
<1> QED
  BY <1>1, TypesInvariant, SearchStep, PTL DEF StoreSpec

================================================================================
