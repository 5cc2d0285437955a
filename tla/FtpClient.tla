-------------------------------- MODULE FtpClient -------------------------------
(***************************************************************************)
(* Fetching a sliced archive over FTPS: candidate_names and the blocking   *)
(* part of BambuFtpClient, app/bambu/ftp_client.py.                        *)
(*                                                                         *)
(* A file name is the sequence of the suffixes that follow its stem; the   *)
(* stem itself is the print's and does not vary.  The card holds files at  *)
(* <<directory, name>>, and sizes are counted in chunks.  This module has  *)
(* the steps of one transfer; PrintHistory says when they are taken.       *)
(***************************************************************************)
EXTENDS SliceInfo

CONSTANTS
  FtpDirs,         \* Settings.ftp_dirs, the directories in search order
  MaxFetchBytes,   \* Settings.ftp_max_fetch_bytes, in chunks
  FileNames,       \* names a print may be reported by
  Cards            \* contents the card may have

\* The suffixes are recognised in any letters; two spellings of each will do.
ArchiveSuffix == {"3mf", "3MF"}
GcodeSuffix == {"gcode", "GCODE"}

\* What is left of a name without its suffixes is the stem, so a name has at
\* most the two.
ASSUME FtpAssumption ==
  /\ MaxFetchBytes \in Nat
  /\ FtpDirs \in Seq(STRING)
  /\ FileNames \subseteq {<<>>} \cup {<<s>> : s \in GcodeSuffix \cup ArchiveSuffix}
                           \cup {<<g, a>> : g \in GcodeSuffix, a \in ArchiveSuffix}
  /\ \A c \in Cards :
       /\ DOMAIN c \subseteq STRING \X Seq(STRING)
       /\ \A f \in DOMAIN c : c[f].size \in Nat /\ c[f].archive \in Archives

VARIABLES
  file_name,   \* the name the session was opened with
  card,        \* what the SD card holds during the fetch
  path,        \* the path being read, an index of Paths
  read,        \* chunks the callback was handed for it
  kept,        \* chunks it has kept
  troubled     \* bookkeeping: an error cut this fetch short somewhere

ftpVars == <<file_name, card, path, read, kept, troubled>>

FtpInit ==
  /\ file_name = <<>> /\ card = <<>>
  /\ path = 0 /\ read = 0 /\ kept = 0 /\ troubled = FALSE

EndsWith(name, suffix) == name # <<>> /\ name[Len(name)] \in suffix
Stripped(name, suffix) ==
  IF EndsWith(name, suffix) THEN SubSeq(name, 1, Len(name) - 1) ELSE name
Stem(name) == Stripped(Stripped(name, ArchiveSuffix), GcodeSuffix)

\* Mutant: the suffix of a reported archive name is kept and doubled.
CandidateNamesDoubled(name) == <<Append(name, "3mf"), name \o <<"gcode", "3mf">>>>

\* The name itself if it is an archive's, then the two usual spellings, none
\* of them twice.
CandidateNames(name) ==
  LET plain == Append(Stem(name), "3mf")
      sliced == Stem(name) \o <<"gcode", "3mf">>
  IN CASE ~EndsWith(name, ArchiveSuffix) \/ name = plain -> <<plain, sliced>>
       [] EndsWith(name, ArchiveSuffix) /\ name = sliced -> <<sliced, plain>>
       [] OTHER -> <<name, plain, sliced>>

\* Every directory with every candidate, in the order of _fetch_archive.
Paths ==
  LET names == CandidateNames(file_name)
  IN [k \in 1..(Len(FtpDirs) * Len(names)) |->
        <<FtpDirs[((k - 1) \div Len(names)) + 1], names[((k - 1) % Len(names)) + 1]>>]

Present == Paths[path] \in DOMAIN card
Size == IF Present THEN card[Paths[path]].size ELSE 0

BeginFetch ==
  /\ file_name' \in FileNames /\ card' \in Cards
  /\ UNCHANGED <<path, read, kept, troubled>>

EndFetch ==
  /\ file_name' = <<>> /\ card' = <<>>
  /\ path' = 0 /\ read' = 0 /\ kept' = 0 /\ troubled' = FALSE

BeginTransfer(k) == path' = k /\ read' = 0 /\ kept' = 0

\* The callback of _retrieve: past the cap it drops what it has, and all
\* that still comes.
Collect ==
  /\ read < Size
  /\ read' = read + 1
  /\ kept' = IF read' > MaxFetchBytes THEN 0 ELSE kept + 1
  /\ UNCHANGED <<file_name, card, path, troubled>>

Overflow == read > MaxFetchBytes

\* A transfer that has run to its end and left something.
Obtained == read = Size /\ ~Overflow /\ kept > 0

\* Absent, empty or too large.
NothingHere == read = Size /\ (Overflow \/ kept = 0)

NextPath == IF path < Len(Paths) THEN path + 1 ELSE 0

\* The names an archive of a print may have: its stem with one of the two
\* endings, or the reported name if it is an archive's.
ArchiveNames(name) ==
  {<<"3mf">>, <<"gcode", "3mf">>} \cup {n \in {name} : EndsWith(n, ArchiveSuffix)}

\* What a fetch without errors should bring, told by the card: an archive in a
\* directory that is searched, under such a name, neither empty nor over the
\* cap.
UsableFiles ==
  {f \in DOMAIN card : /\ \E i \in DOMAIN FtpDirs : f[1] = FtpDirs[i]
                       /\ f[2] \in ArchiveNames(file_name)
                       /\ card[f].size \in 1..MaxFetchBytes}

\* An earlier directory first, then the reported name, then the shorter one.
SearchedBefore(f, g) ==
  \/ \E i \in DOMAIN FtpDirs, j \in DOMAIN FtpDirs :
       i < j /\ f[1] = FtpDirs[i] /\ g[1] = FtpDirs[j]
  \/ f[1] = g[1] /\ IF file_name \in {f[2], g[2]} THEN f[2] = file_name
                    ELSE Len(f[2]) < Len(g[2])
================================================================================
