------------------------------- MODULE Migration -------------------------------
(***************************************************************************)
(* How the service opens its database: connect and migrate of              *)
(* app/storage/database.py, called from build_repository of app/main.py.   *)
(*                                                                         *)
(* The connection is in autocommit mode (isolation_level=None), so each    *)
(* statement of a schema script is durable on its own, and so is the       *)
(* PRAGMA that records the version: the process can die between any two.   *)
(* The schema is the set of what the statements have created.              *)
(***************************************************************************)
EXTENDS Naturals, Sequences

CONSTANT MaxInterruptions   \* bound: crashes and database errors

ASSUME InterruptionsAssumption == MaxInterruptions \in Nat

SchemaVersion == 2

\* MIGRATIONS: what the statements of each step create, in order.
Script ==
  <<<<"prints", "idx_prints_started", "idx_prints_outcome", "print_filaments">>,
    <<"api_cost", "api_input_rate", "api_output_rate", "final_frame_path",
      "final_frame_jpeg", "print_summary">>>>

\* Mutant: the index statements of the first script without IF NOT EXISTS.
UnguardedIndexes ==
  {"idx_prints_started", "idx_prints_outcome", "api_cost", "api_input_rate",
   "api_output_rate", "final_frame_path", "final_frame_jpeg"}

\* Statements that fail when what they create is there: ALTER TABLE knows no
\* IF NOT EXISTS.
Unguarded == {"api_cost", "api_input_rate", "api_output_rate",
              "final_frame_path", "final_frame_jpeg"}

Creates(v) == {Script[v][i] : i \in DOMAIN Script[v]}
Everything == UNION {Creates(v) : v \in 1..SchemaVersion}

VARIABLES
  \* in the database file
  schema,         \* what has been created
  version,        \* PRAGMA user_version
  \* the process
  at,             \* down, migrating, serving, or without history: a statement
                  \* refused to be repeated, or met an error of its own
  next,           \* the statement of the script that comes next
  \* bookkeeping of the model
  interruptions

vars == <<schema, version, at, next, interruptions>>

\* The database is new, was left by the first release, or is up to date.
Init ==
  /\ version \in 0..SchemaVersion
  /\ schema = UNION {Creates(v) : v \in 1..version}
  /\ at = "down"
  /\ next = 1
  /\ interruptions = 0

Interruption ==
  /\ interruptions < MaxInterruptions
  /\ interruptions' = interruptions + 1

\* The version is read; a current database is opened as it is.
Start ==
  /\ at = "down"
  /\ at' = IF version >= SchemaVersion THEN "serving" ELSE "migrating"
  /\ next' = 1
  /\ UNCHANGED <<schema, version, interruptions>>

\* The script that is running, one above the version recorded.
Step == version + 1

Statement == Script[Step][next]

Refused == Statement \in Unguarded /\ Statement \in schema

Execute ==
  /\ at = "migrating"
  /\ next <= Len(Script[Step])
  /\ ~Refused
  /\ schema' = schema \cup {Statement}
  /\ next' = next + 1
  /\ UNCHANGED <<version, at, interruptions>>

\* Mutant: the error is swallowed before the connection is handed out.
RefuseServes ==
  /\ at = "migrating"
  /\ next <= Len(Script[Step])
  /\ Refused
  /\ at' = "serving"
  /\ UNCHANGED <<schema, version, next, interruptions>>

\* "duplicate column name": build_repository logs it and goes on without.
Refuse ==
  /\ at = "migrating"
  /\ next <= Len(Script[Step])
  /\ Refused
  /\ at' = "refused"
  /\ UNCHANGED <<schema, version, next, interruptions>>

\* Mutant: the version is recorded before the last statement has run.
RaiseVersionEarly ==
  /\ at = "migrating"
  /\ next >= Len(Script[Step])
  /\ version' = Step
  /\ next' = 1
  /\ at' = IF version' >= SchemaVersion THEN "serving" ELSE "migrating"
  /\ UNCHANGED <<schema, interruptions>>

RaiseVersion ==
  /\ at = "migrating"
  /\ next > Len(Script[Step])
  /\ version' = Step
  /\ next' = 1
  /\ at' = IF version' >= SchemaVersion THEN "serving" ELSE "migrating"
  /\ UNCHANGED <<schema, interruptions>>

\* A statement fails for a reason of its own: the disk is full, the file is
\* locked or damaged.
DatabaseError ==
  /\ at = "migrating"
  /\ Interruption
  /\ at' = "error"
  /\ UNCHANGED <<schema, version, next>>

\* The process dies in mid-migration.
Crash ==
  /\ at = "migrating"
  /\ Interruption
  /\ at' = "down"
  /\ UNCHANGED <<schema, version, next>>

\* The service, with or without its history, is stopped and started again.
Stop ==
  /\ at \in {"serving", "refused", "error"}
  /\ at' = "down"
  /\ UNCHANGED <<schema, version, next, interruptions>>

Next ==
  \/ Start \/ Execute \/ Refuse \/ RaiseVersion
  \/ DatabaseError \/ Crash \/ Stop

Spec == Init /\ [][Next]_vars

--------------------------------------------------------------------------------
TypeOK ==
  /\ schema \subseteq Everything
  /\ version \in 0..SchemaVersion
  /\ at \in {"down", "migrating", "serving", "refused", "error"}
  /\ next \in Nat \ {0}
  /\ at = "migrating" => version < SchemaVersion /\ next <= Len(Script[Step]) + 1
  /\ interruptions \in 0..MaxInterruptions

\* The version never promises more than the schema holds, wherever a process
\* died: "each step raises user_version when it succeeds" (database.py:94).
VersionTellsSchema == \A v \in 1..version : Creates(v) \subseteq schema

\* A service that keeps history has every table, column and view it writes.
ServesWholeSchema == at = "serving" => schema = Everything

\* Only a database left halfway through the second script makes a start fail
\* by itself: the first one can be repeated from wherever it was cut off.
OnlySecondStepTears ==
  at = "refused" =>
    /\ version = 1
    /\ schema \cap Creates(2) # {}

\* migrate is to "bring an existing database up to SCHEMA_VERSION"
\* (database.py:113): a start that meets no database error serves history.
StartsBringUpToDate == at # "refused"
================================================================================
