---------------------------- MODULE MigrationProofs ----------------------------
(***************************************************************************)
(* Theorems about Migration, for any number of crashes and errors.         *)
(***************************************************************************)
EXTENDS Migration, TLAPS

\* The scripts are two sequences of statements.
LEMMA Scripts ==
  \A v \in 1..SchemaVersion :
    /\ Len(Script[v]) \in Nat
    /\ DOMAIN Script[v] = 1..Len(Script[v])
BY DEF Script, SchemaVersion

\* The first script has no statement that refuses to be repeated.
LEMMA FirstScriptRepeats == Creates(1) \cap Unguarded = {}
BY DEF Creates, Script, Unguarded

\* What the process has run of the script before the next statement is there.
ScriptProgress ==
  at = "migrating" => \A i \in DOMAIN Script[Step] : i < next => Script[Step][i] \in schema

\* A service with history found, or made, the version current.
ServesCurrentVersion == at = "serving" => version = SchemaVersion

MigrationInv ==
  /\ TypeOK
  /\ VersionTellsSchema
  /\ ScriptProgress
  /\ ServesCurrentVersion
  /\ OnlySecondStepTears

\* Every step keeps the invariant.
LEMMA InvariantStep == ASSUME MigrationInv, [Next]_vars PROVE MigrationInv'
<1> USE InterruptionsAssumption DEF MigrationInv, SchemaVersion
<1>1. CASE Start
  <2>1. TypeOK'
    <3>1. version < 2 => Len(Script[Step]) \in Nat
      BY Scripts DEF Step, TypeOK
    <3> QED
      BY <1>1, <3>1 DEF Start, TypeOK, Step
  <2>2. ScriptProgress'
    <3>1. at' = "migrating" => DOMAIN Script[Step] = 1..Len(Script[Step])
      BY <1>1, Scripts DEF Start, Step, TypeOK
    <3> QED
      BY <1>1, <3>1 DEF Start, ScriptProgress, Step
  <2> QED
    BY <1>1, <2>1, <2>2
    DEF Start, VersionTellsSchema, ServesCurrentVersion, OnlySecondStepTears, TypeOK
<1>2. CASE Execute
  <2>1. /\ Step \in 1..2 /\ Len(Script[Step]) \in Nat
        /\ DOMAIN Script[Step] = 1..Len(Script[Step])
    BY <1>2, Scripts DEF Execute, Step, TypeOK
  <2>2. next \in DOMAIN Script[Step]
    BY <1>2, <2>1 DEF Execute, TypeOK
  <2>3. Statement \in Everything
    BY <2>1, <2>2 DEF Statement, Creates, Everything
  <2>4. TypeOK'
    BY <1>2, <2>1, <2>2, <2>3 DEF Execute, TypeOK, Step
  <2>5. ScriptProgress'
    <3>1. \A i \in DOMAIN Script[Step] : i < next + 1 => i < next \/ i = next
      BY <2>1 DEF TypeOK
    <3>2. schema' = schema \cup {Script[Step][next]} /\ next' = next + 1 /\ Step' = Step
      BY <1>2 DEF Execute, Statement, Step
    <3> QED
      BY <1>2, <3>1, <3>2 DEF Execute, ScriptProgress
  <2> QED
    BY <1>2, <2>4, <2>5
    DEF Execute, VersionTellsSchema, ServesCurrentVersion, OnlySecondStepTears
<1>3. CASE Refuse
  <2>1. /\ Step \in 1..2
        /\ Statement \in Creates(Step) \cap schema \cap Unguarded
    <3>1. /\ Step \in 1..2 /\ Len(Script[Step]) \in Nat
          /\ DOMAIN Script[Step] = 1..Len(Script[Step])
      BY <1>3, Scripts DEF Refuse, Step, TypeOK
    <3>2. next \in DOMAIN Script[Step]
      BY <1>3, <3>1 DEF Refuse, TypeOK
    <3> QED
      BY <1>3, <3>1, <3>2 DEF Refuse, Refused, Statement, Creates
  <2>2. Step = 2 /\ version = 1
    BY <2>1, FirstScriptRepeats DEF Step, TypeOK
  <2> QED
    BY <1>3, <2>1, <2>2
    DEF Refuse, TypeOK, VersionTellsSchema, ScriptProgress, ServesCurrentVersion,
        OnlySecondStepTears
<1>4. CASE RaiseVersion
  <2>1. /\ Step \in 1..2 /\ Len(Script[Step]) \in Nat
        /\ DOMAIN Script[Step] = 1..Len(Script[Step])
    BY <1>4, Scripts DEF RaiseVersion, Step, TypeOK
  <2>2. Creates(Step) \subseteq schema
    <3>1. \A i \in DOMAIN Script[Step] : i < next
      BY <1>4, <2>1 DEF RaiseVersion, TypeOK
    <3> QED
      BY <1>4, <3>1 DEF RaiseVersion, ScriptProgress, Creates
  <2>3. VersionTellsSchema'
    <3>1. \A v \in 1..version' : v \in 1..version \/ v = Step
      BY <1>4, <2>1 DEF RaiseVersion, Step, TypeOK
    <3> QED
      BY <1>4, <2>2, <3>1 DEF RaiseVersion, VersionTellsSchema
  <2>4. TypeOK'
    <3>1. version' < 2 => Len(Script[version' + 1]) \in Nat
      BY <1>4, <2>1, Scripts DEF RaiseVersion
    <3> QED
      BY <1>4, <2>1, <3>1 DEF RaiseVersion, TypeOK, Step
  <2>5. ScriptProgress'
    <3>1. at' = "migrating" =>
            DOMAIN Script[version' + 1] = 1..Len(Script[version' + 1])
      BY <1>4, <2>1, Scripts DEF RaiseVersion
    <3> QED
      BY <1>4, <3>1 DEF RaiseVersion, ScriptProgress, Step
  <2> QED
    BY <1>4, <2>1, <2>3, <2>4, <2>5
    DEF RaiseVersion, ServesCurrentVersion, OnlySecondStepTears
<1>5. CASE DatabaseError \/ Crash \/ Stop
  BY <1>5
  DEF DatabaseError, Crash, Stop, Interruption, TypeOK, VersionTellsSchema,
      ScriptProgress, ServesCurrentVersion, OnlySecondStepTears
<1>6. CASE UNCHANGED vars
  BY <1>6
  DEF vars, TypeOK, VersionTellsSchema, ScriptProgress, ServesCurrentVersion,
      OnlySecondStepTears, Step
<1> QED
  BY <1>1, <1>2, <1>3, <1>4, <1>5, <1>6 DEF Next

LEMMA MigrationInit == ASSUME Init PROVE MigrationInv
<1>1. version \in 0..2 /\ at = "down" /\ next = 1 /\ interruptions = 0
  BY DEF Init, SchemaVersion
<1>2. schema \subseteq Everything /\ VersionTellsSchema
  BY <1>1 DEF Init, Everything, VersionTellsSchema, SchemaVersion
<1> QED
  BY <1>1, <1>2, InterruptionsAssumption
  DEF MigrationInv, TypeOK, ScriptProgress, ServesCurrentVersion, OnlySecondStepTears,
      SchemaVersion

\* The inductive invariant holds of every state.
THEOREM MigrationInvariant == Spec => []MigrationInv
BY MigrationInit, InvariantStep, PTL DEF Spec

\* The recorded version is never ahead of the schema, wherever and however
\* often the migration was cut off.
THEOREM VersionIsHonest == Spec => []VersionTellsSchema
BY MigrationInvariant, PTL DEF MigrationInv

\* A service that keeps history has the whole schema.
THEOREM HistoryHasSchema == Spec => []ServesWholeSchema
<1>1. MigrationInv => ServesWholeSchema
  BY DEF MigrationInv, TypeOK, VersionTellsSchema, ServesCurrentVersion,
         ServesWholeSchema, Everything
<1> QED
  BY <1>1, MigrationInvariant, PTL

\* A start that fails by itself found the second script cut off.
THEOREM FirstStepNeverTears == Spec => []OnlySecondStepTears
BY MigrationInvariant, PTL DEF MigrationInv
================================================================================
