---------------------------- MODULE StartupProofs ----------------------------
(***************************************************************************)
(* Proofs about Startup, for every set of keys and handlers, any number of *)
(* migrations and any interruptions.                                       *)
(***************************************************************************)
EXTENDS Startup, TLAPS

\* At the start of an installation's life every part of the invariant holds.
LEMMA InitIInv == Init => IInv
<1> SUFFICES ASSUME Init PROVE IInv
  OBVIOUS
<1> USE StartupAssumption
<1>1. TypeOK
  <2>1. applied \subseteq Versions /\ recorded \subseteq Versions
    <3>1. \A v \in Versions : 1 .. v \subseteq Versions
      BY DEF Versions
    <3> QED
      BY <3>1 DEF Init, Fresh, Existing
  <2>2. env \subseteq Keys /\ used \subseteq Keys
    <3>1. CASE Fresh
      BY <3>1 DEF Fresh
    <3>2. CASE Existing
      BY <3>2 DEF Existing
    <3> QED
      BY <3>1, <3>2 DEF Init
  <2>3. dbfile \in BOOLEAN /\ max \in 0 .. Latest
    <3>1. dbfile \in BOOLEAN
      BY Zenon DEF Init, Fresh, Existing
    <3>2. max \in 0 .. Latest
      BY DEF Init
    <3> QED
      BY <3>1, <3>2
  <2>4. /\ lines \in [Handlers -> SUBSET Keys]
        /\ saving \in [Handlers -> {"idle", "read", "write"}]
    BY DEF Init
  <2> QED
    BY <2>1, <2>2, <2>3, <2>4 DEF Init, TypeOK
<1>2. Phases
  BY DEF Init, Fresh, Existing, Phases
<1>3. OneKey
  <2>1. PICK k \in Keys : used \subseteq {k} /\ env \subseteq {k}
    BY DEF Init, Fresh, Existing
  <2> QED
    BY <2>1 DEF Init, OneKey
<1>4. SchemaTracked
  <2>1. CASE Fresh
    <3>1. LagsByOne(0)
      BY <2>1 DEF Init, Fresh, LagsByOne
    <3> QED
      BY <3>1 DEF SchemaTracked
  <2>2. CASE Existing
    <3>1. CASE \E v \in Versions : applied = 1 .. v /\ recorded = 1 .. v
      <4>1. PICK v \in Versions : applied = 1 .. v /\ recorded = 1 .. v
        BY <3>1
      <4>2. LagsByOne(v)
        BY <4>1 DEF Init, LagsByOne
      <4> QED
        BY <4>2 DEF SchemaTracked, Versions
    <3>2. CASE applied = Versions
      BY <3>2 DEF SchemaTracked
    <3> QED
      BY <2>2, <3>1, <3>2 DEF Existing
  <2> QED
    BY <2>1, <2>2 DEF Init
<1> QED
  BY <1>1, <1>2, <1>3, <1>4 DEF IInv

\* Every step keeps the types.
LEMMA NextTypeOK == TypeOK /\ Phases /\ OneKey /\ [Next]_vars => TypeOK'
<1> SUFFICES ASSUME TypeOK, Phases, OneKey, [Next]_vars PROVE TypeOK'
  OBVIOUS
<1> USE StartupAssumption DEF TypeOK, Versions, Goto, dbVars, fileVars
<1>1. CASE Start
  BY <1>1 DEF Start
<1>2. CASE InitializeKey
  BY <1>2 DEF InitializeKey
<1>3. CASE MissingKey
  BY <1>3 DEF MissingKey, Down
<1>4. CASE ReadEnvFile
  BY <1>4 DEF ReadEnvFile
<1>5. CASE PersistKey
  BY <1>5 DEF PersistKey, Phases
<1>6. CASE OpenDatabase
  BY <1>6 DEF OpenDatabase
<1>7. CASE ReadVersion
  <2>1. max' \in 0 .. Latest /\ pc' \in {"seed", "apply"}
    BY <1>7 DEF ReadVersion
  <2>2. misjudged' \in BOOLEAN
    BY <1>7, Zenon DEF ReadVersion
  <2> QED
    BY <1>7, <2>1, <2>2 DEF ReadVersion
<1>8. CASE SeedVersion
  BY <1>8 DEF SeedVersion
<1>9. CASE Seeded
  BY <1>9 DEF Seeded
<1>10. CASE ApplyMigration
  BY <1>10 DEF ApplyMigration
<1>11. CASE DuplicateColumn
  BY <1>11 DEF DuplicateColumn, Down
<1>12. CASE RecordMigration
  BY <1>12 DEF RecordMigration, Phases
<1>13. CASE Serve
  BY <1>13 DEF Serve, OneKey
<1>14. CASE Stop
  BY <1>14 DEF Stop, Down
<1>15. ASSUME NEW h \in Handlers, SaveSettings(h) PROVE TypeOK'
  <2>1. CASE ReadLines(h)
    BY <2>1 DEF ReadLines
  <2>2. CASE EmptyFile(h)
    BY <2>2 DEF EmptyFile
  <2>3. CASE WriteLines(h)
    BY <2>3 DEF WriteLines
  <2> QED
    BY <1>15, <2>1, <2>2, <2>3 DEF SaveSettings
<1>16. CASE UNCHANGED vars
  BY <1>16 DEF vars
<1> QED
  BY <1>1, <1>2, <1>3, <1>4, <1>5, <1>6, <1>7, <1>8, <1>9, <1>10, <1>11, <1>12, <1>13,
     <1>14, <1>15, <1>16 DEF Next, Main

\* The order in which main creates the key, the database and the schema.
LEMMA PhasesStep == TypeOK /\ Phases /\ [Next]_vars => Phases'
<1> SUFFICES ASSUME TypeOK, Phases, [Next]_vars PROVE Phases'
  OBVIOUS
<1> USE StartupAssumption DEF Phases, Goto, dbVars, fileVars
<1>1. CASE Start \/ InitializeKey \/ ReadEnvFile \/ PersistKey \/ OpenDatabase
  BY <1>1 DEF Start, InitializeKey, ReadEnvFile, PersistKey, OpenDatabase
<1>2. CASE ReadVersion \/ SeedVersion \/ Seeded \/ ApplyMigration \/ RecordMigration \/ Serve
  BY <1>2 DEF ReadVersion, SeedVersion, Seeded, ApplyMigration, RecordMigration, Serve, TypeOK
<1>3. CASE MissingKey \/ DuplicateColumn \/ Stop
  BY <1>3 DEF MissingKey, DuplicateColumn, Stop, Down
<1>4. ASSUME NEW h \in Handlers, SaveSettings(h) PROVE Phases'
  BY <1>4 DEF SaveSettings, ReadLines, EmptyFile, WriteLines
<1>5. CASE UNCHANGED vars
  BY <1>5 DEF vars
<1> QED
  BY <1>1, <1>2, <1>3, <1>4, <1>5 DEF Next, Main

\* No step brings a second key into being once there is a database.
LEMMA OneKeyStep == TypeOK /\ Phases /\ OneKey /\ [Next]_vars => OneKey'
<1> SUFFICES ASSUME TypeOK, Phases, OneKey, [Next]_vars PROVE OneKey'
  OBVIOUS
<1> USE StartupAssumption DEF Goto, dbVars, fileVars
<1>1. PICK k \in Keys :
        /\ env \subseteq {k}
        /\ procEnv \in {None, k}
        /\ used \subseteq {k}
        /\ \A h \in Handlers : lines[h] \subseteq {k}
        /\ pc \notin {"down", "key", "persist", "write"} => key = k
  BY DEF OneKey
<1>2. CASE Start
  BY <1>1, <1>2 DEF Start, OneKey
<1>3. CASE InitializeKey
  BY <1>1, <1>3 DEF InitializeKey, OneKey
<1>4. CASE MissingKey \/ DuplicateColumn \/ Stop
  BY <1>1, <1>4 DEF MissingKey, DuplicateColumn, Stop, Down, OneKey
<1>5. CASE ReadEnvFile
  BY <1>1, <1>5 DEF ReadEnvFile, OneKey
<1>6. CASE PersistKey
  <2>1. key \in Keys /\ used = {} /\ procEnv = None /\ \A h \in Handlers : lines[h] = {}
    BY <1>6 DEF PersistKey, Phases, TypeOK
  <2> QED
    BY <1>6, <2>1 DEF PersistKey, OneKey
<1>7. CASE OpenDatabase \/ ReadVersion \/ SeedVersion \/ Seeded
  BY <1>1, <1>7 DEF OpenDatabase, ReadVersion, SeedVersion, Seeded, OneKey
<1>8. CASE ApplyMigration \/ RecordMigration \/ Serve
  BY <1>1, <1>8 DEF ApplyMigration, RecordMigration, Serve, OneKey
<1>9. ASSUME NEW h \in Handlers, SaveSettings(h) PROVE OneKey'
  <2>1. CASE ReadLines(h)
    BY <1>1, <2>1 DEF ReadLines, OneKey, TypeOK
  <2>2. CASE EmptyFile(h)
    BY <1>1, <2>2 DEF EmptyFile, OneKey
  <2>3. CASE WriteLines(h)
    BY <1>1, <2>3 DEF WriteLines, OneKey
  <2> QED
    BY <1>9, <2>1, <2>2, <2>3 DEF SaveSettings
<1>10. CASE UNCHANGED vars
  BY <1>1, <1>10 DEF vars, OneKey
<1> QED
  BY <1>2, <1>3, <1>4, <1>5, <1>6, <1>7, <1>8, <1>9, <1>10 DEF Next, Main

\* The schema stays a prefix that is recorded but for its last migration, or
\* complete, or was misjudged.
LEMMA SchemaTrackedStep ==
  TypeOK /\ Phases /\ SchemaTracked /\ [Next]_vars => SchemaTracked'
<1> SUFFICES ASSUME TypeOK, Phases, SchemaTracked, [Next]_vars PROVE SchemaTracked'
  OBVIOUS
<1> USE StartupAssumption DEF Goto, dbVars, fileVars
<1>1. Alters \subseteq Versions /\ Latest \in Nat
  BY DEF Versions
<1>2. CASE misjudged
  <2>1. misjudged'
    BY <1>2 DEF Next, Main, Start, InitializeKey, MissingKey, ReadEnvFile, PersistKey,
                OpenDatabase, ReadVersion, SeedVersion, Seeded, ApplyMigration,
                DuplicateColumn, RecordMigration, Serve, Stop, Down, SaveSettings,
                ReadLines, EmptyFile, WriteLines, vars
  <2> QED
    BY <2>1 DEF SchemaTracked
<1>3. CASE applied = Versions
  <2>1. applied' = Versions
    <3>1. CASE ApplyMigration
      BY <1>3, <3>1 DEF ApplyMigration, TypeOK, Versions
    <3>2. CASE ~ApplyMigration
      BY <1>3, <3>2 DEF Next, Main, Start, InitializeKey, MissingKey, ReadEnvFile, PersistKey,
                OpenDatabase, ReadVersion, SeedVersion, Seeded,
                DuplicateColumn, RecordMigration, Serve, Stop, Down, SaveSettings,
                ReadLines, EmptyFile, WriteLines, vars
    <3> QED
      BY <3>1, <3>2
  <2> QED
    BY <2>1 DEF SchemaTracked, Versions
<1>4. CASE \E n \in 0 .. Latest : LagsByOne(n)
  <2> PICK n \in 0 .. Latest : LagsByOne(n)
    BY <1>4
  <2> USE DEF LagsByOne
  <2>1. CASE ReadVersion
    <3>1. CASE max' = 0 /\ 1 \in applied
      <4>1. misjudged' \/ applied' = Versions
        BY <2>1, <3>1 DEF ReadVersion
      <4> QED
        BY <4>1 DEF SchemaTracked, Versions
    <3>2. CASE ~(max' = 0 /\ 1 \in applied)
      <4>1. max' \in {n, n - 1} /\ recorded = 1 .. max'
        BY <2>1, <3>2 DEF ReadVersion, TypeOK, Versions
      <4>2. LagsByOne(n)'
        BY <2>1, <3>2, <4>1 DEF ReadVersion
      <4> QED
        BY <4>2 DEF SchemaTracked
    <3> QED
      BY <3>1, <3>2
  <2>2. CASE ApplyMigration
    <3>1. PICK m \in 0 .. Latest : m = max + 1
      BY <2>2 DEF ApplyMigration, TypeOK
    <3>2. applied' = 1 .. m
      BY <2>2, <3>1 DEF ApplyMigration, TypeOK
    <3>3. LagsByOne(m)'
      BY <2>2, <3>1, <3>2 DEF ApplyMigration, TypeOK
    <3> QED
      BY <3>3 DEF SchemaTracked
  <2>3. CASE RecordMigration
    <3>1. recorded' = 1 .. n /\ max' = n
      BY <2>3 DEF RecordMigration, TypeOK
    <3>2. LagsByOne(n)'
      BY <2>3, <3>1 DEF RecordMigration
    <3> QED
      BY <3>2 DEF SchemaTracked
  <2>4. CASE Serve
    <3>1. applied' = Versions
      BY <2>4 DEF Serve, TypeOK, Versions
    <3> QED
      BY <3>1 DEF SchemaTracked, Versions
  <2>5. CASE Start \/ InitializeKey \/ ReadEnvFile \/ PersistKey \/ OpenDatabase
    <3>1. LagsByOne(n)'
      BY <2>5 DEF Start, InitializeKey, ReadEnvFile, PersistKey, OpenDatabase
    <3> QED
      BY <3>1 DEF SchemaTracked
  <2>6. CASE MissingKey \/ DuplicateColumn \/ Stop
    <3>1. LagsByOne(n)'
      BY <2>6 DEF MissingKey, DuplicateColumn, Stop, Down
    <3> QED
      BY <3>1 DEF SchemaTracked
  <2>7. CASE SeedVersion \/ Seeded
    BY <2>7 DEF SeedVersion, Seeded
  <2>8. ASSUME NEW h \in Handlers, SaveSettings(h) PROVE SchemaTracked'
    BY <2>8 DEF SaveSettings, ReadLines, EmptyFile, WriteLines
  <2>9. CASE UNCHANGED vars
    <3>1. LagsByOne(n)'
      BY <2>9 DEF vars
    <3> QED
      BY <3>1 DEF SchemaTracked
  <2> QED
    BY <2>1, <2>2, <2>3, <2>4, <2>5, <2>6, <2>7, <2>8, <2>9 DEF Next, Main
<1> QED
  BY <1>2, <1>3, <1>4 DEF SchemaTracked

\* The invariant holds of every reachable state.
THEOREM StartupInductive == Spec => []IInv
<1>1. IInv /\ [Next]_vars => IInv'
  BY NextTypeOK, PhasesStep, OneKeyStep, SchemaTrackedStep DEF IInv
<1> QED
  BY <1>1, InitIInv, PTL DEF Spec

\* Every variable keeps its type; in particular no version is applied or recorded
\* that allMigrations does not have.
THEOREM StartupTyped == Spec => []TypeOK
<1>1. IInv => TypeOK
  BY DEF IInv
<1> QED
  BY <1>1, StartupInductive, PTL

\* All processes that serve from one database have the same key
\* (main.go, initializeEncryptionKey and persistEncryptionKey).
THEOREM OneKeyServes == Spec => []ServesWithOneKey
<1>1. IInv => ServesWithOneKey
  BY DEF IInv, OneKey, ServesWithOneKey
<1> QED
  BY <1>1, StartupInductive, PTL

\* A process that serves has every migration, unless a start was stopped between
\* creating the first table and recording it (migrations.go, migrate).
THEOREM ServedSchemaIsComplete == Spec => []SchemaIsCompleteUnlessMisjudged
<1>1. IInv => SchemaIsCompleteUnlessMisjudged
  BY DEF IInv, SchemaTracked, LagsByOne, SchemaIsCompleteUnlessMisjudged, SchemaIsComplete
<1> QED
  BY <1>1, StartupInductive, PTL

=============================================================================
