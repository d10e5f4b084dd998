------------------------------- MODULE Startup -------------------------------
(***************************************************************************)
(* How a Talos process comes up on an installation and what it leaves for  *)
(* the next one (cmd/talos/main.go, internal/store/migrations.go), with    *)
(* the one thing the serving process does to the same files: saving the    *)
(* general settings (internal/settings/service.go).                        *)
(*                                                                         *)
(* Two things outlive a process: the environment file, of which only the   *)
(* TALOS_ENCRYPTION_KEY lines are modelled (the others share their fate),  *)
(* and the SQLite database, of which only the schema is.  Both are written *)
(* in several steps, and the process may end between any two.              *)
(***************************************************************************)
EXTENDS Naturals

CONSTANTS
  Keys,      \* encryption keys
  None,      \* no key
  Handlers,  \* handlers that save the settings
  Latest,    \* len(allMigrations)
  Alters,    \* the migrations that fail when they are applied twice
  MayStop    \* the process may be killed, or a statement of it may fail

ASSUME StartupAssumption ==
  /\ Keys # {} /\ None \notin Keys
  /\ Latest \in Nat \ {0}
  /\ Alters \subseteq 2 .. Latest
  /\ MayStop \in BOOLEAN

VARIABLES
  env,       \* the key lines in the environment file
  procEnv,   \* the key in the environment of the process
  pc,        \* where main is
  key,       \* encKeyStr
  dbfile,    \* the database file exists
  applied,   \* the migrations whose effect is in the schema
  recorded,  \* the rows of schema_migrations
  max,       \* maxApplied
  lines,     \* the key lines a handler has read
  saving,    \* where a handler is in updateEnvFile
  used,      \* history: the keys of the processes that have served
  misjudged  \* history: an incomplete schema was taken for a pre-tracking one

fileVars == <<env, lines, saving>>
dbVars == <<dbfile, applied, recorded, max, misjudged>>
vars == <<env, procEnv, pc, key, dbVars, lines, saving, used>>

Versions == 1 .. Latest

TypeOK ==
  /\ env \subseteq Keys
  /\ procEnv \in Keys \cup {None}
  /\ pc \in {"down", "key", "persist", "write", "open", "migrate", "seed", "apply",
             "record", "serving"}
  /\ key \in Keys \cup {None}
  /\ dbfile \in BOOLEAN
  /\ applied \subseteq Versions
  /\ recorded \subseteq Versions
  /\ max \in 0 .. Latest
  /\ lines \in [Handlers -> SUBSET Keys]
  /\ saving \in [Handlers -> {"idle", "read", "write"}]
  /\ used \subseteq Keys
  /\ misjudged \in BOOLEAN

\* A first installation, which install.sh gives a key and other ways of
\* installing do not.
Fresh ==
  /\ env \in {{}} \cup {{k} : k \in Keys}
  /\ dbfile = FALSE
  /\ applied = {} /\ recorded = {} /\ used = {}

\* An installation an earlier release has left behind, before or after the
\* tracking table was introduced; its key may have been lost.
Existing ==
  /\ dbfile = TRUE
  /\ \/ \E v \in Versions : applied = 1 .. v /\ recorded = 1 .. v
     \/ applied = Versions /\ recorded = {}
  /\ \E k \in Keys : used = {k} /\ env \in {{}, {k}}

Init ==
  /\ Fresh \/ Existing
  /\ procEnv = None
  /\ pc = "down"
  /\ key = None
  /\ max = 0
  /\ lines = [h \in Handlers |-> {}]
  /\ saving = [h \in Handlers |-> "idle"]
  /\ misjudged = FALSE

-----------------------------------------------------------------------------
Goto(p) == pc' = p

\* The process ends: killed, or by os.Exit(1) after an error.
Down ==
  /\ Goto("down")
  /\ saving' = [h \in Handlers |-> "idle"]
  /\ UNCHANGED <<env, procEnv, key, dbVars, lines, used>>

-----------------------------------------------------------------------------
(***************************************************************************)
(* Faulty variants, to show which property would catch them.               *)
(***************************************************************************)

\* A key is generated whenever there is none.
InitializeKey_SkipsDatabaseCheck ==
  /\ pc = "key"
  /\ \/ procEnv # None /\ key' = procEnv /\ Goto("open")
     \/ procEnv = None /\ key' \in Keys /\ Goto("persist")
  /\ UNCHANGED <<env, procEnv, dbVars, lines, saving, used>>

\* The migration is recorded before it is applied.
ApplyMigration_RecordsFirst ==
  /\ pc = "apply" /\ max < Latest
  /\ recorded' = recorded \cup {max + 1}
  /\ Goto("record")
  /\ UNCHANGED <<env, procEnv, key, dbfile, applied, max, misjudged, lines, saving, used>>

\* The loop runs one version too far.
ApplyMigration_OneTooFar ==
  /\ pc = "apply" /\ max <= Latest
  /\ max + 1 \notin Alters \cap applied
  /\ applied' = applied \cup {max + 1}
  /\ Goto("record")
  /\ UNCHANGED <<env, procEnv, key, dbfile, recorded, max, misjudged, lines, saving, used>>

-----------------------------------------------------------------------------
(***************************************************************************)
(* main, up to ListenAndServe.                                             *)
(***************************************************************************)
\* systemd reads the environment file at every start; a container that Docker
\* restarts has the environment it was created with.
Start ==
  /\ pc = "down"
  /\ procEnv' \in {procEnv} \cup (IF env = {} THEN {None} ELSE env)
  /\ Goto("key")
  /\ UNCHANGED <<env, key, dbVars, lines, saving, used>>

\* initializeEncryptionKey: a key is generated only if there is no database.
InitializeKey ==
  /\ pc = "key"
  /\ \/ procEnv # None /\ key' = procEnv /\ Goto("open")
     \/ procEnv = None /\ ~dbfile /\ key' \in Keys /\ Goto("persist")
  /\ UNCHANGED <<env, procEnv, dbVars, lines, saving, used>>

\* errMissingEncryptionKey
MissingKey == pc = "key" /\ procEnv = None /\ dbfile /\ Down

\* persistEncryptionKey reads the file; os.WriteFile empties it ...
ReadEnvFile ==
  /\ pc = "persist"
  /\ env' = {}
  /\ Goto("write")
  /\ UNCHANGED <<procEnv, key, dbVars, lines, saving, used>>

\* ... and writes the lines back, with the new key in the place of an old one.
PersistKey ==
  /\ pc = "write"
  /\ env' = {key}
  /\ Goto("open")
  /\ UNCHANGED <<procEnv, key, dbVars, lines, saving, used>>

\* NewSQLiteStore: the first connection creates the file.
OpenDatabase ==
  /\ pc = "open"
  /\ dbfile' = TRUE
  /\ Goto("migrate")
  /\ UNCHANGED <<fileVars, procEnv, key, applied, recorded, max, misjudged, used>>

\* migrate: the highest version recorded.  If there is none although the table of
\* version 1 exists, the database is taken for one from before the tracking table.
ReadVersion ==
  /\ pc = "migrate"
  /\ max' \in recorded \cup {0} /\ \A v \in recorded : v <= max'
  /\ IF max' = 0 /\ 1 \in applied
     THEN Goto("seed") /\ misjudged' = (misjudged \/ applied # Versions)
     ELSE Goto("apply") /\ UNCHANGED misjudged
  /\ UNCHANGED <<fileVars, procEnv, key, dbfile, applied, recorded, used>>

\* INSERT OR IGNORE, in the order in which Go ranges over a map.
SeedVersion ==
  /\ pc = "seed" /\ recorded # Versions
  /\ \E v \in Versions \ recorded : recorded' = recorded \cup {v}
  /\ UNCHANGED <<fileVars, procEnv, pc, key, dbfile, applied, max, misjudged, used>>

Seeded ==
  /\ pc = "seed" /\ recorded = Versions
  /\ max' = Latest
  /\ Goto("apply")
  /\ UNCHANGED <<fileVars, procEnv, key, dbfile, applied, recorded, misjudged, used>>

ApplyMigration ==
  /\ pc = "apply" /\ max < Latest
  /\ max + 1 \notin Alters \cap applied
  /\ applied' = applied \cup {max + 1}
  /\ Goto("record")
  /\ UNCHANGED <<fileVars, procEnv, key, dbfile, recorded, max, misjudged, used>>

\* ALTER TABLE ... ADD COLUMN of a column that exists.
DuplicateColumn == pc = "apply" /\ max < Latest /\ max + 1 \in Alters \cap applied /\ Down

RecordMigration ==
  /\ pc = "record"
  /\ recorded' = recorded \cup {max + 1}
  /\ max' = max + 1
  /\ Goto("apply")
  /\ UNCHANGED <<fileVars, procEnv, key, dbfile, applied, misjudged, used>>

\* The other components of main keep no state that a start could find wrong.
Serve ==
  /\ pc = "apply" /\ max = Latest
  /\ Goto("serving")
  /\ used' = used \cup {key}
  /\ UNCHANGED <<env, procEnv, key, dbVars, lines, saving>>

Stop == MayStop /\ pc # "down" /\ Down

-----------------------------------------------------------------------------
(***************************************************************************)
(* updateEnvFile.  Nothing keeps two requests from saving at once.         *)
(***************************************************************************)
ReadLines(h) ==
  /\ pc = "serving" /\ saving[h] = "idle"
  /\ lines' = [lines EXCEPT ![h] = env]
  /\ saving' = [saving EXCEPT ![h] = "read"]
  /\ UNCHANGED <<env, procEnv, pc, key, dbVars, used>>

\* os.WriteFile empties the file ...
EmptyFile(h) ==
  /\ pc = "serving" /\ saving[h] = "read"
  /\ env' = {}
  /\ saving' = [saving EXCEPT ![h] = "write"]
  /\ UNCHANGED <<procEnv, pc, key, dbVars, lines, used>>

\* ... and writes from its start; what another handler has written beyond the
\* end of this text stays.
WriteLines(h) ==
  /\ pc = "serving" /\ saving[h] = "write"
  /\ \E tail \in SUBSET env : env' = lines[h] \cup tail
  /\ saving' = [saving EXCEPT ![h] = "idle"]
  /\ UNCHANGED <<procEnv, pc, key, dbVars, lines, used>>

Main ==
  \/ Start \/ InitializeKey \/ MissingKey \/ ReadEnvFile \/ PersistKey
  \/ OpenDatabase \/ ReadVersion \/ SeedVersion \/ Seeded
  \/ ApplyMigration \/ DuplicateColumn \/ RecordMigration \/ Serve

SaveSettings(h) == ReadLines(h) \/ EmptyFile(h) \/ WriteLines(h)

Next == Main \/ Stop \/ (\E h \in Handlers : SaveSettings(h))

Spec == Init /\ [][Next]_vars

-----------------------------------------------------------------------------
(***************************************************************************)
(* Properties.                                                             *)
(***************************************************************************)

\* However starts are interrupted and whatever environment a restart sees, the
\* processes that serve from one database all have the same key, so what one has
\* encrypted the next can read (main.go, initializeEncryptionKey; upgrading.md:
\* "Talos now fails fast instead of generating a replacement key").
ServesWithOneKey == \A j, k \in used : j = k

\* A process that serves has every migration in its schema (migrations.go,
\* migrate; upgrading.md: "upgrading the binary or container automatically
\* upgrades the database schema").
SchemaIsComplete == pc = "serving" => applied = Versions

\* It does, unless a start was stopped between creating the first table and
\* recording it.
SchemaIsCompleteUnlessMisjudged == ~misjudged => SchemaIsComplete

-----------------------------------------------------------------------------
(***************************************************************************)
(* The inductive invariant behind ServesWithOneKey and                     *)
(* SchemaIsCompleteUnlessMisjudged.                                        *)
(***************************************************************************)
Phases ==
  /\ pc \in {"migrate", "seed", "apply", "record", "serving"} => dbfile
  /\ pc \in {"persist", "write"} => key # None /\ ~dbfile /\ procEnv = None
  /\ pc = "record" => max < Latest
  /\ ~dbfile => used = {} /\ \A h \in Handlers : lines[h] = {}

\* Only one key is left anywhere, and it is the one main works with unless main
\* is about to replace it, which it does only before there is a database.
OneKey ==
  \E k \in Keys :
    /\ env \subseteq {k}
    /\ procEnv \in {None, k}
    /\ used \subseteq {k}
    /\ \A h \in Handlers : lines[h] \subseteq {k}
    /\ pc \notin {"down", "key", "persist", "write"} => key = k

\* The schema is a prefix of the migrations, and the record lags by one at most.
LagsByOne(n) ==
  /\ applied = 1 .. n
  /\ recorded \in {1 .. n, 1 .. (n - 1)}
  /\ pc \notin {"seed", "serving"}
  /\ pc = "apply" => max \in {n, n - 1} /\ recorded = 1 .. max
  /\ pc = "record" => max = n - 1 /\ recorded = 1 .. max

SchemaTracked ==
  misjudged \/ applied = Versions \/ \E n \in 0 .. Latest : LagsByOne(n)

IInv == TypeOK /\ Phases /\ OneKey /\ SchemaTracked

=============================================================================
