------------------------------ MODULE Backups ------------------------------
(***************************************************************************)
(* Full backups (internal/backup/manager.go): an archive in the backup     *)
(* directory and a row of the table backups for it, written by handlers    *)
(* and by the scheduler, thinned out by the retention policy, deleted by   *)
(* users, and restored over the database that holds the rows.              *)
(*                                                                         *)
(* An archive is named after the second its backup began in, so a name is  *)
(* a natural number; created_at is the second the row was inserted in.     *)
(***************************************************************************)
EXTENDS Naturals, FiniteSets

CONSTANTS
  Workers,    \* goroutines of the HTTP handlers, and the scheduler's
  Retain,     \* how many backups are kept
  None,       \* no archive, no job
  LastSecond, \* bound on the clock
  LastId,     \* bound on the ids of rows
  Faults,     \* what may fail: "db", "disk"
  Mishaps     \* bound on failures, restarts and restores together

ASSUME BackupsAssumption ==
  /\ Retain \in Nat \ {0}
  /\ LastSecond \in Nat /\ LastId \in Nat \ {0} /\ Mishaps \in Nat
  /\ Faults \subseteq {"db", "disk"}

VARIABLES
  now,      \* the clock, in seconds
  archive,  \* the files of the backup directory, by name
  rows,     \* the table backups of the database
  next,     \* the id SQLite assigns next (AUTOINCREMENT)
  health,   \* what a restore has done to the database under its open connections
  pc,       \* the step each worker is at
  job,      \* its local variables
  mishaps,  \* how many mishaps there have been
  past      \* history

vars == <<now, archive, rows, next, health, pc, job, mishaps, past>>

-----------------------------------------------------------------------------
Seconds == 0..LastSecond
Ids == 1..LastId

Row == [id : Ids, name : Seconds, at : Seconds]

\* What VACUUM INTO copies of the database, as far as it matters here.
Snapshot == [rows : SUBSET Row, next : 1..(LastId + 1)]

\* "open" is being written; "short" was written to its end, but closing it has lost
\* the last of it; "spoilt" was given up, or is written by two at once.  by: who still
\* writes to this file.
Archive == [state : {"open", "whole", "short", "spoilt"}, snap : Snapshot,
            by : SUBSET Workers]

Steps == {"idle", "open", "write", "record", "list", "purge", "unrecord",
          "remove", "delete", "restore", "volumes"}

\* name and snap: of the backup being made or restored; torn: that archive is not
\* whole.  row: the row being deleted.  doomed: what the retention policy has still to
\* delete.
Job == [name : Seconds, snap : Snapshot, torn : BOOLEAN, row : Row, doomed : SUBSET Row]

ASSUME NoneIsNothing == None \notin Archive \cup Job

\* used: names archives have borne.  cut: names whose archive and row may differ
\* because of a failure, a restart, a restore, or because two backups bore the name.
\* removed: rows users deleted during retention runs.  slack: what a retention run had to delete may
\* be left until the next run.  restored: the database has been overwritten.
Past == [used : SUBSET Seconds, cut : SUBSET Seconds, removed : SUBSET Row,
         slack : BOOLEAN, restored : BOOLEAN]

TypeOK ==
  /\ now \in Seconds
  /\ archive \in [Seconds -> Archive \cup {None}]
  /\ rows \in SUBSET Row
  /\ next \in 1..(LastId + 1)
  /\ health \in {"ok", "torn", "lost"}
  /\ pc \in [Workers -> Steps]
  /\ job \in [Workers -> Job \cup {None}]
  /\ mishaps \in 0..Mishaps
  /\ past \in Past
  /\ \A w \in Workers : pc[w] # "idle" => job[w] # None

NoRow == [id |-> 1, name |-> 0, at |-> 0]
Empty == [rows |-> {}, next |-> 1]
NewJob == [name |-> 0, snap |-> Empty, torn |-> FALSE, row |-> NoRow,
           doomed |-> {}]

Init ==
  /\ now = 0
  /\ archive = [n \in Seconds |-> None]
  /\ rows = {} /\ next = 1
  /\ health = "ok"
  /\ pc = [w \in Workers |-> "idle"]
  /\ job = [w \in Workers |-> None]
  /\ mishaps = 0
  /\ past = [used |-> {}, cut |-> {}, removed |-> {}, slack |-> FALSE, restored |-> FALSE]

-----------------------------------------------------------------------------
At(w, step) == pc[w] = step
Goto(w, step) == pc' = [pc EXCEPT ![w] = step]
Done(w) == pc' = [pc EXCEPT ![w] = "idle"] /\ job' = [job EXCEPT ![w] = None]

\* Between a restore and the restart it asks for, a query may also come upon pages
\* that do not belong together.
DatabaseFails == "db" \in Faults \/ health # "ok"
Answers == health # "lost"

\* Backups of the name n that are under way.
InProgress(n) ==
  \E w \in Workers : pc[w] \in {"open", "write", "record"} /\ job[w].name = n

\* Nothing fails, or something does and is counted.
Smooth == UNCHANGED mishaps
Mishap == mishaps < Mishaps /\ mishaps' = mishaps + 1

Cut(N) == past' = [past EXCEPT !.cut = @ \cup N]

\* os.Remove: whoever still writes to the file writes on, to a file without a name.
RemoveFile(n) == archive' = [archive EXCEPT ![n] = None]

Whole(n) == archive[n] # None /\ archive[n].state = "whole"
Closed(n) == archive[n] # None /\ archive[n].state \in {"whole", "short"}

\* The archives a worker leaves without a row, and the rows without an archive, if it
\* stops where it is.
CutBy(w) ==
  CASE pc[w] \in {"write", "record"} -> {job[w].name}
    [] pc[w] \in {"unrecord", "delete"} -> {job[w].row.name}
    [] OTHER -> {}

\* ORDER BY created_at DESC.  SQLite returns rows of one second by their ids.
Before(r, q) == r.at > q.at \/ (r.at = q.at /\ r.id < q.id)

\* What retention runs have still to delete.
Doomed ==
  (UNION {job[w].doomed : w \in {v \in Workers : pc[v] \in {"purge", "unrecord"}}})
    \cup {job[w].row : w \in {v \in Workers : At(v, "unrecord")}}

-----------------------------------------------------------------------------
(***************************************************************************)
(* CreateFullBackup.                                                       *)
(***************************************************************************)

Tick ==
  /\ now < LastSecond
  /\ now' = now + 1
  /\ UNCHANGED <<archive, rows, next, health, pc, job, mishaps, past>>

\* The name is made of the clock, and VACUUM INTO copies the database.
TakeSnapshot(w) ==
  /\ At(w, "idle") /\ Answers
  /\ job' = [job EXCEPT ![w] =
               [NewJob EXCEPT !.name = now, !.snap = [rows |-> rows, next |-> next]]]
  /\ Goto(w, "open")
  /\ UNCHANGED <<now, archive, rows, next, health, mishaps, past>>

\* os.Create truncates the archive that bears the name already.  If another still
\* writes to it, either may have the last word in what comes first in the archive, the
\* database.
OpenArchive(w) ==
  LET n == job[w].name
      others == IF archive[n] = None THEN {} ELSE archive[n].by
  IN  /\ At(w, "open")
      /\ \E s \in {job[w].snap} \cup IF others = {} THEN {} ELSE {archive[n].snap} :
           archive' = [archive EXCEPT ![n] =
                         [state |-> IF others = {} THEN "open" ELSE "spoilt",
                          snap |-> s, by |-> others \cup {w}]]
      /\ past' = [past EXCEPT !.used = @ \cup {n}, !.cut = @ \cup (past.used \cap {n})]
      /\ job' = [job EXCEPT ![w].snap = Empty]
      /\ Goto(w, "write")
      /\ UNCHANGED <<now, rows, next, health, mishaps>>

\* Faulty: the archive bears the status of its row.
WriteArchive_AsCompleted(w) ==
  LET n == job[w].name
  IN  /\ At(w, "write")
      /\ archive' =
           IF archive[n] # None /\ w \in archive[n].by
           THEN [archive EXCEPT ![n].by = @ \ {w},
                                ![n].state = IF @ = "open" THEN "completed" ELSE @]
           ELSE archive
      /\ Goto(w, "record")
      /\ UNCHANGED <<now, rows, next, health, job, mishaps, past>>

\* The snapshot, then the services' volumes, then the writers are closed.  Closing
\* them writes what they still hold, and its errors are dropped.
WriteArchive(w) ==
  LET n == job[w].name
  IN  /\ At(w, "write")
      /\ \E s \in {"whole", "short"} :
           /\ IF s = "whole" THEN Smooth ELSE "disk" \in Faults /\ Mishap
           /\ archive' =
                IF archive[n] # None /\ w \in archive[n].by
                THEN [archive EXCEPT ![n].by = @ \ {w},
                                     ![n].state = IF @ = "open" THEN s ELSE @]
                ELSE archive
      /\ Goto(w, "record")
      /\ UNCHANGED <<now, rows, next, health, job, past>>

Record(w) ==
  /\ At(w, "record") /\ archive[job[w].name] # None
  /\ Answers /\ next <= LastId
  /\ rows' = rows \cup {[id |-> next, name |-> job[w].name, at |-> now]}
  /\ next' = next + 1
  /\ job' = [job EXCEPT ![w] = NewJob]
  /\ Goto(w, "list")
  /\ UNCHANGED <<now, archive, health, mishaps, past>>

\* An archive that cannot be written stays as far as it came, one that cannot be
\* recorded stays unrecorded.
CreateFails(w) ==
  /\ \/ pc[w] \in {"open", "write"} /\ "disk" \in Faults /\ Mishap
     \/ At(w, "record") /\ DatabaseFails /\ Mishap
     \/ At(w, "record") /\ archive[job[w].name] = None /\ Smooth
  /\ LET n == job[w].name
     IN  archive' = IF archive[n] # None /\ w \in archive[n].by
                    THEN [archive EXCEPT ![n].state = "spoilt", ![n].by = @ \ {w}]
                    ELSE archive
  /\ Cut(CutBy(w))
  /\ Done(w)
  /\ UNCHANGED <<now, rows, next, health>>

-----------------------------------------------------------------------------
(***************************************************************************)
(* enforceRetentionPolicy, at the end of each backup.                      *)
(***************************************************************************)

\* Faulty: compares the position in the list with <=.
ListBackups_KeepsOneMore(w) ==
  /\ At(w, "list") /\ Answers
  /\ IF Cardinality(rows) <= Retain
     THEN Done(w)
     ELSE /\ job' = [job EXCEPT ![w].doomed =
                       {r \in rows : Cardinality({q \in rows : Before(q, r)}) > Retain}]
          /\ Goto(w, "purge")
  /\ past' = [past EXCEPT !.slack = FALSE,
                          !.removed = IF Doomed = {} THEN {} ELSE @]
  /\ UNCHANGED <<now, archive, rows, next, health, mishaps>>

\* Faulty: takes the list to begin with the oldest.
ListBackups_OldestFirst(w) ==
  /\ At(w, "list") /\ Answers
  /\ IF Cardinality(rows) <= Retain
     THEN Done(w)
     ELSE /\ job' = [job EXCEPT ![w].doomed =
                       {r \in rows : Cardinality({q \in rows : Before(r, q)}) >= Retain}]
          /\ Goto(w, "purge")
  /\ past' = [past EXCEPT !.slack = FALSE,
                          !.removed = IF Doomed = {} THEN {} ELSE @]
  /\ UNCHANGED <<now, archive, rows, next, health, mishaps>>

ListBackups(w) ==
  /\ At(w, "list") /\ Answers
  /\ IF Cardinality(rows) <= Retain
     THEN Done(w)
     ELSE /\ job' = [job EXCEPT ![w].doomed =
                       {r \in rows : Cardinality({q \in rows : Before(q, r)}) >= Retain}]
          /\ Goto(w, "purge")
  /\ past' = [past EXCEPT !.slack = FALSE,
                          !.removed = IF Doomed = {} THEN {} ELSE @]
  /\ UNCHANGED <<now, archive, rows, next, health, mishaps>>

ListFails(w) ==
  /\ At(w, "list") /\ DatabaseFails /\ Mishap
  /\ Done(w)
  /\ past' = [past EXCEPT !.slack = TRUE]
  /\ UNCHANGED <<now, archive, rows, next, health>>

\* Faulty: retention deletes the records only.
PurgeFile_OnlyRecord(w) ==
  /\ At(w, "purge")
  /\ \E r \in job[w].doomed :
       /\ \A q \in job[w].doomed \ {r} : Before(r, q)
       /\ job' = [job EXCEPT ![w].row = r, ![w].doomed = @ \ {r}]
       /\ \/ Smooth /\ UNCHANGED archive /\ UNCHANGED past
          \/ "disk" \in Faults /\ Mishap /\ Cut({r.name}) /\ UNCHANGED archive
  /\ Goto(w, "unrecord")
  /\ UNCHANGED <<now, rows, next, health>>

\* A file that cannot be removed is left behind, its record is deleted all the same.
PurgeFile(w) ==
  /\ At(w, "purge")
  /\ \E r \in job[w].doomed :
       /\ \A q \in job[w].doomed \ {r} : Before(r, q)
       /\ job' = [job EXCEPT ![w].row = r, ![w].doomed = @ \ {r}]
       /\ \/ RemoveFile(r.name) /\ Smooth /\ UNCHANGED past
          \/ "disk" \in Faults /\ Mishap /\ Cut({r.name}) /\ UNCHANGED archive
  /\ Goto(w, "unrecord")
  /\ UNCHANGED <<now, rows, next, health>>

\* A record that cannot be deleted is left, and the next one is tried.
PurgeRow(w) ==
  /\ At(w, "unrecord")
  /\ \/ /\ Answers /\ Smooth
        /\ rows' = {r \in rows : r.id # job[w].row.id}
        /\ UNCHANGED past
     \/ /\ DatabaseFails /\ Mishap
        /\ past' = [past EXCEPT !.slack = TRUE, !.cut = @ \cup CutBy(w)]
        /\ UNCHANGED rows
  /\ IF job[w].doomed = {}
     THEN Done(w)
     ELSE Goto(w, "purge") /\ job' = [job EXCEPT ![w].row = NoRow]
  /\ UNCHANGED <<now, archive, next, health>>

-----------------------------------------------------------------------------
(***************************************************************************)
(* DeleteBackup.                                                           *)
(***************************************************************************)

GetForDelete(w) ==
  /\ At(w, "idle") /\ Answers
  /\ \E r \in rows : job' = [job EXCEPT ![w] = [NewJob EXCEPT !.row = r]]
  /\ Goto(w, "remove")
  /\ UNCHANGED <<now, archive, rows, next, health, mishaps, past>>

DeleteFile(w) ==
  /\ At(w, "remove")
  /\ RemoveFile(job[w].row.name)
  /\ Goto(w, "delete")
  /\ UNCHANGED <<now, rows, next, health, job, mishaps, past>>

DeleteRow(w) ==
  /\ At(w, "delete") /\ Answers
  /\ rows' = {r \in rows : r.id # job[w].row.id}
  /\ past' = [past EXCEPT !.removed = IF Doomed = {} THEN {} ELSE @ \cup {job[w].row}]
  /\ Done(w)
  /\ UNCHANGED <<now, archive, next, health, mishaps>>

DeleteFails(w) ==
  /\ \/ At(w, "remove") /\ "disk" \in Faults
     \/ At(w, "delete") /\ DatabaseFails
  /\ Mishap
  /\ Cut(CutBy(w))
  /\ Done(w)
  /\ UNCHANGED <<now, archive, rows, next, health>>

-----------------------------------------------------------------------------
(***************************************************************************)
(* Restore.                                                                *)
(***************************************************************************)

\* The archive is read from the file that is open, until an error or its end; the
\* database comes first.  One in which not even that begins changes nothing.
GetForRestore(w) ==
  /\ At(w, "idle") /\ Answers
  /\ \E r \in rows :
       /\ archive[r.name] # None
       /\ job' = [job EXCEPT ![w] = [NewJob EXCEPT !.snap = archive[r.name].snap,
                                                   !.torn = ~Whole(r.name)]]
  /\ Goto(w, "restore")
  /\ UNCHANGED <<now, archive, rows, next, health, mishaps, past>>

\* What the restored rows R get wrong: rows that have no closed archive, archives
\* that have no row, and whatever a deletion under way will delete, for the ids of
\* its rows may be given to other backups.
Mismatched(R) ==
  IF \E w \in Workers : pc[w] \in {"purge", "unrecord", "remove", "delete"}
  THEN Seconds
  ELSE {n \in Seconds : (\E r \in R : r.name = n) # Closed(n)}

\* The file of the database is overwritten while connections are open, and the
\* write-ahead log beside it stays: what is read afterwards are the archive's pages
\* or the log's.  The file is truncated first: if the copy fails, or the archive ends
\* in the middle of the database, that is how it stays.
RestoreDatabase(w) ==
  /\ At(w, "restore") /\ Mishap
  /\ \/ /\ health' = IF health = "ok" THEN "torn" ELSE health
        /\ \E s \in {job[w].snap, [rows |-> rows, next |-> next]} :
             rows' = s.rows /\ next' = s.next
        /\ Goto(w, "volumes") /\ job' = [job EXCEPT ![w] = NewJob]
     \/ /\ "disk" \in Faults \/ job[w].torn
        /\ health' = "lost"
        /\ Done(w)
        /\ UNCHANGED <<rows, next>>
  /\ past' = [past EXCEPT !.restored = TRUE, !.slack = TRUE,
                          !.cut = @ \cup Mismatched(rows')]
  /\ UNCHANGED <<now, archive>>

RestoreVolumes(w) ==
  /\ At(w, "volumes")
  /\ Done(w)
  /\ UNCHANGED <<now, archive, rows, next, health, mishaps, past>>

-----------------------------------------------------------------------------
\* The process ends, and starts again if the database can be opened.  The log that
\* is found beside a restored database is applied to it; one that was just being
\* overwritten is lost.
Restart ==
  /\ Mishap
  /\ pc' = [w \in Workers |-> "idle"] /\ job' = [w \in Workers |-> None]
  /\ archive' = [n \in Seconds |->
                   IF archive[n] = None \/ archive[n].by = {} THEN archive[n]
                   ELSE [archive[n] EXCEPT !.state = "spoilt", !.by = {}]]
  /\ health' \in {IF health = "torn" THEN "ok" ELSE health}
                  \cup IF \E w \in Workers : At(w, "restore") THEN {"lost"} ELSE {}
  /\ past' = [past EXCEPT !.cut = @ \cup UNION {CutBy(w) : w \in Workers},
                          !.slack = @ \/ \E w \in Workers : pc[w] \in {"list", "purge", "unrecord"}]
  /\ UNCHANGED <<now, rows, next>>

Create(w) ==
  \/ TakeSnapshot(w) \/ OpenArchive(w) \/ WriteArchive(w) \/ Record(w) \/ CreateFails(w)
Retention(w) == ListBackups(w) \/ ListFails(w) \/ PurgeFile(w) \/ PurgeRow(w)
Delete(w) == GetForDelete(w) \/ DeleteFile(w) \/ DeleteRow(w) \/ DeleteFails(w)
Restore(w) ==
  GetForRestore(w) \/ RestoreDatabase(w) \/ RestoreVolumes(w)

Next ==
  \/ Tick
  \/ \E w \in Workers : Create(w) \/ Retention(w) \/ Delete(w) \/ Restore(w)
  \/ Restart

Spec == Init /\ [][Next]_vars

-----------------------------------------------------------------------------
\* Somebody is between an archive and the row of it.
Between(n) ==
  \/ InProgress(n)
  \/ \E w \in Workers : pc[w] \in {"unrecord", "delete"} /\ job[w].row.name = n

\* A backup that is listed has an archive that was written to its end, and such an
\* archive in the directory is listed: with backups, retention and deletions at once,
\* and unless something failed in between or two backups began in one second
\* (manager.go, CreateFullBackup, enforceRetentionPolicy, DeleteBackup).  Nobody looks
\* whether closing it has lost the last of it: ArchivesAreWhole.
ArchivesMatchRecords ==
  \A n \in Seconds \ past.cut : Between(n) \/ ((\E r \in rows : r.name = n) <=> Closed(n))

\* The row says that the backup is completed, so its archive is whole (manager.go,
\* CreateFullBackup).  Refuted by backup_cut_short.cfg.
ArchivesAreWhole ==
  \A r \in rows : r.name \in past.cut \/ Between(r.name) \/ Whole(r.name)

\* However retention runs overlap, each with a list of its own that the others make
\* stale, the backups that stay are never more than are to be kept and those whose
\* run is still to come; what a failed run or a restore leaves, the next run finds.
RetentionHolds ==
  past.slack \/
    Cardinality(rows \ Doomed) <= Retain + Cardinality({w \in Workers : At(w, "list")})

\* Retention never deletes the record of a backup unless as many newer ones as are to
\* be kept are still there, or users have deleted them.
RetentionKeepsNewest ==
  [][\A w \in Workers :
       At(w, "unrecord") /\ ~past.restored /\ pc'[w] # pc[w] =>
         \A r \in rows \ rows' :
           Retain <= Cardinality({q \in rows' : q.at >= r.at} \cup
                                 {q \in past.removed : q.at >= r.at})]_vars

=============================================================================
