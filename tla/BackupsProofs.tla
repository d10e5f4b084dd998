---------------------------- MODULE BackupsProofs ----------------------------
(***************************************************************************)
(* Proofs about Backups, for any workers, any number of backups and any    *)
(* failures.                                                               *)
(***************************************************************************)
EXTENDS Backups, FiniteSetTheorems, TLAPS

-----------------------------------------------------------------------------
(***************************************************************************)
(* Type correctness.                                                       *)
(***************************************************************************)
LEMMA ConstantFacts ==
  /\ 0 \in Seconds /\ Seconds \subseteq Nat
  /\ 1 \in Ids /\ Ids \subseteq Nat \ {0}
  /\ 1 \in 1..(LastId + 1)
  /\ NoRow \in Row /\ Empty \in Snapshot /\ NewJob \in Job
  /\ NewJob.doomed = {} /\ NewJob.snap = Empty /\ Empty.rows = {}
  /\ None \notin Archive /\ None \notin Job
<1>1. /\ 0 \in Seconds /\ Seconds \subseteq Nat
      /\ 1 \in Ids /\ Ids \subseteq Nat \ {0} /\ 1 \in 1..(LastId + 1)
  BY BackupsAssumption DEF Seconds, Ids
<1>2. NoRow \in Row
  BY <1>1 DEF NoRow, Row
<1>3. Empty \in Snapshot
  BY <1>1 DEF Empty, Snapshot
<1>4. NewJob \in Job
  BY <1>1, <1>2, <1>3 DEF NewJob, Job
<1> QED BY <1>1, <1>2, <1>3, <1>4, NoneIsNothing DEF NewJob, Empty

\* The jobs that operations begin with.
LEMMA NewJobs ==
  /\ \A n \in Seconds, s \in Snapshot :
       LET j == [NewJob EXCEPT !.name = n, !.snap = s]
       IN  j \in Job /\ j.name = n /\ j.snap = s /\ j.doomed = {}
  /\ \A r \in Row : LET j == [NewJob EXCEPT !.row = r]
                    IN  j \in Job /\ j.row = r /\ j.snap = Empty /\ j.doomed = {}
  /\ \A s \in Snapshot, t \in BOOLEAN :
       LET j == [NewJob EXCEPT !.snap = s, !.torn = t]
       IN  j \in Job /\ j.snap = s /\ j.doomed = {}
BY ConstantFacts DEF Job

\* How a job changes.
LEMMA JobChanges ==
  ASSUME NEW j \in Job
  PROVE  /\ j.name \in Seconds /\ j.snap \in Snapshot /\ j.row \in Row /\ j.doomed \subseteq Row
         /\ LET k == [j EXCEPT !.snap = Empty]
            IN  /\ k \in Job /\ k.snap = Empty /\ k.name = j.name /\ k.row = j.row
                /\ k.doomed = j.doomed
         /\ \A D \in SUBSET Row :
              LET k == [j EXCEPT !.doomed = D]
              IN  k \in Job /\ k.doomed = D /\ k.snap = j.snap /\ k.name = j.name
         /\ \A r \in Row, D \in SUBSET Row :
              LET k == [j EXCEPT !.row = r, !.doomed = D]
              IN  k \in Job /\ k.row = r /\ k.doomed = D /\ k.snap = j.snap /\ k.name = j.name
         /\ LET k == [j EXCEPT !.row = NoRow]
            IN  k \in Job /\ k.doomed = j.doomed /\ k.snap = j.snap /\ k.name = j.name
BY ConstantFacts DEF Job

Others(w) == \A v \in Workers \ {w} : pc'[v] = pc[v] /\ job'[v] = job[v]
Moves(w, step, j) == pc'[w] = step /\ job'[w] = j /\ Others(w)
WorkersTyped ==
  /\ pc \in [Workers -> Steps] /\ job \in [Workers -> Job \cup {None}]
  /\ \A w \in Workers : pc[w] # "idle" => job[w] # None

LEMMA JobTyped ==
  ASSUME TypeOK, NEW w \in Workers, pc[w] # "idle"
  PROVE  job[w] \in Job
BY DEF TypeOK

LEMMA GotoStep ==
  ASSUME TypeOK, NEW w \in Workers, NEW s \in Steps, NEW j \in Job,
         Goto(w, s), job' = [job EXCEPT ![w] = j]
  PROVE  WorkersTyped' /\ Moves(w, s, j)
BY ConstantFacts DEF TypeOK, WorkersTyped, Moves, Others, Goto

LEMMA DoneStep ==
  ASSUME TypeOK, NEW w \in Workers, Done(w)
  PROVE  WorkersTyped' /\ Moves(w, "idle", None)
BY DEF TypeOK, WorkersTyped, Moves, Others, Done, Steps

LEMMA StayStep ==
  ASSUME TypeOK, NEW w \in Workers, NEW s \in Steps, pc[w] # "idle",
         Goto(w, s), UNCHANGED job
  PROVE  WorkersTyped' /\ Moves(w, s, job[w])
BY DEF TypeOK, WorkersTyped, Moves, Others, Goto

\* What each step does, field by field, and that it keeps the variables to their types.
LEMMA TakeSnapshotDoes ==
  ASSUME TypeOK, NEW w \in Workers, TakeSnapshot(w)
  PROVE  /\ TypeOK' /\ Others(w) /\ pc[w] = "idle" /\ pc'[w] = "open"
         /\ job'[w].snap = [rows |-> rows, next |-> next] /\ job'[w].doomed = {}
         /\ UNCHANGED <<archive, rows, next, past>>
<1> DEFINE s == [rows |-> rows, next |-> next]
           j == [NewJob EXCEPT !.name = now, !.snap = s]
<1>1. s \in Snapshot /\ now \in Seconds
  BY DEF TypeOK, Snapshot
<1>2. j \in Job /\ j.snap = s /\ j.doomed = {}
  <2> HIDE DEF s
  <2> QED BY <1>1, ConstantFacts DEF Job
<1>3. job' = [job EXCEPT ![w] = j] /\ Goto(w, "open") /\ "open" \in Steps
  BY DEF TakeSnapshot, Steps
<1> HIDE DEF j
<1>4. WorkersTyped' /\ Moves(w, "open", j)
  BY <1>2, <1>3, GotoStep
<1> QED BY <1>2, <1>4 DEF TypeOK, WorkersTyped, Moves, TakeSnapshot, At

LEMMA OpenArchiveDoes ==
  ASSUME TypeOK, NEW w \in Workers, OpenArchive(w)
  PROVE  LET n == job[w].name
             by == IF archive[n] = None THEN {} ELSE archive[n].by
         IN  /\ TypeOK' /\ Others(w) /\ pc[w] = "open" /\ pc'[w] = "write"
             /\ n \in Seconds /\ job'[w].name = n /\ job'[w].snap = Empty
             /\ archive'[n] # None /\ archive'[n].by = by \cup {w}
             /\ by = {} => archive'[n].state = "open" /\ archive'[n].snap = job[w].snap
             /\ \/ archive'[n].snap = job[w].snap
                \/ archive[n] # None /\ archive'[n].snap = archive[n].snap
             /\ \A m \in Seconds \ {n} : archive'[m] = archive[m]
             /\ past'.used = past.used \cup {n} /\ past'.cut = past.cut \cup (past.used \cap {n})
             /\ past'.removed = past.removed /\ past'.slack = past.slack
             /\ past'.restored = past.restored
             /\ UNCHANGED <<rows, next>>
<1> DEFINE n == job[w].name
           by == IF archive[n] = None THEN {} ELSE archive[n].by
           j == [job[w] EXCEPT !.snap = Empty]
           p == [past EXCEPT !.used = @ \cup {n}, !.cut = @ \cup (past.used \cap {n})]
<1>0. PICK s \in {job[w].snap} \cup (IF by = {} THEN {} ELSE {archive[n].snap}) :
        archive' = [archive EXCEPT ![n] = [state |-> IF by = {} THEN "open" ELSE "spoilt",
                                           snap |-> s, by |-> by \cup {w}]]
  BY DEF OpenArchive
<1> DEFINE a == [state |-> IF by = {} THEN "open" ELSE "spoilt", snap |-> s,
                 by |-> by \cup {w}]
<1>1. pc[w] = "open" /\ archive' = [archive EXCEPT ![n] = a] /\ past' = p
      /\ job' = [job EXCEPT ![w] = j] /\ Goto(w, "write") /\ "write" \in Steps
  BY <1>0 DEF OpenArchive, At, Steps
<1>2. job[w] \in Job
  BY <1>1, JobTyped
<1>3. n \in Seconds /\ job[w].snap \in Snapshot /\ j \in Job /\ j.name = n /\ j.snap = Empty
  BY <1>2, JobChanges
<1>4. by \in SUBSET Workers
  BY <1>3 DEF TypeOK, Archive
<1>5. /\ a \in Archive /\ a # None
      /\ s = job[w].snap \/ (archive[n] # None /\ s = archive[n].snap /\ by # {})
  <2>1. s = job[w].snap \/ (archive[n] # None /\ s = archive[n].snap /\ by # {})
    BY <1>0
  <2>2. s \in Snapshot
    BY <1>3, <2>1 DEF TypeOK, Archive
  <2> HIDE DEF by
  <2>3. a \in Archive
    BY <1>4, <2>2 DEF Archive
  <2> QED BY <2>1, <2>3, ConstantFacts
<1>6. /\ p \in Past /\ p.used = past.used \cup {n} /\ p.cut = past.cut \cup (past.used \cap {n})
      /\ p.removed = past.removed /\ p.slack = past.slack /\ p.restored = past.restored
  BY <1>3 DEF TypeOK, Past
<1>7. /\ a.by = by \cup {w}
      /\ by = {} => a.state = "open" /\ a.snap = job[w].snap
      /\ \/ a.snap = job[w].snap
         \/ archive[n] # None /\ a.snap = archive[n].snap
  BY <1>5
<1> HIDE DEF j, p, a
<1>8. WorkersTyped' /\ Moves(w, "write", j)
  BY <1>1, <1>3, GotoStep
<1>9. /\ archive' \in [Seconds -> Archive \cup {None}] /\ archive'[n] = a
      /\ \A m \in Seconds \ {n} : archive'[m] = archive[m]
  BY <1>1, <1>3, <1>5 DEF TypeOK
<1>10. UNCHANGED <<now, rows, next, health, mishaps>>
  BY DEF OpenArchive
<1>11. TypeOK'
  BY <1>1, <1>6, <1>8, <1>9, <1>10 DEF TypeOK, WorkersTyped
<1> QED BY <1>1, <1>3, <1>5, <1>6, <1>7, <1>8, <1>9, <1>10, <1>11 DEF Moves

LEMMA WriteArchiveDoes ==
  ASSUME TypeOK, NEW w \in Workers, WriteArchive(w)
  PROVE  LET n == job[w].name
         IN  /\ TypeOK' /\ Others(w) /\ pc[w] = "write" /\ pc'[w] = "record"
             /\ n \in Seconds /\ job'[w] = job[w]
             /\ archive[n] # None /\ w \in archive[n].by =>
                  /\ archive'[n] # None /\ archive'[n].by = archive[n].by \ {w}
                  /\ archive'[n].snap = archive[n].snap
                  /\ archive[n].state = "open" => archive'[n].state \in {"whole", "short"}
             /\ archive[n] = None \/ w \notin archive[n].by => archive'[n] = archive[n]
             /\ \A m \in Seconds \ {n} : archive'[m] = archive[m]
             /\ UNCHANGED <<rows, next, past>>
<1> DEFINE n == job[w].name
<1>0. PICK s \in {"whole", "short"} :
        /\ Smooth \/ Mishap
        /\ archive' =
             IF archive[n] # None /\ w \in archive[n].by
             THEN [archive EXCEPT ![n].by = @ \ {w}, ![n].state = IF @ = "open" THEN s ELSE @]
             ELSE archive
  BY DEF WriteArchive
<1> DEFINE a == [archive[n] EXCEPT !.by = @ \ {w}, !.state = IF @ = "open" THEN s ELSE @]
<1>1. /\ pc[w] = "write" /\ UNCHANGED job /\ Goto(w, "record") /\ "record" \in Steps
      /\ archive' = IF archive[n] # None /\ w \in archive[n].by
                    THEN [archive EXCEPT ![n] = a] ELSE archive
  BY <1>0 DEF WriteArchive, At, Steps
<1>2. job[w] \in Job /\ n \in Seconds
  BY <1>1, JobTyped, JobChanges
<1>3. WorkersTyped' /\ Moves(w, "record", job[w])
  BY <1>1, StayStep
<1>4. ASSUME archive[n] # None
      PROVE  /\ a \in Archive /\ a # None /\ a.by = archive[n].by \ {w} /\ a.snap = archive[n].snap
             /\ archive[n].state = "open" => a.state \in {"whole", "short"}
  <2>1. archive[n] \in Archive
    BY <1>2, <1>4 DEF TypeOK
  <2>2. /\ a \in Archive /\ a.by = archive[n].by \ {w} /\ a.snap = archive[n].snap
        /\ archive[n].state = "open" => a.state \in {"whole", "short"}
    BY <1>0, <2>1 DEF Archive
  <2> QED BY <2>2, ConstantFacts
<1> HIDE DEF a
<1>5. /\ archive' \in [Seconds -> Archive \cup {None}]
      /\ \A m \in Seconds \ {n} : archive'[m] = archive[m]
      /\ archive[n] # None /\ w \in archive[n].by => archive'[n] = a
      /\ archive[n] = None \/ w \notin archive[n].by => archive'[n] = archive[n]
  BY <1>1, <1>2, <1>4 DEF TypeOK
<1>6. UNCHANGED <<now, rows, next, health, past>> /\ mishaps' \in 0..Mishaps
  BY <1>0, BackupsAssumption DEF WriteArchive, Smooth, Mishap, TypeOK
<1>7. TypeOK'
  BY <1>3, <1>5, <1>6 DEF TypeOK, WorkersTyped
<1> QED BY <1>1, <1>2, <1>3, <1>4, <1>5, <1>6, <1>7 DEF Moves

LEMMA RecordDoes ==
  ASSUME TypeOK, NEW w \in Workers, Record(w)
  PROVE  LET new == [id |-> next, name |-> job[w].name, at |-> now]
         IN  /\ TypeOK' /\ Others(w) /\ pc[w] = "record" /\ pc'[w] = "list"
             /\ job[w].name \in Seconds /\ job'[w].snap = Empty /\ job'[w].doomed = {}
             /\ new \in Row /\ rows' = rows \cup {new} /\ next' = next + 1
             /\ UNCHANGED <<archive, past>>
<1> DEFINE new == [id |-> next, name |-> job[w].name, at |-> now]
<1>1. /\ pc[w] = "record" /\ job' = [job EXCEPT ![w] = NewJob] /\ Goto(w, "list") /\ "list" \in Steps
      /\ rows' = rows \cup {new} /\ next' = next + 1 /\ next <= LastId
      /\ UNCHANGED <<now, archive, health, mishaps, past>>
  BY DEF Record, At, Steps
<1>2. job[w] \in Job /\ job[w].name \in Seconds
  BY <1>1, JobTyped, JobChanges
<1>3. WorkersTyped' /\ Moves(w, "list", NewJob)
  BY <1>1, GotoStep, ConstantFacts
<1>4. next \in Ids /\ next' \in 1..(LastId + 1)
  BY <1>1, BackupsAssumption DEF TypeOK, Ids
<1>5. new \in Row
  BY <1>2, <1>4 DEF TypeOK, Row
<1> HIDE DEF new
<1>6. TypeOK'
  BY <1>1, <1>3, <1>4, <1>5 DEF TypeOK, WorkersTyped
<1> QED BY <1>1, <1>2, <1>3, <1>5, <1>6, ConstantFacts DEF Moves, new

LEMMA CreateFailsDoes ==
  ASSUME TypeOK, NEW w \in Workers, CreateFails(w)
  PROVE  LET n == job[w].name
         IN  /\ TypeOK' /\ Others(w) /\ pc[w] \in {"open", "write", "record"} /\ pc'[w] = "idle"
             /\ n \in Seconds
             /\ archive[n] # None /\ w \in archive[n].by =>
                  /\ archive'[n] # None /\ archive'[n].by = archive[n].by \ {w}
                  /\ archive'[n].snap = archive[n].snap
             /\ archive[n] = None \/ w \notin archive[n].by => archive'[n] = archive[n]
             /\ \A m \in Seconds \ {n} : archive'[m] = archive[m]
             /\ past'.used = past.used /\ past.cut \subseteq past'.cut
             /\ pc[w] # "open" => n \in past'.cut
             /\ past'.removed = past.removed /\ past'.slack = past.slack
             /\ past'.restored = past.restored
             /\ UNCHANGED <<rows, next>>
<1> DEFINE n == job[w].name
           a == [archive[n] EXCEPT !.state = "spoilt", !.by = @ \ {w}]
           p == [past EXCEPT !.cut = @ \cup CutBy(w)]
<1>1. /\ pc[w] \in {"open", "write", "record"} /\ Done(w) /\ past' = p
      /\ archive' = IF archive[n] # None /\ w \in archive[n].by
                    THEN [archive EXCEPT ![n] = a] ELSE archive
      /\ mishaps' = mishaps \/ (mishaps < Mishaps /\ mishaps' = mishaps + 1)
      /\ UNCHANGED <<now, rows, next, health>>
  BY DEF CreateFails, At, Cut, Mishap, Smooth
<1>2. job[w] \in Job /\ n \in Seconds
  BY <1>1, JobTyped, JobChanges
<1>3. WorkersTyped' /\ Moves(w, "idle", None)
  BY <1>1, DoneStep
<1>4. ASSUME archive[n] # None
      PROVE  /\ a \in Archive /\ a # None /\ a.by = archive[n].by \ {w}
             /\ a.snap = archive[n].snap
  <2>1. archive[n] \in Archive
    BY <1>2, <1>4 DEF TypeOK
  <2>2. a \in Archive /\ a.by = archive[n].by \ {w} /\ a.snap = archive[n].snap
    BY <2>1 DEF Archive
  <2> QED BY <2>2, ConstantFacts
<1> HIDE DEF a
<1>5. /\ archive' \in [Seconds -> Archive \cup {None}]
      /\ \A m \in Seconds \ {n} : archive'[m] = archive[m]
      /\ archive[n] # None /\ w \in archive[n].by => archive'[n] = a
      /\ archive[n] = None \/ w \notin archive[n].by => archive'[n] = archive[n]
  BY <1>1, <1>2, <1>4 DEF TypeOK
<1>6. CutBy(w) \subseteq Seconds /\ (pc[w] # "open" => n \in CutBy(w))
  BY <1>1, <1>2 DEF CutBy
<1>7. /\ p \in Past /\ p.used = past.used /\ p.cut = past.cut \cup CutBy(w)
      /\ p.removed = past.removed /\ p.slack = past.slack /\ p.restored = past.restored
  BY <1>6 DEF TypeOK, Past
<1> HIDE DEF p
<1>8. mishaps' \in 0..Mishaps
  BY <1>1, BackupsAssumption DEF TypeOK
<1>9. TypeOK'
  BY <1>1, <1>3, <1>5, <1>7, <1>8 DEF TypeOK, WorkersTyped
<1> QED BY <1>1, <1>2, <1>3, <1>4, <1>5, <1>6, <1>7, <1>9 DEF Moves

LEMMA ListBackupsDoes ==
  ASSUME TypeOK, NEW w \in Workers, ListBackups(w)
  PROVE  LET D == {r \in rows : Cardinality({q \in rows : Before(q, r)}) >= Retain}
         IN  /\ TypeOK' /\ Others(w) /\ pc[w] = "list"
             /\ \/ Cardinality(rows) <= Retain /\ pc'[w] = "idle"
                \/ /\ ~(Cardinality(rows) <= Retain) /\ pc'[w] = "purge"
                   /\ job'[w].doomed = D /\ job'[w].snap = job[w].snap
             /\ past'.used = past.used /\ past'.cut = past.cut
             /\ past'.removed = (IF Doomed = {} THEN {} ELSE past.removed)
             /\ past'.slack = FALSE /\ past'.restored = past.restored
             /\ UNCHANGED <<archive, rows, next>>
<1> DEFINE D == {r \in rows : Cardinality({q \in rows : Before(q, r)}) >= Retain}
           R == IF Doomed = {} THEN {} ELSE past.removed
           j == [job[w] EXCEPT !.doomed = D]
           p == [past EXCEPT !.slack = FALSE, !.removed = IF Doomed = {} THEN {} ELSE @]
<1>1. /\ pc[w] = "list" /\ past' = p /\ UNCHANGED <<now, archive, rows, next, health, mishaps>>
      /\ \/ Cardinality(rows) <= Retain /\ Done(w)
         \/ ~(Cardinality(rows) <= Retain) /\ job' = [job EXCEPT ![w] = j] /\ Goto(w, "purge")
  BY DEF ListBackups, At
<1>2. job[w] \in Job /\ D \in SUBSET Row
  BY <1>1, JobTyped DEF TypeOK
<1>3. j \in Job /\ j.doomed = D /\ j.snap = job[w].snap
  <2> HIDE DEF D
  <2> QED BY <1>2 DEF Job
<1>4. /\ p \in Past /\ p.used = past.used /\ p.cut = past.cut /\ p.removed = R
      /\ p.slack = FALSE /\ p.restored = past.restored
  <2> HIDE DEF D, j
  <2> QED BY DEF TypeOK, Past
<1> HIDE DEF D, j, p
<1>5. /\ WorkersTyped'
      /\ \/ Moves(w, "idle", None) /\ Cardinality(rows) <= Retain
         \/ Moves(w, "purge", j) /\ ~(Cardinality(rows) <= Retain)
  <2>1. CASE Done(w) /\ Cardinality(rows) <= Retain
    <3>1. WorkersTyped' /\ Moves(w, "idle", None)
      BY <2>1, DoneStep
    <3> QED BY <2>1, <3>1
  <2>2. CASE ~(Cardinality(rows) <= Retain) /\ job' = [job EXCEPT ![w] = j] /\ Goto(w, "purge")
    BY <2>2, <1>3, GotoStep DEF Steps
  <2> QED BY <1>1, <2>1, <2>2
<1>6. TypeOK'
  BY <1>1, <1>4, <1>5 DEF TypeOK, WorkersTyped
<1> HIDE DEF R
<1>7. /\ pc[w] = "list" /\ Others(w)
      /\ \/ Cardinality(rows) <= Retain /\ pc'[w] = "idle"
         \/ /\ ~(Cardinality(rows) <= Retain) /\ pc'[w] = "purge"
            /\ job'[w].doomed = D /\ job'[w].snap = job[w].snap
  BY <1>1, <1>3, <1>5 DEF Moves
<1> QED BY <1>1, <1>4, <1>6, <1>7 DEF D, R

LEMMA ListFailsDoes ==
  ASSUME TypeOK, NEW w \in Workers, ListFails(w)
  PROVE  /\ TypeOK' /\ Others(w) /\ pc[w] = "list" /\ pc'[w] = "idle"
         /\ past'.used = past.used /\ past'.cut = past.cut /\ past'.removed = past.removed
         /\ past'.slack = TRUE /\ past'.restored = past.restored
         /\ UNCHANGED <<archive, rows, next>>
<1> DEFINE p == [past EXCEPT !.slack = TRUE]
<1>1. /\ pc[w] = "list" /\ past' = p /\ Done(w) /\ mishaps < Mishaps /\ mishaps' = mishaps + 1
      /\ UNCHANGED <<now, archive, rows, next, health>>
  BY DEF ListFails, At, Mishap
<1>2. WorkersTyped' /\ Moves(w, "idle", None)
  BY <1>1, DoneStep
<1>3. /\ p \in Past /\ p.used = past.used /\ p.cut = past.cut /\ p.removed = past.removed
      /\ p.slack = TRUE /\ p.restored = past.restored
  BY DEF TypeOK, Past
<1> HIDE DEF p
<1>4. mishaps' \in 0..Mishaps
  BY <1>1, BackupsAssumption DEF TypeOK
<1>5. TypeOK'
  BY <1>1, <1>2, <1>3, <1>4 DEF TypeOK, WorkersTyped
<1> QED BY <1>1, <1>2, <1>3, <1>5 DEF Moves

LEMMA PurgeFileDoes ==
  ASSUME TypeOK, NEW w \in Workers, PurgeFile(w)
  PROVE  \E r \in job[w].doomed :
           /\ r \in Row
           /\ TypeOK' /\ Others(w) /\ pc[w] = "purge" /\ pc'[w] = "unrecord"
           /\ job'[w].row = r /\ job'[w].doomed = job[w].doomed \ {r}
           /\ job'[w].snap = job[w].snap
           /\ \/ archive'[r.name] = None /\ past'.cut = past.cut
              \/ archive'[r.name] = archive[r.name] /\ past'.cut = past.cut \cup {r.name}
           /\ \A m \in Seconds \ {r.name} : archive'[m] = archive[m]
           /\ past'.used = past.used /\ past'.removed = past.removed
           /\ past'.slack = past.slack /\ past'.restored = past.restored
           /\ UNCHANGED <<rows, next>>
<1>1. PICK r \in job[w].doomed :
        /\ job' = [job EXCEPT ![w].row = r, ![w].doomed = @ \ {r}]
        /\ \/ RemoveFile(r.name) /\ Smooth /\ UNCHANGED past
           \/ "disk" \in Faults /\ Mishap /\ Cut({r.name}) /\ UNCHANGED archive
  BY DEF PurgeFile
<1> DEFINE j == [job[w] EXCEPT !.row = r, !.doomed = job[w].doomed \ {r}]
           p == [past EXCEPT !.cut = @ \cup {r.name}]
<1>2. /\ pc[w] = "purge" /\ Goto(w, "unrecord") /\ "unrecord" \in Steps
      /\ UNCHANGED <<now, rows, next, health>>
  BY DEF PurgeFile, At, Steps
<1>3. job[w] \in Job /\ r \in Row /\ r.name \in Seconds /\ job[w].doomed \ {r} \in SUBSET Row
  <2>1. job[w] \in Job
    BY <1>2, JobTyped
  <2>2. job[w].doomed \in SUBSET Row
    BY <2>1, JobChanges
  <2> QED BY <2>1, <2>2 DEF Row
<1>4. j \in Job /\ j.row = r /\ j.doomed = job[w].doomed \ {r} /\ j.snap = job[w].snap
  <2> DEFINE D == job[w].doomed \ {r}
  <2>1. job[w] \in Job /\ r \in Row /\ D \in SUBSET Row
    BY <1>3
  <2> HIDE DEF D
  <2>2. LET k == [job[w] EXCEPT !.row = r, !.doomed = D]
        IN  k \in Job /\ k.row = r /\ k.doomed = D /\ k.snap = job[w].snap
    BY <2>1 DEF Job
  <2> QED BY <2>2 DEF D
<1>5. job' = [job EXCEPT ![w] = j]
  BY <1>1, <1>2, <1>3 DEF TypeOK, Job
<1>6. /\ p \in Past /\ p.used = past.used /\ p.cut = past.cut \cup {r.name}
      /\ p.removed = past.removed /\ p.slack = past.slack /\ p.restored = past.restored
  BY <1>3 DEF TypeOK, Past
<1> HIDE DEF j
<1>7. WorkersTyped' /\ Moves(w, "unrecord", j)
  BY <1>2, <1>4, <1>5, GotoStep
<1>8. /\ archive' \in [Seconds -> Archive \cup {None}]
      /\ \A m \in Seconds \ {r.name} : archive'[m] = archive[m]
      /\ \/ archive'[r.name] = None /\ past' = past
         \/ archive'[r.name] = archive[r.name] /\ past' = p
  BY <1>1, <1>3 DEF RemoveFile, Cut, TypeOK
<1>9. mishaps' \in 0..Mishaps
  BY <1>1, BackupsAssumption DEF TypeOK, Smooth, Mishap
<1> HIDE DEF p
<1>10. TypeOK'
  BY <1>2, <1>6, <1>7, <1>8, <1>9 DEF TypeOK, WorkersTyped
<1> QED BY <1>2, <1>3, <1>4, <1>6, <1>7, <1>8, <1>10 DEF Moves

LEMMA PurgeRowDoes ==
  ASSUME TypeOK, NEW w \in Workers, PurgeRow(w)
  PROVE  /\ TypeOK' /\ Others(w) /\ pc[w] = "unrecord" /\ job[w].row \in Row
         /\ job[w].doomed \subseteq Row
         /\ \/ pc'[w] = "idle" /\ job[w].doomed = {}
            \/ /\ pc'[w] = "purge" /\ job'[w].doomed = job[w].doomed
               /\ job'[w].snap = job[w].snap
         /\ \/ rows' = {r \in rows : r.id # job[w].row.id} /\ past' = past
            \/ /\ rows' = rows /\ past'.slack = TRUE
               /\ past'.cut = past.cut \cup {job[w].row.name}
         /\ past'.used = past.used /\ past'.removed = past.removed
         /\ past'.restored = past.restored
         /\ UNCHANGED <<archive, next>>
<1> DEFINE R == {r \in rows : r.id # job[w].row.id}
           j == [job[w] EXCEPT !.row = NoRow]
           p == [past EXCEPT !.slack = TRUE, !.cut = @ \cup CutBy(w)]
<1>1. /\ pc[w] = "unrecord" /\ UNCHANGED <<now, archive, next, health>>
      /\ \/ Smooth /\ rows' = R /\ UNCHANGED past
         \/ Mishap /\ past' = p /\ UNCHANGED rows
      /\ \/ job[w].doomed = {} /\ Done(w)
         \/ Goto(w, "purge") /\ job' = [job EXCEPT ![w] = j]
  BY DEF PurgeRow, At
<1>2. job[w] \in Job /\ job[w].row \in Row /\ job[w].row.name \in Seconds /\ job[w].doomed \subseteq Row
  BY <1>1, JobTyped, JobChanges DEF Row
<1>3. j \in Job /\ j.doomed = job[w].doomed /\ j.snap = job[w].snap
  BY <1>2, JobChanges
<1>4. CutBy(w) = {job[w].row.name}
  BY <1>1 DEF CutBy
<1>5. /\ p \in Past /\ p.used = past.used /\ p.cut = past.cut \cup {job[w].row.name}
      /\ p.removed = past.removed /\ p.slack = TRUE /\ p.restored = past.restored
  BY <1>2, <1>4 DEF TypeOK, Past
<1> HIDE DEF j, p
<1>6. /\ WorkersTyped'
      /\ \/ Moves(w, "idle", None) /\ job[w].doomed = {}
         \/ Moves(w, "purge", j)
  <2>1. CASE job[w].doomed = {} /\ Done(w)
    BY <2>1, DoneStep
  <2>2. CASE Goto(w, "purge") /\ job' = [job EXCEPT ![w] = j]
    BY <2>2, <1>3, GotoStep DEF Steps
  <2> QED BY <1>1, <2>1, <2>2
<1>7. mishaps' \in 0..Mishaps
  BY <1>1, BackupsAssumption DEF TypeOK, Smooth, Mishap
<1>8. TypeOK'
  BY <1>1, <1>5, <1>6, <1>7 DEF TypeOK, WorkersTyped
<1>9. /\ Others(w)
      /\ \/ pc'[w] = "idle" /\ job[w].doomed = {}
         \/ /\ pc'[w] = "purge" /\ job'[w].doomed = job[w].doomed
            /\ job'[w].snap = job[w].snap
  BY <1>3, <1>6 DEF Moves
<1> QED BY <1>1, <1>2, <1>5, <1>8, <1>9

LEMMA GetForDeleteDoes ==
  ASSUME TypeOK, NEW w \in Workers, GetForDelete(w)
  PROVE  /\ TypeOK' /\ Others(w) /\ pc[w] = "idle" /\ pc'[w] = "remove"
         /\ job'[w].row \in rows /\ job'[w].snap = Empty
         /\ UNCHANGED <<archive, rows, next, past>>
<1>1. PICK r \in rows : job' = [job EXCEPT ![w] = [NewJob EXCEPT !.row = r]]
  BY DEF GetForDelete
<1> DEFINE j == [NewJob EXCEPT !.row = r]
<1>2. j \in Job /\ j.row = r /\ j.snap = Empty
  BY NewJobs DEF TypeOK
<1>3. Goto(w, "remove") /\ "remove" \in Steps /\ job' = [job EXCEPT ![w] = j]
  BY <1>1 DEF GetForDelete, Steps
<1> HIDE DEF j
<1>4. WorkersTyped' /\ Moves(w, "remove", j)
  BY <1>2, <1>3, GotoStep
<1> QED BY <1>2, <1>4 DEF TypeOK, WorkersTyped, Moves, GetForDelete, At

LEMMA DeleteFileDoes ==
  ASSUME TypeOK, NEW w \in Workers, DeleteFile(w)
  PROVE  LET n == job[w].row.name
         IN  /\ TypeOK' /\ Others(w) /\ pc[w] = "remove" /\ pc'[w] = "delete"
             /\ job[w].row \in Row /\ job'[w] = job[w]
             /\ archive'[n] = None /\ \A m \in Seconds \ {n} : archive'[m] = archive[m]
             /\ UNCHANGED <<rows, next, past>>
<1>1. /\ pc[w] = "remove" /\ Goto(w, "delete") /\ "delete" \in Steps
      /\ archive' = [archive EXCEPT ![job[w].row.name] = None]
      /\ UNCHANGED <<now, rows, next, health, job, mishaps, past>>
  BY DEF DeleteFile, At, RemoveFile, Steps
<1>2. job[w] \in Job /\ job[w].row \in Row /\ job[w].row.name \in Seconds
  BY <1>1, JobTyped, JobChanges DEF Row
<1>3. WorkersTyped' /\ Moves(w, "delete", job[w])
  BY <1>1, StayStep
<1>4. TypeOK'
  BY <1>1, <1>3 DEF TypeOK, WorkersTyped
<1> QED BY <1>1, <1>2, <1>3, <1>4 DEF TypeOK, Moves

LEMMA DeleteRowDoes ==
  ASSUME TypeOK, NEW w \in Workers, DeleteRow(w)
  PROVE  /\ TypeOK' /\ Others(w) /\ pc[w] = "delete" /\ pc'[w] = "idle" /\ job[w].row \in Row
         /\ rows' = {r \in rows : r.id # job[w].row.id}
         /\ past'.used = past.used /\ past'.cut = past.cut
         /\ past'.removed = IF Doomed = {} THEN {} ELSE past.removed \cup {job[w].row}
         /\ past'.slack = past.slack /\ past'.restored = past.restored
         /\ UNCHANGED <<archive, next>>
<1> DEFINE R == IF Doomed = {} THEN {} ELSE past.removed \cup {job[w].row}
           p == [past EXCEPT !.removed = IF Doomed = {} THEN {} ELSE @ \cup {job[w].row}]
<1>1. /\ pc[w] = "delete" /\ Done(w) /\ past' = p /\ UNCHANGED <<now, archive, next, health, mishaps>>
      /\ rows' = {r \in rows : r.id # job[w].row.id}
  BY DEF DeleteRow, At
<1>2. job[w] \in Job /\ job[w].row \in Row
  BY <1>1, JobTyped, JobChanges
<1>3. WorkersTyped' /\ Moves(w, "idle", None)
  BY <1>1, DoneStep
<1>4. /\ p \in Past /\ p.used = past.used /\ p.cut = past.cut /\ p.removed = R
      /\ p.slack = past.slack /\ p.restored = past.restored
  BY <1>2 DEF TypeOK, Past
<1> HIDE DEF p
<1>5. TypeOK'
  BY <1>1, <1>3, <1>4 DEF TypeOK, WorkersTyped
<1> QED BY <1>1, <1>2, <1>3, <1>4, <1>5 DEF Moves

LEMMA DeleteFailsDoes ==
  ASSUME TypeOK, NEW w \in Workers, DeleteFails(w)
  PROVE  /\ TypeOK' /\ Others(w) /\ pc[w] \in {"remove", "delete"} /\ pc'[w] = "idle"
         /\ past'.used = past.used /\ past.cut \subseteq past'.cut
         /\ pc[w] = "delete" => job[w].row.name \in past'.cut
         /\ past'.removed = past.removed /\ past'.slack = past.slack
         /\ past'.restored = past.restored
         /\ UNCHANGED <<archive, rows, next>>
<1> DEFINE p == [past EXCEPT !.cut = @ \cup CutBy(w)]
<1>1. /\ pc[w] \in {"remove", "delete"} /\ Done(w) /\ past' = p
      /\ mishaps < Mishaps /\ mishaps' = mishaps + 1
      /\ UNCHANGED <<now, archive, rows, next, health>>
  BY DEF DeleteFails, At, Cut, Mishap
<1>2. job[w] \in Job /\ job[w].row \in Row /\ job[w].row.name \in Seconds
  BY <1>1, JobTyped, JobChanges DEF Row
<1>3. WorkersTyped' /\ Moves(w, "idle", None)
  BY <1>1, DoneStep
<1>4. CutBy(w) \subseteq Seconds /\ (pc[w] = "delete" => job[w].row.name \in CutBy(w))
  BY <1>1, <1>2 DEF CutBy
<1>5. /\ p \in Past /\ p.used = past.used /\ p.cut = past.cut \cup CutBy(w)
      /\ p.removed = past.removed /\ p.slack = past.slack /\ p.restored = past.restored
  BY <1>4 DEF TypeOK, Past
<1> HIDE DEF p
<1>6. mishaps' \in 0..Mishaps
  BY <1>1, BackupsAssumption DEF TypeOK
<1>7. TypeOK'
  BY <1>1, <1>3, <1>5, <1>6 DEF TypeOK, WorkersTyped
<1> QED BY <1>1, <1>3, <1>4, <1>5, <1>7 DEF Moves

LEMMA GetForRestoreDoes ==
  ASSUME TypeOK, NEW w \in Workers, GetForRestore(w)
  PROVE  /\ TypeOK' /\ Others(w) /\ pc[w] = "idle"
         /\ pc'[w] = "restore"
         /\ \E n \in Seconds : archive[n] # None /\ job'[w].snap = archive[n].snap
         /\ UNCHANGED <<archive, rows, next, past>>
<1>1. PICK r \in rows :
        /\ archive[r.name] # None
        /\ job' = [job EXCEPT ![w] = [NewJob EXCEPT !.snap = archive[r.name].snap,
                                                   !.torn = ~Whole(r.name)]]
  BY DEF GetForRestore
<1> DEFINE n == r.name
           j == [NewJob EXCEPT !.snap = archive[n].snap, !.torn = ~Whole(n)]
<1>2. n \in Seconds /\ archive[n] \in Archive
  BY <1>1 DEF TypeOK, Row
<1>3. archive[n].snap \in Snapshot /\ (~Whole(n)) \in BOOLEAN
  BY <1>2 DEF Archive, Whole
<1>4. j \in Job /\ j.snap = archive[n].snap
  BY <1>3, NewJobs
<1>5. /\ job' = [job EXCEPT ![w] = j] /\ Goto(w, "restore") /\ "restore" \in Steps
      /\ pc[w] = "idle" /\ UNCHANGED <<now, archive, rows, next, health, mishaps, past>>
  BY <1>1 DEF GetForRestore, At, Steps
<1> HIDE DEF j
<1>6. WorkersTyped' /\ Moves(w, "restore", j)
  BY <1>4, <1>5, GotoStep
<1>7. TypeOK'
  BY <1>5, <1>6 DEF TypeOK, WorkersTyped
<1> QED BY <1>1, <1>2, <1>4, <1>5, <1>6, <1>7 DEF Moves

LEMMA RestoreDatabaseDoes ==
  ASSUME TypeOK, NEW w \in Workers, RestoreDatabase(w)
  PROVE  /\ TypeOK' /\ Others(w) /\ pc[w] = "restore"
         /\ \/ /\ pc'[w] = "volumes" /\ job'[w].snap = Empty
               /\ \/ rows' = job[w].snap.rows /\ next' = job[w].snap.next
                  \/ rows' = rows /\ next' = next
            \/ pc'[w] = "idle" /\ rows' = rows /\ next' = next
         /\ past'.used = past.used /\ past'.cut = past.cut \cup Mismatched(rows')
         /\ past'.removed = past.removed /\ past'.slack = TRUE /\ past'.restored = TRUE
         /\ UNCHANGED archive
<1> DEFINE p == [past EXCEPT !.restored = TRUE, !.slack = TRUE, !.cut = @ \cup Mismatched(rows')]
<1>1. /\ pc[w] = "restore" /\ past' = p /\ mishaps < Mishaps /\ mishaps' = mishaps + 1
      /\ UNCHANGED <<now, archive>>
      /\ \/ /\ Goto(w, "volumes") /\ job' = [job EXCEPT ![w] = NewJob]
            /\ health' = IF health = "ok" THEN "torn" ELSE health
            /\ \/ rows' = job[w].snap.rows /\ next' = job[w].snap.next
               \/ rows' = rows /\ next' = next
         \/ Done(w) /\ health' = "lost" /\ UNCHANGED <<rows, next>>
  BY DEF RestoreDatabase, At, Mishap
<1>2. job[w].snap.rows \in SUBSET Row /\ job[w].snap.next \in 1..(LastId + 1)
  BY <1>1, JobTyped, JobChanges DEF Snapshot
<1>3. Mismatched(rows') \subseteq Seconds
  BY DEF Mismatched
<1>4. /\ p \in Past /\ p.used = past.used /\ p.cut = past.cut \cup Mismatched(rows')
      /\ p.removed = past.removed /\ p.slack = TRUE /\ p.restored = TRUE
  BY <1>3 DEF TypeOK, Past
<1> HIDE DEF p
<1>5. /\ WorkersTyped'
      /\ \/ /\ Moves(w, "volumes", NewJob)
            /\ \/ rows' = job[w].snap.rows /\ next' = job[w].snap.next
               \/ rows' = rows /\ next' = next
         \/ Moves(w, "idle", None) /\ UNCHANGED <<rows, next>>
  <2>1. CASE /\ Goto(w, "volumes") /\ job' = [job EXCEPT ![w] = NewJob]
             /\ \/ rows' = job[w].snap.rows /\ next' = job[w].snap.next
                \/ rows' = rows /\ next' = next
    <3>1. WorkersTyped' /\ Moves(w, "volumes", NewJob)
      BY <2>1, GotoStep, ConstantFacts DEF Steps
    <3> QED BY <2>1, <3>1
  <2>2. CASE Done(w) /\ UNCHANGED <<rows, next>>
    BY <2>2, DoneStep
  <2> QED BY <1>1, <2>1, <2>2
<1>6. rows' \in SUBSET Row /\ next' \in 1..(LastId + 1) /\ health' \in {"ok", "torn", "lost"}
      /\ mishaps' \in 0..Mishaps
  BY <1>1, <1>2, BackupsAssumption DEF TypeOK
<1>7. TypeOK'
  BY <1>1, <1>4, <1>5, <1>6 DEF TypeOK, WorkersTyped
<1> QED BY <1>1, <1>4, <1>5, <1>7, ConstantFacts DEF Moves

LEMMA RestoreVolumesDoes ==
  ASSUME TypeOK, NEW w \in Workers, RestoreVolumes(w)
  PROVE  /\ TypeOK' /\ Others(w) /\ pc[w] = "volumes" /\ pc'[w] = "idle"
         /\ UNCHANGED <<archive, rows, next, past>>
<1>1. pc[w] = "volumes" /\ Done(w) /\ UNCHANGED <<now, archive, rows, next, health, mishaps, past>>
  BY DEF RestoreVolumes, At
<1>2. WorkersTyped' /\ Moves(w, "idle", None)
  BY <1>1, DoneStep
<1> QED BY <1>1, <1>2 DEF TypeOK, WorkersTyped, Moves

LEMMA CutByTyped ==
  ASSUME TypeOK, NEW w \in Workers
  PROVE  CutBy(w) \subseteq Seconds
<1>1. CASE pc[w] \in {"write", "record", "unrecord", "delete"}
  <2>1. job[w] \in Job /\ job[w].name \in Seconds /\ job[w].row.name \in Seconds
    BY <1>1, JobTyped, JobChanges DEF Row
  <2> QED BY <1>1, <2>1 DEF CutBy
<1>2. CASE pc[w] \notin {"write", "record", "unrecord", "delete"}
  BY <1>2 DEF CutBy
<1> QED BY <1>1, <1>2

LEMMA RestartDoes ==
  ASSUME TypeOK, Restart
  PROVE  /\ TypeOK'
         /\ \A w \in Workers : pc'[w] = "idle"
         /\ \A n \in Seconds : archive'[n] # None =>
              /\ archive[n] # None /\ archive'[n].by = {}
              /\ archive'[n].snap = archive[n].snap
         /\ \A n \in Seconds : archive[n] = None \/ archive[n].by = {} => archive'[n] = archive[n]
         /\ past'.used = past.used
         /\ past'.cut = past.cut \cup UNION {CutBy(w) : w \in Workers}
         /\ past'.removed = past.removed /\ past'.restored = past.restored
         /\ past'.slack = (past.slack \/ \E w \in Workers : pc[w] \in {"list", "purge", "unrecord"})
         /\ UNCHANGED <<rows, next>>
<1> DEFINE C == UNION {CutBy(w) : w \in Workers}
           S == \E w \in Workers : pc[w] \in {"list", "purge", "unrecord"}
           a(n) == [archive[n] EXCEPT !.state = "spoilt", !.by = {}]
           p == [past EXCEPT !.cut = @ \cup C, !.slack = @ \/ S]
<1>1. /\ mishaps < Mishaps /\ mishaps' = mishaps + 1 /\ UNCHANGED <<now, rows, next>>
      /\ pc' = [w \in Workers |-> "idle"] /\ job' = [w \in Workers |-> None]
      /\ archive' = [n \in Seconds |->
                       IF archive[n] = None \/ archive[n].by = {} THEN archive[n] ELSE a(n)]
      /\ health' \in {health, "ok", "lost"} /\ past' = p
  BY DEF Restart, Mishap
<1>2. \A n \in Seconds : archive[n] # None =>
        a(n) \in Archive /\ a(n).by = {} /\ a(n).snap = archive[n].snap
  BY DEF TypeOK, Archive
<1>3. C \subseteq Seconds
  BY CutByTyped
<1>4. S \in BOOLEAN
  OBVIOUS
<1> HIDE DEF C, S, a
<1>5. /\ p \in Past /\ p.used = past.used /\ p.cut = past.cut \cup C
      /\ p.removed = past.removed /\ p.slack = (past.slack \/ S) /\ p.restored = past.restored
  BY <1>3, <1>4 DEF TypeOK, Past
<1> HIDE DEF p
<1>6. archive' \in [Seconds -> Archive \cup {None}] /\ mishaps' \in 0..Mishaps
      /\ health' \in {"ok", "torn", "lost"}
  BY <1>1, <1>2, BackupsAssumption DEF TypeOK
<1>7. TypeOK'
  BY <1>1, <1>5, <1>6 DEF TypeOK, Steps
<1>8. /\ \A w \in Workers : pc'[w] = "idle"
      /\ \A n \in Seconds : archive'[n] # None =>
           /\ archive[n] # None /\ archive'[n].by = {}
           /\ archive'[n].snap = archive[n].snap
      /\ \A n \in Seconds : archive[n] = None \/ archive[n].by = {} => archive'[n] = archive[n]
  BY <1>1, <1>2
<1> QED BY <1>1, <1>5, <1>7, <1>8 DEF C, S

LEMMA TickDoes ==
  ASSUME TypeOK, Tick
  PROVE  /\ TypeOK' /\ UNCHANGED <<archive, rows, next, pc, job, past>>
BY BackupsAssumption DEF Tick, TypeOK, Seconds

LEMMA TypeStep == ASSUME TypeOK, [Next]_vars PROVE TypeOK'
<1>1. ASSUME NEW w \in Workers, TakeSnapshot(w)
      PROVE  TypeOK'
  BY <1>1, TakeSnapshotDoes
<1>2. ASSUME NEW w \in Workers, OpenArchive(w)
      PROVE  TypeOK'
  BY <1>2, OpenArchiveDoes
<1>3. ASSUME NEW w \in Workers, WriteArchive(w)
      PROVE  TypeOK'
  BY <1>3, WriteArchiveDoes
<1>4. ASSUME NEW w \in Workers, Record(w)
      PROVE  TypeOK'
  BY <1>4, RecordDoes
<1>5. ASSUME NEW w \in Workers, CreateFails(w)
      PROVE  TypeOK'
  BY <1>5, CreateFailsDoes
<1>6. ASSUME NEW w \in Workers, ListBackups(w)
      PROVE  TypeOK'
  BY <1>6, ListBackupsDoes
<1>7. ASSUME NEW w \in Workers, ListFails(w)
      PROVE  TypeOK'
  BY <1>7, ListFailsDoes
<1>8. ASSUME NEW w \in Workers, PurgeFile(w)
      PROVE  TypeOK'
  BY <1>8, PurgeFileDoes
<1>9. ASSUME NEW w \in Workers, PurgeRow(w)
      PROVE  TypeOK'
  BY <1>9, PurgeRowDoes
<1>10. ASSUME NEW w \in Workers, GetForDelete(w)
       PROVE  TypeOK'
  BY <1>10, GetForDeleteDoes
<1>11. ASSUME NEW w \in Workers, DeleteFile(w)
       PROVE  TypeOK'
  BY <1>11, DeleteFileDoes
<1>12. ASSUME NEW w \in Workers, DeleteRow(w)
       PROVE  TypeOK'
  BY <1>12, DeleteRowDoes
<1>13. ASSUME NEW w \in Workers, DeleteFails(w)
       PROVE  TypeOK'
  BY <1>13, DeleteFailsDoes
<1>14. ASSUME NEW w \in Workers, GetForRestore(w)
       PROVE  TypeOK'
  BY <1>14, GetForRestoreDoes
<1>15. ASSUME NEW w \in Workers, RestoreDatabase(w)
       PROVE  TypeOK'
  BY <1>15, RestoreDatabaseDoes
<1>16. ASSUME NEW w \in Workers, RestoreVolumes(w)
       PROVE  TypeOK'
  BY <1>16, RestoreVolumesDoes
<1>17. CASE Tick
  BY <1>17, TickDoes
<1>18. CASE Restart
  BY <1>18, RestartDoes
<1>19. CASE UNCHANGED vars
  BY <1>19 DEF TypeOK, vars
<1> QED BY <1>1, <1>2, <1>3, <1>4, <1>5, <1>6, <1>7, <1>8, <1>9, <1>10, <1>11, <1>12, <1>13, <1>14, <1>15, <1>16, <1>17, <1>18, <1>19 DEF Next, Create, Retention, Delete, Restore

\* Every variable stays in its set: the archives, the rows, the workers' steps and the
\* jobs they carry; a worker that is busy has a job.
THEOREM BackupsTyped == Spec => []TypeOK
<1>1. Init => TypeOK
  BY BackupsAssumption, ConstantFacts DEF Init, TypeOK, Steps, Past
<1>2. TypeOK /\ [Next]_vars => TypeOK'
  BY TypeStep
<1> QED BY <1>1, <1>2, PTL DEF Spec

-----------------------------------------------------------------------------
(***************************************************************************)
(* The rows that are or may come back: in the table, in the snapshots that *)
(* archives and workers hold, and in what workers have still to delete.    *)
(***************************************************************************)
Deleting == {"remove", "delete", "unrecord"}
Purging == {"purge", "unrecord"}
Writing == {"write", "record"}

Deletes(w, r) ==
  \/ pc[w] \in Purging /\ r \in job[w].doomed
  \/ pc[w] \in Deleting /\ r = job[w].row

Pending(r) == \E w \in Workers : Deletes(w, r)

Stored(n, r) == archive[n] # None /\ r \in archive[n].snap.rows
Holds(w, r) == pc[w] # "idle" /\ r \in job[w].snap.rows

Known(r) ==
  \/ r \in rows
  \/ \E n \in Seconds : Stored(n, r)
  \/ \E w \in Workers : Holds(w, r) \/ Deletes(w, r)

\* Where a row that is known after a step of w can come from.
LEMMA KnownFrom ==
  ASSUME NEW w \in Workers, Others(w), NEW r, Known(r)',
         r \in rows' => Known(r),
         \A n \in Seconds : Stored(n, r)' => Known(r),
         Holds(w, r)' => Known(r),
         Deletes(w, r)' => Known(r)
  PROVE  Known(r)
<1>1. \A v \in Workers \ {w} : (Holds(v, r)' => Holds(v, r)) /\ (Deletes(v, r)' => Deletes(v, r))
  BY DEF Others, Holds, Deletes
<1> QED BY <1>1 DEF Known

LEMMA ArchiveKept ==
  ASSUME NEW n, NEW r, archive'[n] = archive[n]
  PROVE  Stored(n, r)' = Stored(n, r)
BY DEF Stored

LEMMA KnownBy ==
  ASSUME NEW r
  PROVE  /\ r \in rows => Known(r)
         /\ \A n \in Seconds : Stored(n, r) => Known(r)
         /\ \A w \in Workers : Holds(w, r) \/ Deletes(w, r) => Known(r)
BY DEF Known

\* No step but the recording of a new backup makes a row known that was not, and none
\* is to be deleted but one that is in the table.
LEMMA KnownStep ==
  ASSUME TypeOK, Next, NEW r, Known(r)',
         ~ \E w \in Workers :
             Record(w) /\ r = [id |-> next, name |-> job[w].name, at |-> now]
  PROVE  Known(r)
<1>1. ASSUME NEW w \in Workers, TakeSnapshot(w)
      PROVE  Known(r)
  <2> USE <1>1, TakeSnapshotDoes
  <2>1. r \in rows' => Known(r)
    BY KnownBy
  <2>2. \A n \in Seconds : Stored(n, r)' => Known(r)
    BY KnownBy, ArchiveKept DEF Stored
  <2>3. Holds(w, r)' => Known(r)
    BY KnownBy, ConstantFacts DEF Holds
  <2>4. Deletes(w, r)' => Known(r)
    BY KnownBy DEF Deletes, Deleting, Purging
  <2> QED BY <2>1, <2>2, <2>3, <2>4, KnownFrom
<1>2. ASSUME NEW w \in Workers, OpenArchive(w)
      PROVE  Known(r)
  <2> USE <1>2, OpenArchiveDoes
  <2>1. r \in rows' => Known(r)
    BY KnownBy
  <2>2. \A n \in Seconds : Stored(n, r)' => Known(r)
    <3> DEFINE m == job[w].name
    <3>1. Stored(m, r)' => Known(r)
      <4>1. \/ archive'[m].snap = job[w].snap
            \/ archive[m] # None /\ archive'[m].snap = archive[m].snap
        OBVIOUS
      <4> QED BY <4>1, KnownBy DEF Stored, Holds
    <3>2. \A n \in Seconds \ {m} : archive'[n] = archive[n]
      OBVIOUS
    <3> QED BY <3>1, <3>2, KnownBy, ArchiveKept
  <2>3. Holds(w, r)' => Known(r)
    BY KnownBy, ConstantFacts DEF Holds
  <2>4. Deletes(w, r)' => Known(r)
    BY KnownBy DEF Deletes, Deleting, Purging
  <2> QED BY <2>1, <2>2, <2>3, <2>4, KnownFrom
<1>3. ASSUME NEW w \in Workers, WriteArchive(w)
      PROVE  Known(r)
  <2> USE <1>3, WriteArchiveDoes
  <2>1. r \in rows' => Known(r)
    BY KnownBy
  <2>2. \A n \in Seconds : Stored(n, r)' => Known(r)
    BY KnownBy, ArchiveKept DEF Stored
  <2>3. Holds(w, r)' => Known(r)
    BY KnownBy, ConstantFacts DEF Holds
  <2>4. Deletes(w, r)' => Known(r)
    BY KnownBy DEF Deletes, Deleting, Purging
  <2> QED BY <2>1, <2>2, <2>3, <2>4, KnownFrom
<1>4. ASSUME NEW w \in Workers, Record(w)
      PROVE  Known(r)
  <2> USE <1>4, RecordDoes
  <2>1. r \in rows' => Known(r)
    BY KnownBy
  <2>2. \A n \in Seconds : Stored(n, r)' => Known(r)
    BY KnownBy, ArchiveKept DEF Stored
  <2>3. Holds(w, r)' => Known(r)
    BY KnownBy, ConstantFacts DEF Holds
  <2>4. Deletes(w, r)' => Known(r)
    BY KnownBy DEF Deletes, Deleting, Purging
  <2> QED BY <2>1, <2>2, <2>3, <2>4, KnownFrom
<1>5. ASSUME NEW w \in Workers, CreateFails(w)
      PROVE  Known(r)
  <2> USE <1>5, CreateFailsDoes
  <2>1. r \in rows' => Known(r)
    BY KnownBy
  <2>2. \A n \in Seconds : Stored(n, r)' => Known(r)
    BY KnownBy, ArchiveKept, ConstantFacts DEF Stored
  <2>3. Holds(w, r)' => Known(r)
    BY KnownBy, ConstantFacts DEF Holds
  <2>4. Deletes(w, r)' => Known(r)
    BY KnownBy DEF Deletes, Deleting, Purging
  <2> QED BY <2>1, <2>2, <2>3, <2>4, KnownFrom
<1>6. ASSUME NEW w \in Workers, ListBackups(w)
      PROVE  Known(r)
  <2> USE <1>6, ListBackupsDoes
  <2>1. r \in rows' => Known(r)
    BY KnownBy
  <2>2. \A n \in Seconds : Stored(n, r)' => Known(r)
    BY KnownBy, ArchiveKept DEF Stored
  <2>3. Holds(w, r)' => Known(r)
    BY KnownBy, ConstantFacts DEF Holds
  <2>4. Deletes(w, r)' => Known(r)
    BY KnownBy DEF Deletes, Deleting, Purging
  <2> QED BY <2>1, <2>2, <2>3, <2>4, KnownFrom
<1>7. ASSUME NEW w \in Workers, ListFails(w)
      PROVE  Known(r)
  <2> USE <1>7, ListFailsDoes
  <2>1. r \in rows' => Known(r)
    BY KnownBy
  <2>2. \A n \in Seconds : Stored(n, r)' => Known(r)
    BY KnownBy, ArchiveKept DEF Stored
  <2>3. Holds(w, r)' => Known(r)
    BY KnownBy, ConstantFacts DEF Holds
  <2>4. Deletes(w, r)' => Known(r)
    BY KnownBy DEF Deletes, Deleting, Purging
  <2> QED BY <2>1, <2>2, <2>3, <2>4, KnownFrom
<1>8. ASSUME NEW w \in Workers, PurgeFile(w)
      PROVE  Known(r)
  <2> USE <1>8, PurgeFileDoes
  <2>1. r \in rows' => Known(r)
    BY KnownBy
  <2>2. \A n \in Seconds : Stored(n, r)' => Known(r)
    BY KnownBy, ArchiveKept DEF Stored
  <2>3. Holds(w, r)' => Known(r)
    BY KnownBy, ConstantFacts DEF Holds
  <2>4. Deletes(w, r)' => Known(r)
    BY KnownBy DEF Deletes, Deleting, Purging
  <2> QED BY <2>1, <2>2, <2>3, <2>4, KnownFrom
<1>9. ASSUME NEW w \in Workers, PurgeRow(w)
      PROVE  Known(r)
  <2> USE <1>9, PurgeRowDoes
  <2>1. r \in rows' => Known(r)
    BY KnownBy
  <2>2. \A n \in Seconds : Stored(n, r)' => Known(r)
    BY KnownBy, ArchiveKept DEF Stored
  <2>3. Holds(w, r)' => Known(r)
    BY KnownBy, ConstantFacts DEF Holds
  <2>4. Deletes(w, r)' => Known(r)
    BY KnownBy DEF Deletes, Deleting, Purging
  <2> QED BY <2>1, <2>2, <2>3, <2>4, KnownFrom
<1>10. ASSUME NEW w \in Workers, GetForDelete(w)
       PROVE  Known(r)
  <2> USE <1>10, GetForDeleteDoes
  <2>1. r \in rows' => Known(r)
    BY KnownBy
  <2>2. \A n \in Seconds : Stored(n, r)' => Known(r)
    BY KnownBy, ArchiveKept DEF Stored
  <2>3. Holds(w, r)' => Known(r)
    BY KnownBy, ConstantFacts DEF Holds
  <2>4. Deletes(w, r)' => Known(r)
    BY KnownBy DEF Deletes, Deleting, Purging
  <2> QED BY <2>1, <2>2, <2>3, <2>4, KnownFrom
<1>11. ASSUME NEW w \in Workers, DeleteFile(w)
       PROVE  Known(r)
  <2> USE <1>11, DeleteFileDoes
  <2>1. r \in rows' => Known(r)
    BY KnownBy
  <2>2. \A n \in Seconds : Stored(n, r)' => Known(r)
    BY KnownBy, ArchiveKept DEF Stored
  <2>3. Holds(w, r)' => Known(r)
    BY KnownBy, ConstantFacts DEF Holds
  <2>4. Deletes(w, r)' => Known(r)
    BY KnownBy DEF Deletes, Deleting, Purging
  <2> QED BY <2>1, <2>2, <2>3, <2>4, KnownFrom
<1>12. ASSUME NEW w \in Workers, DeleteRow(w)
       PROVE  Known(r)
  <2> USE <1>12, DeleteRowDoes
  <2>1. r \in rows' => Known(r)
    BY KnownBy
  <2>2. \A n \in Seconds : Stored(n, r)' => Known(r)
    BY KnownBy, ArchiveKept DEF Stored
  <2>3. Holds(w, r)' => Known(r)
    BY KnownBy, ConstantFacts DEF Holds
  <2>4. Deletes(w, r)' => Known(r)
    BY KnownBy DEF Deletes, Deleting, Purging
  <2> QED BY <2>1, <2>2, <2>3, <2>4, KnownFrom
<1>13. ASSUME NEW w \in Workers, DeleteFails(w)
       PROVE  Known(r)
  <2> USE <1>13, DeleteFailsDoes
  <2>1. r \in rows' => Known(r)
    BY KnownBy
  <2>2. \A n \in Seconds : Stored(n, r)' => Known(r)
    BY KnownBy, ArchiveKept DEF Stored
  <2>3. Holds(w, r)' => Known(r)
    BY KnownBy, ConstantFacts DEF Holds
  <2>4. Deletes(w, r)' => Known(r)
    BY KnownBy DEF Deletes, Deleting, Purging
  <2> QED BY <2>1, <2>2, <2>3, <2>4, KnownFrom
<1>14. ASSUME NEW w \in Workers, GetForRestore(w)
       PROVE  Known(r)
  <2> USE <1>14, GetForRestoreDoes
  <2>1. r \in rows' => Known(r)
    BY KnownBy
  <2>2. \A n \in Seconds : Stored(n, r)' => Known(r)
    BY KnownBy, ArchiveKept DEF Stored
  <2>3. Holds(w, r)' => Known(r)
    BY KnownBy DEF Holds, Stored
  <2>4. Deletes(w, r)' => Known(r)
    BY KnownBy DEF Deletes, Deleting, Purging
  <2> QED BY <2>1, <2>2, <2>3, <2>4, KnownFrom
<1>15. ASSUME NEW w \in Workers, RestoreDatabase(w)
       PROVE  Known(r)
  <2> USE <1>15, RestoreDatabaseDoes
  <2>1. r \in rows' => Known(r)
    BY KnownBy DEF Holds
  <2>2. \A n \in Seconds : Stored(n, r)' => Known(r)
    BY KnownBy, ArchiveKept DEF Stored
  <2>3. Holds(w, r)' => Known(r)
    BY KnownBy, ConstantFacts DEF Holds
  <2>4. Deletes(w, r)' => Known(r)
    BY KnownBy DEF Deletes, Deleting, Purging
  <2> QED BY <2>1, <2>2, <2>3, <2>4, KnownFrom
<1>16. ASSUME NEW w \in Workers, RestoreVolumes(w)
       PROVE  Known(r)
  <2> USE <1>16, RestoreVolumesDoes
  <2>1. r \in rows' => Known(r)
    BY KnownBy
  <2>2. \A n \in Seconds : Stored(n, r)' => Known(r)
    BY KnownBy, ArchiveKept DEF Stored
  <2>3. Holds(w, r)' => Known(r)
    BY KnownBy, ConstantFacts DEF Holds
  <2>4. Deletes(w, r)' => Known(r)
    BY KnownBy DEF Deletes, Deleting, Purging
  <2> QED BY <2>1, <2>2, <2>3, <2>4, KnownFrom
<1>17. CASE Tick
  BY <1>17, TickDoes DEF Known, Holds, Deletes, Stored
<1>18. CASE Restart
  <2> USE <1>18, RestartDoes
  <2>1. r \in rows' => Known(r)
    BY KnownBy
  <2>2. \A n \in Seconds : Stored(n, r)' => Known(r)
    BY KnownBy, ConstantFacts DEF Stored
  <2>3. \A w \in Workers : ~Holds(w, r)' /\ ~Deletes(w, r)'
    BY DEF Holds, Deletes, Deleting, Purging
  <2> QED BY <2>1, <2>2, <2>3 DEF Known
<1> QED BY <1>1, <1>2, <1>3, <1>4, <1>5, <1>6, <1>7, <1>8, <1>9, <1>10, <1>11, <1>12, <1>13, <1>14, <1>15, <1>16, <1>17, <1>18 DEF Next, Create, Retention, Delete, Restore

LEMMA PendingFrom ==
  ASSUME NEW w \in Workers, Others(w), NEW r, Pending(r)',
         Deletes(w, r)' => Pending(r) \/ r \in rows
  PROVE  Pending(r) \/ r \in rows
<1>1. \A v \in Workers \ {w} : Deletes(v, r)' => Deletes(v, r)
  BY DEF Others, Deletes
<1> QED BY <1>1 DEF Pending

LEMMA PendingStep ==
  ASSUME TypeOK, Next, NEW r, Pending(r)'
  PROVE  Pending(r) \/ r \in rows
<1>1. ASSUME NEW w \in Workers, TakeSnapshot(w)
      PROVE  Pending(r) \/ r \in rows
  <2> USE <1>1, TakeSnapshotDoes
  <2>1. Deletes(w, r)' => Deletes(w, r) \/ r \in rows
    BY DEF Deletes, Deleting, Purging
  <2>2. Deletes(w, r) => Pending(r)
    BY DEF Pending
  <2> QED BY <2>1, <2>2, PendingFrom
<1>2. ASSUME NEW w \in Workers, OpenArchive(w)
      PROVE  Pending(r) \/ r \in rows
  <2> USE <1>2, OpenArchiveDoes
  <2>1. Deletes(w, r)' => Deletes(w, r) \/ r \in rows
    BY DEF Deletes, Deleting, Purging
  <2>2. Deletes(w, r) => Pending(r)
    BY DEF Pending
  <2> QED BY <2>1, <2>2, PendingFrom
<1>3. ASSUME NEW w \in Workers, WriteArchive(w)
      PROVE  Pending(r) \/ r \in rows
  <2> USE <1>3, WriteArchiveDoes
  <2>1. Deletes(w, r)' => Deletes(w, r) \/ r \in rows
    BY DEF Deletes, Deleting, Purging
  <2>2. Deletes(w, r) => Pending(r)
    BY DEF Pending
  <2> QED BY <2>1, <2>2, PendingFrom
<1>4. ASSUME NEW w \in Workers, Record(w)
      PROVE  Pending(r) \/ r \in rows
  <2> USE <1>4, RecordDoes
  <2>1. Deletes(w, r)' => Deletes(w, r) \/ r \in rows
    BY DEF Deletes, Deleting, Purging
  <2>2. Deletes(w, r) => Pending(r)
    BY DEF Pending
  <2> QED BY <2>1, <2>2, PendingFrom
<1>5. ASSUME NEW w \in Workers, CreateFails(w)
      PROVE  Pending(r) \/ r \in rows
  <2> USE <1>5, CreateFailsDoes
  <2>1. Deletes(w, r)' => Deletes(w, r) \/ r \in rows
    BY DEF Deletes, Deleting, Purging
  <2>2. Deletes(w, r) => Pending(r)
    BY DEF Pending
  <2> QED BY <2>1, <2>2, PendingFrom
<1>6. ASSUME NEW w \in Workers, ListBackups(w)
      PROVE  Pending(r) \/ r \in rows
  <2> USE <1>6, ListBackupsDoes
  <2>1. Deletes(w, r)' => r \in rows
    BY DEF Deletes, Deleting, Purging
  <2> QED BY <2>1, PendingFrom
<1>7. ASSUME NEW w \in Workers, ListFails(w)
      PROVE  Pending(r) \/ r \in rows
  <2> USE <1>7, ListFailsDoes
  <2>1. Deletes(w, r)' => Deletes(w, r) \/ r \in rows
    BY DEF Deletes, Deleting, Purging
  <2>2. Deletes(w, r) => Pending(r)
    BY DEF Pending
  <2> QED BY <2>1, <2>2, PendingFrom
<1>8. ASSUME NEW w \in Workers, PurgeFile(w)
      PROVE  Pending(r) \/ r \in rows
  <2> USE <1>8, PurgeFileDoes
  <2>1. Deletes(w, r)' => Deletes(w, r) \/ r \in rows
    BY DEF Deletes, Deleting, Purging
  <2>2. Deletes(w, r) => Pending(r)
    BY DEF Pending
  <2> QED BY <2>1, <2>2, PendingFrom
<1>9. ASSUME NEW w \in Workers, PurgeRow(w)
      PROVE  Pending(r) \/ r \in rows
  <2> USE <1>9, PurgeRowDoes
  <2>1. Deletes(w, r)' => Deletes(w, r) \/ r \in rows
    BY DEF Deletes, Deleting, Purging
  <2>2. Deletes(w, r) => Pending(r)
    BY DEF Pending
  <2> QED BY <2>1, <2>2, PendingFrom
<1>10. ASSUME NEW w \in Workers, GetForDelete(w)
       PROVE  Pending(r) \/ r \in rows
  <2> USE <1>10, GetForDeleteDoes
  <2>1. Deletes(w, r)' => Deletes(w, r) \/ r \in rows
    BY DEF Deletes, Deleting, Purging
  <2>2. Deletes(w, r) => Pending(r)
    BY DEF Pending
  <2> QED BY <2>1, <2>2, PendingFrom
<1>11. ASSUME NEW w \in Workers, DeleteFile(w)
       PROVE  Pending(r) \/ r \in rows
  <2> USE <1>11, DeleteFileDoes
  <2>1. Deletes(w, r)' => Deletes(w, r) \/ r \in rows
    BY DEF Deletes, Deleting, Purging
  <2>2. Deletes(w, r) => Pending(r)
    BY DEF Pending
  <2> QED BY <2>1, <2>2, PendingFrom
<1>12. ASSUME NEW w \in Workers, DeleteRow(w)
       PROVE  Pending(r) \/ r \in rows
  <2> USE <1>12, DeleteRowDoes
  <2>1. Deletes(w, r)' => Deletes(w, r) \/ r \in rows
    BY DEF Deletes, Deleting, Purging
  <2>2. Deletes(w, r) => Pending(r)
    BY DEF Pending
  <2> QED BY <2>1, <2>2, PendingFrom
<1>13. ASSUME NEW w \in Workers, DeleteFails(w)
       PROVE  Pending(r) \/ r \in rows
  <2> USE <1>13, DeleteFailsDoes
  <2>1. Deletes(w, r)' => Deletes(w, r) \/ r \in rows
    BY DEF Deletes, Deleting, Purging
  <2>2. Deletes(w, r) => Pending(r)
    BY DEF Pending
  <2> QED BY <2>1, <2>2, PendingFrom
<1>14. ASSUME NEW w \in Workers, GetForRestore(w)
       PROVE  Pending(r) \/ r \in rows
  <2> USE <1>14, GetForRestoreDoes
  <2>1. Deletes(w, r)' => Deletes(w, r) \/ r \in rows
    BY DEF Deletes, Deleting, Purging
  <2>2. Deletes(w, r) => Pending(r)
    BY DEF Pending
  <2> QED BY <2>1, <2>2, PendingFrom
<1>15. ASSUME NEW w \in Workers, RestoreDatabase(w)
       PROVE  Pending(r) \/ r \in rows
  <2> USE <1>15, RestoreDatabaseDoes
  <2>1. Deletes(w, r)' => Deletes(w, r) \/ r \in rows
    BY DEF Deletes, Deleting, Purging
  <2>2. Deletes(w, r) => Pending(r)
    BY DEF Pending
  <2> QED BY <2>1, <2>2, PendingFrom
<1>16. ASSUME NEW w \in Workers, RestoreVolumes(w)
       PROVE  Pending(r) \/ r \in rows
  <2> USE <1>16, RestoreVolumesDoes
  <2>1. Deletes(w, r)' => Deletes(w, r) \/ r \in rows
    BY DEF Deletes, Deleting, Purging
  <2>2. Deletes(w, r) => Pending(r)
    BY DEF Pending
  <2> QED BY <2>1, <2>2, PendingFrom
<1>17. CASE Tick
  BY <1>17, TickDoes DEF Pending, Deletes
<1>18. CASE Restart
  BY <1>18, RestartDoes DEF Pending, Deletes, Deleting, Purging
<1> QED BY <1>1, <1>2, <1>3, <1>4, <1>5, <1>6, <1>7, <1>8, <1>9, <1>10, <1>11, <1>12, <1>13, <1>14, <1>15, <1>16, <1>17, <1>18 DEF Next, Create, Retention, Delete, Restore

\* Names once borne stay borne, what was cut stays cut, a restore is not forgotten.
PastKept ==
  /\ past.used \subseteq past'.used /\ past.cut \subseteq past'.cut
  /\ past.restored => past'.restored

LEMMA PastStep ==
  ASSUME TypeOK, Next
  PROVE  PastKept
<1>1. ASSUME NEW w \in Workers, TakeSnapshot(w)
      PROVE  PastKept
  BY <1>1, TakeSnapshotDoes DEF PastKept
<1>2. ASSUME NEW w \in Workers, OpenArchive(w)
      PROVE  PastKept
  BY <1>2, OpenArchiveDoes DEF PastKept
<1>3. ASSUME NEW w \in Workers, WriteArchive(w)
      PROVE  PastKept
  BY <1>3, WriteArchiveDoes DEF PastKept
<1>4. ASSUME NEW w \in Workers, Record(w)
      PROVE  PastKept
  BY <1>4, RecordDoes DEF PastKept
<1>5. ASSUME NEW w \in Workers, CreateFails(w)
      PROVE  PastKept
  BY <1>5, CreateFailsDoes DEF PastKept
<1>6. ASSUME NEW w \in Workers, ListBackups(w)
      PROVE  PastKept
  BY <1>6, ListBackupsDoes DEF PastKept
<1>7. ASSUME NEW w \in Workers, ListFails(w)
      PROVE  PastKept
  BY <1>7, ListFailsDoes DEF PastKept
<1>8. ASSUME NEW w \in Workers, PurgeFile(w)
      PROVE  PastKept
  BY <1>8, PurgeFileDoes DEF PastKept
<1>9. ASSUME NEW w \in Workers, PurgeRow(w)
      PROVE  PastKept
  BY <1>9, PurgeRowDoes DEF PastKept
<1>10. ASSUME NEW w \in Workers, GetForDelete(w)
       PROVE  PastKept
  BY <1>10, GetForDeleteDoes DEF PastKept
<1>11. ASSUME NEW w \in Workers, DeleteFile(w)
       PROVE  PastKept
  BY <1>11, DeleteFileDoes DEF PastKept
<1>12. ASSUME NEW w \in Workers, DeleteRow(w)
       PROVE  PastKept
  BY <1>12, DeleteRowDoes DEF PastKept
<1>13. ASSUME NEW w \in Workers, DeleteFails(w)
       PROVE  PastKept
  BY <1>13, DeleteFailsDoes DEF PastKept
<1>14. ASSUME NEW w \in Workers, GetForRestore(w)
       PROVE  PastKept
  BY <1>14, GetForRestoreDoes DEF PastKept
<1>15. ASSUME NEW w \in Workers, RestoreDatabase(w)
       PROVE  PastKept
  BY <1>15, RestoreDatabaseDoes DEF PastKept
<1>16. ASSUME NEW w \in Workers, RestoreVolumes(w)
       PROVE  PastKept
  BY <1>16, RestoreVolumesDoes DEF PastKept
<1>17. CASE Tick
  BY <1>17, TickDoes DEF PastKept
<1>18. CASE Restart
  BY <1>18, RestartDoes DEF PastKept
<1> QED BY <1>1, <1>2, <1>3, <1>4, <1>5, <1>6, <1>7, <1>8, <1>9, <1>10, <1>11, <1>12, <1>13, <1>14, <1>15, <1>16, <1>17, <1>18 DEF Next, Create, Retention, Delete, Restore

-----------------------------------------------------------------------------
(***************************************************************************)
(* In a table, and in every copy of it, an id is used once, and the next   *)
(* one is greater than all.                                                *)
(***************************************************************************)
Sane(R, n) ==
  /\ \A r \in R : r.id < n
  /\ \A r, q \in R : r.id = q.id => r = q

SnapshotsSane ==
  /\ Sane(rows, next)
  /\ \A n \in Seconds : archive[n] # None => Sane(archive[n].snap.rows, archive[n].snap.next)
  /\ \A w \in Workers : pc[w] # "idle" => Sane(job[w].snap.rows, job[w].snap.next)

LEMMA EmptySane == Sane(Empty.rows, Empty.next)
BY DEF Sane, Empty

LEMMA SaneFrom ==
  ASSUME SnapshotsSane, NEW w \in Workers, Others(w), Sane(rows, next)',
         \A n \in Seconds : archive'[n] # None =>
           \/ archive'[n] = archive[n]
           \/ Sane(archive'[n].snap.rows, archive'[n].snap.next),
         pc'[w] # "idle" => Sane(job'[w].snap.rows, job'[w].snap.next)
  PROVE  SnapshotsSane'
<1>1. \A v \in Workers \ {w} : pc'[v] # "idle" => Sane(job'[v].snap.rows, job'[v].snap.next)
  BY DEF SnapshotsSane, Others
<1>2. \A n \in Seconds : archive'[n] # None => Sane(archive'[n].snap.rows, archive'[n].snap.next)
  BY DEF SnapshotsSane
<1> QED BY <1>1, <1>2 DEF SnapshotsSane

LEMMA SaneStep ==
  ASSUME TypeOK, SnapshotsSane, Next
  PROVE  SnapshotsSane'
<1>a. ASSUME NEW R, NEW R2 \in SUBSET R, NEW n, Sane(R, n) PROVE Sane(R2, n)
  BY <1>a DEF Sane
<1>1. ASSUME NEW w \in Workers, TakeSnapshot(w)
      PROVE  SnapshotsSane'
  <2> USE <1>1, TakeSnapshotDoes
  <2>1. Sane(rows, next)'
    BY <1>a DEF SnapshotsSane
  <2>2. \A n \in Seconds : archive'[n] # None =>
          \/ archive'[n] = archive[n]
          \/ Sane(archive'[n].snap.rows, archive'[n].snap.next)
    BY EmptySane DEF SnapshotsSane
  <2>3. pc'[w] # "idle" => Sane(job'[w].snap.rows, job'[w].snap.next)
    BY EmptySane DEF SnapshotsSane
  <2> QED BY <2>1, <2>2, <2>3, SaneFrom
<1>2. ASSUME NEW w \in Workers, OpenArchive(w)
      PROVE  SnapshotsSane'
  <2> USE <1>2, OpenArchiveDoes
  <2>1. Sane(rows, next)'
    BY <1>a DEF SnapshotsSane
  <2>2. \A n \in Seconds : archive'[n] # None =>
          \/ archive'[n] = archive[n]
          \/ Sane(archive'[n].snap.rows, archive'[n].snap.next)
    BY EmptySane DEF SnapshotsSane
  <2>3. pc'[w] # "idle" => Sane(job'[w].snap.rows, job'[w].snap.next)
    BY EmptySane DEF SnapshotsSane
  <2> QED BY <2>1, <2>2, <2>3, SaneFrom
<1>3. ASSUME NEW w \in Workers, WriteArchive(w)
      PROVE  SnapshotsSane'
  <2> USE <1>3, WriteArchiveDoes
  <2>1. Sane(rows, next)'
    BY <1>a DEF SnapshotsSane
  <2>2. \A n \in Seconds : archive'[n] # None =>
          \/ archive'[n] = archive[n]
          \/ Sane(archive'[n].snap.rows, archive'[n].snap.next)
    BY EmptySane DEF SnapshotsSane
  <2>3. pc'[w] # "idle" => Sane(job'[w].snap.rows, job'[w].snap.next)
    BY EmptySane DEF SnapshotsSane
  <2> QED BY <2>1, <2>2, <2>3, SaneFrom
<1>4. ASSUME NEW w \in Workers, Record(w)
      PROVE  SnapshotsSane'
  <2> USE <1>4, RecordDoes
  <2>1. Sane(rows, next)'
    BY DEF SnapshotsSane, Sane, TypeOK, Row, Ids
  <2>2. \A n \in Seconds : archive'[n] # None =>
          \/ archive'[n] = archive[n]
          \/ Sane(archive'[n].snap.rows, archive'[n].snap.next)
    BY EmptySane DEF SnapshotsSane
  <2>3. pc'[w] # "idle" => Sane(job'[w].snap.rows, job'[w].snap.next)
    BY EmptySane DEF SnapshotsSane
  <2> QED BY <2>1, <2>2, <2>3, SaneFrom
<1>5. ASSUME NEW w \in Workers, CreateFails(w)
      PROVE  SnapshotsSane'
  <2> USE <1>5, CreateFailsDoes
  <2>1. Sane(rows, next)'
    BY <1>a DEF SnapshotsSane
  <2>2. \A n \in Seconds : archive'[n] # None =>
          \/ archive'[n] = archive[n]
          \/ Sane(archive'[n].snap.rows, archive'[n].snap.next)
    BY EmptySane DEF SnapshotsSane
  <2>3. pc'[w] # "idle" => Sane(job'[w].snap.rows, job'[w].snap.next)
    BY EmptySane DEF SnapshotsSane
  <2> QED BY <2>1, <2>2, <2>3, SaneFrom
<1>6. ASSUME NEW w \in Workers, ListBackups(w)
      PROVE  SnapshotsSane'
  <2> USE <1>6, ListBackupsDoes
  <2>1. Sane(rows, next)'
    BY <1>a DEF SnapshotsSane
  <2>2. \A n \in Seconds : archive'[n] # None =>
          \/ archive'[n] = archive[n]
          \/ Sane(archive'[n].snap.rows, archive'[n].snap.next)
    BY EmptySane DEF SnapshotsSane
  <2>3. pc'[w] # "idle" => Sane(job'[w].snap.rows, job'[w].snap.next)
    BY EmptySane DEF SnapshotsSane
  <2> QED BY <2>1, <2>2, <2>3, SaneFrom
<1>7. ASSUME NEW w \in Workers, ListFails(w)
      PROVE  SnapshotsSane'
  <2> USE <1>7, ListFailsDoes
  <2>1. Sane(rows, next)'
    BY <1>a DEF SnapshotsSane
  <2>2. \A n \in Seconds : archive'[n] # None =>
          \/ archive'[n] = archive[n]
          \/ Sane(archive'[n].snap.rows, archive'[n].snap.next)
    BY EmptySane DEF SnapshotsSane
  <2>3. pc'[w] # "idle" => Sane(job'[w].snap.rows, job'[w].snap.next)
    BY EmptySane DEF SnapshotsSane
  <2> QED BY <2>1, <2>2, <2>3, SaneFrom
<1>8. ASSUME NEW w \in Workers, PurgeFile(w)
      PROVE  SnapshotsSane'
  <2> USE <1>8, PurgeFileDoes
  <2>1. Sane(rows, next)'
    BY <1>a DEF SnapshotsSane
  <2>2. \A n \in Seconds : archive'[n] # None =>
          \/ archive'[n] = archive[n]
          \/ Sane(archive'[n].snap.rows, archive'[n].snap.next)
    BY EmptySane DEF SnapshotsSane
  <2>3. pc'[w] # "idle" => Sane(job'[w].snap.rows, job'[w].snap.next)
    BY EmptySane DEF SnapshotsSane
  <2> QED BY <2>1, <2>2, <2>3, SaneFrom
<1>9. ASSUME NEW w \in Workers, PurgeRow(w)
      PROVE  SnapshotsSane'
  <2> USE <1>9, PurgeRowDoes
  <2>1. Sane(rows, next)'
    BY <1>a DEF SnapshotsSane
  <2>2. \A n \in Seconds : archive'[n] # None =>
          \/ archive'[n] = archive[n]
          \/ Sane(archive'[n].snap.rows, archive'[n].snap.next)
    BY EmptySane DEF SnapshotsSane
  <2>3. pc'[w] # "idle" => Sane(job'[w].snap.rows, job'[w].snap.next)
    BY EmptySane DEF SnapshotsSane
  <2> QED BY <2>1, <2>2, <2>3, SaneFrom
<1>10. ASSUME NEW w \in Workers, GetForDelete(w)
       PROVE  SnapshotsSane'
  <2> USE <1>10, GetForDeleteDoes
  <2>1. Sane(rows, next)'
    BY <1>a DEF SnapshotsSane
  <2>2. \A n \in Seconds : archive'[n] # None =>
          \/ archive'[n] = archive[n]
          \/ Sane(archive'[n].snap.rows, archive'[n].snap.next)
    BY EmptySane DEF SnapshotsSane
  <2>3. pc'[w] # "idle" => Sane(job'[w].snap.rows, job'[w].snap.next)
    BY EmptySane DEF SnapshotsSane
  <2> QED BY <2>1, <2>2, <2>3, SaneFrom
<1>11. ASSUME NEW w \in Workers, DeleteFile(w)
       PROVE  SnapshotsSane'
  <2> USE <1>11, DeleteFileDoes
  <2>1. Sane(rows, next)'
    BY <1>a DEF SnapshotsSane
  <2>2. \A n \in Seconds : archive'[n] # None =>
          \/ archive'[n] = archive[n]
          \/ Sane(archive'[n].snap.rows, archive'[n].snap.next)
    BY EmptySane DEF SnapshotsSane
  <2>3. pc'[w] # "idle" => Sane(job'[w].snap.rows, job'[w].snap.next)
    BY EmptySane DEF SnapshotsSane
  <2> QED BY <2>1, <2>2, <2>3, SaneFrom
<1>12. ASSUME NEW w \in Workers, DeleteRow(w)
       PROVE  SnapshotsSane'
  <2> USE <1>12, DeleteRowDoes
  <2>1. Sane(rows, next)'
    BY <1>a DEF SnapshotsSane
  <2>2. \A n \in Seconds : archive'[n] # None =>
          \/ archive'[n] = archive[n]
          \/ Sane(archive'[n].snap.rows, archive'[n].snap.next)
    BY EmptySane DEF SnapshotsSane
  <2>3. pc'[w] # "idle" => Sane(job'[w].snap.rows, job'[w].snap.next)
    BY EmptySane DEF SnapshotsSane
  <2> QED BY <2>1, <2>2, <2>3, SaneFrom
<1>13. ASSUME NEW w \in Workers, DeleteFails(w)
       PROVE  SnapshotsSane'
  <2> USE <1>13, DeleteFailsDoes
  <2>1. Sane(rows, next)'
    BY <1>a DEF SnapshotsSane
  <2>2. \A n \in Seconds : archive'[n] # None =>
          \/ archive'[n] = archive[n]
          \/ Sane(archive'[n].snap.rows, archive'[n].snap.next)
    BY EmptySane DEF SnapshotsSane
  <2>3. pc'[w] # "idle" => Sane(job'[w].snap.rows, job'[w].snap.next)
    BY EmptySane DEF SnapshotsSane
  <2> QED BY <2>1, <2>2, <2>3, SaneFrom
<1>14. ASSUME NEW w \in Workers, GetForRestore(w)
       PROVE  SnapshotsSane'
  <2> USE <1>14, GetForRestoreDoes
  <2>1. Sane(rows, next)'
    BY <1>a DEF SnapshotsSane
  <2>2. \A n \in Seconds : archive'[n] # None =>
          \/ archive'[n] = archive[n]
          \/ Sane(archive'[n].snap.rows, archive'[n].snap.next)
    BY EmptySane DEF SnapshotsSane
  <2>3. pc'[w] # "idle" => Sane(job'[w].snap.rows, job'[w].snap.next)
    BY EmptySane DEF SnapshotsSane
  <2> QED BY <2>1, <2>2, <2>3, SaneFrom
<1>15. ASSUME NEW w \in Workers, RestoreDatabase(w)
       PROVE  SnapshotsSane'
  <2> USE <1>15, RestoreDatabaseDoes
  <2>1. Sane(rows, next)'
    BY DEF SnapshotsSane
  <2>2. \A n \in Seconds : archive'[n] # None =>
          \/ archive'[n] = archive[n]
          \/ Sane(archive'[n].snap.rows, archive'[n].snap.next)
    BY EmptySane DEF SnapshotsSane
  <2>3. pc'[w] # "idle" => Sane(job'[w].snap.rows, job'[w].snap.next)
    BY EmptySane DEF SnapshotsSane
  <2> QED BY <2>1, <2>2, <2>3, SaneFrom
<1>16. ASSUME NEW w \in Workers, RestoreVolumes(w)
       PROVE  SnapshotsSane'
  <2> USE <1>16, RestoreVolumesDoes
  <2>1. Sane(rows, next)'
    BY <1>a DEF SnapshotsSane
  <2>2. \A n \in Seconds : archive'[n] # None =>
          \/ archive'[n] = archive[n]
          \/ Sane(archive'[n].snap.rows, archive'[n].snap.next)
    BY EmptySane DEF SnapshotsSane
  <2>3. pc'[w] # "idle" => Sane(job'[w].snap.rows, job'[w].snap.next)
    BY EmptySane DEF SnapshotsSane
  <2> QED BY <2>1, <2>2, <2>3, SaneFrom
<1>17. CASE Tick
  BY <1>17, TickDoes DEF SnapshotsSane
<1>18. CASE Restart
  BY <1>18, RestartDoes, EmptySane DEF SnapshotsSane
<1> QED BY <1>1, <1>2, <1>3, <1>4, <1>5, <1>6, <1>7, <1>8, <1>9, <1>10, <1>11, <1>12, <1>13, <1>14, <1>15, <1>16, <1>17, <1>18 DEF Next, Create, Retention, Delete, Restore

-----------------------------------------------------------------------------
(***************************************************************************)
(* As long as no restore has come between, the row that is to be deleted   *)
(* is the only one with its id: the deletion by id deletes it and no other.*)
(***************************************************************************)
IdsInv ==
  ~past.restored \/ past.cut # Seconds =>
    \A r \in Row : Pending(r) =>
      /\ r.id < next
      /\ \A q \in Row : (q \in rows \/ Pending(q)) /\ q.id = r.id => q = r

LEMMA IdsFrom ==
  ASSUME TypeOK, TypeOK', SnapshotsSane, IdsInv, Next, rows' \subseteq rows, next' = next
  PROVE  IdsInv'
<1>1. SUFFICES ASSUME ~past'.restored \/ past'.cut # Seconds, NEW r \in Row, Pending(r)'
               PROVE  /\ r.id < next
                      /\ \A q \in Row : (q \in rows' \/ Pending(q)') /\ q.id = r.id => q = r
  BY DEF IdsInv
<1>2. past'.cut \subseteq Seconds
  BY DEF TypeOK, Past
<1>3. ~past.restored \/ past.cut # Seconds
  BY <1>1, <1>2, PastStep DEF PastKept
<1>4. \A q \in Row : Pending(q) =>
        q.id < next /\ \A p \in Row : (p \in rows \/ Pending(p)) /\ p.id = q.id => p = q
  BY <1>3 DEF IdsInv
<1>5. (\A q \in rows : q.id < next) /\ \A p, q \in rows : p.id = q.id => p = q
  BY DEF SnapshotsSane, Sane
<1>6. \A q \in Row : Pending(q)' => Pending(q) \/ q \in rows
  BY PendingStep
<1>7. Pending(r) \/ r \in rows
  BY <1>1, <1>6
<1> QED BY <1>4, <1>5, <1>6, <1>7

LEMMA IdsStep ==
  ASSUME TypeOK, SnapshotsSane, IdsInv, Next
  PROVE  IdsInv'
<1>1. ASSUME NEW w \in Workers, TakeSnapshot(w)
      PROVE  IdsInv'
  BY <1>1, TakeSnapshotDoes, IdsFrom
<1>2. ASSUME NEW w \in Workers, OpenArchive(w)
      PROVE  IdsInv'
  BY <1>2, OpenArchiveDoes, IdsFrom
<1>3. ASSUME NEW w \in Workers, WriteArchive(w)
      PROVE  IdsInv'
  BY <1>3, WriteArchiveDoes, IdsFrom
<1>4. ASSUME NEW w \in Workers, Record(w)
      PROVE  IdsInv'
  <2> USE <1>4, RecordDoes
  <2>1. \A r \in Row : Pending(r)' = Pending(r)
    BY DEF Pending, Deletes, Others, Deleting, Purging
  <2>2. \A r \in Row : r.id < next' <=> r.id <= next
    BY DEF TypeOK, Row, Ids
  <2> DEFINE new == [id |-> next, name |-> job[w].name, at |-> now]
  <2>3. new.id = next /\ next \in Nat /\ \A r \in Row : r.id \in Nat
    BY DEF TypeOK, Row, Ids
  <2>4. rows' = rows \cup {new} /\ past' = past
    OBVIOUS
  <2> HIDE DEF new
  <2>5. SUFFICES ASSUME ~past.restored \/ past.cut # Seconds, NEW r \in Row, Pending(r)
                 PROVE  /\ r.id < next'
                        /\ \A q \in Row : (q \in rows' \/ Pending(q)) /\ q.id = r.id => q = r
    BY <2>1, <2>4 DEF IdsInv
  <2>6. r.id < next /\ \A q \in Row : (q \in rows \/ Pending(q)) /\ q.id = r.id => q = r
    BY <2>5 DEF IdsInv
  <2> QED BY <2>2, <2>3, <2>4, <2>6
<1>5. ASSUME NEW w \in Workers, CreateFails(w)
      PROVE  IdsInv'
  BY <1>5, CreateFailsDoes, IdsFrom
<1>6. ASSUME NEW w \in Workers, ListBackups(w)
      PROVE  IdsInv'
  BY <1>6, ListBackupsDoes, IdsFrom
<1>7. ASSUME NEW w \in Workers, ListFails(w)
      PROVE  IdsInv'
  BY <1>7, ListFailsDoes, IdsFrom
<1>8. ASSUME NEW w \in Workers, PurgeFile(w)
      PROVE  IdsInv'
  BY <1>8, PurgeFileDoes, IdsFrom
<1>9. ASSUME NEW w \in Workers, PurgeRow(w)
      PROVE  IdsInv'
  BY <1>9, PurgeRowDoes, IdsFrom
<1>10. ASSUME NEW w \in Workers, GetForDelete(w)
       PROVE  IdsInv'
  BY <1>10, GetForDeleteDoes, IdsFrom
<1>11. ASSUME NEW w \in Workers, DeleteFile(w)
       PROVE  IdsInv'
  BY <1>11, DeleteFileDoes, IdsFrom
<1>12. ASSUME NEW w \in Workers, DeleteRow(w)
       PROVE  IdsInv'
  BY <1>12, DeleteRowDoes, IdsFrom
<1>13. ASSUME NEW w \in Workers, DeleteFails(w)
       PROVE  IdsInv'
  BY <1>13, DeleteFailsDoes, IdsFrom
<1>14. ASSUME NEW w \in Workers, GetForRestore(w)
       PROVE  IdsInv'
  BY <1>14, GetForRestoreDoes, IdsFrom
<1>15. ASSUME NEW w \in Workers, RestoreDatabase(w)
       PROVE  IdsInv'
  <2> USE <1>15, RestoreDatabaseDoes
  <2>1. SUFFICES ASSUME past'.cut # Seconds, NEW r \in Row, Pending(r)'
                 PROVE  FALSE
    BY DEF IdsInv
  <2>2. past'.cut \subseteq Seconds /\ Mismatched(rows') \subseteq past'.cut
    BY DEF TypeOK, Past
  <2>3. \A v \in Workers : pc[v] \notin {"purge", "unrecord", "remove", "delete"}
    BY <2>1, <2>2 DEF Mismatched
  <2>4. \A v \in Workers : ~Deletes(v, r)'
    BY <2>3 DEF Deletes, Deleting, Purging, Others
  <2> QED BY <2>1, <2>4 DEF Pending
<1>16. ASSUME NEW w \in Workers, RestoreVolumes(w)
       PROVE  IdsInv'
  BY <1>16, RestoreVolumesDoes, IdsFrom
<1>17. CASE Tick
  BY <1>17, TickDoes, IdsFrom
<1>18. CASE Restart
  BY <1>18, RestartDoes, IdsFrom
<1> QED BY <1>1, <1>2, <1>3, <1>4, <1>5, <1>6, <1>7, <1>8, <1>9, <1>10, <1>11, <1>12, <1>13, <1>14, <1>15, <1>16, <1>17, <1>18 DEF Next, Create, Retention, Delete, Restore

-----------------------------------------------------------------------------
(***************************************************************************)
(* The names of archives, of backups being written, and of every row that  *)
(* is known, have been borne by an archive.                                *)
(***************************************************************************)
UsedInv ==
  /\ \A n \in Seconds : archive[n] # None => n \in past.used
  /\ \A w \in Workers : pc[w] \in Writing => job[w].name \in past.used
  /\ \A r \in Row : Known(r) => r.name \in past.used

LEMMA UsedFrom ==
  ASSUME TypeOK, UsedInv, Next,
         \A n \in Seconds : archive'[n] # None => archive[n] # None \/ n \in past'.used,
         \A v \in Workers : pc'[v] \in Writing =>
           job'[v].name \in past'.used \/ (pc[v] \in Writing /\ job'[v].name = job[v].name)
  PROVE  UsedInv'
<1>1. past.used \subseteq past'.used
  BY PastStep DEF PastKept
<1>2. ASSUME NEW r \in Row, Known(r)'
      PROVE  r.name \in past'.used
  <2>1. CASE Known(r)
    BY <1>1, <2>1 DEF UsedInv
  <2>2. ASSUME NEW w \in Workers, Record(w), r = [id |-> next, name |-> job[w].name, at |-> now]
        PROVE  r.name \in past'.used
    BY <1>1, <2>2, RecordDoes DEF UsedInv, Writing
  <2> QED BY <1>2, <2>1, <2>2, KnownStep
<1> QED BY <1>1, <1>2 DEF UsedInv

LEMMA UsedStep ==
  ASSUME TypeOK, UsedInv, Next
  PROVE  UsedInv'
<1>1. ASSUME NEW w \in Workers, TakeSnapshot(w)
      PROVE  UsedInv'
  <2> USE <1>1, TakeSnapshotDoes
  <2>1. \A n \in Seconds : archive'[n] # None => archive[n] # None \/ n \in past'.used
    OBVIOUS
  <2>2. \A v \in Workers : pc'[v] \in Writing =>
          job'[v].name \in past'.used \/ (pc[v] \in Writing /\ job'[v].name = job[v].name)
    BY DEF Others, Writing
  <2> QED BY <2>1, <2>2, UsedFrom
<1>2. ASSUME NEW w \in Workers, OpenArchive(w)
      PROVE  UsedInv'
  <2> USE <1>2, OpenArchiveDoes
  <2>1. \A n \in Seconds : archive'[n] # None => archive[n] # None \/ n \in past'.used
    OBVIOUS
  <2>2. \A v \in Workers : pc'[v] \in Writing =>
          job'[v].name \in past'.used \/ (pc[v] \in Writing /\ job'[v].name = job[v].name)
    BY DEF Others, Writing
  <2> QED BY <2>1, <2>2, UsedFrom
<1>3. ASSUME NEW w \in Workers, WriteArchive(w)
      PROVE  UsedInv'
  <2> USE <1>3, WriteArchiveDoes
  <2>1. \A n \in Seconds : archive'[n] # None => archive[n] # None \/ n \in past'.used
    OBVIOUS
  <2>2. \A v \in Workers : pc'[v] \in Writing =>
          job'[v].name \in past'.used \/ (pc[v] \in Writing /\ job'[v].name = job[v].name)
    BY DEF Others, Writing
  <2> QED BY <2>1, <2>2, UsedFrom
<1>4. ASSUME NEW w \in Workers, Record(w)
      PROVE  UsedInv'
  <2> USE <1>4, RecordDoes
  <2>1. \A n \in Seconds : archive'[n] # None => archive[n] # None \/ n \in past'.used
    OBVIOUS
  <2>2. \A v \in Workers : pc'[v] \in Writing =>
          job'[v].name \in past'.used \/ (pc[v] \in Writing /\ job'[v].name = job[v].name)
    BY DEF Others, Writing
  <2> QED BY <2>1, <2>2, UsedFrom
<1>5. ASSUME NEW w \in Workers, CreateFails(w)
      PROVE  UsedInv'
  <2> USE <1>5, CreateFailsDoes
  <2>1. \A n \in Seconds : archive'[n] # None => archive[n] # None \/ n \in past'.used
    OBVIOUS
  <2>2. \A v \in Workers : pc'[v] \in Writing =>
          job'[v].name \in past'.used \/ (pc[v] \in Writing /\ job'[v].name = job[v].name)
    BY DEF Others, Writing
  <2> QED BY <2>1, <2>2, UsedFrom
<1>6. ASSUME NEW w \in Workers, ListBackups(w)
      PROVE  UsedInv'
  <2> USE <1>6, ListBackupsDoes
  <2>1. \A n \in Seconds : archive'[n] # None => archive[n] # None \/ n \in past'.used
    OBVIOUS
  <2>2. \A v \in Workers : pc'[v] \in Writing =>
          job'[v].name \in past'.used \/ (pc[v] \in Writing /\ job'[v].name = job[v].name)
    BY DEF Others, Writing
  <2> QED BY <2>1, <2>2, UsedFrom
<1>7. ASSUME NEW w \in Workers, ListFails(w)
      PROVE  UsedInv'
  <2> USE <1>7, ListFailsDoes
  <2>1. \A n \in Seconds : archive'[n] # None => archive[n] # None \/ n \in past'.used
    OBVIOUS
  <2>2. \A v \in Workers : pc'[v] \in Writing =>
          job'[v].name \in past'.used \/ (pc[v] \in Writing /\ job'[v].name = job[v].name)
    BY DEF Others, Writing
  <2> QED BY <2>1, <2>2, UsedFrom
<1>8. ASSUME NEW w \in Workers, PurgeFile(w)
      PROVE  UsedInv'
  <2> USE <1>8, PurgeFileDoes
  <2>1. \A n \in Seconds : archive'[n] # None => archive[n] # None \/ n \in past'.used
    OBVIOUS
  <2>2. \A v \in Workers : pc'[v] \in Writing =>
          job'[v].name \in past'.used \/ (pc[v] \in Writing /\ job'[v].name = job[v].name)
    BY DEF Others, Writing
  <2> QED BY <2>1, <2>2, UsedFrom
<1>9. ASSUME NEW w \in Workers, PurgeRow(w)
      PROVE  UsedInv'
  <2> USE <1>9, PurgeRowDoes
  <2>1. \A n \in Seconds : archive'[n] # None => archive[n] # None \/ n \in past'.used
    OBVIOUS
  <2>2. \A v \in Workers : pc'[v] \in Writing =>
          job'[v].name \in past'.used \/ (pc[v] \in Writing /\ job'[v].name = job[v].name)
    BY DEF Others, Writing
  <2> QED BY <2>1, <2>2, UsedFrom
<1>10. ASSUME NEW w \in Workers, GetForDelete(w)
       PROVE  UsedInv'
  <2> USE <1>10, GetForDeleteDoes
  <2>1. \A n \in Seconds : archive'[n] # None => archive[n] # None \/ n \in past'.used
    OBVIOUS
  <2>2. \A v \in Workers : pc'[v] \in Writing =>
          job'[v].name \in past'.used \/ (pc[v] \in Writing /\ job'[v].name = job[v].name)
    BY DEF Others, Writing
  <2> QED BY <2>1, <2>2, UsedFrom
<1>11. ASSUME NEW w \in Workers, DeleteFile(w)
       PROVE  UsedInv'
  <2> USE <1>11, DeleteFileDoes
  <2>1. \A n \in Seconds : archive'[n] # None => archive[n] # None \/ n \in past'.used
    OBVIOUS
  <2>2. \A v \in Workers : pc'[v] \in Writing =>
          job'[v].name \in past'.used \/ (pc[v] \in Writing /\ job'[v].name = job[v].name)
    BY DEF Others, Writing
  <2> QED BY <2>1, <2>2, UsedFrom
<1>12. ASSUME NEW w \in Workers, DeleteRow(w)
       PROVE  UsedInv'
  <2> USE <1>12, DeleteRowDoes
  <2>1. \A n \in Seconds : archive'[n] # None => archive[n] # None \/ n \in past'.used
    OBVIOUS
  <2>2. \A v \in Workers : pc'[v] \in Writing =>
          job'[v].name \in past'.used \/ (pc[v] \in Writing /\ job'[v].name = job[v].name)
    BY DEF Others, Writing
  <2> QED BY <2>1, <2>2, UsedFrom
<1>13. ASSUME NEW w \in Workers, DeleteFails(w)
       PROVE  UsedInv'
  <2> USE <1>13, DeleteFailsDoes
  <2>1. \A n \in Seconds : archive'[n] # None => archive[n] # None \/ n \in past'.used
    OBVIOUS
  <2>2. \A v \in Workers : pc'[v] \in Writing =>
          job'[v].name \in past'.used \/ (pc[v] \in Writing /\ job'[v].name = job[v].name)
    BY DEF Others, Writing
  <2> QED BY <2>1, <2>2, UsedFrom
<1>14. ASSUME NEW w \in Workers, GetForRestore(w)
       PROVE  UsedInv'
  <2> USE <1>14, GetForRestoreDoes
  <2>1. \A n \in Seconds : archive'[n] # None => archive[n] # None \/ n \in past'.used
    OBVIOUS
  <2>2. \A v \in Workers : pc'[v] \in Writing =>
          job'[v].name \in past'.used \/ (pc[v] \in Writing /\ job'[v].name = job[v].name)
    BY DEF Others, Writing
  <2> QED BY <2>1, <2>2, UsedFrom
<1>15. ASSUME NEW w \in Workers, RestoreDatabase(w)
       PROVE  UsedInv'
  <2> USE <1>15, RestoreDatabaseDoes
  <2>1. \A n \in Seconds : archive'[n] # None => archive[n] # None \/ n \in past'.used
    OBVIOUS
  <2>2. \A v \in Workers : pc'[v] \in Writing =>
          job'[v].name \in past'.used \/ (pc[v] \in Writing /\ job'[v].name = job[v].name)
    BY DEF Others, Writing
  <2> QED BY <2>1, <2>2, UsedFrom
<1>16. ASSUME NEW w \in Workers, RestoreVolumes(w)
       PROVE  UsedInv'
  <2> USE <1>16, RestoreVolumesDoes
  <2>1. \A n \in Seconds : archive'[n] # None => archive[n] # None \/ n \in past'.used
    OBVIOUS
  <2>2. \A v \in Workers : pc'[v] \in Writing =>
          job'[v].name \in past'.used \/ (pc[v] \in Writing /\ job'[v].name = job[v].name)
    BY DEF Others, Writing
  <2> QED BY <2>1, <2>2, UsedFrom
<1>17. CASE Tick
  BY <1>17, TickDoes, UsedFrom
<1>18. CASE Restart
  BY <1>18, RestartDoes, UsedFrom DEF Writing
<1> QED BY <1>1, <1>2, <1>3, <1>4, <1>5, <1>6, <1>7, <1>8, <1>9, <1>10, <1>11, <1>12, <1>13, <1>14, <1>15, <1>16, <1>17, <1>18 DEF Next, Create, Retention, Delete, Restore

-----------------------------------------------------------------------------
(***************************************************************************)
(* Only the backup that bears its name writes to an archive.               *)
(***************************************************************************)
WritersInv ==
  \A n \in Seconds : archive[n] # None =>
    \A w \in archive[n].by : pc[w] = "write" /\ job[w].name = n

\* A worker that no archive counts among its writers after the step may do what it will.
LEMMA WritersFrom ==
  ASSUME TypeOK, WritersInv, NEW w \in Workers, Others(w),
         \A n \in Seconds : archive'[n] # None =>
           archive[n] # None /\ archive'[n].by \subseteq archive[n].by \ {w}
  PROVE  WritersInv'
<1>1. \A n \in Seconds : archive[n] # None => archive[n].by \subseteq Workers
  BY DEF TypeOK, Archive
<1> QED BY <1>1 DEF WritersInv, Others

LEMMA WritersStay ==
  ASSUME TypeOK, WritersInv, NEW w \in Workers, Others(w), archive' = archive, pc[w] # "write"
  PROVE  WritersInv'
<1>1. \A n \in Seconds : archive'[n] # None =>
        archive[n] # None /\ archive'[n].by \subseteq archive[n].by \ {w}
  BY DEF WritersInv
<1> QED BY <1>1, WritersFrom

LEMMA WritersStep ==
  ASSUME TypeOK, WritersInv, Next
  PROVE  WritersInv'
<1>1. ASSUME NEW w \in Workers, TakeSnapshot(w)
      PROVE  WritersInv'
  BY <1>1, TakeSnapshotDoes, WritersStay
<1>2. ASSUME NEW w \in Workers, OpenArchive(w)
      PROVE  WritersInv'
  <2> USE <1>2, OpenArchiveDoes
  <2> DEFINE n == job[w].name
  <2>1. \A m \in Seconds : archive'[m] # None => archive'[m].by \subseteq Workers
    BY DEF TypeOK, Archive
  <2>2. \A m \in Seconds : archive'[m] # None =>
          \A v \in archive'[m].by : (v = w /\ m = n) \/ (v # w /\ archive[m] # None /\ v \in archive[m].by)
    BY DEF WritersInv
  <2> QED BY <2>1, <2>2 DEF WritersInv, Others
<1>3. ASSUME NEW w \in Workers, WriteArchive(w)
      PROVE  WritersInv'
  <2> USE <1>3, WriteArchiveDoes
  <2>1. \A n \in Seconds : archive'[n] # None =>
          archive[n] # None /\ archive'[n].by \subseteq archive[n].by \ {w}
    BY DEF WritersInv
  <2> QED BY <2>1, WritersFrom
<1>4. ASSUME NEW w \in Workers, Record(w)
      PROVE  WritersInv'
  BY <1>4, RecordDoes, WritersStay
<1>5. ASSUME NEW w \in Workers, CreateFails(w)
      PROVE  WritersInv'
  <2> USE <1>5, CreateFailsDoes
  <2>1. \A n \in Seconds : archive'[n] # None =>
          archive[n] # None /\ archive'[n].by \subseteq archive[n].by \ {w}
    BY DEF WritersInv
  <2> QED BY <2>1, WritersFrom
<1>6. ASSUME NEW w \in Workers, ListBackups(w)
      PROVE  WritersInv'
  BY <1>6, ListBackupsDoes, WritersStay
<1>7. ASSUME NEW w \in Workers, ListFails(w)
      PROVE  WritersInv'
  BY <1>7, ListFailsDoes, WritersStay
<1>8. ASSUME NEW w \in Workers, PurgeFile(w)
      PROVE  WritersInv'
  <2> USE <1>8, PurgeFileDoes
  <2>1. \A n \in Seconds : archive'[n] # None =>
          archive[n] # None /\ archive'[n].by \subseteq archive[n].by \ {w}
    BY DEF WritersInv
  <2> QED BY <2>1, WritersFrom
<1>9. ASSUME NEW w \in Workers, PurgeRow(w)
      PROVE  WritersInv'
  BY <1>9, PurgeRowDoes, WritersStay
<1>10. ASSUME NEW w \in Workers, GetForDelete(w)
       PROVE  WritersInv'
  BY <1>10, GetForDeleteDoes, WritersStay
<1>11. ASSUME NEW w \in Workers, DeleteFile(w)
       PROVE  WritersInv'
  <2> USE <1>11, DeleteFileDoes
  <2>1. \A n \in Seconds : archive'[n] # None =>
          archive[n] # None /\ archive'[n].by \subseteq archive[n].by \ {w}
    BY DEF WritersInv
  <2> QED BY <2>1, WritersFrom
<1>12. ASSUME NEW w \in Workers, DeleteRow(w)
       PROVE  WritersInv'
  BY <1>12, DeleteRowDoes, WritersStay
<1>13. ASSUME NEW w \in Workers, DeleteFails(w)
       PROVE  WritersInv'
  BY <1>13, DeleteFailsDoes, WritersStay
<1>14. ASSUME NEW w \in Workers, GetForRestore(w)
       PROVE  WritersInv'
  BY <1>14, GetForRestoreDoes, WritersStay
<1>15. ASSUME NEW w \in Workers, RestoreDatabase(w)
       PROVE  WritersInv'
  BY <1>15, RestoreDatabaseDoes, WritersStay
<1>16. ASSUME NEW w \in Workers, RestoreVolumes(w)
       PROVE  WritersInv'
  BY <1>16, RestoreVolumesDoes, WritersStay
<1>17. CASE Tick
  BY <1>17, TickDoes DEF WritersInv
<1>18. CASE Restart
  BY <1>18, RestartDoes DEF WritersInv
<1> QED BY <1>1, <1>2, <1>3, <1>4, <1>5, <1>6, <1>7, <1>8, <1>9, <1>10, <1>11, <1>12, <1>13, <1>14, <1>15, <1>16, <1>17, <1>18 DEF Next, Create, Retention, Delete, Restore

-----------------------------------------------------------------------------
(***************************************************************************)
(* A name that nothing has cut belongs to one row; a backup that is being  *)
(* written under it is the only one, its archive is closed when it is      *)
(* recorded, and what is to be deleted has no archive any more.            *)
(***************************************************************************)
OneRow ==
  \A r, q \in Row : Known(r) /\ Known(q) /\ r.name = q.name /\ r.name \notin past.cut => r = q

MakingInv ==
  \A w \in Workers : pc[w] \in Writing /\ job[w].name \notin past.cut =>
    LET n == job[w].name IN
    /\ \A v \in Workers : pc[v] \in Writing /\ job[v].name = n => v = w
    /\ \A r \in Row : Known(r) => r.name # n
    /\ archive[n] # None
    /\ archive[n].state \in IF pc[w] = "write" THEN {"open"} ELSE {"whole", "short"}
    /\ pc[w] = "write" => archive[n].by = {w}

RemovedInv ==
  \A w \in Workers : pc[w] \in {"unrecord", "delete"} /\ job[w].row.name \notin past.cut =>
    archive[job[w].row.name] = None

LEMMA OneRowStep ==
  ASSUME TypeOK, OneRow, MakingInv, Next
  PROVE  OneRow'
<1>1. SUFFICES ASSUME NEW r \in Row, NEW q \in Row, Known(r)', Known(q)', r.name = q.name,
                      r.name \notin past'.cut
               PROVE  r = q
  BY DEF OneRow
<1>2. r.name \notin past.cut
  BY <1>1, PastStep DEF PastKept
<1>3. CASE \E w \in Workers : Record(w)
  <2>1. PICK w \in Workers : Record(w)
    BY <1>3
  <2> DEFINE new == [id |-> next, name |-> job[w].name, at |-> now]
  <2>2. \A p \in Row : Known(p)' => Known(p) \/ p = new
    <3>1. ASSUME NEW v \in Workers, Record(v) PROVE v = w
      BY <2>1, <3>1, RecordDoes DEF Others
    <3> QED BY <3>1, KnownStep
  <2>3. new.name = job[w].name /\ (\A p \in Row : Known(p) /\ new.name \notin past.cut => p.name # new.name)
    BY <2>1, RecordDoes DEF MakingInv, Writing
  <2> HIDE DEF new
  <2> QED BY <1>1, <1>2, <2>2, <2>3 DEF OneRow
<1>4. CASE ~ \E w \in Workers : Record(w)
  BY <1>1, <1>2, <1>4, KnownStep DEF OneRow
<1> QED BY <1>3, <1>4

\* A row that a worker is deleting is known.
LEMMA RowKnown ==
  ASSUME TypeOK, UsedInv, NEW w \in Workers
  PROVE  /\ pc[w] \in Deleting => Known(job[w].row) /\ job[w].row \in Row
                                  /\ job[w].row.name \in past.used /\ job[w].row.name \in Seconds
         /\ pc[w] \in Purging => \A r \in job[w].doomed :
              Known(r) /\ r \in Row /\ r.name \in past.used /\ r.name \in Seconds
<1>1. pc[w] # "idle" => job[w].row \in Row /\ job[w].doomed \subseteq Row
  BY JobTyped, JobChanges
<1>2. \A r \in Row : r.name \in Seconds
  BY DEF Row
<1>3. \A r : Deletes(w, r) => Known(r)
  BY KnownBy
<1> QED BY <1>1, <1>2, <1>3 DEF UsedInv, Deletes, Deleting, Purging

\* No row comes to bear the name of a backup that goes on being written.
LEMMA NameFree ==
  ASSUME TypeOK, MakingInv, Next, NEW v \in Workers, pc[v] \in Writing, pc'[v] \in Writing,
         job[v].name \notin past.cut, NEW r \in Row, Known(r)'
  PROVE  r.name # job[v].name
<1>1. CASE Known(r)
  BY <1>1 DEF MakingInv
<1>2. ASSUME NEW u \in Workers, Record(u), r = [id |-> next, name |-> job[u].name, at |-> now]
      PROVE  r.name # job[v].name
  <2>1. r.name = job[u].name
    BY <1>2
  <2>2. pc[u] = "record" /\ pc'[u] = "list"
    BY <1>2, RecordDoes
  <2> QED BY <2>1, <2>2 DEF MakingInv, Writing
<1> QED BY <1>1, <1>2, KnownStep

\* A step of w leaves the backups that others write as they are.
LEMMA MakingFrom ==
  ASSUME TypeOK, MakingInv, Next, NEW w \in Workers, Others(w),
         \A v \in Workers \ {w} : pc[v] \in Writing /\ job[v].name \notin past'.cut =>
           archive'[job[v].name] = archive[job[v].name],
         pc'[w] \in Writing /\ job'[w].name \notin past'.cut =>
           /\ pc[w] \in Writing /\ job'[w].name = job[w].name
           /\ pc'[w] = "record" /\ archive'[job[w].name] # None
           /\ archive'[job[w].name].state \in {"whole", "short"}
  PROVE  MakingInv'
<1>1. past.cut \subseteq past'.cut
  BY PastStep DEF PastKept
<1>2. SUFFICES ASSUME NEW v \in Workers, pc'[v] \in Writing, job'[v].name \notin past'.cut
               PROVE  LET n == job'[v].name IN
                      /\ \A u \in Workers : pc'[u] \in Writing /\ job'[u].name = n => u = v
                      /\ \A r \in Row : Known(r)' => r.name # n
                      /\ archive'[n] # None
                      /\ archive'[n].state \in IF pc'[v] = "write" THEN {"open"} ELSE {"whole", "short"}
                      /\ pc'[v] = "write" => archive'[n].by = {v}
  BY DEF MakingInv
<1>3. pc[v] \in Writing /\ job'[v].name = job[v].name /\ job[v].name \notin past.cut
  BY <1>1, <1>2 DEF Others
<1>4. \A u \in Workers : pc'[u] \in Writing /\ job'[u].name = job[v].name => u = v
  <2>1. SUFFICES ASSUME NEW u \in Workers, pc'[u] \in Writing, job'[u].name = job[v].name
                 PROVE  u = v
    OBVIOUS
  <2>2. pc[u] \in Writing /\ job[u].name = job[v].name
    BY <1>2, <1>3, <2>1 DEF Others
  <2> QED BY <1>3, <2>2 DEF MakingInv
<1>5. \A r \in Row : Known(r)' => r.name # job[v].name
  BY <1>2, <1>3, NameFree
<1>6. CASE v = w
  BY <1>2, <1>3, <1>4, <1>5, <1>6 DEF Writing
<1>7. CASE v # w
  <2>1. archive'[job[v].name] = archive[job[v].name] /\ pc'[v] = pc[v]
    BY <1>2, <1>3, <1>7 DEF Others
  <2> QED BY <1>3, <1>4, <1>5, <2>1 DEF MakingInv
<1> QED BY <1>6, <1>7

LEMMA MakingStay ==
  ASSUME TypeOK, MakingInv, Next, NEW w \in Workers, Others(w), archive' = archive,
         pc'[w] \notin Writing
  PROVE  MakingInv'
BY MakingFrom

LEMMA MakingOpen ==
  ASSUME TypeOK, UsedInv, MakingInv, Next, NEW w \in Workers, OpenArchive(w)
  PROVE  MakingInv'
<1> DEFINE n == job[w].name
<1>1. /\ Others(w) /\ pc'[w] = "write" /\ job'[w].name = n /\ n \in Seconds
      /\ archive'[n] # None
      /\ archive[n] = None => archive'[n].by = {w} /\ archive'[n].state = "open"
      /\ \A m \in Seconds \ {n} : archive'[m] = archive[m]
      /\ past'.cut = past.cut \cup (past.used \cap {n})
  BY OpenArchiveDoes
<1> HIDE DEF n
<1>2. SUFFICES ASSUME NEW v \in Workers, pc'[v] \in Writing, job'[v].name \notin past'.cut
               PROVE  LET m == job'[v].name IN
                      /\ \A u \in Workers : pc'[u] \in Writing /\ job'[u].name = m => u = v
                      /\ \A r \in Row : Known(r)' => r.name # m
                      /\ archive'[m] # None
                      /\ archive'[m].state \in IF pc'[v] = "write" THEN {"open"} ELSE {"whole", "short"}
                      /\ pc'[v] = "write" => archive'[m].by = {v}
  BY DEF MakingInv
<1>3. \A u \in Workers \ {w} : pc[u] \in Writing => job[u].name \in past.used
  BY DEF UsedInv
<1>4. CASE v = w
  <2>1. n \notin past.used
    BY <1>1, <1>2, <1>4
  <2>2. archive[n] = None
    BY <1>1, <2>1 DEF UsedInv
  <2>3. \A u \in Workers : pc'[u] \in Writing /\ job'[u].name = n => u = v
    BY <1>1, <1>3, <1>4, <2>1 DEF Others
  <2>4. ASSUME NEW r \in Row, Known(r)' PROVE r.name # n
    <3>1. ~ \E u \in Workers : Record(u)
      BY <1>1, RecordDoes, OpenArchiveDoes DEF Others
    <3> QED BY <2>1, <2>4, <3>1, KnownStep DEF UsedInv
  <2> QED BY <1>1, <1>4, <2>2, <2>3, <2>4
<1>5. CASE v # w
  <2>1. pc[v] \in Writing /\ job'[v].name = job[v].name /\ pc'[v] = pc[v]
        /\ job[v].name \notin past.cut /\ job[v].name # n /\ job[v].name \in Seconds
    <3>1. pc[v] \in Writing /\ job'[v] = job[v] /\ pc'[v] = pc[v] /\ job[v].name \in past.used
      BY <1>1, <1>2, <1>3, <1>5 DEF Others
    <3> QED BY <1>1, <1>2, <3>1 DEF TypeOK, Past
  <2>2. archive'[job[v].name] = archive[job[v].name]
    BY <1>1, <2>1
  <2>3. \A r \in Row : Known(r)' => r.name # job[v].name
    BY <1>2, <2>1, NameFree
  <2>4. \A u \in Workers : pc'[u] \in Writing /\ job'[u].name = job[v].name => u = v
    BY <1>1, <2>1 DEF Others, MakingInv
  <2> QED BY <2>1, <2>2, <2>3, <2>4 DEF MakingInv
<1> QED BY <1>4, <1>5

LEMMA MakingStep ==
  ASSUME TypeOK, UsedInv, WritersInv, MakingInv, Next
  PROVE  MakingInv'
<1>1. ASSUME NEW w \in Workers, TakeSnapshot(w)
      PROVE  MakingInv'
  BY <1>1, TakeSnapshotDoes, MakingStay DEF Writing
<1>2. ASSUME NEW w \in Workers, OpenArchive(w)
      PROVE  MakingInv'
  BY <1>2, MakingOpen
<1>3. ASSUME NEW w \in Workers, WriteArchive(w)
      PROVE  MakingInv'
  <2> DEFINE n == job[w].name
  <2> USE <1>3, WriteArchiveDoes
  <2>1. \A v \in Workers \ {w} : pc[v] \in Writing /\ job[v].name \notin past'.cut => job[v].name # n
    BY DEF MakingInv, Writing
  <2>2. \A v \in Workers : pc[v] \in Writing => job[v].name \in Seconds
    BY JobTyped, JobChanges DEF Writing
  <2>3. n \notin past.cut => archive'[n] # None /\ archive'[n].state \in {"whole", "short"}
    BY DEF MakingInv, Writing
  <2> QED BY <2>1, <2>2, <2>3, MakingFrom DEF Writing
<1>4. ASSUME NEW w \in Workers, Record(w)
      PROVE  MakingInv'
  BY <1>4, RecordDoes, MakingStay DEF Writing
<1>5. ASSUME NEW w \in Workers, CreateFails(w)
      PROVE  MakingInv'
  <2> DEFINE n == job[w].name
  <2> USE <1>5, CreateFailsDoes
  <2>1. \A v \in Workers : pc[v] \in Writing => job[v].name \in Seconds
    BY JobTyped, JobChanges DEF Writing
  <2>2. archive'[n] = archive[n] \/ n \in past'.cut
    BY DEF WritersInv
  <2>3. \A m \in Seconds : archive'[m] = archive[m] \/ m \in past'.cut
    BY <2>2
  <2> QED BY <2>1, <2>3, MakingFrom DEF Writing
<1>6. ASSUME NEW w \in Workers, ListBackups(w)
      PROVE  MakingInv'
  BY <1>6, ListBackupsDoes, MakingStay DEF Writing
<1>7. ASSUME NEW w \in Workers, ListFails(w)
      PROVE  MakingInv'
  BY <1>7, ListFailsDoes, MakingStay DEF Writing
<1>8. ASSUME NEW w \in Workers, PurgeFile(w)
      PROVE  MakingInv'
  <2>1. PICK r \in job[w].doomed :
          /\ Others(w) /\ pc[w] = "purge" /\ pc'[w] = "unrecord" /\ r \in Row
          /\ \A m \in Seconds \ {r.name} : archive'[m] = archive[m]
    BY <1>8, PurgeFileDoes
  <2>2. Known(r)
    BY <2>1, RowKnown DEF Purging
  <2>3. \A v \in Workers : pc[v] \in Writing => job[v].name \in Seconds
    BY JobTyped, JobChanges DEF Writing
  <2>4. \A v \in Workers : pc[v] \in Writing /\ job[v].name \notin past'.cut => job[v].name # r.name
    BY <2>1, <2>2, PastStep DEF MakingInv, PastKept
  <2> QED BY <2>1, <2>3, <2>4, MakingFrom DEF Writing
<1>9. ASSUME NEW w \in Workers, PurgeRow(w)
      PROVE  MakingInv'
  BY <1>9, PurgeRowDoes, MakingStay DEF Writing
<1>10. ASSUME NEW w \in Workers, GetForDelete(w)
       PROVE  MakingInv'
  BY <1>10, GetForDeleteDoes, MakingStay DEF Writing
<1>11. ASSUME NEW w \in Workers, DeleteFile(w)
       PROVE  MakingInv'
  <2> DEFINE n == job[w].row.name
  <2>1. /\ Others(w) /\ pc[w] = "remove" /\ pc'[w] = "delete" /\ job[w].row \in Row /\ past' = past
        /\ \A m \in Seconds \ {n} : archive'[m] = archive[m]
    BY <1>11, DeleteFileDoes
  <2>2. Known(job[w].row)
    BY <2>1, RowKnown DEF Deleting
  <2>3. \A v \in Workers : pc[v] \in Writing => job[v].name \in Seconds
    BY JobTyped, JobChanges DEF Writing
  <2>4. \A v \in Workers : pc[v] \in Writing /\ job[v].name \notin past'.cut => job[v].name # n
    BY <2>1, <2>2 DEF MakingInv
  <2> QED BY <2>1, <2>3, <2>4, MakingFrom DEF Writing
<1>12. ASSUME NEW w \in Workers, DeleteRow(w)
       PROVE  MakingInv'
  BY <1>12, DeleteRowDoes, MakingStay DEF Writing
<1>13. ASSUME NEW w \in Workers, DeleteFails(w)
       PROVE  MakingInv'
  BY <1>13, DeleteFailsDoes, MakingStay DEF Writing
<1>14. ASSUME NEW w \in Workers, GetForRestore(w)
       PROVE  MakingInv'
  BY <1>14, GetForRestoreDoes, MakingStay DEF Writing
<1>15. ASSUME NEW w \in Workers, RestoreDatabase(w)
       PROVE  MakingInv'
  BY <1>15, RestoreDatabaseDoes, MakingStay DEF Writing
<1>16. ASSUME NEW w \in Workers, RestoreVolumes(w)
       PROVE  MakingInv'
  BY <1>16, RestoreVolumesDoes, MakingStay DEF Writing
<1>17. CASE Tick
  BY <1>17, TickDoes DEF MakingInv, Known, Holds, Deletes, Stored
<1>18. CASE Restart
  BY <1>18, RestartDoes DEF MakingInv, Writing
<1> QED BY <1>1, <1>2, <1>3, <1>4, <1>5, <1>6, <1>7, <1>8, <1>9, <1>10, <1>11, <1>12, <1>13, <1>14, <1>15, <1>16, <1>17, <1>18 DEF Next, Create, Retention, Delete, Restore

LEMMA RemovedFrom ==
  ASSUME TypeOK, UsedInv, RemovedInv, Next, NEW w \in Workers, Others(w),
         \A n \in Seconds : n \in past.used /\ n \notin past'.cut /\ archive[n] = None =>
           archive'[n] = None,
         pc'[w] \in {"unrecord", "delete"} /\ job'[w].row.name \notin past'.cut =>
           archive'[job'[w].row.name] = None
  PROVE  RemovedInv'
<1>1. SUFFICES ASSUME NEW v \in Workers, pc'[v] \in {"unrecord", "delete"},
                      job'[v].row.name \notin past'.cut
               PROVE  archive'[job'[v].row.name] = None
  BY DEF RemovedInv
<1>2. CASE v = w
  BY <1>1, <1>2
<1>3. CASE v # w
  <2>1. pc[v] \in {"unrecord", "delete"} /\ job'[v] = job[v]
    BY <1>1, <1>3 DEF Others
  <2>2. job[v].row.name \in past.used /\ job[v].row.name \in Seconds
    BY <2>1, RowKnown DEF Deleting
  <2>3. job[v].row.name \notin past.cut
    BY <1>1, <2>1, PastStep DEF PastKept
  <2> QED BY <1>1, <2>1, <2>2, <2>3 DEF RemovedInv
<1> QED BY <1>2, <1>3

LEMMA RemovedStay ==
  ASSUME TypeOK, UsedInv, RemovedInv, Next, NEW w \in Workers, Others(w),
         archive' = archive, pc'[w] \notin {"unrecord", "delete"}
  PROVE  RemovedInv'
BY RemovedFrom

LEMMA RemovedStep ==
  ASSUME TypeOK, UsedInv, RemovedInv, Next
  PROVE  RemovedInv'
<1>1. ASSUME NEW w \in Workers, TakeSnapshot(w)
      PROVE  RemovedInv'
  BY <1>1, TakeSnapshotDoes, RemovedStay
<1>2. ASSUME NEW w \in Workers, OpenArchive(w)
      PROVE  RemovedInv'
  <2> USE <1>2, OpenArchiveDoes
  <2>1. \A n \in Seconds : n \in past.used /\ n \notin past'.cut /\ archive[n] = None =>
          archive'[n] = None
    OBVIOUS
  <2> QED BY <2>1, RemovedFrom
<1>3. ASSUME NEW w \in Workers, WriteArchive(w)
      PROVE  RemovedInv'
  BY <1>3, WriteArchiveDoes, RemovedFrom
<1>4. ASSUME NEW w \in Workers, Record(w)
      PROVE  RemovedInv'
  BY <1>4, RecordDoes, RemovedStay
<1>5. ASSUME NEW w \in Workers, CreateFails(w)
      PROVE  RemovedInv'
  BY <1>5, CreateFailsDoes, RemovedFrom
<1>6. ASSUME NEW w \in Workers, ListBackups(w)
      PROVE  RemovedInv'
  BY <1>6, ListBackupsDoes, RemovedStay
<1>7. ASSUME NEW w \in Workers, ListFails(w)
      PROVE  RemovedInv'
  BY <1>7, ListFailsDoes, RemovedStay
<1>8. ASSUME NEW w \in Workers, PurgeFile(w)
      PROVE  RemovedInv'
  <2>1. PICK r \in job[w].doomed :
          /\ Others(w) /\ pc[w] = "purge" /\ job'[w].row = r /\ r \in Row
          /\ \/ archive'[r.name] = None
             \/ archive'[r.name] = archive[r.name] /\ r.name \in past'.cut
          /\ \A m \in Seconds \ {r.name} : archive'[m] = archive[m]
    BY <1>8, PurgeFileDoes
  <2>2. \A n \in Seconds : archive[n] = None => archive'[n] = None
    BY <2>1
  <2> QED BY <2>1, <2>2, RemovedFrom
<1>9. ASSUME NEW w \in Workers, PurgeRow(w)
      PROVE  RemovedInv'
  BY <1>9, PurgeRowDoes, RemovedStay
<1>10. ASSUME NEW w \in Workers, GetForDelete(w)
       PROVE  RemovedInv'
  BY <1>10, GetForDeleteDoes, RemovedStay
<1>11. ASSUME NEW w \in Workers, DeleteFile(w)
       PROVE  RemovedInv'
  <2> USE <1>11, DeleteFileDoes
  <2>1. \A n \in Seconds : archive[n] = None => archive'[n] = None
    OBVIOUS
  <2> QED BY <2>1, RemovedFrom
<1>12. ASSUME NEW w \in Workers, DeleteRow(w)
       PROVE  RemovedInv'
  BY <1>12, DeleteRowDoes, RemovedStay
<1>13. ASSUME NEW w \in Workers, DeleteFails(w)
       PROVE  RemovedInv'
  BY <1>13, DeleteFailsDoes, RemovedStay
<1>14. ASSUME NEW w \in Workers, GetForRestore(w)
       PROVE  RemovedInv'
  BY <1>14, GetForRestoreDoes, RemovedStay
<1>15. ASSUME NEW w \in Workers, RestoreDatabase(w)
       PROVE  RemovedInv'
  BY <1>15, RestoreDatabaseDoes, RemovedStay
<1>16. ASSUME NEW w \in Workers, RestoreVolumes(w)
       PROVE  RemovedInv'
  BY <1>16, RestoreVolumesDoes, RemovedStay
<1>17. CASE Tick
  BY <1>17, TickDoes DEF RemovedInv
<1>18. CASE Restart
  BY <1>18, RestartDoes DEF RemovedInv
<1> QED BY <1>1, <1>2, <1>3, <1>4, <1>5, <1>6, <1>7, <1>8, <1>9, <1>10, <1>11, <1>12, <1>13, <1>14, <1>15, <1>16, <1>17, <1>18 DEF Next, Create, Retention, Delete, Restore

-----------------------------------------------------------------------------
(***************************************************************************)
(* Archives and rows.  Half(n): somebody is between an archive of the name *)
(* n and its row, an archive that is still to be opened left aside.        *)
(***************************************************************************)
HalfBy(w, n) ==
  \/ pc[w] \in Writing /\ job[w].name = n
  \/ pc[w] \in {"unrecord", "delete"} /\ job[w].row.name = n

Listed(n) == \E r \in rows : r.name = n

Half(n) == \E w \in Workers : HalfBy(w, n)

Matched == \A n \in Seconds \ past.cut : Half(n) \/ (Listed(n) <=> Closed(n))

\* What a step does not touch stays matched; what it does is half done, or matched.
LEMMA MatchedFrom ==
  ASSUME Matched, NEW w \in Workers, Others(w), past.cut \subseteq past'.cut,
         \A n \in Seconds \ past'.cut :
           \/ Half(n)'
           \/ Listed(n)' <=> Closed(n)'
           \/ archive'[n] = archive[n] /\ (Listed(n)' <=> Listed(n)) /\ ~HalfBy(w, n)
  PROVE  Matched'
<1>1. SUFFICES ASSUME NEW n \in Seconds \ past'.cut, ~Half(n)'
               PROVE  Listed(n)' <=> Closed(n)'
  BY DEF Matched
<1>2. CASE archive'[n] = archive[n] /\ (Listed(n)' <=> Listed(n)) /\ ~HalfBy(w, n)
  <2>1. \A v \in Workers \ {w} : HalfBy(v, n)' = HalfBy(v, n)
    BY DEF Others, HalfBy
  <2>2. ~Half(n)
    BY <1>1, <1>2, <2>1 DEF Half
  <2>3. Closed(n)' <=> Closed(n)
    BY <1>2 DEF Closed
  <2> QED BY <1>2, <2>2, <2>3 DEF Matched
<1> QED BY <1>1, <1>2

\* Steps that touch neither an archive nor a row.
LEMMA MatchedStay ==
  ASSUME Matched, NEW w \in Workers, Others(w), past.cut \subseteq past'.cut,
         archive' = archive, rows' = rows,
         \A n \in Seconds \ past'.cut : ~HalfBy(w, n)
  PROVE  Matched'
BY MatchedFrom DEF Listed

LEMMA HalfNow ==
  ASSUME NEW w \in Workers, NEW n, HalfBy(w, n)'
  PROVE  Half(n)'
BY DEF Half

\* A row is deleted by its id: no other goes, and none of the name is left.
LEMMA RowDeleted ==
  ASSUME TypeOK, IdsInv, UsedInv, OneRow, RemovedInv, NEW w \in Workers,
         pc[w] \in {"unrecord", "delete"},
         rows' = {r \in rows : r.id # job[w].row.id}, archive' = archive,
         NEW n \in Seconds \ past.cut
  PROVE  \/ Listed(n)' <=> Closed(n)'
         \/ archive'[n] = archive[n] /\ (Listed(n)' <=> Listed(n)) /\ ~HalfBy(w, n)
<1> DEFINE q == job[w].row
<1>1. q \in Row /\ Known(q) /\ Pending(q) /\ rows \subseteq Row
  BY RowKnown DEF Deleting, Pending, Deletes, TypeOK
<1>2. past.cut # Seconds
  OBVIOUS
<1>3. CASE q.name = n
  <2>1. archive[n] = None
    BY <1>3 DEF RemovedInv
  <2>2. \A r \in rows : r.name = n => r = q
    BY <1>1, <1>3, KnownBy DEF OneRow
  <2> QED BY <2>1, <2>2 DEF Listed, Closed
<1>4. CASE q.name # n
  <2>1. \A r \in rows : r.id = q.id => r = q
    BY <1>1, <1>2 DEF IdsInv
  <2>2. Listed(n)' <=> Listed(n)
    BY <1>4, <2>1 DEF Listed
  <2> QED BY <1>4, <2>2 DEF HalfBy, Writing
<1> QED BY <1>3, <1>4

LEMMA MatchedStep ==
  ASSUME TypeOK, IdsInv, UsedInv, WritersInv, OneRow, MakingInv, RemovedInv, Matched, Next
  PROVE  Matched'
<1>1. ASSUME NEW w \in Workers, TakeSnapshot(w)
      PROVE  Matched'
  BY <1>1, TakeSnapshotDoes, MatchedStay DEF HalfBy, Writing
<1>2. ASSUME NEW w \in Workers, OpenArchive(w)
      PROVE  Matched'
  <2> DEFINE n == job[w].name
  <2> USE <1>2, OpenArchiveDoes
  <2>1. Half(n)'
    BY HalfNow DEF HalfBy, Writing
  <2>2. \A m \in Seconds \ {n} : archive'[m] = archive[m] /\ (Listed(m)' <=> Listed(m)) /\ ~HalfBy(w, m)
    BY DEF Listed, HalfBy, Writing
  <2> QED BY <2>1, <2>2, MatchedFrom
<1>3. ASSUME NEW w \in Workers, WriteArchive(w)
      PROVE  Matched'
  <2> DEFINE n == job[w].name
  <2> USE <1>3, WriteArchiveDoes
  <2>1. Half(n)'
    BY HalfNow DEF HalfBy, Writing
  <2>2. \A m \in Seconds \ {n} : archive'[m] = archive[m] /\ (Listed(m)' <=> Listed(m)) /\ ~HalfBy(w, m)
    BY DEF Listed, HalfBy, Writing
  <2> QED BY <2>1, <2>2, MatchedFrom
<1>4. ASSUME NEW w \in Workers, Record(w)
      PROVE  Matched'
  <2>1. PICK n \in Seconds, r \in Row :
          /\ n = job[w].name /\ r.name = n /\ rows' = rows \cup {r}
          /\ Others(w) /\ pc[w] = "record" /\ archive' = archive /\ past' = past
    BY <1>4, RecordDoes
  <2>2. n \notin past.cut => Listed(n)' /\ Closed(n)'
    <3>1. Listed(n)'
      BY <2>1 DEF Listed
    <3>2. n \notin past.cut => Closed(n)'
      BY <2>1 DEF MakingInv, Closed, Writing
    <3> QED BY <3>1, <3>2
  <2>3. \A m \in Seconds \ {n} : archive'[m] = archive[m] /\ (Listed(m)' <=> Listed(m)) /\ ~HalfBy(w, m)
    BY <2>1 DEF Listed, HalfBy, Writing
  <2> QED BY <2>1, <2>2, <2>3, MatchedFrom
<1>5. ASSUME NEW w \in Workers, CreateFails(w)
      PROVE  Matched'
  <2> DEFINE n == job[w].name
  <2> USE <1>5, CreateFailsDoes
  <2>1. archive'[n] = archive[n] \/ n \in past'.cut
    BY DEF WritersInv
  <2>2. \A m \in Seconds \ past'.cut :
          archive'[m] = archive[m] /\ (Listed(m)' <=> Listed(m)) /\ ~HalfBy(w, m)
    BY <2>1 DEF Listed, HalfBy, Writing
  <2> QED BY <2>2, MatchedFrom
<1>6. ASSUME NEW w \in Workers, ListBackups(w)
      PROVE  Matched'
  BY <1>6, ListBackupsDoes, MatchedStay DEF HalfBy, Writing
<1>7. ASSUME NEW w \in Workers, ListFails(w)
      PROVE  Matched'
  BY <1>7, ListFailsDoes, MatchedStay DEF HalfBy, Writing
<1>8. ASSUME NEW w \in Workers, PurgeFile(w)
      PROVE  Matched'
  <2>1. PICK r \in job[w].doomed :
          /\ Others(w) /\ pc[w] = "purge" /\ pc'[w] = "unrecord" /\ job'[w].row = r
          /\ \A m \in Seconds \ {r.name} : archive'[m] = archive[m]
          /\ past.cut \subseteq past'.cut /\ rows' = rows
    BY <1>8, PurgeFileDoes
  <2>2. Half(r.name)'
    BY <2>1, HalfNow DEF HalfBy
  <2>3. \A m \in Seconds \ {r.name} :
          archive'[m] = archive[m] /\ (Listed(m)' <=> Listed(m)) /\ ~HalfBy(w, m)
    BY <2>1 DEF Listed, HalfBy, Writing
  <2> QED BY <2>1, <2>2, <2>3, MatchedFrom
<1>9. ASSUME NEW w \in Workers, PurgeRow(w)
      PROVE  Matched'
  <2>1. /\ Others(w) /\ pc[w] = "unrecord" /\ archive' = archive
        /\ \/ rows' = {r \in rows : r.id # job[w].row.id} /\ past' = past
           \/ rows' = rows /\ past'.cut = past.cut \cup {job[w].row.name}
    BY <1>9, PurgeRowDoes
  <2>2. CASE rows' = {r \in rows : r.id # job[w].row.id} /\ past' = past
    BY <2>1, <2>2, RowDeleted, MatchedFrom
  <2>3. CASE rows' = rows /\ past'.cut = past.cut \cup {job[w].row.name}
    BY <2>1, <2>3, MatchedStay DEF HalfBy, Writing
  <2> QED BY <2>1, <2>2, <2>3
<1>10. ASSUME NEW w \in Workers, GetForDelete(w)
       PROVE  Matched'
  BY <1>10, GetForDeleteDoes, MatchedStay DEF HalfBy, Writing
<1>11. ASSUME NEW w \in Workers, DeleteFile(w)
       PROVE  Matched'
  <2> DEFINE n == job[w].row.name
  <2> USE <1>11, DeleteFileDoes
  <2>1. Half(n)'
    BY HalfNow DEF HalfBy
  <2>2. \A m \in Seconds \ {n} : archive'[m] = archive[m] /\ (Listed(m)' <=> Listed(m)) /\ ~HalfBy(w, m)
    BY DEF Listed, HalfBy, Writing
  <2> QED BY <2>1, <2>2, MatchedFrom
<1>12. ASSUME NEW w \in Workers, DeleteRow(w)
       PROVE  Matched'
  <2>1. /\ Others(w) /\ pc[w] = "delete" /\ archive' = archive
        /\ rows' = {r \in rows : r.id # job[w].row.id} /\ past'.cut = past.cut
    BY <1>12, DeleteRowDoes
  <2> QED BY <2>1, RowDeleted, MatchedFrom
<1>13. ASSUME NEW w \in Workers, DeleteFails(w)
       PROVE  Matched'
  BY <1>13, DeleteFailsDoes, MatchedStay DEF HalfBy, Writing
<1>14. ASSUME NEW w \in Workers, GetForRestore(w)
       PROVE  Matched'
  BY <1>14, GetForRestoreDoes, MatchedStay DEF HalfBy, Writing
<1>15. ASSUME NEW w \in Workers, RestoreDatabase(w)
       PROVE  Matched'
  <2> USE <1>15, RestoreDatabaseDoes
  <2>1. ASSUME NEW n \in Seconds \ past'.cut PROVE Listed(n)' <=> Closed(n)'
    <3>1. n \notin Mismatched(rows')
      BY <2>1
    <3>2. (\E r \in rows' : r.name = n) <=> Closed(n)
      BY <2>1, <3>1 DEF Mismatched
    <3> QED BY <3>2 DEF Listed, Closed
  <2> QED BY <2>1 DEF Matched
<1>16. ASSUME NEW w \in Workers, RestoreVolumes(w)
       PROVE  Matched'
  BY <1>16, RestoreVolumesDoes, MatchedStay DEF HalfBy, Writing
<1>17. CASE Tick
  BY <1>17, TickDoes DEF Matched, Half, HalfBy, Listed, Closed
<1>18. CASE Restart
  <2> USE <1>18, RestartDoes
  <2>1. ASSUME NEW n \in Seconds \ past'.cut, NEW w \in Workers PROVE n \notin CutBy(w) /\ n \notin past.cut
    BY <2>1
  <2>2. ASSUME NEW n \in Seconds \ past'.cut PROVE ~Half(n)
    BY <2>1, <2>2 DEF Half, HalfBy, Writing, CutBy
  <2>3. ASSUME NEW n \in Seconds \ past'.cut PROVE archive'[n] = archive[n]
    <3>1. CASE archive[n] # None /\ archive[n].by # {}
      <4>1. PICK w \in archive[n].by : TRUE
        BY <3>1
      <4>2. w \in Workers /\ pc[w] = "write" /\ job[w].name = n
        BY <3>1, <4>1 DEF WritersInv, TypeOK, Archive
      <4> QED BY <2>1, <2>3, <4>2 DEF CutBy
    <3> QED BY <3>1
  <2> QED BY <2>1, <2>2, <2>3 DEF Matched, Listed, Closed
<1> QED BY <1>1, <1>2, <1>3, <1>4, <1>5, <1>6, <1>7, <1>8, <1>9, <1>10, <1>11, <1>12, <1>13, <1>14, <1>15, <1>16, <1>17, <1>18 DEF Next, Create, Retention, Delete, Restore

LEMMA MatchedEnough == ASSUME Matched PROVE ArchivesMatchRecords
BY DEF Matched, ArchivesMatchRecords, Half, HalfBy, Writing, Between, InProgress, Listed

-----------------------------------------------------------------------------
(***************************************************************************)
(* How many rows: the retention policy.                                    *)
(***************************************************************************)
\* The order of the list is total where ids are used once.
LEMMA BeforeOrders ==
  /\ \A r \in Row : ~Before(r, r)
  /\ \A r, q, p \in Row : Before(r, q) /\ Before(q, p) => Before(r, p)
  /\ \A r, q \in Row : r.id # q.id => Before(r, q) \/ Before(q, r)
<1>1. \A r \in Row : r.id \in Nat /\ r.at \in Nat
  BY ConstantFacts DEF Row
<1> QED BY <1>1 DEF Before

\* A table is finite: there are only so many ids.
LEMMA IdsFinite ==
  ASSUME NEW R \in SUBSET Row, \A r, q \in R : r.id = q.id => r = q
  PROVE  IsFiniteSet(R)
<1> DEFINE f == [r \in R |-> r.id]
<1>1. f \in Injection(R, Ids)
  <2>1. f \in [R -> Ids]
    BY DEF Row
  <2>2. \A r, q \in R : f[r] = f[q] => r = q
    OBVIOUS
  <2> QED BY <2>1, <2>2 DEF Injection, IsInjective
<1>2. IsFiniteSet(Ids)
  BY BackupsAssumption, FS_Interval DEF Ids
<1> QED BY <1>1, <1>2, FS_Injection

LEMMA RowsFinite ==
  ASSUME TypeOK, SnapshotsSane
  PROVE  IsFiniteSet(rows)
BY IdsFinite DEF TypeOK, SnapshotsSane, Sane

\* Of any table, no more than Retain rows have fewer than Retain before them: each of
\* them has a number before it of its own.
LEMMA FewKept ==
  ASSUME NEW R \in SUBSET Row, IsFiniteSet(R), \A r, q \in R : r.id = q.id => r = q
  PROVE  LET D == {r \in R : Cardinality({q \in R : Before(q, r)}) >= Retain}
         IN  IsFiniteSet(R \ D) /\ Cardinality(R \ D) <= Retain
<1> DEFINE B(r) == {q \in R : Before(q, r)}
           D == {r \in R : Cardinality(B(r)) >= Retain}
           f == [r \in R \ D |-> Cardinality(B(r))]
<1>1. \A r \in R : IsFiniteSet(B(r)) /\ Cardinality(B(r)) \in Nat
  <2>1. ASSUME NEW r \in R PROVE IsFiniteSet(B(r)) /\ Cardinality(B(r)) \in Nat
    <3>1. IsFiniteSet(B(r))
      BY FS_Subset
    <3> QED BY <3>1, FS_CardinalityType
  <2> QED BY <2>1
<1>2. ASSUME NEW r \in R, NEW q \in R, Before(r, q)
      PROVE  Cardinality(B(r)) # Cardinality(B(q))
  <2>1. B(r) \in SUBSET B(q)
    BY <1>2, BeforeOrders
  <2>2. r \in B(q) /\ r \notin B(r)
    BY <1>2, BeforeOrders
  <2>3. B(r) # B(q)
    BY <2>2
  <2> HIDE DEF B
  <2> QED BY <1>1, <2>1, <2>3, FS_Subset
<1> HIDE DEF B
<1>3. Retain \in Nat \ {0}
  BY BackupsAssumption
<1>4. f \in [R \ D -> 0..(Retain - 1)]
  BY <1>1, <1>3
<1>5. ASSUME NEW r \in R \ D, NEW q \in R \ D, f[r] = f[q]
      PROVE  r = q
  <2>1. Cardinality(B(r)) = Cardinality(B(q))
    BY <1>5
  <2>2. ~Before(r, q) /\ ~Before(q, r)
    BY <1>2, <2>1
  <2>3. r.id = q.id
    BY <2>2, BeforeOrders
  <2> QED BY <2>3
<1>6. f \in Injection(R \ D, 0..(Retain - 1))
  BY <1>4, <1>5 DEF Injection, IsInjective
<1>7. IsFiniteSet(0..(Retain - 1)) /\ Cardinality(0..(Retain - 1)) = Retain
  <2>1. 0 \in Int /\ Retain - 1 \in Int /\ ~(0 > Retain - 1) /\ (Retain - 1) - 0 + 1 = Retain
    BY <1>3
  <2> QED BY <2>1, FS_Interval
<1> HIDE DEF D, f
<1>8. IsFiniteSet(R \ D) /\ Cardinality(R \ D) <= Retain
  BY <1>6, <1>7, FS_Injection
<1> QED BY <1>8 DEF D, B

DoomedBy(w, r) ==
  \/ pc[w] \in Purging /\ r \in job[w].doomed
  \/ pc[w] = "unrecord" /\ r = job[w].row

LEMMA InUnion ==
  ASSUME NEW at, NEW of, NEW r
  PROVE  r \in (UNION {of[w].doomed : w \in {v \in Workers : at[v] \in {"purge", "unrecord"}}})
                 \cup {of[w].row : w \in {v \in Workers : at[v] = "unrecord"}}
         <=> \E w \in Workers : \/ at[w] \in {"purge", "unrecord"} /\ r \in of[w].doomed
                                \/ at[w] = "unrecord" /\ r = of[w].row
<1> DEFINE A == UNION {of[w].doomed : w \in {v \in Workers : at[v] \in {"purge", "unrecord"}}}
           B == {of[w].row : w \in {v \in Workers : at[v] = "unrecord"}}
<1>1. r \in A <=> \E w \in Workers : at[w] \in {"purge", "unrecord"} /\ r \in of[w].doomed
  OBVIOUS
<1>2. r \in B <=> \E w \in Workers : at[w] = "unrecord" /\ r = of[w].row
  OBVIOUS
<1>3. r \in A \cup B <=> r \in A \/ r \in B
  OBVIOUS
<1> HIDE DEF A, B
<1>4. r \in A \cup B
         <=> \E w \in Workers : \/ at[w] \in {"purge", "unrecord"} /\ r \in of[w].doomed
                                \/ at[w] = "unrecord" /\ r = of[w].row
  BY <1>1, <1>2, <1>3
<1> QED BY <1>4 DEF A, B

LEMMA InDoomed ==
  ASSUME NEW r
  PROVE  r \in Doomed <=> \E w \in Workers : DoomedBy(w, r)
<1>1. Doomed = (UNION {job[w].doomed : w \in {v \in Workers : pc[v] \in {"purge", "unrecord"}}})
                 \cup {job[w].row : w \in {v \in Workers : pc[v] = "unrecord"}}
  BY DEF Doomed, At
<1>2. r \in Doomed
         <=> \E w \in Workers : \/ pc[w] \in {"purge", "unrecord"} /\ r \in job[w].doomed
                                \/ pc[w] = "unrecord" /\ r = job[w].row
  BY <1>1, InUnion, ZenonT(60)
<1> QED BY <1>2 DEF DoomedBy, Purging

LEMMA InDoomedNext ==
  ASSUME NEW r
  PROVE  r \in Doomed' <=> \E w \in Workers : DoomedBy(w, r)'
<1>1. Doomed' = (UNION {job'[w].doomed : w \in {v \in Workers : pc'[v] \in {"purge", "unrecord"}}})
                 \cup {job'[w].row : w \in {v \in Workers : pc'[v] = "unrecord"}}
  BY DEF Doomed, At
<1>2. r \in Doomed'
         <=> \E w \in Workers : \/ pc'[w] \in {"purge", "unrecord"} /\ r \in job'[w].doomed
                                \/ pc'[w] = "unrecord" /\ r = job'[w].row
  BY <1>1, InUnion, ZenonT(60)
<1> QED BY <1>2 DEF DoomedBy, Purging

\* Only retention runs change what they have still to delete.
LEMMA DoomedStay ==
  ASSUME NEW w \in Workers, Others(w), pc[w] \notin Purging, pc'[w] \notin Purging
  PROVE  Doomed' = Doomed
<1>1. ASSUME NEW v \in Workers, NEW r PROVE DoomedBy(v, r)' = DoomedBy(v, r)
  BY DEF Others, DoomedBy, Purging
<1>2. ASSUME NEW r PROVE r \in Doomed' <=> r \in Doomed
  BY <1>1, InDoomed, InDoomedNext
<1> QED BY <1>2

Listing == {w \in Workers : At(w, "list")}

\* The sets that are counted are finite, whatever set the workers are.
FiniteInv == IsFiniteSet(Listing) /\ IsFiniteSet(past.removed)

LEMMA FiniteFrom ==
  ASSUME FiniteInv, NEW w \in Workers, Others(w),
         \/ past'.removed \in {{}, past.removed}
         \/ past'.removed = past.removed \cup {job[w].row}
  PROVE  FiniteInv'
<1>1. IsFiniteSet(Listing')
  <2>1. Listing' \in SUBSET (Listing \cup {w})
    BY DEF Listing, At, Others
  <2>2. IsFiniteSet(Listing \cup {w})
    BY FS_AddElement DEF FiniteInv
  <2> QED BY <2>1, <2>2, FS_Subset
<1>2. IsFiniteSet(past'.removed)
  <2>1. CASE past'.removed = past.removed \cup {job[w].row}
    <3>1. IsFiniteSet(past.removed \cup {job[w].row})
      BY FS_AddElement DEF FiniteInv
    <3> QED BY <2>1, <3>1
  <2>2. CASE past'.removed \in {{}, past.removed}
    BY <2>2, FS_EmptySet DEF FiniteInv
  <2> QED BY <2>1, <2>2
<1> QED BY <1>1, <1>2 DEF FiniteInv

LEMMA FiniteStep ==
  ASSUME TypeOK, FiniteInv, Next
  PROVE  FiniteInv'
<1>1. ASSUME NEW w \in Workers, TakeSnapshot(w)
      PROVE  FiniteInv'
  BY <1>1, TakeSnapshotDoes, FiniteFrom
<1>2. ASSUME NEW w \in Workers, OpenArchive(w)
      PROVE  FiniteInv'
  BY <1>2, OpenArchiveDoes, FiniteFrom
<1>3. ASSUME NEW w \in Workers, WriteArchive(w)
      PROVE  FiniteInv'
  BY <1>3, WriteArchiveDoes, FiniteFrom
<1>4. ASSUME NEW w \in Workers, Record(w)
      PROVE  FiniteInv'
  BY <1>4, RecordDoes, FiniteFrom
<1>5. ASSUME NEW w \in Workers, CreateFails(w)
      PROVE  FiniteInv'
  BY <1>5, CreateFailsDoes, FiniteFrom
<1>6. ASSUME NEW w \in Workers, ListBackups(w)
      PROVE  FiniteInv'
  BY <1>6, ListBackupsDoes, FiniteFrom
<1>7. ASSUME NEW w \in Workers, ListFails(w)
      PROVE  FiniteInv'
  BY <1>7, ListFailsDoes, FiniteFrom
<1>8. ASSUME NEW w \in Workers, PurgeFile(w)
      PROVE  FiniteInv'
  BY <1>8, PurgeFileDoes, FiniteFrom
<1>9. ASSUME NEW w \in Workers, PurgeRow(w)
      PROVE  FiniteInv'
  BY <1>9, PurgeRowDoes, FiniteFrom
<1>10. ASSUME NEW w \in Workers, GetForDelete(w)
       PROVE  FiniteInv'
  BY <1>10, GetForDeleteDoes, FiniteFrom
<1>11. ASSUME NEW w \in Workers, DeleteFile(w)
       PROVE  FiniteInv'
  BY <1>11, DeleteFileDoes, FiniteFrom
<1>12. ASSUME NEW w \in Workers, DeleteRow(w)
       PROVE  FiniteInv'
  BY <1>12, DeleteRowDoes, FiniteFrom
<1>13. ASSUME NEW w \in Workers, DeleteFails(w)
       PROVE  FiniteInv'
  BY <1>13, DeleteFailsDoes, FiniteFrom
<1>14. ASSUME NEW w \in Workers, GetForRestore(w)
       PROVE  FiniteInv'
  BY <1>14, GetForRestoreDoes, FiniteFrom
<1>15. ASSUME NEW w \in Workers, RestoreDatabase(w)
       PROVE  FiniteInv'
  BY <1>15, RestoreDatabaseDoes, FiniteFrom
<1>16. ASSUME NEW w \in Workers, RestoreVolumes(w)
       PROVE  FiniteInv'
  BY <1>16, RestoreVolumesDoes, FiniteFrom
<1>17. CASE Tick
  BY <1>17, TickDoes DEF FiniteInv, Listing, At
<1>18. CASE Restart
  <2>1. Listing' = {}
    BY <1>18, RestartDoes DEF Listing, At
  <2> QED BY <1>18, RestartDoes, <2>1, FS_EmptySet DEF FiniteInv
<1> QED BY <1>1, <1>2, <1>3, <1>4, <1>5, <1>6, <1>7, <1>8, <1>9, <1>10, <1>11, <1>12, <1>13, <1>14, <1>15, <1>16, <1>17, <1>18 DEF Next, Create, Retention, Delete, Restore

\* A step that adds nothing to the rows that stay.
LEMMA HoldsFrom ==
  ASSUME TypeOK, SnapshotsSane, FiniteInv, RetentionHolds, past'.slack = past.slack,
         rows' \ Doomed' \subseteq rows \ Doomed, Listing' = Listing
  PROVE  RetentionHolds'
<1>1. CASE past.slack
  BY <1>1 DEF RetentionHolds
<1>2. CASE ~past.slack
  <2>1. IsFiniteSet(rows)
    BY RowsFinite
  <2>2. IsFiniteSet(rows \ Doomed)
    BY <2>1, FS_Subset
  <2>3. /\ Cardinality(rows' \ Doomed') <= Cardinality(rows \ Doomed)
        /\ IsFiniteSet(rows' \ Doomed')
    BY <2>2, FS_Subset
  <2>4. /\ Cardinality(rows \ Doomed) \in Nat /\ Cardinality(rows' \ Doomed') \in Nat
        /\ Cardinality(Listing) \in Nat /\ Retain \in Nat
    BY <2>2, <2>3, FS_CardinalityType, BackupsAssumption DEF FiniteInv
  <2>5. Cardinality(rows \ Doomed) <= Retain + Cardinality(Listing)
    BY <1>2 DEF RetentionHolds, Listing
  <2>6. Cardinality(rows' \ Doomed') <= Retain + Cardinality(Listing')
    BY <2>3, <2>4, <2>5
  <2> QED BY <2>6 DEF RetentionHolds, Listing
<1> QED BY <1>1, <1>2

LEMMA HoldsStay ==
  ASSUME TypeOK, SnapshotsSane, FiniteInv, RetentionHolds, NEW w \in Workers, Others(w),
         pc[w] \notin Purging \cup {"list"}, pc'[w] \notin Purging \cup {"list"},
         rows' \subseteq rows, past'.slack = past.slack
  PROVE  RetentionHolds'
<1>1. Doomed' = Doomed
  BY DoomedStay
<1>2. Listing' = Listing
  BY DEF Listing, At, Others
<1> QED BY <1>1, <1>2, HoldsFrom

LEMMA RecordHolds ==
  ASSUME TypeOK, SnapshotsSane, FiniteInv, RetentionHolds, NEW w \in Workers, Record(w)
  PROVE  RetentionHolds'
<1> DEFINE new == [id |-> next, name |-> job[w].name, at |-> now]
<1>1. /\ Others(w) /\ pc[w] = "record" /\ pc'[w] = "list" /\ past' = past
      /\ rows' = rows \cup {new}
  BY RecordDoes
<1> HIDE DEF new
<1>2. Doomed' = Doomed
  BY <1>1, DoomedStay DEF Purging
<1>3. Listing' = Listing \cup {w} /\ w \notin Listing
  BY <1>1 DEF Listing, At, Others
<1>4. Cardinality(Listing') = Cardinality(Listing) + 1 /\ Cardinality(Listing) \in Nat
  BY <1>3, FS_AddElement, FS_CardinalityType DEF FiniteInv
<1>5. IsFiniteSet(rows \ Doomed)
  BY RowsFinite, FS_Subset
<1>6. /\ IsFiniteSet((rows \ Doomed) \cup {new})
      /\ Cardinality((rows \ Doomed) \cup {new}) <= Cardinality(rows \ Doomed) + 1
      /\ Cardinality(rows \ Doomed) \in Nat
  <2> DEFINE K == rows \ Doomed
  <2>1. IsFiniteSet(K)
    BY <1>5
  <2> HIDE DEF K
  <2>2. Cardinality(K) \in Nat
    BY <2>1, FS_CardinalityType
  <2>3. /\ IsFiniteSet(K \cup {new})
        /\ Cardinality(K \cup {new}) = IF new \in K THEN Cardinality(K) ELSE Cardinality(K) + 1
    BY <2>1, FS_AddElement
  <2>4. Cardinality(K \cup {new}) <= Cardinality(K) + 1
    BY <2>2, <2>3
  <2> QED BY <2>2, <2>3, <2>4 DEF K
<1>7. rows' \ Doomed' \in SUBSET ((rows \ Doomed) \cup {new})
  BY <1>1, <1>2
<1>8. /\ Cardinality(rows' \ Doomed') <= Cardinality((rows \ Doomed) \cup {new})
      /\ Cardinality(rows' \ Doomed') \in Nat /\ Cardinality((rows \ Doomed) \cup {new}) \in Nat
  BY <1>6, <1>7, FS_Subset, FS_CardinalityType
<1>9. past.slack \/ Cardinality(rows \ Doomed) <= Retain + Cardinality(Listing)
  BY DEF RetentionHolds, Listing
<1>10. past'.slack \/ Cardinality(rows' \ Doomed') <= Retain + Cardinality(Listing')
  BY <1>1, <1>4, <1>6, <1>8, <1>9, BackupsAssumption
<1> QED BY <1>10 DEF RetentionHolds, Listing

LEMMA ListBackupsHolds ==
  ASSUME TypeOK, SnapshotsSane, FiniteInv, FiniteInv', RetentionHolds,
         NEW w \in Workers, ListBackups(w)
  PROVE  RetentionHolds'
<1> DEFINE D == {r \in rows : Cardinality({q \in rows : Before(q, r)}) >= Retain}
<1>1. Cardinality(Listing') \in Nat /\ Retain \in Nat
  BY FS_CardinalityType, BackupsAssumption DEF FiniteInv
<1>2. IsFiniteSet(rows) /\ rows \in SUBSET Row /\ \A r, q \in rows : r.id = q.id => r = q
  BY RowsFinite DEF TypeOK, SnapshotsSane, Sane
<1>3. rows' = rows
  BY ListBackupsDoes
<1>4. ASSUME NEW K \in SUBSET rows, Cardinality(K) <= Retain, rows \ Doomed' \subseteq K
      PROVE  RetentionHolds'
  <2>1. IsFiniteSet(K)
    BY <1>2, FS_Subset
  <2>2. /\ Cardinality(rows \ Doomed') <= Cardinality(K) /\ IsFiniteSet(rows \ Doomed')
    BY <1>4, <2>1, FS_Subset
  <2>3. Cardinality(K) \in Nat /\ Cardinality(rows \ Doomed') \in Nat
    BY <2>1, <2>2, FS_CardinalityType
  <2>4. Cardinality(rows' \ Doomed') <= Retain + Cardinality(Listing')
    BY <1>1, <1>3, <1>4, <2>2, <2>3
  <2> QED BY <2>4 DEF RetentionHolds, Listing
<1>5. CASE Cardinality(rows) <= Retain
  BY <1>4, <1>5
<1>6. CASE pc'[w] = "purge" /\ job'[w].doomed = D
  <2>1. \A r \in D : r \in Doomed'
    BY <1>6, InDoomedNext DEF DoomedBy, Purging
  <2>2. Cardinality(rows \ D) <= Retain
    BY <1>2, FewKept
  <2> HIDE DEF D
  <2> QED BY <1>4, <2>1, <2>2
<1> QED BY <1>5, <1>6, ListBackupsDoes

\* What is taken off the list is what is deleted next.
LEMMA PurgeFileDoomed ==
  ASSUME TypeOK, NEW w \in Workers, PurgeFile(w)
  PROVE  Doomed' = Doomed
<1>1. PICK r \in job[w].doomed :
        /\ Others(w) /\ pc[w] = "purge" /\ pc'[w] = "unrecord"
        /\ job'[w].row = r /\ job'[w].doomed = job[w].doomed \ {r}
  BY PurgeFileDoes
<1>2. \A v \in Workers \ {w} : \A q : DoomedBy(v, q)' <=> DoomedBy(v, q)
  BY <1>1 DEF Others, DoomedBy
<1>3. \A q : DoomedBy(w, q)' <=> DoomedBy(w, q)
  BY <1>1 DEF DoomedBy, Purging
<1>4. \A q : q \in Doomed' <=> q \in Doomed
  BY <1>2, <1>3, InDoomed, InDoomedNext
<1> QED BY <1>4

LEMMA PurgeRowDoomed ==
  ASSUME TypeOK, NEW w \in Workers, PurgeRow(w)
  PROVE  /\ Doomed' \subseteq Doomed /\ Doomed \subseteq Doomed' \cup {job[w].row}
         /\ job[w].row \in Doomed
<1>1. /\ Others(w) /\ pc[w] = "unrecord"
      /\ \/ pc'[w] = "idle" /\ job[w].doomed = {}
         \/ pc'[w] = "purge" /\ job'[w].doomed = job[w].doomed
  BY PurgeRowDoes
<1>2. \A v \in Workers \ {w} : \A q : DoomedBy(v, q)' <=> DoomedBy(v, q)
  BY <1>1 DEF Others, DoomedBy
<1>3. \A q : /\ DoomedBy(w, q)' => DoomedBy(w, q)
             /\ DoomedBy(w, q) => DoomedBy(w, q)' \/ q = job[w].row
  BY <1>1 DEF DoomedBy, Purging
<1>4. \A q : /\ q \in Doomed' => q \in Doomed
             /\ q \in Doomed => q \in Doomed' \/ q = job[w].row
  BY <1>2, <1>3, InDoomed, InDoomedNext
<1>5. job[w].row \in Doomed
  BY <1>1, InDoomed DEF DoomedBy
<1> QED BY <1>4, <1>5

LEMMA HoldsStep ==
  ASSUME TypeOK, SnapshotsSane, FiniteInv, RetentionHolds, Next
  PROVE  RetentionHolds'
<1>1. ASSUME NEW w \in Workers, TakeSnapshot(w)
      PROVE  RetentionHolds'
  BY <1>1, TakeSnapshotDoes, HoldsStay DEF Purging
<1>2. ASSUME NEW w \in Workers, OpenArchive(w)
      PROVE  RetentionHolds'
  BY <1>2, OpenArchiveDoes, HoldsStay DEF Purging
<1>3. ASSUME NEW w \in Workers, WriteArchive(w)
      PROVE  RetentionHolds'
  BY <1>3, WriteArchiveDoes, HoldsStay DEF Purging
<1>4. ASSUME NEW w \in Workers, Record(w)
      PROVE  RetentionHolds'
  BY <1>4, RecordHolds
<1>5. ASSUME NEW w \in Workers, CreateFails(w)
      PROVE  RetentionHolds'
  BY <1>5, CreateFailsDoes, HoldsStay DEF Purging
<1>6. ASSUME NEW w \in Workers, ListBackups(w)
      PROVE  RetentionHolds'
  BY <1>6, FiniteStep, ListBackupsHolds
<1>7. ASSUME NEW w \in Workers, ListFails(w)
      PROVE  RetentionHolds'
  BY <1>7, ListFailsDoes DEF RetentionHolds
<1>8. ASSUME NEW w \in Workers, PurgeFile(w)
      PROVE  RetentionHolds'
  <2>1. /\ Others(w) /\ pc[w] = "purge" /\ pc'[w] = "unrecord" /\ rows' = rows
        /\ past'.slack = past.slack
    BY <1>8, PurgeFileDoes
  <2>2. Listing' = Listing
    BY <2>1 DEF Listing, At, Others
  <2> QED BY <1>8, <2>1, <2>2, PurgeFileDoomed, HoldsFrom
<1>9. ASSUME NEW w \in Workers, PurgeRow(w)
      PROVE  RetentionHolds'
  <2>1. /\ Others(w) /\ pc[w] = "unrecord" /\ pc'[w] # "list"
        /\ \/ rows' = {r \in rows : r.id # job[w].row.id} /\ past' = past
           \/ past'.slack = TRUE
    BY <1>9, PurgeRowDoes
  <2>2. CASE past'.slack = TRUE
    BY <2>2 DEF RetentionHolds
  <2>3. CASE rows' = {r \in rows : r.id # job[w].row.id} /\ past' = past
    <3>1. rows' \ Doomed' \subseteq rows \ Doomed
      BY <1>9, <2>3, PurgeRowDoomed
    <3>2. Listing' = Listing
      BY <2>1 DEF Listing, At, Others
    <3> QED BY <2>3, <3>1, <3>2, HoldsFrom
  <2> QED BY <2>1, <2>2, <2>3
<1>10. ASSUME NEW w \in Workers, GetForDelete(w)
       PROVE  RetentionHolds'
  BY <1>10, GetForDeleteDoes, HoldsStay DEF Purging
<1>11. ASSUME NEW w \in Workers, DeleteFile(w)
       PROVE  RetentionHolds'
  BY <1>11, DeleteFileDoes, HoldsStay DEF Purging
<1>12. ASSUME NEW w \in Workers, DeleteRow(w)
       PROVE  RetentionHolds'
  BY <1>12, DeleteRowDoes, HoldsStay DEF Purging
<1>13. ASSUME NEW w \in Workers, DeleteFails(w)
       PROVE  RetentionHolds'
  BY <1>13, DeleteFailsDoes, HoldsStay DEF Purging
<1>14. ASSUME NEW w \in Workers, GetForRestore(w)
       PROVE  RetentionHolds'
  BY <1>14, GetForRestoreDoes, HoldsStay DEF Purging
<1>15. ASSUME NEW w \in Workers, RestoreDatabase(w)
       PROVE  RetentionHolds'
  BY <1>15, RestoreDatabaseDoes DEF RetentionHolds
<1>16. ASSUME NEW w \in Workers, RestoreVolumes(w)
       PROVE  RetentionHolds'
  BY <1>16, RestoreVolumesDoes, HoldsStay DEF Purging
<1>17. CASE Tick
  BY <1>17, TickDoes DEF RetentionHolds, Doomed, At
<1>18. CASE Restart
  <2>1. CASE past'.slack
    BY <2>1 DEF RetentionHolds
  <2>2. CASE ~past'.slack
    <3>1. ~past.slack /\ \A w \in Workers : pc[w] \notin {"list", "purge", "unrecord"}
      BY <1>18, <2>2, RestartDoes
    <3>2. Listing = {} /\ Doomed = {}
      BY <3>1, InDoomed DEF Listing, At, DoomedBy, Purging
    <3>3. \A w \in Workers : pc'[w] = "idle"
      BY <1>18, RestartDoes
    <3>4. Listing' = {} /\ Doomed' = {}
      BY <3>3, InDoomedNext DEF Listing, At, DoomedBy, Purging
    <3>5. past.slack \in BOOLEAN /\ past'.slack \in BOOLEAN /\ rows' = rows
      BY <1>18, RestartDoes DEF TypeOK, Past
    <3>6. past'.slack = past.slack
      BY <2>2, <3>1, <3>5
    <3>7. rows' \ Doomed' \subseteq rows \ Doomed /\ Listing' = Listing
      BY <3>2, <3>4, <3>5
    <3> QED BY <3>6, <3>7, HoldsFrom
  <2> QED BY <2>1, <2>2
<1> QED BY <1>1, <1>2, <1>3, <1>4, <1>5, <1>6, <1>7, <1>8, <1>9, <1>10, <1>11, <1>12, <1>13, <1>14, <1>15, <1>16, <1>17, <1>18 DEF Next, Create, Retention, Delete, Restore

-----------------------------------------------------------------------------
(***************************************************************************)
(* Which rows: what a retention run is to delete has enough newer rows, in *)
(* the table or deleted by users since the runs under way began.           *)
(***************************************************************************)
Newer(r) == {q \in rows \cup past.removed : Before(q, r)}

EnoughNewer == ~past.restored => \A r \in Doomed : Retain <= Cardinality(Newer(r))

LEMMA NewerFinite ==
  ASSUME TypeOK, SnapshotsSane, FiniteInv, NEW r
  PROVE  IsFiniteSet(Newer(r)) /\ Cardinality(Newer(r)) \in Nat
<1>1. IsFiniteSet(rows \cup past.removed)
  BY RowsFinite, FS_Union DEF FiniteInv
<1>2. Newer(r) \in SUBSET (rows \cup past.removed)
  BY DEF Newer
<1>3. IsFiniteSet(Newer(r))
  BY <1>1, <1>2, FS_Subset
<1> QED BY <1>3, FS_CardinalityType

LEMMA NewerFiniteNext ==
  ASSUME TypeOK', SnapshotsSane', FiniteInv', NEW r
  PROVE  IsFiniteSet(Newer(r)') /\ Cardinality(Newer(r)') \in Nat
<1>1. IsFiniteSet(rows') /\ IsFiniteSet(past'.removed)
  <2>1. rows' \in SUBSET Row /\ \A a, b \in rows' : a.id = b.id => a = b
    BY DEF TypeOK, SnapshotsSane, Sane
  <2>2. IsFiniteSet(rows')
    BY <2>1, IdsFinite
  <2> QED BY <2>2 DEF FiniteInv
<1>2. IsFiniteSet(rows' \cup past'.removed)
  BY <1>1, FS_Union
<1>3. Newer(r)' \in SUBSET (rows' \cup past'.removed)
  BY DEF Newer
<1>4. IsFiniteSet(Newer(r)')
  BY <1>2, <1>3, FS_Subset
<1> QED BY <1>4, FS_CardinalityType

LEMMA DoomedTyped ==
  ASSUME TypeOK
  PROVE  Doomed \subseteq Row
<1>1. ASSUME NEW w \in Workers, NEW r, DoomedBy(w, r) PROVE r \in Row
  <2>1. pc[w] # "idle"
    BY <1>1 DEF DoomedBy, Purging
  <2>2. job[w].row \in Row /\ job[w].doomed \subseteq Row
    BY <2>1, JobTyped, JobChanges
  <2> QED BY <1>1, <2>2 DEF DoomedBy
<1> QED BY <1>1, InDoomed

\* A row that stays doomed keeps what is newer, or is older than one that was doomed.
LEMMA NewerFrom ==
  ASSUME TypeOK, TypeOK', SnapshotsSane, SnapshotsSane', FiniteInv, FiniteInv', EnoughNewer,
         ~past.restored,
         NEW r, NEW q \in Doomed, \A p \in rows \cup past.removed :
           Before(p, q) => p \in rows' \cup past'.removed /\ Before(p, r)
  PROVE  Retain <= Cardinality(Newer(r)')
<1>1. Newer(q) \in SUBSET Newer(r)'
  BY DEF Newer, Before
<1>2. IsFiniteSet(Newer(r)') /\ Cardinality(Newer(r)') \in Nat
  BY NewerFiniteNext
<1>3. Cardinality(Newer(q)) <= Cardinality(Newer(r)') /\ Cardinality(Newer(q)) \in Nat
  BY <1>1, <1>2, NewerFinite, FS_Subset
<1>4. Retain <= Cardinality(Newer(q))
  BY DEF EnoughNewer
<1> HIDE DEF Newer
<1> QED BY <1>2, <1>3, <1>4, BackupsAssumption

\* Steps that take no row away, and doom none.
LEMMA NewerStay ==
  ASSUME TypeOK, TypeOK', SnapshotsSane, SnapshotsSane', FiniteInv, FiniteInv', EnoughNewer,
         past'.restored = past.restored, Doomed' \subseteq Doomed,
         Doomed' # {} => rows \cup past.removed \subseteq rows' \cup past'.removed
  PROVE  EnoughNewer'
<1>1. ASSUME ~past.restored, NEW r \in Doomed' PROVE Retain <= Cardinality(Newer(r)')
  BY <1>1, NewerFrom
<1> QED BY <1>1 DEF EnoughNewer

LEMMA NewerStep ==
  ASSUME TypeOK, SnapshotsSane, IdsInv, FiniteInv, EnoughNewer, Next
  PROVE  EnoughNewer'
<1>a. TypeOK' /\ SnapshotsSane' /\ FiniteInv'
  BY TypeStep, SaneStep, FiniteStep
<1>1. ASSUME NEW w \in Workers, TakeSnapshot(w)
      PROVE  EnoughNewer'
  <2>1. /\ Others(w) /\ pc[w] \notin Purging /\ pc'[w] \notin Purging
        /\ rows \subseteq rows' /\ past'.removed = past.removed /\ past'.restored = past.restored
    BY <1>1, TakeSnapshotDoes DEF Purging
  <2> QED BY <1>a, <2>1, DoomedStay, NewerStay
<1>2. ASSUME NEW w \in Workers, OpenArchive(w)
      PROVE  EnoughNewer'
  <2>1. /\ Others(w) /\ pc[w] \notin Purging /\ pc'[w] \notin Purging
        /\ rows \subseteq rows' /\ past'.removed = past.removed /\ past'.restored = past.restored
    BY <1>2, OpenArchiveDoes DEF Purging
  <2> QED BY <1>a, <2>1, DoomedStay, NewerStay
<1>3. ASSUME NEW w \in Workers, WriteArchive(w)
      PROVE  EnoughNewer'
  <2>1. /\ Others(w) /\ pc[w] \notin Purging /\ pc'[w] \notin Purging
        /\ rows \subseteq rows' /\ past'.removed = past.removed /\ past'.restored = past.restored
    BY <1>3, WriteArchiveDoes DEF Purging
  <2> QED BY <1>a, <2>1, DoomedStay, NewerStay
<1>4. ASSUME NEW w \in Workers, Record(w)
      PROVE  EnoughNewer'
  <2>1. /\ Others(w) /\ pc[w] \notin Purging /\ pc'[w] \notin Purging
        /\ rows \subseteq rows' /\ past'.removed = past.removed /\ past'.restored = past.restored
    BY <1>4, RecordDoes DEF Purging
  <2> QED BY <1>a, <2>1, DoomedStay, NewerStay
<1>5. ASSUME NEW w \in Workers, CreateFails(w)
      PROVE  EnoughNewer'
  <2>1. /\ Others(w) /\ pc[w] \notin Purging /\ pc'[w] \notin Purging
        /\ rows \subseteq rows' /\ past'.removed = past.removed /\ past'.restored = past.restored
    BY <1>5, CreateFailsDoes DEF Purging
  <2> QED BY <1>a, <2>1, DoomedStay, NewerStay
<1>6. ASSUME NEW w \in Workers, ListBackups(w)
      PROVE  EnoughNewer'
  <2> DEFINE D == {r \in rows : Cardinality({q \in rows : Before(q, r)}) >= Retain}
  <2>1. /\ Others(w) /\ pc[w] = "list" /\ rows' = rows /\ past'.restored = past.restored
        /\ pc'[w] = "idle" \/ (pc'[w] = "purge" /\ job'[w].doomed = D)
        /\ past'.removed = (IF Doomed = {} THEN {} ELSE past.removed)
    BY <1>6, ListBackupsDoes
  <2>2. \A r : r \in Doomed' => r \in Doomed \/ r \in D
    <3>1. \A v \in Workers \ {w} : \A r : DoomedBy(v, r)' <=> DoomedBy(v, r)
      BY <2>1 DEF Others, DoomedBy
    <3>2. \A r : DoomedBy(w, r)' => r \in D
      BY <2>1 DEF DoomedBy, Purging
    <3> QED BY <3>1, <3>2, InDoomed, InDoomedNext
  <2>3. ASSUME NEW r \in D PROVE Retain <= Cardinality(Newer(r)')
    <3>1. {q \in rows : Before(q, r)} \in SUBSET (Newer(r)')
      BY <2>1 DEF Newer, Before
    <3>2. IsFiniteSet(Newer(r)') /\ Cardinality(Newer(r)') \in Nat
      BY <1>a, NewerFiniteNext
    <3>3. /\ Cardinality({q \in rows : Before(q, r)}) <= Cardinality(Newer(r)')
          /\ IsFiniteSet({q \in rows : Before(q, r)})
      BY <3>1, <3>2, FS_Subset
    <3>4. Cardinality({q \in rows : Before(q, r)}) \in Nat
      BY <3>3, FS_CardinalityType
    <3>5. Cardinality({q \in rows : Before(q, r)}) >= Retain
      OBVIOUS
    <3> HIDE DEF Newer
    <3> QED BY <3>2, <3>3, <3>4, <3>5, BackupsAssumption
  <2>4. ASSUME ~past.restored, NEW r \in Doomed PROVE Retain <= Cardinality(Newer(r)')
    BY <1>a, <2>1, <2>4, NewerFrom
  <2> HIDE DEF D
  <2> QED BY <2>1, <2>2, <2>3, <2>4 DEF EnoughNewer
<1>7. ASSUME NEW w \in Workers, ListFails(w)
      PROVE  EnoughNewer'
  <2>1. /\ Others(w) /\ pc[w] \notin Purging /\ pc'[w] \notin Purging
        /\ rows \subseteq rows' /\ past'.removed = past.removed /\ past'.restored = past.restored
    BY <1>7, ListFailsDoes DEF Purging
  <2> QED BY <1>a, <2>1, DoomedStay, NewerStay
<1>8. ASSUME NEW w \in Workers, PurgeFile(w)
      PROVE  EnoughNewer'
  <2>1. Doomed' = Doomed
    BY <1>8, PurgeFileDoomed
  <2>2. rows' = rows /\ past'.removed = past.removed /\ past'.restored = past.restored
    BY <1>8, PurgeFileDoes
  <2> QED BY <1>a, <2>1, <2>2, NewerStay
<1>9. ASSUME NEW w \in Workers, PurgeRow(w)
      PROVE  EnoughNewer'
  <2> DEFINE q == job[w].row
  <2>1. /\ past'.removed = past.removed /\ past'.restored = past.restored
        /\ pc[w] = "unrecord"
        /\ rows' = rows \/ rows' = {r \in rows : r.id # q.id}
    BY <1>9, PurgeRowDoes
  <2>2. Doomed' \subseteq Doomed /\ q \in Doomed /\ q \in Row
    BY <1>9, PurgeRowDoomed, DoomedTyped
  <2>3. CASE rows' = rows
    BY <1>a, <2>1, <2>2, <2>3, NewerStay
  <2>4. CASE rows' = {r \in rows : r.id # q.id}
    <3>1. SUFFICES ASSUME ~past.restored, NEW r \in Doomed'
                   PROVE  Retain <= Cardinality(Newer(r)')
      BY <2>1 DEF EnoughNewer
    <3>2. r \in Row /\ r \in Doomed /\ rows \subseteq Row /\ past.removed \subseteq Row
      BY <2>2, DoomedTyped DEF TypeOK, Past
    <3>3. \A p \in rows : p # q => p \in rows'
      BY <2>1, <2>2, <2>4, <3>1, <3>2 DEF IdsInv, Pending, Deletes, Deleting
    <3>4. CASE Before(q, r)
      <4>1. \A p \in rows \cup past.removed :
              Before(p, q) => p \in rows' \cup past'.removed /\ Before(p, r)
        BY <2>1, <2>2, <3>2, <3>3, <3>4, BeforeOrders
      <4> QED BY <1>a, <2>2, <3>1, <4>1, NewerFrom
    <3>5. CASE ~Before(q, r)
      <4>1. \A p \in rows \cup past.removed :
              Before(p, r) => p \in rows' \cup past'.removed /\ Before(p, r)
        BY <2>1, <3>3, <3>5
      <4> QED BY <1>a, <3>1, <3>2, <4>1, NewerFrom
    <3> QED BY <3>4, <3>5
  <2> QED BY <2>1, <2>3, <2>4
<1>10. ASSUME NEW w \in Workers, GetForDelete(w)
       PROVE  EnoughNewer'
  <2>1. /\ Others(w) /\ pc[w] \notin Purging /\ pc'[w] \notin Purging
        /\ rows \subseteq rows' /\ past'.removed = past.removed /\ past'.restored = past.restored
    BY <1>10, GetForDeleteDoes DEF Purging
  <2> QED BY <1>a, <2>1, DoomedStay, NewerStay
<1>11. ASSUME NEW w \in Workers, DeleteFile(w)
       PROVE  EnoughNewer'
  <2>1. /\ Others(w) /\ pc[w] \notin Purging /\ pc'[w] \notin Purging
        /\ rows \subseteq rows' /\ past'.removed = past.removed /\ past'.restored = past.restored
    BY <1>11, DeleteFileDoes DEF Purging
  <2> QED BY <1>a, <2>1, DoomedStay, NewerStay
<1>12. ASSUME NEW w \in Workers, DeleteRow(w)
       PROVE  EnoughNewer'
  <2> DEFINE q == job[w].row
  <2>1. /\ Others(w) /\ pc[w] = "delete" /\ pc'[w] = "idle" /\ q \in Row
        /\ rows' = {r \in rows : r.id # q.id} /\ past'.restored = past.restored
        /\ past'.removed = IF Doomed = {} THEN {} ELSE past.removed \cup {q}
    BY <1>12, DeleteRowDoes
  <2>2. Doomed' = Doomed
    BY <2>1, DoomedStay DEF Purging
  <2>3. CASE past.restored
    BY <2>1, <2>3 DEF EnoughNewer
  <2>4. CASE ~past.restored
    <3>1. \A p \in rows : p # q => p \in rows'
      BY <2>1, <2>4 DEF IdsInv, Pending, Deletes, Deleting, TypeOK
    <3>2. Doomed' # {} => rows \cup past.removed \subseteq rows' \cup past'.removed
      BY <2>1, <2>2, <3>1
    <3> QED BY <1>a, <2>1, <2>2, <3>2, NewerStay
  <2> QED BY <2>3, <2>4
<1>13. ASSUME NEW w \in Workers, DeleteFails(w)
       PROVE  EnoughNewer'
  <2>1. /\ Others(w) /\ pc[w] \notin Purging /\ pc'[w] \notin Purging
        /\ rows \subseteq rows' /\ past'.removed = past.removed /\ past'.restored = past.restored
    BY <1>13, DeleteFailsDoes DEF Purging
  <2> QED BY <1>a, <2>1, DoomedStay, NewerStay
<1>14. ASSUME NEW w \in Workers, GetForRestore(w)
       PROVE  EnoughNewer'
  <2>1. /\ Others(w) /\ pc[w] \notin Purging /\ pc'[w] \notin Purging
        /\ rows \subseteq rows' /\ past'.removed = past.removed /\ past'.restored = past.restored
    BY <1>14, GetForRestoreDoes DEF Purging
  <2> QED BY <1>a, <2>1, DoomedStay, NewerStay
<1>15. ASSUME NEW w \in Workers, RestoreDatabase(w)
       PROVE  EnoughNewer'
  BY <1>15, RestoreDatabaseDoes DEF EnoughNewer
<1>16. ASSUME NEW w \in Workers, RestoreVolumes(w)
       PROVE  EnoughNewer'
  <2>1. /\ Others(w) /\ pc[w] \notin Purging /\ pc'[w] \notin Purging
        /\ rows \subseteq rows' /\ past'.removed = past.removed /\ past'.restored = past.restored
    BY <1>16, RestoreVolumesDoes DEF Purging
  <2> QED BY <1>a, <2>1, DoomedStay, NewerStay
<1>17. CASE Tick
  <2>1. UNCHANGED <<rows, pc, job, past>>
    BY <1>17, TickDoes
  <2>2. Doomed' = Doomed
    BY <2>1 DEF Doomed, At
  <2> QED BY <1>a, <2>1, <2>2, NewerStay
<1>18. CASE Restart
  <2>1. Doomed' = {}
    BY <1>18, RestartDoes, InDoomedNext DEF DoomedBy, Purging
  <2> QED BY <2>1 DEF EnoughNewer
<1> QED BY <1>1, <1>2, <1>3, <1>4, <1>5, <1>6, <1>7, <1>8, <1>9, <1>10, <1>11, <1>12, <1>13, <1>14, <1>15, <1>16, <1>17, <1>18 DEF Next, Create, Retention, Delete, Restore

-----------------------------------------------------------------------------
(***************************************************************************)
(* The inductive invariant, and what follows from it.                      *)
(***************************************************************************)
IInv ==
  /\ TypeOK /\ SnapshotsSane /\ IdsInv /\ UsedInv /\ WritersInv
  /\ OneRow /\ MakingInv /\ RemovedInv /\ Matched
  /\ FiniteInv /\ RetentionHolds /\ EnoughNewer

LEMMA InitIInv == ASSUME Init PROVE IInv
<1>1. /\ TypeOK /\ rows = {} /\ \A n \in Seconds : archive[n] = None
      /\ \A w \in Workers : pc[w] = "idle"
      /\ past.removed = {} /\ past.slack = FALSE
  BY BackupsAssumption, ConstantFacts DEF Init, TypeOK, Steps, Past
<1>2. \A r : ~Pending(r) /\ ~Known(r)
  BY <1>1 DEF Pending, Known, Stored, Holds, Deletes, Deleting, Purging
<1>3. Doomed = {} /\ Listing = {}
  BY <1>1, InDoomed DEF DoomedBy, Purging, Listing, At
<1>4. SnapshotsSane /\ IdsInv /\ UsedInv /\ WritersInv
  BY <1>1, <1>2 DEF SnapshotsSane, Sane, IdsInv, UsedInv, WritersInv, Writing
<1>5. OneRow /\ MakingInv /\ RemovedInv /\ Matched
  BY <1>1, <1>2 DEF OneRow, MakingInv, RemovedInv, Matched, Listed, Closed, Writing
<1>6. FiniteInv
  BY <1>1, <1>3, FS_EmptySet DEF FiniteInv
<1>7. RetentionHolds
  <2>1. Cardinality(rows \ Doomed) = 0 /\ Cardinality(Listing) = 0
    <3>1. rows \ Doomed = {}
      BY <1>1
    <3> QED BY <1>3, <3>1, FS_EmptySet
  <2>2. Cardinality(rows \ Doomed) <= Retain + Cardinality(Listing)
    BY <2>1, BackupsAssumption
  <2> QED BY <2>2 DEF RetentionHolds, Listing
<1>8. EnoughNewer
  BY <1>3 DEF EnoughNewer
<1> QED BY <1>1, <1>4, <1>5, <1>6, <1>7, <1>8 DEF IInv

LEMMA NextIInv == ASSUME IInv, Next PROVE IInv'
<1>1. TypeOK' /\ SnapshotsSane' /\ IdsInv' /\ UsedInv' /\ WritersInv'
  BY TypeStep, SaneStep, IdsStep, UsedStep, WritersStep DEF IInv
<1>2. OneRow' /\ MakingInv' /\ RemovedInv' /\ Matched'
  BY OneRowStep, MakingStep, RemovedStep, MatchedStep DEF IInv
<1>3. FiniteInv' /\ RetentionHolds' /\ EnoughNewer'
  BY FiniteStep, HoldsStep, NewerStep DEF IInv
<1> QED BY <1>1, <1>2, <1>3 DEF IInv

LEMMA StutterIInv == ASSUME IInv, UNCHANGED vars PROVE IInv'
<1> USE DEF vars
<1>1. \A r : Known(r)' = Known(r) /\ Pending(r)' = Pending(r)
  BY DEF Known, Pending, Stored, Holds, Deletes
<1>2. Doomed' = Doomed /\ Listing' = Listing
  BY DEF Doomed, Listing, At
<1>3. TypeOK' /\ SnapshotsSane' /\ WritersInv' /\ RemovedInv'
  BY DEF IInv, TypeOK, SnapshotsSane, WritersInv, RemovedInv
<1>4. IdsInv' /\ UsedInv' /\ OneRow' /\ MakingInv'
  BY <1>1 DEF IInv, IdsInv, UsedInv, OneRow, MakingInv
<1>5. Matched'
  BY DEF IInv, Matched, Half, HalfBy, Listed, Closed
<1>6. FiniteInv' /\ RetentionHolds'
  BY <1>2 DEF IInv, FiniteInv, RetentionHolds, At
<1>7. EnoughNewer'
  BY <1>2 DEF IInv, EnoughNewer, Newer
<1> QED BY <1>3, <1>4, <1>5, <1>6, <1>7 DEF IInv

\* What workers remember of backups stays true of archives and rows, as far as the history
\* lets it, whatever step comes next.
THEOREM BackupsInductive == Spec => []IInv
<1>1. Init => IInv
  BY InitIInv
<1>2. IInv /\ [Next]_vars => IInv'
  BY NextIInv, StutterIInv
<1> QED BY <1>1, <1>2, PTL DEF Spec

\* A backup that is listed has a complete archive, and an archive in the directory is
\* listed, whenever nobody is between the two and nothing failed or collided under the
\* name: however backups, retention runs, deletions, restores and restarts interleave.
THEOREM ArchivesAlwaysMatchRecords == Spec => []ArchivesMatchRecords
<1>1. IInv => ArchivesMatchRecords
  BY MatchedEnough DEF IInv
<1> QED BY <1>1, BackupsInductive, PTL

\* Overlapping retention runs never leave more backups than are to be kept, counting out
\* what they have still to delete, but for one of each run that is still to begin.
THEOREM RetentionAlwaysHolds == Spec => []RetentionHolds
<1>1. IInv => RetentionHolds
  BY DEF IInv
<1> QED BY <1>1, BackupsInductive, PTL

\* Between the choice of a row and its deletion a run is alone with itself.
LEMMA OwnStep ==
  ASSUME TypeOK, Next, NEW u \in Workers, pc[u] = "unrecord", pc'[u] # pc[u], rows' # rows
  PROVE  PurgeRow(u)
<1>1. ASSUME NEW w \in Workers, TakeSnapshot(w)
      PROVE  PurgeRow(u)
  BY <1>1, TakeSnapshotDoes DEF Others
<1>2. ASSUME NEW w \in Workers, OpenArchive(w)
      PROVE  PurgeRow(u)
  BY <1>2, OpenArchiveDoes DEF Others
<1>3. ASSUME NEW w \in Workers, WriteArchive(w)
      PROVE  PurgeRow(u)
  BY <1>3, WriteArchiveDoes DEF Others
<1>4. ASSUME NEW w \in Workers, Record(w)
      PROVE  PurgeRow(u)
  BY <1>4, RecordDoes DEF Others
<1>5. ASSUME NEW w \in Workers, CreateFails(w)
      PROVE  PurgeRow(u)
  BY <1>5, CreateFailsDoes DEF Others
<1>6. ASSUME NEW w \in Workers, ListBackups(w)
      PROVE  PurgeRow(u)
  BY <1>6, ListBackupsDoes DEF Others
<1>7. ASSUME NEW w \in Workers, ListFails(w)
      PROVE  PurgeRow(u)
  BY <1>7, ListFailsDoes DEF Others
<1>8. ASSUME NEW w \in Workers, PurgeFile(w)
      PROVE  PurgeRow(u)
  BY <1>8, PurgeFileDoes DEF Others
<1>9. ASSUME NEW w \in Workers, PurgeRow(w)
      PROVE  PurgeRow(u)
  BY <1>9, PurgeRowDoes DEF Others
<1>10. ASSUME NEW w \in Workers, GetForDelete(w)
       PROVE  PurgeRow(u)
  BY <1>10, GetForDeleteDoes DEF Others
<1>11. ASSUME NEW w \in Workers, DeleteFile(w)
       PROVE  PurgeRow(u)
  BY <1>11, DeleteFileDoes DEF Others
<1>12. ASSUME NEW w \in Workers, DeleteRow(w)
       PROVE  PurgeRow(u)
  BY <1>12, DeleteRowDoes DEF Others
<1>13. ASSUME NEW w \in Workers, DeleteFails(w)
       PROVE  PurgeRow(u)
  BY <1>13, DeleteFailsDoes DEF Others
<1>14. ASSUME NEW w \in Workers, GetForRestore(w)
       PROVE  PurgeRow(u)
  BY <1>14, GetForRestoreDoes DEF Others
<1>15. ASSUME NEW w \in Workers, RestoreDatabase(w)
       PROVE  PurgeRow(u)
  BY <1>15, RestoreDatabaseDoes DEF Others
<1>16. ASSUME NEW w \in Workers, RestoreVolumes(w)
       PROVE  PurgeRow(u)
  BY <1>16, RestoreVolumesDoes DEF Others
<1>17. CASE Tick
  BY <1>17, TickDoes DEF Others
<1>18. CASE Restart
  BY <1>18, RestartDoes DEF Others
<1> QED BY <1>1, <1>2, <1>3, <1>4, <1>5, <1>6, <1>7, <1>8, <1>9, <1>10, <1>11, <1>12, <1>13, <1>14, <1>15, <1>16, <1>17, <1>18 DEF Next, Create, Retention, Delete, Restore

LEMMA PurgeKeepsNewest ==
  ASSUME IInv, [Next]_vars, NEW w \in Workers, At(w, "unrecord"), ~past.restored,
         pc'[w] # pc[w], NEW r \in rows \ rows'
  PROVE  Retain <= Cardinality({q \in rows' : q.at >= r.at} \cup
                               {q \in past.removed : q.at >= r.at})
<1> DEFINE New == {q \in rows' : q.at >= r.at} \cup {q \in past.removed : q.at >= r.at}
<1>1. TypeOK /\ SnapshotsSane /\ IdsInv /\ FiniteInv /\ EnoughNewer
  BY DEF IInv
<1>2. PurgeRow(w) /\ pc[w] = "unrecord"
  <2>1. pc[w] = "unrecord" /\ Next /\ rows' # rows
    BY DEF At, vars
  <2> QED BY <1>1, <2>1, OwnStep
<1>3. /\ job[w].row \in Row /\ rows' = {q \in rows : q.id # job[w].row.id}
      /\ job[w].row \in Doomed
  BY <1>1, <1>2, PurgeRowDoes, PurgeRowDoomed
<1>4. rows \subseteq Row /\ past.removed \subseteq Row
  BY <1>1 DEF TypeOK, Past
<1>5. \A q \in rows : q.id = job[w].row.id => q = job[w].row
  BY <1>1, <1>2, <1>3, <1>4 DEF IdsInv, Pending, Deletes, Deleting
<1>6. r = job[w].row
  BY <1>3, <1>5
<1>7. Retain <= Cardinality(Newer(r))
  BY <1>1, <1>3, <1>6 DEF EnoughNewer
<1>8. Newer(r) \in SUBSET New
  <2>1. ASSUME NEW q \in rows \cup past.removed, Before(q, r)
        PROVE  q.at >= r.at /\ q # r
    <3>1. q \in Row /\ r \in Row
      BY <1>4
    <3>2. q.at \in Nat /\ r.at \in Nat /\ q.id \in Nat /\ r.id \in Nat
      BY <3>1, ConstantFacts DEF Row
    <3> QED BY <2>1, <3>2 DEF Before
  <2> QED BY <1>3, <1>5, <1>6, <2>1 DEF Newer
<1>9. IsFiniteSet(New)
  <2>1. IsFiniteSet(rows \cup past.removed)
    BY <1>1, RowsFinite, FS_Union DEF FiniteInv
  <2>2. New \in SUBSET (rows \cup past.removed)
    BY <1>3
  <2> QED BY <2>1, <2>2, FS_Subset
<1> HIDE DEF New
<1>10. Cardinality(Newer(r)) <= Cardinality(New) /\ IsFiniteSet(Newer(r))
  BY <1>8, <1>9, FS_Subset
<1>11. Cardinality(Newer(r)) \in Nat /\ Cardinality(New) \in Nat
  BY <1>9, <1>10, FS_CardinalityType
<1>12. Retain <= Cardinality(New)
  BY <1>7, <1>10, <1>11, BackupsAssumption
<1> QED BY <1>12 DEF New

\* Retention never deletes the record of a backup of which there are not as many newer
\* ones as are to be kept, in the table or deleted by users in the meantime: however old
\* the list has become that the run works off.
THEOREM RetentionAlwaysKeepsNewest == Spec => RetentionKeepsNewest
<1>1. IInv /\ [Next]_vars =>
        [\A w \in Workers :
           At(w, "unrecord") /\ ~past.restored /\ pc'[w] # pc[w] =>
             \A r \in rows \ rows' :
               Retain <= Cardinality({q \in rows' : q.at >= r.at} \cup
                                     {q \in past.removed : q.at >= r.at})]_vars
  BY PurgeKeepsNewest
<1> QED BY <1>1, BackupsInductive, PTL DEF RetentionKeepsNewest, Spec

=============================================================================
