------------------------ MODULE ManagedServicesProofs ------------------------
(***************************************************************************)
(* Proofs about ManagedServices, for any services, names, handlers and     *)
(* faults: a service is provisioned once, the credentials of databases     *)
(* survive whatever requests overlap, and an active service that nobody    *)
(* has disturbed runs its own container.                                   *)
(***************************************************************************)
EXTENDS ManagedServices, TLAPS

\* What a row says before its service was provisioned, and after it was deleted.
Unborn == {"pending", "provisioning"}
Bare == Unborn \cup {"absent", "deleted"}

\* The steps of a goroutine before the outcome has been stored.
Underway == {"mark", "encrypt", "pull", "start", "store", "fail"}

\* Rows have no credentials and no container until provisioning has an outcome, and
\* have a name while they exist.
RowsInv ==
  \A s \in Services :
    /\ row[s].status \in Bare => row[s].cred = None /\ ~row[s].started
    /\ Exists(s) => row[s].name \in Names

\* While a service is provisioned, its row says so; later, the goroutine only
\* writes rows of object stores.
WorkInv ==
  \A s \in Services :
    /\ work[s] \in Underway => row[s].status \in Unborn \cup {"deleted"}
    /\ work[s] \notin {"none", "done"} /\ row[s].status # "deleted" =>
         svc[s].name = row[s].name
    /\ work[s] = "mark" => svc[s].cred = None /\ ~svc[s].started
    /\ work[s] \in {"store", "bucket", "again"} => svc[s].status = "active"
    /\ work[s] = "fail" => svc[s].status = "error"
    /\ work[s] \in {"bucket", "again", "ui"} => svc[s].name \in Garage

\* A request that will write a row back was made after provisioning, and carries
\* the credentials that are stored, object stores excepted.
WritesBack(h) ==
  LET r == req[h] IN
    /\ r.row.status \notin Bare
    /\ work[r.id] \notin Underway
    /\ r.op = "bucket" => r.row.name \in Garage
    /\ row[r.id].status # "deleted" =>
         /\ r.row.name = row[r.id].name
         /\ row[r.id].name \notin Garage => r.row.cred = row[r.id].cred

RequestsInv ==
  \A h \in Handlers : req[h] # None =>
    /\ row[req[h].id].status # "absent"
    /\ req[h].row.name \in Names
    /\ req[h].op \in {"stop", "start", "bucket"} => WritesBack(h)

IInv == TypeOK /\ RowsInv /\ WorkInv /\ RequestsInv

-----------------------------------------------------------------------------
\* A function keeps its type when one of its values is replaced by another of it.
LEMMA ReplaceValue ==
  ASSUME NEW S, NEW T, NEW f \in [S -> T], NEW k, NEW v, k \in S => v \in T
  PROVE  [f EXCEPT ![k] = v] \in [S -> T]
OBVIOUS

\* The initial state satisfies the invariant.
LEMMA InitIInv == Init => IInv
<1>1. Init => TypeOK
  BY DEF Init, TypeOK, NoRow, NoContainer, Row, Container, Steps
<1>2. Init => RowsInv /\ WorkInv /\ RequestsInv
  BY DEF Init, RowsInv, WorkInv, RequestsInv, NoRow, Underway, Exists
<1> QED BY <1>1, <1>2 DEF IInv

USE DEF Statuses

\* Every step keeps the types.
LEMMA TypeStep == IInv /\ [Next]_vars => TypeOK'
<1> SUFFICES ASSUME IInv, [Next]_vars PROVE TypeOK'
  OBVIOUS
<1> USE ServicesAssumption DEF IInv, TypeOK
<1>row. ASSUME NEW s \in Services, NEW r \in Row, Update(s, r)
        PROVE  row' \in [Services -> Row]
  BY <1>row DEF Update
<1>rec. ASSUME NEW r \in Row
        PROVE  /\ \A c \in Services \cup {None} : [r EXCEPT !.cred = c] \in Row
               /\ \A t \in Statuses : [r EXCEPT !.status = t] \in Row
               /\ \A b \in BOOLEAN : [r EXCEPT !.started = b] \in Row
               /\ r.name \in Names \cup {None}
               /\ r.cred \in Services \cup {None}
  BY DEF Row
<1>no. /\ NoRow \in Row
       /\ [NoRow EXCEPT !.status = "deleted"] \in Row
       /\ \A n \in Names \cup {None} : [NoRow EXCEPT !.name = n] \in Row
  BY DEF NoRow, Row
<1>cont. ASSUME NEW n, NEW c \in Services \cup {None},
                StopAndRemove(n) \/ Run(n, c) \/ RunFails(n, c)
         PROVE  cont' \in [Names -> Container]
  <2>1. /\ NoContainer \in Container
        /\ [cred |-> c, up |-> TRUE] \in Container
        /\ \A m \in Names : /\ [cont[m] EXCEPT !.up = FALSE] \in Container
                            /\ [cont[m] EXCEPT !.cred = c] \in Container
    BY DEF NoContainer, Container
  <2>2. \/ cont' = cont
        \/ cont' = [cont EXCEPT ![n] = NoContainer]
        \/ cont' = [cont EXCEPT ![n] = [cred |-> c, up |-> TRUE]]
        \/ cont' = [cont EXCEPT ![n] = [cont[n] EXCEPT !.up = FALSE]]
        \/ cont' = [cont EXCEPT ![n] = [cont[n] EXCEPT !.cred = c]]
    BY <1>cont, Zenon DEF StopAndRemove, Run, RunFails
  <2>3. [cont EXCEPT ![n] = NoContainer] \in [Names -> Container]
    BY <2>1, ReplaceValue
  <2>4. [cont EXCEPT ![n] = [cred |-> c, up |-> TRUE]] \in [Names -> Container]
    BY <2>1, ReplaceValue
  <2>5. [cont EXCEPT ![n] = [cont[n] EXCEPT !.up = FALSE]] \in [Names -> Container]
    BY <2>1, ReplaceValue
  <2>6. [cont EXCEPT ![n] = [cont[n] EXCEPT !.cred = c]] \in [Names -> Container]
    BY <2>1, ReplaceValue
  <2> QED BY <2>2, <2>3, <2>4, <2>5, <2>6
<1>new. \A n \in Names : NewRow(n) \in Row
  BY DEF NewRow, Row
<1>svc. ASSUME NEW s, NEW r \in Row PROVE [svc EXCEPT ![s] = r] \in [Services -> Row]
  BY ReplaceValue
<1>work. ASSUME NEW s, NEW step \in Steps
         PROVE  [work EXCEPT ![s] = step] \in [Services -> Steps]
  BY ReplaceValue
<1>req. ASSUME NEW h, NEW q \in Request \cup {None}
        PROVE  [req EXCEPT ![h] = q] \in [Handlers -> Request \cup {None}]
  BY ReplaceValue
<1>got. ASSUME NEW h \in Handlers, req[h] # None
        PROVE  /\ req[h] \in Request
               /\ req[h].id \in Services
               /\ req[h].row \in Row
               /\ req[h].row.cred \in Services \cup {None}
  BY <1>got DEF Request, Row
<1>save. ASSUME NEW h \in Handlers, req[h] # None, NEW r \in Row, Save(h, r)
         PROVE  req' \in [Handlers -> Request \cup {None}]
  <2>1. [req[h] EXCEPT !.stage = "save", !.row = r] \in Request
    BY <1>save, <1>got DEF Request
  <2>2. req' = [req EXCEPT ![h] = [req[h] EXCEPT !.stage = "save", !.row = r]]
    BY <1>save, Zenon DEF Save
  <2> QED BY <1>req, <2>1, <2>2
<1>back. ASSUME NEW s \in Services, Return(s)
         PROVE  svc' \in [Services -> Row] /\ work' \in [Services -> Steps]
  <2>1. svc[s].name \in Names \cup {None}
    BY <1>rec
  <2> QED BY <1>back, <1>no, <1>svc, <1>work, <2>1 DEF Return, Goto, Steps
<1>1. ASSUME NEW h \in Handlers, HandlerStep(h) PROVE TypeOK'
  <2>1. CASE Create(h)
    <3>1. PICK s \in Services, n \in Names :
            /\ row' = [row EXCEPT ![s] = NewRow(n)]
            /\ svc' = [svc EXCEPT ![s] = NewRow(n)]
            /\ work' = [work EXCEPT ![s] = "mark"]
            /\ disturbed' = disturbed \cup (IF Busy(n) THEN {n} ELSE {})
            /\ req' = [req EXCEPT ![h] = [op |-> "create", id |-> s, row |-> NewRow(n),
                                         stage |-> "save"]]
            /\ UNCHANGED cont
      BY <2>1, Zenon DEF Create, Goto, Overlap, Disturb
    <3>2. [op |-> "create", id |-> s, row |-> NewRow(n), stage |-> "save"] \in Request
      BY <1>new DEF Request
    <3>3. row' \in [Services -> Row]
      BY <1>new, <3>1
    <3> QED BY <1>new, <1>svc, <1>work, <1>req, <3>1, <3>2, <3>3 DEF Steps
  <2>2. CASE BlankCredentials(h)
    <3>1. [svc[req[h].id] EXCEPT !.cred = None] \in Row
      BY <1>got, <1>rec, <2>2 DEF BlankCredentials
    <3>2. svc' = [svc EXCEPT ![req[h].id] = [svc[req[h].id] EXCEPT !.cred = None]]
      BY <2>2, Zenon DEF BlankCredentials
    <3>3. svc' \in [Services -> Row]
      BY <1>svc, <3>1, <3>2
    <3> QED BY <1>req, <2>2, <3>3 DEF BlankCredentials
  <2>3. CASE GetService(h)
    <3>1. PICK s \in Services, op \in Ops :
            /\ Overlap(row[s].name) /\ Exists(s)
            /\ req' = [req EXCEPT ![h] = [op |-> op, id |-> s, row |-> row[s], stage |-> "got"]]
            /\ UNCHANGED <<row, cont, work, svc>>
      BY <2>3, Zenon DEF GetService
    <3>2. [op |-> op, id |-> s, row |-> row[s], stage |-> "got"] \in Request
      BY DEF Request
    <3>3. disturbed' \subseteq Names
      BY <3>1, Zenon DEF Overlap, Disturb, RowsInv
    <3> QED BY <1>req, <3>1, <3>2, <3>3
  <2>4. CASE StopOrDelete(h)
    <3>1. PICK stage \in {"start", "save"} : req' = [req EXCEPT ![h] = [req[h] EXCEPT !.stage = stage]]
      BY <2>4 DEF StopOrDelete
    <3>2. [req[h] EXCEPT !.stage = stage] \in Request
      BY <1>got, <2>4 DEF StopOrDelete, Request
    <3>3. req' \in [Handlers -> Request \cup {None}]
      BY <1>req, <3>1, <3>2
    <3> QED BY <1>cont, <2>4, <3>3 DEF StopOrDelete
  <2>5. CASE StartAgain(h)
    <3> DEFINE r == req[h].row
    <3>1. /\ [r EXCEPT !.status = "active", !.started = TRUE] \in Row
          /\ [r EXCEPT !.status = "error"] \in Row
      BY ZenonT(60), <1>got, <2>5 DEF StartAgain, Row
    <3>2. \/ Save(h, [r EXCEPT !.status = "active", !.started = TRUE])
          \/ Save(h, [r EXCEPT !.status = "error"])
      BY <2>5, ZenonT(60) DEF StartAgain
    <3>3. req' \in [Handlers -> Request \cup {None}]
      BY SMTT(30), <1>save, <2>5, <3>1, <3>2 DEF StartAgain
    <3> QED BY <1>cont, <1>got, <2>5, <3>3 DEF StartAgain
  <2>6. CASE CreateBucket(h)
    <3>1. [req[h].row EXCEPT !.cred = req[h].id] \in Row
      BY ZenonT(60), <1>got, <1>rec, <2>6 DEF CreateBucket
    <3>2. req' \in [Handlers -> Request \cup {None}]
      BY SMTT(30), <1>save, <2>6, <3>1 DEF CreateBucket
    <3> QED BY <2>6, <3>2 DEF CreateBucket
  <2>7. CASE SaveStopped(h)
    <3>1. [req[h].row EXCEPT !.status = "stopped", !.started = FALSE] \in Row
      BY ZenonT(60), <1>got, <2>7 DEF SaveStopped, Row
    <3> QED BY <1>got, <1>row, <1>req, <2>7, <3>1 DEF SaveStopped
  <2>8. CASE SaveRow(h)
    BY <1>got, <1>row, <1>req, <2>8 DEF SaveRow
  <2>9. CASE DeleteRow(h)
    BY <1>got, <1>row, <1>req, <1>no, <2>9 DEF DeleteRow
  <2>10. CASE Abort(h)
    <3>1. disturbed' \subseteq Names
      BY <2>10 DEF Abort, Disturb, RequestsInv
    <3> QED BY SMTT(30), <1>req, <2>10, <3>1 DEF Abort
  <2> QED BY <1>1, <2>1, <2>2, <2>3, <2>4, <2>5, <2>6, <2>7, <2>8, <2>9, <2>10
           DEF HandlerStep
<1>2. ASSUME NEW s \in Services, Provision(s) PROVE TypeOK'
  <2>1. CASE Mark(s)
    BY SMTT(30), <2>1, <1>row, <1>back DEF Mark, Goto, Row, Steps
  <2>2. CASE Encrypt(s)
    BY <2>2 DEF Encrypt, Goto, Row, Steps
  <2>3. CASE VolumeFails(s)
    BY <2>3, <1>back DEF VolumeFails
  <2>4. CASE PullFails(s)
    BY <2>4 DEF PullFails, Goto, Row, Steps
  <2>5. CASE StopExisting(s)
    BY <2>5, <1>cont DEF StopExisting, Goto, Row, Steps
  <2>6. CASE StartContainer(s)
    <3>1. /\ Run(svc[s].name, s)
          /\ svc' = [svc EXCEPT ![s] = [svc[s] EXCEPT !.status = "active", !.started = TRUE]]
          /\ work' = [work EXCEPT ![s] = "store"]
          /\ UNCHANGED <<row, req, disturbed>>
      BY <2>6 DEF StartContainer, Goto
    <3>2. [svc[s] EXCEPT !.status = "active", !.started = TRUE] \in Row
      BY ZenonT(60) DEF Row
    <3> QED BY <1>cont, <1>svc, <1>work, <3>1, <3>2 DEF Steps
  <2>7. CASE StartFails(s)
    BY <2>7, <1>cont DEF StartFails, Goto, Row, Steps
  <2>8. CASE StoreActive(s)
    BY <2>8, <1>row, <1>back DEF StoreActive, Goto, Row, Steps
  <2>9. CASE StoreError(s)
    BY <2>9, <1>row, <1>back DEF StoreError
  <2>10. CASE AddBucket(s)
    BY <2>10, <1>back DEF AddBucket, Goto, Row, Steps
  <2>11. CASE StoreAgain(s)
    BY <2>11, <1>row, <1>back DEF StoreAgain
  <2>12. CASE CreateWebUI(s)
    <3> DEFINE n == WebUI[svc[s].name]
    <3>1. n \in Names
      BY <2>12 DEF CreateWebUI, WorkInv, At
    <3>2. CASE /\ svc' = [svc EXCEPT ![s] = NoRow]
               /\ work' = [work EXCEPT ![s] = "done"]
               /\ UNCHANGED <<row, disturbed>>
      BY <1>no, <1>svc, <1>work, <2>12, <3>2 DEF CreateWebUI, Steps
    <3>3. ASSUME NEW t \in Services,
                 row' = [row EXCEPT ![t] = NewRow(n)],
                 svc' = [svc EXCEPT ![s] = NoRow, ![t] = NewRow(n)],
                 work' = [work EXCEPT ![s] = "done", ![t] = "mark"],
                 Overlap(n)
          PROVE  TypeOK'
      <4>1. row' \in [Services -> Row]
        BY <1>new, <3>1, <3>3
      <4>2. svc' \in [Services -> Row]
        BY <1>no, <1>new, <3>1, <3>3
      <4>3. work' \in [Services -> Steps]
        BY <3>3 DEF Steps
      <4>4. disturbed' \subseteq Names
        BY <3>1, <3>3 DEF Overlap, Disturb
      <4> QED BY <2>12, <4>1, <4>2, <4>3, <4>4 DEF CreateWebUI
    <3> QED BY <2>12, <3>2, <3>3 DEF CreateWebUI, Goto
  <2> QED BY <1>2, <2>1, <2>2, <2>3, <2>4, <2>5, <2>6, <2>7, <2>8, <2>9, <2>10, <2>11,
             <2>12 DEF Provision
<1>3. CASE Crash
  BY <1>3 DEF Crash, Disturb, NoRow, Row, Steps
<1>4. CASE UNCHANGED vars
  BY <1>4 DEF vars
<1> QED BY <1>1, <1>2, <1>3, <1>4 DEF Next

-----------------------------------------------------------------------------
\* Every step keeps the other parts of the invariant.
LEMMA InvStep == IInv /\ [Next]_vars => RowsInv' /\ WorkInv' /\ RequestsInv'
<1> SUFFICES ASSUME IInv, [Next]_vars PROVE RowsInv' /\ WorkInv' /\ RequestsInv'
  OBVIOUS
<1> USE ServicesAssumption DEF IInv, TypeOK, Bare, Unborn, Underway
<1>1. ASSUME NEW h \in Handlers, HandlerStep(h) PROVE RowsInv' /\ WorkInv' /\ RequestsInv'
  <2>1. CASE Create(h)
    <3>1. RowsInv'
      BY <2>1 DEF Create, RowsInv, Exists, NewRow
    <3>2. WorkInv'
      BY <2>1 DEF Create, WorkInv, Goto, NewRow
    <3>3. RequestsInv'
      BY <2>1 DEF Create, RequestsInv, WritesBack, Goto, NewRow
    <3> QED BY <3>1, <3>2, <3>3
  <2>2. CASE BlankCredentials(h)
    <3>1. RowsInv'
      BY <2>2 DEF BlankCredentials, RowsInv, Exists
    <3>2. WorkInv'
      BY <2>2 DEF BlankCredentials, WorkInv
    <3>3. RequestsInv'
      BY <2>2 DEF BlankCredentials, RequestsInv, WritesBack
    <3> QED BY <3>1, <3>2, <3>3
  <2>3. CASE GetService(h)
    <3>1. RowsInv'
      BY <2>3 DEF GetService, RowsInv, Exists
    <3>2. WorkInv'
      BY <2>3 DEF GetService, WorkInv
    <3>3. RequestsInv'
      <4>1. PICK s \in Services, op \in Ops :
              /\ Exists(s) /\ Acts(op, row[s])
              /\ req' = [req EXCEPT ![h] = [op |-> op, id |-> s, row |-> row[s], stage |-> "got"]]
              /\ UNCHANGED <<row, cont, work, svc>>
        BY <2>3, Zenon DEF GetService
      <4>2. row[s].name \in Names
        BY <4>1 DEF RowsInv
      <4>3. ASSUME op \in {"stop", "start", "bucket"}
            PROVE  /\ row[s].status \notin Bare
                   /\ work[s] \notin Underway
                   /\ op = "bucket" => row[s].name \in Garage
        BY <4>1, <4>3 DEF Acts, Exists, RowsInv, WorkInv
      <4>4. /\ req'[h] = [op |-> op, id |-> s, row |-> row[s], stage |-> "got"]
            /\ \A k \in Handlers \ {h} : req'[k] = req[k]
        BY <4>1
      <4> QED BY <4>1, <4>2, <4>3, <4>4 DEF RequestsInv, WritesBack, Exists
    <3> QED BY <3>1, <3>2, <3>3
  <2>4. CASE StopOrDelete(h)
    <3>1. RowsInv'
      BY <2>4 DEF StopOrDelete, RowsInv, Exists
    <3>2. WorkInv'
      BY <2>4 DEF StopOrDelete, WorkInv
    <3>3. RequestsInv'
      BY <2>4 DEF StopOrDelete, RequestsInv, WritesBack
    <3> QED BY <3>1, <3>2, <3>3
  <2>5. CASE StartAgain(h)
    <3>1. RowsInv'
      BY <2>5 DEF StartAgain, RowsInv, Exists
    <3>2. WorkInv'
      BY <2>5 DEF StartAgain, WorkInv
    <3>3. RequestsInv'
      <4> DEFINE r == req[h].row
      <4>1. req[h] \in Request /\ r \in Row
        BY <2>5 DEF StartAgain, Request
      <4>2. \/ Save(h, [r EXCEPT !.status = "active", !.started = TRUE])
            \/ Save(h, [r EXCEPT !.status = "error"])
        BY <2>5, Zenon DEF StartAgain
      <4>3. ASSUME NEW x, Save(h, x)
            PROVE  /\ req'[h].id = req[h].id /\ req'[h].op = req[h].op /\ req'[h].row = x
                   /\ \A k \in Handlers \ {h} : req'[k] = req[k]
        BY <4>1, <4>3 DEF Save, Request
      <4>4. /\ req'[h].row.name = r.name /\ req'[h].row.cred = r.cred
            /\ req'[h].row.status \in {"active", "error"}
        <5>1. ASSUME NEW x, x = [r EXCEPT !.status = "active", !.started = TRUE]
              PROVE  x.name = r.name /\ x.cred = r.cred /\ x.status = "active"
          BY <4>1, <5>1 DEF Row
        <5>2. ASSUME NEW x, x = [r EXCEPT !.status = "error"]
              PROVE  x.name = r.name /\ x.cred = r.cred /\ x.status = "error"
          BY <4>1, <5>2 DEF Row
        <5> QED BY <4>2, <4>3, <5>1, <5>2
      <4>5. /\ req'[h].id = req[h].id /\ req'[h].op = req[h].op
            /\ \A k \in Handlers \ {h} : req'[k] = req[k]
        BY <4>2, <4>3
      <4> QED BY <2>5, <4>4, <4>5 DEF StartAgain, RequestsInv, WritesBack
    <3> QED BY <3>1, <3>2, <3>3
  <2>6. CASE CreateBucket(h)
    <3>1. RowsInv'
      BY <2>6 DEF CreateBucket, RowsInv, Exists
    <3>2. WorkInv'
      BY <2>6 DEF CreateBucket, WorkInv
    <3>3. RequestsInv'
      BY <2>6 DEF CreateBucket, RequestsInv, WritesBack, Save
    <3> QED BY <3>1, <3>2, <3>3
  <2>7. CASE SaveStopped(h)
    <3>1. RowsInv'
      BY <2>7 DEF SaveStopped, RowsInv, RequestsInv, Update, Exists
    <3>2. WorkInv'
      BY <2>7 DEF SaveStopped, WorkInv, RequestsInv, WritesBack, Update, Exists
    <3>3. RequestsInv'
      BY <2>7 DEF SaveStopped, RequestsInv, WritesBack, Update, Exists
    <3> QED BY <3>1, <3>2, <3>3
  <2>8. CASE SaveRow(h)
    <3>1. RowsInv'
      BY <2>8 DEF SaveRow, RowsInv, RequestsInv, WritesBack, Update, Exists
    <3>2. WorkInv'
      BY <2>8 DEF SaveRow, WorkInv, RequestsInv, WritesBack, Update, Exists
    <3>3. RequestsInv'
      BY <2>8 DEF SaveRow, RequestsInv, WritesBack, Update, Exists
    <3> QED BY <3>1, <3>2, <3>3
  <2>9. CASE DeleteRow(h)
    <3>1. RowsInv'
      BY <2>9 DEF DeleteRow, RowsInv, Update, Exists, NoRow
    <3>2. WorkInv'
      BY <2>9 DEF DeleteRow, WorkInv, Update
    <3>3. RequestsInv'
      BY <2>9 DEF DeleteRow, RequestsInv, WritesBack, Update
    <3> QED BY <3>1, <3>2, <3>3
  <2>10. CASE Abort(h)
    <3>1. RowsInv'
      BY <2>10 DEF Abort, RowsInv, Exists
    <3>2. WorkInv'
      BY <2>10 DEF Abort, WorkInv
    <3>3. RequestsInv'
      BY <2>10 DEF Abort, RequestsInv, WritesBack
    <3> QED BY <3>1, <3>2, <3>3
  <2> QED BY <1>1, <2>1, <2>2, <2>3, <2>4, <2>5, <2>6, <2>7, <2>8, <2>9, <2>10 DEF HandlerStep
<1>2. ASSUME NEW s \in Services, Provision(s) PROVE RowsInv' /\ WorkInv' /\ RequestsInv'
  <2>1. CASE Mark(s)
    <3>1. RowsInv'
      BY <2>1 DEF Mark, RowsInv, WorkInv, At, Update, Exists, NoRow, Row
    <3>2. WorkInv'
      BY <2>1 DEF Mark, WorkInv, Goto, At, Update, Return, NoRow, Row
    <3>3. RequestsInv'
      BY <2>1 DEF Mark, RequestsInv, WritesBack, Goto, At, Update, Return, Row, Request
    <3> QED BY <3>1, <3>2, <3>3
  <2>2. CASE Encrypt(s)
    <3>1. RowsInv'
      BY <2>2 DEF Encrypt, RowsInv, Exists
    <3>2. WorkInv'
      BY <2>2 DEF Encrypt, WorkInv, Goto, At
    <3>3. RequestsInv'
      BY <2>2 DEF Encrypt, RequestsInv, WritesBack, Goto, At
    <3> QED BY <3>1, <3>2, <3>3
  <2>3. CASE VolumeFails(s)
    <3>1. RowsInv'
      BY <2>3 DEF VolumeFails, RowsInv, Exists
    <3>2. WorkInv'
      BY <2>3 DEF VolumeFails, WorkInv, Goto, At, Return, NoRow
    <3>3. RequestsInv'
      BY <2>3 DEF VolumeFails, RequestsInv, WritesBack, Goto, Return, Request
    <3> QED BY <3>1, <3>2, <3>3
  <2>4. CASE PullFails(s)
    <3>1. RowsInv'
      BY <2>4 DEF PullFails, RowsInv, Exists
    <3>2. WorkInv'
      BY <2>4 DEF PullFails, WorkInv, Goto, At
    <3>3. RequestsInv'
      BY <2>4 DEF PullFails, RequestsInv, WritesBack, Goto, At
    <3> QED BY <3>1, <3>2, <3>3
  <2>5. CASE StopExisting(s)
    <3>1. RowsInv'
      BY <2>5 DEF StopExisting, RowsInv, Exists
    <3>2. WorkInv'
      BY <2>5 DEF StopExisting, WorkInv, Goto, At
    <3>3. RequestsInv'
      BY <2>5 DEF StopExisting, RequestsInv, WritesBack, Goto, At
    <3> QED BY <3>1, <3>2, <3>3
  <2>6. CASE StartContainer(s)
    <3>1. RowsInv'
      BY <2>6 DEF StartContainer, RowsInv, Exists
    <3>2. WorkInv'
      BY <2>6 DEF StartContainer, WorkInv, Goto, At
    <3>3. RequestsInv'
      BY <2>6 DEF StartContainer, RequestsInv, WritesBack, Goto, At
    <3> QED BY <3>1, <3>2, <3>3
  <2>7. CASE StartFails(s)
    <3>1. RowsInv'
      BY <2>7 DEF StartFails, RowsInv, Exists
    <3>2. WorkInv'
      BY <2>7 DEF StartFails, WorkInv, Goto, At
    <3>3. RequestsInv'
      BY <2>7 DEF StartFails, RequestsInv, WritesBack, Goto, At
    <3> QED BY <3>1, <3>2, <3>3
  <2>8. CASE StoreActive(s)
    <3>1. RowsInv'
      BY <2>8 DEF StoreActive, RowsInv, WorkInv, At, Update, Exists
    <3>2. WorkInv'
      BY <2>8 DEF StoreActive, WorkInv, Goto, At, Update, Return, NoRow
    <3>3. RequestsInv'
      BY <2>8
         DEF StoreActive, WorkInv, RequestsInv, WritesBack, Goto, At, Update, Return, Request
    <3> QED BY <3>1, <3>2, <3>3
  <2>9. CASE StoreError(s)
    <3>1. RowsInv'
      BY <2>9 DEF StoreError, RowsInv, WorkInv, At, Update, Exists
    <3>2. WorkInv'
      BY <2>9 DEF StoreError, WorkInv, Goto, At, Update, Return, NoRow
    <3>3. RequestsInv'
      BY <2>9
         DEF StoreError, WorkInv, RequestsInv, WritesBack, Goto, At, Update, Return, Request
    <3> QED BY <3>1, <3>2, <3>3
  <2>10. CASE AddBucket(s)
    <3>1. RowsInv'
      BY <2>10 DEF AddBucket, RowsInv, Exists
    <3>2. WorkInv'
      BY <2>10 DEF AddBucket, WorkInv, Goto, At, Return, NoRow, Row
    <3>3. RequestsInv'
      BY <2>10 DEF AddBucket, RequestsInv, WritesBack, Goto, Return, Request
    <3> QED BY <3>1, <3>2, <3>3
  <2>11. CASE StoreAgain(s)
    <3>1. RowsInv'
      BY <2>11 DEF StoreAgain, RowsInv, WorkInv, At, Update, Exists
    <3>2. WorkInv'
      BY <2>11 DEF StoreAgain, WorkInv, Goto, At, Update, Return, NoRow
    <3>3. RequestsInv'
      BY <2>11
         DEF StoreAgain, WorkInv, RequestsInv, WritesBack, Goto, At, Update, Exists, Return, Request
    <3> QED BY <3>1, <3>2, <3>3
  <2>12. CASE CreateWebUI(s)
    <3>1. RowsInv'
      BY <2>12 DEF CreateWebUI, RowsInv, WorkInv, At, Exists, NewRow
    <3>2. WorkInv'
      BY <2>12 DEF CreateWebUI, WorkInv, Goto, NewRow
    <3>3. RequestsInv'
      BY <2>12 DEF CreateWebUI, RequestsInv, WritesBack, Goto, Request
    <3> QED BY <3>1, <3>2, <3>3
  <2> QED BY <1>2, <2>1, <2>2, <2>3, <2>4, <2>5, <2>6, <2>7, <2>8, <2>9, <2>10, <2>11,
             <2>12 DEF Provision
<1>3. CASE Crash
  BY <1>3 DEF Crash, RowsInv, WorkInv, RequestsInv, WritesBack, NoRow, Exists
<1>4. CASE UNCHANGED vars
  BY <1>4 DEF vars, RowsInv, WorkInv, RequestsInv, WritesBack, Exists
<1> QED BY <1>1, <1>2, <1>3, <1>4 DEF Next

-----------------------------------------------------------------------------
\* Type correctness and the invariant it is part of, in every reachable state.
THEOREM ServicesInductive == Spec => []IInv
<1>1. IInv /\ [Next]_vars => IInv'
  BY TypeStep, InvStep DEF IInv
<1> QED BY InitIInv, <1>1, PTL DEF Spec

\* Every variable keeps its type (TypeOK), whatever requests, failures and restarts
\* meet.
THEOREM ServicesTyped == Spec => []TypeOK
<1>1. IInv => TypeOK
  BY DEF IInv
<1> QED BY ServicesInductive, <1>1, PTL

-----------------------------------------------------------------------------
\* What a step may do to a row, as far as the status provisioning and the stored
\* credentials are concerned.
Once == \A s \in Services :
  row'[s].status = "provisioning" => row[s].status \in {"pending", "provisioning"}

Kept == \A s \in Services :
  row[s].cred # None /\ row[s].name \notin Garage =>
    row'[s].cred = row[s].cred \/ row'[s].status = "deleted"

\* Every step keeps to it.
LEMMA WriteStep == IInv /\ [Next]_vars => Once /\ Kept
<1> SUFFICES ASSUME IInv, [Next]_vars PROVE Once /\ Kept
  OBVIOUS
<1> USE DEF IInv, TypeOK, Once, Kept
<1>0. CASE UNCHANGED row
  BY <1>0 DEF RowsInv, Bare, Unborn
<1>1. ASSUME NEW h \in Handlers, HandlerStep(h) PROVE Once /\ Kept
  <2>1. CASE Create(h)
    BY <2>1 DEF Create, RowsInv, NewRow, Bare
  <2>2. CASE SaveStopped(h)
    BY <2>2 DEF SaveStopped, RequestsInv, WritesBack, Update, Exists, Request, Row
  <2>3. CASE SaveRow(h)
    BY <2>3 DEF SaveRow, RequestsInv, WritesBack, Update, Exists, Bare, Unborn
  <2>4. CASE DeleteRow(h)
    BY <2>4 DEF DeleteRow, RowsInv, Update, Exists, NoRow, Row
  <2>5. CASE BlankCredentials(h) \/ GetService(h) \/ StopOrDelete(h) \/ StartAgain(h)
             \/ CreateBucket(h) \/ Abort(h)
    BY <2>5, <1>0 DEF BlankCredentials, GetService, StopOrDelete, StartAgain, CreateBucket, Abort
  <2> QED BY <1>1, <2>1, <2>2, <2>3, <2>4, <2>5 DEF HandlerStep
<1>2. ASSUME NEW s \in Services, Provision(s) PROVE Once /\ Kept
  <2>1. CASE Mark(s)
    BY <2>1, <1>0 DEF Mark, RowsInv, WorkInv, At, Update, Exists, Bare, Unborn, Underway
  <2>2. CASE StoreActive(s)
    BY <2>2, <1>0 DEF StoreActive, RowsInv, WorkInv, At, Update, Exists, Bare, Unborn, Underway
  <2>3. CASE StoreError(s)
    BY <2>3, <1>0 DEF StoreError, RowsInv, WorkInv, At, Update, Exists, Bare, Unborn, Underway
  <2>4. CASE StoreAgain(s)
    BY <2>4, <1>0 DEF StoreAgain, RowsInv, WorkInv, At, Update, Exists
  <2>5. CASE CreateWebUI(s)
    BY <2>5, <1>0 DEF CreateWebUI, RowsInv, NewRow, Bare
  <2>6. CASE Encrypt(s) \/ VolumeFails(s) \/ PullFails(s) \/ StopExisting(s)
             \/ StartContainer(s) \/ StartFails(s) \/ AddBucket(s)
    BY <2>6, <1>0 DEF Encrypt, VolumeFails, PullFails, StopExisting, StartContainer,
                      StartFails, AddBucket
  <2> QED BY <1>2, <2>1, <2>2, <2>3, <2>4, <2>5, <2>6 DEF Provision
<1> QED BY <1>0, <1>1, <1>2 DEF Next, Crash, vars

\* A service is provisioned once (NeverProvisionedAgain): the requests write back
\* rows that are past provisioning, and the goroutine of a service writes that
\* status only over a row that is not.
THEOREM ProvisionedOnce == Spec => NeverProvisionedAgain
<1>1. IInv /\ [Next]_vars => [Once]_vars
  BY WriteStep
<1>2. [][Once]_vars => NeverProvisionedAgain
  BY PTL DEF NeverProvisionedAgain, Once
<1> QED BY ServicesInductive, <1>1, <1>2, PTL DEF Spec

\* Stored credentials of databases survive every step but the deletion of their row
\* (CredentialsKept), although requests write whole rows they read earlier.
THEOREM CredentialsSurvive == Spec => CredentialsKept
<1>1. IInv /\ [Next]_vars => [Kept]_vars
  BY WriteStep
<1>2. [][Kept]_vars => CredentialsKept
  BY PTL DEF CredentialsKept, Kept
<1> QED BY ServicesInductive, <1>1, <1>2, PTL DEF Spec

-----------------------------------------------------------------------------
(***************************************************************************)
(* Containers.  A name nobody has disturbed has one operation at a time,   *)
(* which knows what the container of that name is.                         *)
(***************************************************************************)
Working(s, n) == work[s] \notin {"none", "done"} /\ svc[s].name = n
Asked(h, n) == req[h] # None /\ req[h].row.name = n

\* Credentials are those of the service they are stored with.
OwnCredentials ==
  /\ \A s \in Services : row[s].cred \in {None, s} /\ svc[s].cred \in {None, s}
  /\ \A h \in Handlers : req[h] # None => req[h].row.cred \in {None, req[h].id}

\* A name has one row, and requests have the name of theirs.
NamesAgree ==
  /\ \A s, t \in Services : Exists(s) /\ Exists(t) /\ row[s].name = row[t].name => s = t
  /\ \A h \in Handlers :
       req[h] # None /\ Exists(req[h].id) => req[h].row.name = row[req[h].id].name

\* One operation at a time: the answer to a creation may still be under way beside it.
Alone(n) ==
  /\ \A s, t \in Services : Working(s, n) /\ Working(t, n) => s = t
  /\ \A g, h \in Handlers : Asked(g, n) /\ Asked(h, n) => g = h
  /\ \A s \in Services, h \in Handlers : Working(s, n) /\ Asked(h, n) => req[h].op = "create"

Ours(s, n) == cont[n] = [cred |-> s, up |-> TRUE]

\* What an operation that is going to store the status active knows of the container.
KnownTo(s, n) ==
  /\ Exists(s)
  /\ work[s] \in {"store", "bucket", "again"} => Ours(s, n)

KnownBy(h, n) ==
  /\ Exists(req[h].id)
  /\ req[h].op = "start" /\ req[h].stage # "save" => req[h].row.cred # None
  /\ req[h].row.status = "active" =>
       /\ req[h].op = "start" /\ req[h].stage = "save" => Ours(req[h].id, n)
       /\ req[h].op = "bucket" => Ours(req[h].id, n)

Known(n) ==
  /\ \A s \in Services : Working(s, n) => KnownTo(s, n)
  /\ \A h \in Handlers : Asked(h, n) /\ req[h].op # "create" => KnownBy(h, n)

Moving(n) == \E h \in Handlers : Asked(h, n) /\ req[h].op \in {"stop", "start", "delete"}

Running(n) ==
  \A s \in Services : row[s].status = "active" /\ row[s].name = n => Moving(n) \/ Ours(s, n)

Undisturbed == \A n \in Names \ disturbed : Alone(n) /\ Known(n) /\ Running(n)

CInv == OwnCredentials /\ NamesAgree /\ Undisturbed

\* A call to Docker concerns one container.
LEMMA Elsewhere ==
  ASSUME TypeOK, NEW n, NEW c, StopAndRemove(n) \/ Run(n, c) \/ RunFails(n, c)
  PROVE  \A m \in Names \ {n} : cont'[m] = cont[m]
<1>1. \/ cont' = cont
      \/ \E v : cont' = [cont EXCEPT ![n] = v]
  BY Zenon DEF StopAndRemove, Run, RunFails
<1> QED BY <1>1 DEF TypeOK

\* An update keeps names and adds no row.
LEMMA Updated ==
  ASSUME TypeOK, NEW s \in Services, NEW r, Update(s, r),
         Exists(s) => r.name = row[s].name /\ r.status \notin {"absent", "deleted"}
  PROVE  /\ \A t \in Services : (Exists(t)' <=> Exists(t)) /\ row'[t].name = row[t].name
         /\ \A t \in Services \ {s} : row'[t] = row[t]
         /\ row'[s] = IF Exists(s) THEN r ELSE row[s]
BY DEF Update, Exists, TypeOK

LEMMA Returned ==
  ASSUME TypeOK, NEW s \in Services, Return(s)
  PROVE  /\ work'[s] \in {"ui", "done"}
         /\ work'[s] # "done" => svc'[s].name = svc[s].name
         /\ svc'[s].cred = None
         /\ \A t \in Services \ {s} : work'[t] = work[t] /\ svc'[t] = svc[t]
BY DEF Return, Goto, TypeOK, Row, NoRow

\* What a step of a goroutine leaves alone, n being the name it works on.
WorksOn(s, n) ==
  /\ work[s] \notin {"none", "done"} /\ svc[s].name = n
  /\ UNCHANGED <<req, disturbed>>
  /\ \A t \in Services \ {s} : work'[t] = work[t] /\ svc'[t].name = svc[t].name
  /\ work'[s] # "none" /\ (work'[s] # "done" => svc'[s].name = n)
  /\ \A t \in Services : (Exists(t)' <=> Exists(t)) /\ row'[t].name = row[t].name
  /\ \A t \in Services \ {s} : row'[t] = row[t]
  /\ \A m \in Names \ {n} : cont'[m] = cont[m]

\* What it has to know of the container it leaves.
Leaves(s, n) ==
  KnownTo(s, n) =>
    /\ work'[s] \in {"store", "bucket", "again"} => cont'[n] = [cred |-> s, up |-> TRUE]
    /\ row'[s].status = "active" =>
         \/ cont'[n] = [cred |-> s, up |-> TRUE]
         \/ row'[s] = row[s] /\ cont' = cont

\* Steps of goroutines: other names are not concerned, and of its own name only the
\* outcome has to be looked at.
LEMMA WorkStep ==
  ASSUME IInv, CInv, NEW s \in Services, NEW n, WorksOn(s, n), Leaves(s, n)
  PROVE  NamesAgree' /\ Undisturbed'
<1> USE DEF IInv, CInv, TypeOK, WorksOn
<1>1. NamesAgree'
  BY DEF NamesAgree, Request
<1>2. ASSUME NEW m \in Names \ disturbed, m # n
      PROVE  Alone(m)' /\ Known(m)' /\ Running(m)'
  <2>1. Alone(m) /\ Known(m) /\ Running(m)
    BY <1>2 DEF Undisturbed
  <2>2. \A t \in Services : Working(t, m)' => Working(t, m) /\ t # s
    BY <1>2 DEF Working
  <2>3. \A h \in Handlers : Asked(h, m)' <=> Asked(h, m)
    BY DEF Asked
  <2>4. \A t \in Services : Ours(t, m)' <=> Ours(t, m)
    BY <1>2 DEF Ours
  <2>5. Alone(m)'
    BY <2>1, <2>2, <2>3 DEF Alone
  <2>6. Known(m)'
    <3>1. \A t \in Services : Working(t, m)' => KnownTo(t, m)'
      BY <2>1, <2>2, <2>4 DEF Known, KnownTo
    <3>2. ASSUME NEW h \in Handlers, Asked(h, m)', req'[h].op # "create"
          PROVE  KnownBy(h, m)'
      <4>1. KnownBy(h, m) /\ req[h].id \in Services /\ req'[h] = req[h]
        BY <2>1, <2>3, <3>2 DEF Known, Asked, Request
      <4> QED BY <2>4, <4>1 DEF KnownBy
    <3> QED BY <3>1, <3>2 DEF Known
  <2>7. row'[s].name = m /\ row'[s].status = "active" => FALSE
    BY <1>2 DEF WorkInv, Exists
  <2> QED BY <2>1, <2>3, <2>4, <2>5, <2>6, <2>7 DEF Running, Moving
<1>3. ASSUME n \in Names \ disturbed
      PROVE  Alone(n)' /\ Known(n)' /\ Running(n)'
  <2>1. Alone(n) /\ Known(n) /\ Running(n) /\ KnownTo(s, n) /\ Working(s, n)
    BY <1>3 DEF Undisturbed, Known, Working
  <2>2. \A t \in Services : Working(t, n)' => t = s
    BY <2>1 DEF Alone, Working
  <2>3. \A h \in Handlers : /\ Asked(h, n)' <=> Asked(h, n)
                            /\ Asked(h, n) => req[h].op = "create"
    BY <2>1 DEF Asked, Alone
  <2>4. Alone(n)'
    BY <2>1, <2>2, <2>3 DEF Alone
  <2>5. Known(n)'
    BY <2>1, <2>2, <2>3 DEF Known, KnownTo, Leaves, Ours
  <2>6. \A t \in Services : row'[t].name = n /\ row'[t].status = "active" => t = s
    BY <2>1 DEF NamesAgree, KnownTo, WorkInv, Exists
  <2>7. ~Moving(n)
    BY <2>3 DEF Moving
  <2>8. row'[s].name = n /\ row'[s].status = "active" => Ours(s, n)'
    <3>1. row[s].name = n /\ row[s].status = "active" => Ours(s, n)
      BY <2>1, <2>7 DEF Running
    <3> QED BY <2>1, <3>1 DEF Leaves, Ours
  <2>9. Running(n)'
    BY <2>6, <2>8 DEF Running
  <2> QED BY <2>4, <2>5, <2>9
<1> QED BY <1>1, <1>2, <1>3 DEF Undisturbed

\* What a step of a request s is about leaves alone, and what it has to know.
AsksFor(h, s, n) ==
  /\ req[h] # None /\ req[h].op # "create" /\ req[h].id = s /\ req[h].row.name = n
  /\ UNCHANGED <<work, svc, disturbed>>
  /\ \A g \in Handlers \ {h} : req'[g] = req[g]
  /\ req'[h] # None => req'[h].op = req[h].op /\ req'[h].id = s /\ req'[h].row.name = n
  /\ \A t \in Services \ {s} : row'[t] = row[t]
  /\ \/ row'[s] = row[s]
     \/ Exists(s) /\ row'[s].status = "deleted" /\ req'[h] = None
     \/ Exists(s) /\ Exists(s)' /\ row'[s].name = row[s].name
  /\ \A m \in Names \ {n} : cont'[m] = cont[m]

Answers(h, s, n) ==
  KnownBy(h, n) =>
    /\ req'[h] # None => KnownBy(h, n)'
    /\ row'[s].status = "active" =>
         \/ cont'[n] = [cred |-> s, up |-> TRUE]
         \/ req'[h] # None /\ req[h].op \in {"stop", "start", "delete"}
         \/ row'[s] = row[s] /\ cont' = cont /\ req[h].op = "bucket"

LEMMA AskStep ==
  ASSUME IInv, CInv, NEW h \in Handlers, NEW s, NEW n, AsksFor(h, s, n), Answers(h, s, n)
  PROVE  NamesAgree' /\ Undisturbed'
<1> USE DEF IInv, CInv, TypeOK, AsksFor
<1>0. s \in Services
  BY DEF Request
<1>1. NamesAgree'
  BY <1>0 DEF NamesAgree, Exists, Request
<1>2. ASSUME NEW m \in Names \ disturbed, m # n
      PROVE  Alone(m)' /\ Known(m)' /\ Running(m)'
  <2>1. Alone(m) /\ Known(m) /\ Running(m)
    BY <1>2 DEF Undisturbed
  <2>2. \A t \in Services : Working(t, m)' <=> Working(t, m)
    BY DEF Working
  <2>3. \A g \in Handlers : /\ Asked(g, m)' <=> Asked(g, m)
                            /\ Asked(g, m) => g # h /\ req'[g] = req[g]
    BY <1>2 DEF Asked
  <2>4. \A t \in Services : Ours(t, m)' <=> Ours(t, m)
    BY <1>2 DEF Ours
  <2>5. Exists(s) => row[s].name = n
    BY DEF NamesAgree
  <2>6. \A t \in Services : Exists(t) /\ row[t].name = m => row'[t] = row[t]
    BY <1>2, <2>5
  <2>7. Alone(m)'
    BY <2>1, <2>2, <2>3 DEF Alone
  <2>8. \A t \in Services : Working(t, m) => Exists(t) /\ row[t].name = m
    BY <2>1 DEF Known, KnownTo, Working, WorkInv, Exists
  <2>9. \A g \in Handlers : Asked(g, m) /\ req[g].op # "create" =>
          /\ req[g].id \in Services
          /\ Exists(req[g].id) /\ row[req[g].id].name = m
    BY <2>1 DEF Known, KnownBy, Asked, NamesAgree, Request
  <2>10. Known(m)'
    BY <2>1, <2>2, <2>3, <2>4, <2>6, <2>8, <2>9 DEF Known, KnownTo, KnownBy, Exists
  <2>11. \A t \in Services : row'[t].status = "active" /\ row'[t].name = m => row'[t] = row[t]
    BY <1>2, <2>5 DEF Exists
  <2>12. Running(m)'
    BY <2>1, <2>3, <2>4, <2>11 DEF Running, Moving
  <2> QED BY <2>7, <2>10, <2>12
<1>3. ASSUME n \in Names \ disturbed
      PROVE  Alone(n)' /\ Known(n)' /\ Running(n)'
  <2>1. Alone(n) /\ Known(n) /\ Running(n) /\ KnownBy(h, n) /\ Asked(h, n)
    BY <1>3 DEF Undisturbed, Known, Asked
  <2>2. \A t \in Services : ~Working(t, n) /\ ~Working(t, n)'
    BY <2>1 DEF Alone, Working
  <2>3. \A g \in Handlers : (Asked(g, n) => g = h) /\ (Asked(g, n)' => g = h)
    BY <2>1 DEF Asked, Alone
  <2>4. Alone(n)'
    BY <2>2, <2>3 DEF Alone
  <2>5. Known(n)'
    BY <2>1, <2>2, <2>3 DEF Known, Asked, Answers
  <2>6. \A t \in Services : row'[t].name = n /\ row'[t].status = "active" => t = s
    BY <1>0, <2>1 DEF NamesAgree, KnownBy, Exists
  <2>7. req[h].op = "bucket" => ~Moving(n)
    BY <2>3 DEF Moving
  <2>8. row'[s].name = n /\ row'[s].status = "active" => Moving(n)' \/ Ours(s, n)'
    <3>1. row[s].name = n /\ row[s].status = "active" => Moving(n) \/ Ours(s, n)
      BY <1>0, <2>1 DEF Running
    <3>2. req'[h] # None /\ req[h].op \in {"stop", "start", "delete"} => Moving(n)'
      BY DEF Moving, Asked
    <3> QED BY <2>1, <2>7, <3>1, <3>2 DEF Answers, Ours
  <2>9. Running(n)'
    BY <2>6, <2>8 DEF Running
  <2> QED BY <2>4, <2>5, <2>9
<1>4. n \in Names
  BY DEF RequestsInv
<1> QED BY <1>1, <1>2, <1>3, <1>4 DEF Undisturbed

LEMMA ContainersStep == IInv /\ CInv /\ [Next]_vars => CInv'
<1> SUFFICES ASSUME IInv, CInv, [Next]_vars PROVE OwnCredentials' /\ NamesAgree' /\ Undisturbed'
  BY DEF CInv
<1> USE ServicesAssumption DEF IInv, CInv, TypeOK, Bare, Unborn, Underway
<1>1. ASSUME NEW h \in Handlers, HandlerStep(h)
      PROVE  OwnCredentials' /\ NamesAgree' /\ Undisturbed'
  <2>1. CASE Create(h)
    <3>1. OwnCredentials'
      BY <2>1 DEF Create, OwnCredentials, Row, Request, Taken, NewRow, Goto, Overlap, Disturb
    <3>2. NamesAgree' /\ Undisturbed'
      <4>1. NamesAgree'
        BY <2>1 DEF Create, NamesAgree, Taken, NewRow, Goto, Overlap, Disturb, Exists, RowsInv,
           RequestsInv, Row, Request
      <4>2. Undisturbed'
        BY <2>1 DEF Create, NamesAgree, Undisturbed, Alone, Known, KnownTo, KnownBy, Running,
           Moving, Ours, Working, Asked, Busy, Taken, NewRow, Goto, Overlap, Disturb, Exists,
           RowsInv, RequestsInv, Row, Request
      <4> QED BY <4>1, <4>2
    <3> QED BY <3>1, <3>2
  <2>2. CASE BlankCredentials(h)
    <3>1. OwnCredentials'
      BY <2>2 DEF BlankCredentials, OwnCredentials, Row, Request
    <3>2. NamesAgree' /\ Undisturbed'
      <4>1. NamesAgree'
        BY <2>2 DEF BlankCredentials, NamesAgree, Exists, RowsInv, RequestsInv, Row, Request
      <4>2. Undisturbed'
        BY <2>2 DEF BlankCredentials, NamesAgree, Undisturbed, Alone, Known, KnownTo, KnownBy,
           Running, Moving, Ours, Working, Asked, Busy, Exists, RowsInv, RequestsInv, Row,
           Request
      <4> QED BY <4>1, <4>2
    <3> QED BY <3>1, <3>2
  <2>3. CASE GetService(h)
    <3>1. PICK s \in Services, op \in Ops :
            /\ Exists(s) /\ Acts(op, row[s])
            /\ Overlap(row[s].name)
            /\ req' = [req EXCEPT ![h] = [op |-> op, id |-> s, row |-> row[s], stage |-> "got"]]
            /\ req[h] = None
            /\ UNCHANGED <<row, cont, work, svc>>
      BY <2>3, Zenon DEF GetService
    <3>2. PICK n \in Names : n = row[s].name
      BY <3>1 DEF RowsInv
    <3>3. /\ req'[h] = [op |-> op, id |-> s, row |-> row[s], stage |-> "got"]
          /\ \A g \in Handlers \ {h} : req'[g] = req[g]
      BY <3>1
    <3>4. disturbed' = disturbed \cup (IF Busy(n) THEN {n} ELSE {})
      BY <3>1, <3>2, Zenon DEF Overlap, Disturb
    <3>5. OwnCredentials'
      BY <3>1, <3>3 DEF OwnCredentials
    <3>6. NamesAgree'
      BY <3>1, <3>3 DEF NamesAgree, Exists
    <3>7. ASSUME NEW m \in Names \ disturbed', m # n PROVE Alone(m)' /\ Known(m)' /\ Running(m)'
      <4>1. Alone(m) /\ Known(m) /\ Running(m)
        BY <3>4, <3>7 DEF Undisturbed
      <4>2. \A g \in Handlers : Asked(g, m)' => g # h /\ req'[g] = req[g] /\ Asked(g, m)
        BY <3>2, <3>3, <3>7 DEF Asked
      <4>3. \A g \in Handlers : Asked(g, m) => req'[g] = req[g] /\ Asked(g, m)'
        BY <3>1, <3>3 DEF Asked
      <4>4. Alone(m)'
        BY <3>1, <4>1, <4>2 DEF Alone, Working
      <4>5. Known(m)'
        BY <3>1, <4>1, <4>2 DEF Known, KnownTo, KnownBy, Working, Exists, Ours
      <4>6. Running(m)'
        BY <3>1, <4>1, <4>3 DEF Running, Moving, Ours
      <4> QED BY <4>4, <4>5, <4>6
    <3>8. ASSUME n \notin disturbed' PROVE Alone(n)' /\ Known(n)' /\ Running(n)'
      <4>1. ~Busy(n) /\ Running(n)
        BY <3>4, <3>8 DEF Undisturbed
      <4>2. \A t \in Services : ~Working(t, n) /\ ~Working(t, n)'
        BY <3>1, <4>1 DEF Busy, Working
      <4>3. \A g \in Handlers : ~Asked(g, n) /\ (Asked(g, n)' => g = h)
        BY <3>3, <4>1 DEF Busy, Asked
      <4>4. Alone(n)'
        BY <4>2, <4>3 DEF Alone
      <4>5. row[s].status = "active" => Ours(s, n)
        BY <3>2, <4>1, <4>3 DEF Running, Moving
      <4>6. KnownBy(h, n)'
        BY <3>1, <3>3, <4>5 DEF KnownBy, Acts, Exists, Ours
      <4>7. Known(n)'
        BY <4>2, <4>3, <4>6 DEF Known
      <4>8. Running(n)'
        BY <3>1, <4>1, <4>3 DEF Running, Moving, Ours
      <4> QED BY <4>4, <4>7, <4>8
    <3> QED BY <3>5, <3>6, <3>7, <3>8 DEF Undisturbed
  <2>4. CASE StopOrDelete(h)
    <3>1. OwnCredentials'
      BY <2>4 DEF StopOrDelete, OwnCredentials, Row, Request
    <3>2. NamesAgree' /\ Undisturbed'
      <4>1. PICK s, n : s = req[h].id /\ n = req[h].row.name
        OBVIOUS
      <4>2. /\ req[h] # None /\ req[h] \in Request /\ req[h].op \in {"stop", "start", "delete"}
            /\ req[h].stage = "got"
        BY <2>4 DEF StopOrDelete
      <4>3. PICK stage \in {"start", "save"} : req' = [req EXCEPT ![h] = [req[h] EXCEPT !.stage = stage]]
                         /\ (req[h].op = "start" => stage # "save")
        BY <2>4 DEF StopOrDelete
      <4>4. /\ req'[h] = [req[h] EXCEPT !.stage = stage]
            /\ \A g \in Handlers \ {h} : req'[g] = req[g]
        BY <4>3
      <4>5. /\ req'[h].op = req[h].op /\ req'[h].id = s /\ req'[h].row = req[h].row
            /\ req'[h].stage = stage
        BY <4>1, <4>2, <4>4 DEF Request
      <4>6. req'[h] # None
        <5>1. [req[h] EXCEPT !.stage = stage] \in Request
          BY <2>4, <4>2, <4>3 DEF Request
        <5> QED BY <4>4, <5>1, NoneIsNoRequest
      <4>7. \A m \in Names \ {n} : cont'[m] = cont[m]
        BY <2>4, <4>1, Elsewhere DEF StopOrDelete
      <4>8. UNCHANGED <<row, work, svc, disturbed>>
        BY <2>4 DEF StopOrDelete
      <4>9. AsksFor(h, s, n)
        BY <4>1, <4>2, <4>4, <4>5, <4>7, <4>8 DEF AsksFor
      <4>10. Answers(h, s, n)
        BY <4>1, <4>2, <4>3, <4>5, <4>6, <4>8 DEF Answers, KnownBy, Exists
      <4> QED BY <4>9, <4>10, AskStep
    <3> QED BY <3>1, <3>2
  <2>5. CASE StartAgain(h)
    <3>1. PICK s, n : s = req[h].id /\ n = req[h].row.name
      OBVIOUS
    <3> DEFINE r == req[h].row
    <3>2. /\ req[h] \in Request /\ r \in Row /\ s \in Services
          /\ req[h] # None /\ req[h].op = "start" /\ req[h].stage = "start"
          /\ UNCHANGED <<row, work, svc, disturbed>>
      BY <2>5, <3>1 DEF StartAgain, Request
    <3>3. PICK x \in Row :
            /\ req' = [req EXCEPT ![h] = [req[h] EXCEPT !.stage = "save", !.row = x]]
            /\ x.name = n /\ x.cred = r.cred
            /\ x.status = "active" => Run(n, r.cred)
            /\ Run(n, r.cred) \/ RunFails(n, r.cred)
      <4>1. CASE Run(n, r.cred) /\ Save(h, [r EXCEPT !.status = "active", !.started = TRUE])
        <5>1. [r EXCEPT !.status = "active", !.started = TRUE] \in Row
          BY <3>2 DEF Row
        <5> QED BY <3>1, <3>2, <4>1, <5>1 DEF Save, Row
      <4>2. CASE RunFails(n, r.cred) /\ Save(h, [r EXCEPT !.status = "error"])
        <5>1. /\ [r EXCEPT !.status = "error"] \in Row
              /\ [r EXCEPT !.status = "error"].status # "active"
          BY <3>2 DEF Row
        <5> QED BY <3>1, <3>2, <4>2, <5>1 DEF Save, Row
      <4> QED BY <2>5, <3>1, <4>1, <4>2 DEF StartAgain
    <3>4. /\ req'[h] = [req[h] EXCEPT !.stage = "save", !.row = x]
          /\ \A g \in Handlers \ {h} : req'[g] = req[g]
      BY <3>3
    <3>5. /\ req'[h].op = "start" /\ req'[h].id = s /\ req'[h].row = x
          /\ req'[h].stage = "save"
      BY <3>1, <3>2, <3>4 DEF Request
    <3>6. req'[h] # None
      <4>1. [req[h] EXCEPT !.stage = "save", !.row = x] \in Request
        BY <3>2, <3>3 DEF Request
      <4> QED BY <3>4, <4>1, NoneIsNoRequest
    <3>7. OwnCredentials'
      BY <3>1, <3>2, <3>3, <3>4, <3>5 DEF OwnCredentials
    <3>8. \A m \in Names \ {n} : cont'[m] = cont[m]
      BY <3>3, Elsewhere
    <3>9. AsksFor(h, s, n)
      BY <3>1, <3>2, <3>3, <3>4, <3>5, <3>8 DEF AsksFor
    <3>10. x.status = "active" /\ r.cred # None => cont'[n] = [cred |-> s, up |-> TRUE]
      <4>1. n \in Names /\ r.cred \in {None, s}
        BY <3>1, <3>2 DEF RequestsInv, OwnCredentials
      <4> QED BY <3>3, <4>1 DEF Run
    <3>11. KnownBy(h, n) => KnownBy(h, n)'
      BY <3>1, <3>2, <3>5, <3>10 DEF KnownBy, Exists, Ours
    <3>12. Answers(h, s, n)
      BY <3>2, <3>6, <3>11 DEF Answers
    <3> QED BY <3>7, <3>9, <3>12, AskStep
  <2>6. CASE CreateBucket(h)
    <3>1. OwnCredentials'
      BY <2>6 DEF CreateBucket, OwnCredentials, Row, Request, Save
    <3>2. NamesAgree' /\ Undisturbed'
      <4>1. PICK s, n : s = req[h].id /\ n = req[h].row.name
        OBVIOUS
      <4>2. AsksFor(h, s, n)
        BY <2>6, <4>1, Elsewhere DEF AsksFor, CreateBucket, Save, NamesAgree, Exists,
           RequestsInv, WritesBack, Row, Request
      <4>3. Answers(h, s, n)
        BY <2>6, <4>1 DEF Answers, CreateBucket, Save, KnownBy, Ours, OwnCredentials, Exists,
           Row, Request
      <4> QED BY <4>2, <4>3, AskStep
    <3> QED BY <3>1, <3>2
  <2>7. CASE SaveStopped(h)
    <3>1. OwnCredentials'
      BY <2>7 DEF SaveStopped, OwnCredentials, Row, Request, Update
    <3>2. NamesAgree' /\ Undisturbed'
      <4>1. PICK s, n : s = req[h].id /\ n = req[h].row.name
        OBVIOUS
      <4>2. AsksFor(h, s, n)
        BY <2>7, <4>1, Elsewhere DEF AsksFor, SaveStopped, Update, NamesAgree, Exists,
           RequestsInv, WritesBack, Row, Request
      <4>3. Answers(h, s, n)
        BY <2>7, <4>1 DEF Answers, SaveStopped, Update, KnownBy, Ours, OwnCredentials, Exists,
           Row, Request
      <4> QED BY <4>2, <4>3, AskStep
    <3> QED BY <3>1, <3>2
  <2>8. CASE SaveRow(h)
    <3>1. OwnCredentials'
      BY <2>8 DEF SaveRow, OwnCredentials, Row, Request, Update
    <3>2. NamesAgree' /\ Undisturbed'
      <4>1. PICK s, n : s = req[h].id /\ n = req[h].row.name
        OBVIOUS
      <4>2. AsksFor(h, s, n)
        BY <2>8, <4>1, Elsewhere DEF AsksFor, SaveRow, Update, NamesAgree, Exists, RequestsInv,
           WritesBack, Row, Request
      <4>3. Answers(h, s, n)
        BY <2>8, <4>1 DEF Answers, SaveRow, Update, KnownBy, Ours, OwnCredentials, Exists, Row,
           Request
      <4> QED BY <4>2, <4>3, AskStep
    <3> QED BY <3>1, <3>2
  <2>9. CASE DeleteRow(h)
    <3>1. OwnCredentials'
      BY <2>9 DEF DeleteRow, OwnCredentials, Row, Request, Update, NoRow
    <3>2. NamesAgree' /\ Undisturbed'
      <4>1. PICK s, n : s = req[h].id /\ n = req[h].row.name
        OBVIOUS
      <4>2. AsksFor(h, s, n)
        BY <2>9, <4>1, Elsewhere DEF AsksFor, DeleteRow, Update, NoRow, NamesAgree, Exists,
           RequestsInv, WritesBack, Row, Request
      <4>3. Answers(h, s, n)
        BY <2>9, <4>1 DEF Answers, DeleteRow, Update, NoRow, KnownBy, Ours, OwnCredentials,
           Exists, Row, Request
      <4> QED BY <4>2, <4>3, AskStep
    <3> QED BY <3>1, <3>2
  <2>10. CASE Abort(h)
    <3>1. OwnCredentials'
      BY <2>10 DEF Abort, OwnCredentials, Row, Request, Disturb
    <3>2. NamesAgree' /\ Undisturbed'
      <4>1. NamesAgree'
        BY <2>10 DEF Abort, NamesAgree, Disturb, Exists, RowsInv, RequestsInv, Row, Request
      <4>2. Undisturbed'
        BY <2>10 DEF Abort, NamesAgree, Undisturbed, Alone, Known, KnownTo, KnownBy, Running,
           Moving, Ours, Working, Asked, Busy, Disturb, Exists, RowsInv, RequestsInv, Row,
           Request
      <4> QED BY <4>1, <4>2
    <3> QED BY <3>1, <3>2
  <2> QED BY <1>1, <2>1, <2>2, <2>3, <2>4, <2>5, <2>6, <2>7, <2>8, <2>9, <2>10 DEF HandlerStep
<1>2. ASSUME NEW s \in Services, Provision(s)
      PROVE  OwnCredentials' /\ NamesAgree' /\ Undisturbed'
  <2>1. CASE Mark(s)
    <3>1. OwnCredentials'
      BY <2>1 DEF Mark, OwnCredentials, Row, Request, Goto, At, Update, Return, NoRow
    <3>2. NamesAgree' /\ Undisturbed'
      <4>1. PICK n : n = svc[s].name
        OBVIOUS
      <4>2. WorksOn(s, n)
        BY <2>1, <4>1, Elsewhere, Updated, Returned DEF WorksOn, Mark, Goto, At, WorkInv, Row,
           Exists
      <4>3. Leaves(s, n)
        BY <2>1, <4>1, Updated, Returned DEF Leaves, Mark, Goto, At, KnownTo, Ours, WorkInv,
           Row, Exists
      <4> QED BY <4>2, <4>3, WorkStep
    <3> QED BY <3>1, <3>2
  <2>2. CASE Encrypt(s)
    <3>1. OwnCredentials'
      BY <2>2 DEF Encrypt, OwnCredentials, Row, Request, Goto, At, Update, Return, NoRow
    <3>2. NamesAgree' /\ Undisturbed'
      <4>1. PICK n : n = svc[s].name
        OBVIOUS
      <4>2. WorksOn(s, n)
        BY <2>2, <4>1, Elsewhere, Updated, Returned DEF WorksOn, Encrypt, Goto, At, WorkInv,
           Row, Exists
      <4>3. Leaves(s, n)
        BY <2>2, <4>1, Updated, Returned DEF Leaves, Encrypt, Goto, At, KnownTo, Ours, WorkInv,
           Row, Exists
      <4> QED BY <4>2, <4>3, WorkStep
    <3> QED BY <3>1, <3>2
  <2>3. CASE VolumeFails(s)
    <3>1. OwnCredentials'
      BY <2>3 DEF VolumeFails, OwnCredentials, Row, Request, Goto, At, Update, Return, NoRow
    <3>2. NamesAgree' /\ Undisturbed'
      <4>1. PICK n : n = svc[s].name
        OBVIOUS
      <4>2. WorksOn(s, n)
        BY <2>3, <4>1, Elsewhere, Updated, Returned DEF WorksOn, VolumeFails, Goto, At, WorkInv,
           Row, Exists
      <4>3. Leaves(s, n)
        BY <2>3, <4>1, Updated, Returned DEF Leaves, VolumeFails, Goto, At, KnownTo, Ours,
           WorkInv, Row, Exists
      <4> QED BY <4>2, <4>3, WorkStep
    <3> QED BY <3>1, <3>2
  <2>4. CASE PullFails(s)
    <3>1. OwnCredentials'
      BY <2>4 DEF PullFails, OwnCredentials, Row, Request, Goto, At, Update, Return, NoRow
    <3>2. NamesAgree' /\ Undisturbed'
      <4>1. PICK n : n = svc[s].name
        OBVIOUS
      <4>2. WorksOn(s, n)
        BY <2>4, <4>1, Elsewhere, Updated, Returned DEF WorksOn, PullFails, Goto, At, WorkInv,
           Row, Exists
      <4>3. Leaves(s, n)
        BY <2>4, <4>1, Updated, Returned DEF Leaves, PullFails, Goto, At, KnownTo, Ours,
           WorkInv, Row, Exists
      <4> QED BY <4>2, <4>3, WorkStep
    <3> QED BY <3>1, <3>2
  <2>5. CASE StopExisting(s)
    <3>1. OwnCredentials'
      BY <2>5 DEF StopExisting, OwnCredentials, Row, Request, Goto, At, Update, Return, NoRow
    <3>2. NamesAgree' /\ Undisturbed'
      <4>1. PICK n : n = svc[s].name
        OBVIOUS
      <4>2. WorksOn(s, n)
        <5>1. /\ work[s] = "pull" /\ work' = [work EXCEPT ![s] = "start"]
              /\ StopAndRemove(n) /\ UNCHANGED <<row, svc, req, disturbed>>
          BY <2>5, <4>1 DEF StopExisting, Goto, At
        <5>2. \A m \in Names \ {n} : cont'[m] = cont[m]
          BY ONLY <5>1, TypeOK, Elsewhere
        <5>3. /\ work'[s] = "start"
              /\ \A t \in Services \ {s} : work'[t] = work[t]
          BY <5>1
        <5>4. \A t \in Services : Exists(t)' <=> Exists(t)
          BY <5>1 DEF Exists
        <5> QED BY ONLY <4>1, <5>1, <5>2, <5>3, <5>4 DEF WorksOn
      <4>3. Leaves(s, n)
        BY <2>5, <4>1, Updated, Returned DEF Leaves, StopExisting, Goto, At, KnownTo, Ours,
           WorkInv, Row, Exists
      <4> QED BY <4>2, <4>3, WorkStep
    <3> QED BY <3>1, <3>2
  <2>6. CASE StartContainer(s)
    <3>1. OwnCredentials'
      BY <2>6 DEF StartContainer, OwnCredentials, Row, Request, Goto, At
    <3>2. NamesAgree' /\ Undisturbed'
      <4>1. PICK n : n = svc[s].name
        OBVIOUS
      <4>2. WorksOn(s, n)
        BY <2>6, <4>1, Elsewhere DEF WorksOn, StartContainer, Goto, At, WorkInv, Row, Exists
      <4>3. KnownTo(s, n) => n \in Names
        BY <2>6, <4>1 DEF KnownTo, StartContainer, At, WorkInv, RowsInv, Exists
      <4>4. n \in Names => cont'[n] = [cred |-> s, up |-> TRUE]
        BY <2>6, <4>1 DEF StartContainer, Run
      <4>5. Leaves(s, n)
        BY <4>3, <4>4 DEF Leaves
      <4> QED BY <4>2, <4>5, WorkStep
    <3> QED BY <3>1, <3>2
  <2>7. CASE StartFails(s)
    <3>1. OwnCredentials'
      BY <2>7 DEF StartFails, OwnCredentials, Row, Request, Goto, At, Update, Return, NoRow
    <3>2. NamesAgree' /\ Undisturbed'
      <4>1. PICK n : n = svc[s].name
        OBVIOUS
      <4>2. WorksOn(s, n)
        BY <2>7, <4>1, Elsewhere, Updated, Returned DEF WorksOn, StartFails, Goto, At, WorkInv,
           Row, Exists
      <4>3. Leaves(s, n)
        BY <2>7, <4>1, Updated, Returned DEF Leaves, StartFails, Goto, At, KnownTo, Ours,
           WorkInv, Row, Exists
      <4> QED BY <4>2, <4>3, WorkStep
    <3> QED BY <3>1, <3>2
  <2>8. CASE StoreActive(s)
    <3>1. OwnCredentials'
      BY <2>8 DEF StoreActive, OwnCredentials, Row, Request, Goto, At, Update, Return, NoRow
    <3>2. NamesAgree' /\ Undisturbed'
      <4>1. PICK n : n = svc[s].name
        OBVIOUS
      <4>2. WorksOn(s, n)
        <5>1. work[s] = "store" /\ UNCHANGED <<cont, req, disturbed>>
          BY <2>8 DEF StoreActive, At
        <5>2. /\ \A t \in Services : (Exists(t)' <=> Exists(t)) /\ row'[t].name = row[t].name
              /\ \A t \in Services \ {s} : row'[t] = row[t]
          <6>1. CASE Update(s, svc[s])
            BY <5>1, <6>1, Updated DEF WorkInv, Exists
          <6>2. CASE row' = row
            BY <6>2 DEF Exists
          <6> QED BY <2>8, <6>1, <6>2 DEF StoreActive
        <5>3. /\ \A t \in Services \ {s} : work'[t] = work[t] /\ svc'[t].name = svc[t].name
              /\ work'[s] # "none" /\ (work'[s] # "done" => svc'[s].name = n)
          <6>1. CASE Return(s)
            BY <4>1, <6>1, Returned
          <6>2. CASE Goto(s, "bucket") /\ UNCHANGED svc
            BY <4>1, <6>2 DEF Goto
          <6> QED BY <2>8, <6>1, <6>2 DEF StoreActive
        <5> QED BY ONLY <4>1, <5>1, <5>2, <5>3 DEF WorksOn
      <4>3. Leaves(s, n)
        BY <2>8, <4>1, Updated, Returned DEF Leaves, StoreActive, Goto, At, KnownTo, Ours,
           WorkInv, Row, Exists
      <4> QED BY <4>2, <4>3, WorkStep
    <3> QED BY <3>1, <3>2
  <2>9. CASE StoreError(s)
    <3>1. OwnCredentials'
      BY <2>9 DEF StoreError, OwnCredentials, Row, Request, Goto, At, Update, Return, NoRow
    <3>2. NamesAgree' /\ Undisturbed'
      <4>1. PICK n : n = svc[s].name
        OBVIOUS
      <4>2. WorksOn(s, n)
        BY <2>9, <4>1, Elsewhere, Updated, Returned DEF WorksOn, StoreError, Goto, At, WorkInv,
           Row, Exists
      <4>3. Leaves(s, n)
        BY <2>9, <4>1, Updated, Returned DEF Leaves, StoreError, Goto, At, KnownTo, Ours,
           WorkInv, Row, Exists
      <4> QED BY <4>2, <4>3, WorkStep
    <3> QED BY <3>1, <3>2
  <2>10. CASE AddBucket(s)
    <3>1. OwnCredentials'
      <4>1. CASE Return(s) /\ UNCHANGED <<row, req>>
        BY <4>1, Returned DEF OwnCredentials
      <4>2. CASE svc' = [svc EXCEPT ![s].cred = s] /\ UNCHANGED <<row, req>>
        BY <4>2 DEF OwnCredentials, Row
      <4> QED BY <2>10, <4>1, <4>2 DEF AddBucket
    <3>2. NamesAgree' /\ Undisturbed'
      <4>1. PICK n : n = svc[s].name
        OBVIOUS
      <4>2. WorksOn(s, n)
        BY <2>10, <4>1, Elsewhere, Updated, Returned DEF WorksOn, AddBucket, Goto, At, WorkInv,
           Row, Exists
      <4>3. Leaves(s, n)
        BY <2>10, <4>1, Updated, Returned DEF Leaves, AddBucket, Goto, At, KnownTo, Ours,
           WorkInv, Row, Exists
      <4> QED BY <4>2, <4>3, WorkStep
    <3> QED BY <3>1, <3>2
  <2>11. CASE StoreAgain(s)
    <3>1. OwnCredentials'
      BY <2>11 DEF StoreAgain, OwnCredentials, Row, Request, Goto, At, Update, Return, NoRow
    <3>2. NamesAgree' /\ Undisturbed'
      <4>1. PICK n : n = svc[s].name
        OBVIOUS
      <4>2. WorksOn(s, n)
        BY <2>11, <4>1, Elsewhere, Updated, Returned DEF WorksOn, StoreAgain, Goto, At, WorkInv,
           Row, Exists
      <4>3. Leaves(s, n)
        BY <2>11, <4>1, Updated, Returned DEF Leaves, StoreAgain, Goto, At, KnownTo, Ours,
           WorkInv, Row, Exists
      <4> QED BY <4>2, <4>3, WorkStep
    <3> QED BY <3>1, <3>2
  <2>12. CASE CreateWebUI(s)
    <3> DEFINE w == svc[s].name
    <3>0. w \in Garage /\ work[s] = "ui"
      BY <2>12 DEF CreateWebUI, At, WorkInv
    <3>1. PICK n \in Names \ Garage : n = WebUI[w]
      BY <3>0
    <3>2. CASE /\ svc' = [svc EXCEPT ![s] = NoRow]
               /\ work' = [work EXCEPT ![s] = "done"]
               /\ UNCHANGED <<row, cont, req, disturbed>>
      <4>1. OwnCredentials' /\ NamesAgree'
        BY <3>2 DEF OwnCredentials, NamesAgree, Exists, NoRow
      <4>2. \A t \in Services, m \in Names :
              Working(t, m)' => Working(t, m) /\ work'[t] = work[t]
        BY <3>2 DEF Working
      <4>3. ASSUME NEW m \in Names \ disturbed PROVE Alone(m)' /\ Known(m)' /\ Running(m)'
        <5>1. Alone(m) /\ Known(m) /\ Running(m)
          BY DEF Undisturbed
        <5> QED BY <3>2, <4>2, <5>1 DEF Alone, Known, KnownTo, KnownBy, Running, Moving, Ours, Asked, Exists
      <4> QED BY <3>2, <4>1, <4>3 DEF Undisturbed
    <3>3. ASSUME NEW t \in Services, row[t].status = "absent", ~Taken(n),
                 row' = [row EXCEPT ![t] = NewRow(n)],
                 svc' = [svc EXCEPT ![s] = NoRow, ![t] = NewRow(n)],
                 work' = [work EXCEPT ![s] = "done", ![t] = "mark"],
                 Overlap(n), UNCHANGED <<cont, req>>
          PROVE  OwnCredentials' /\ NamesAgree' /\ Undisturbed'
      <4>1. OwnCredentials'
        BY <3>3 DEF OwnCredentials, NewRow, NoRow
      <4>2. NamesAgree'
        BY <3>3 DEF NamesAgree, Exists, NewRow, Taken, RequestsInv, Request
      <4>3. disturbed' = disturbed \cup (IF Busy(n) THEN {n} ELSE {})
        BY <3>3, Zenon DEF Overlap, Disturb
      <4>4. /\ \A u \in Services, m \in Names :
                 Working(u, m)' => (u = t /\ m = n) \/ (u # t /\ Working(u, m) /\ work'[u] = work[u])
            /\ row'[t] = NewRow(n) /\ work'[t] = "mark"
            /\ \A u \in Services \ {t} : row'[u] = row[u]
        BY <3>3 DEF Working, NewRow
      <4>5. ASSUME NEW m \in Names \ disturbed', m # n
            PROVE  Alone(m)' /\ Known(m)' /\ Running(m)'
        <5>1. Alone(m) /\ Known(m) /\ Running(m)
          BY <4>3, <4>5 DEF Undisturbed
        <5>2. \A u \in Services : Working(u, m)' => u # t /\ Working(u, m) /\ work'[u] = work[u]
          BY <4>4, <4>5
        <5>3. Alone(m)'
          BY <3>3, <5>1, <5>2 DEF Alone, Asked
        <5>4. Known(m)'
          BY <3>3, <4>4, <5>1, <5>2 DEF Known, KnownTo, KnownBy, Exists, Ours, Asked, Request
        <5>5. Running(m)'
          BY <3>3, <4>4, <5>1 DEF Running, Moving, Asked, Ours, NewRow
        <5> QED BY <5>3, <5>4, <5>5
      <4>6. ASSUME n \notin disturbed' PROVE Alone(n)' /\ Known(n)' /\ Running(n)'
        <5>1. ~Busy(n) /\ Running(n)
          BY <4>3, <4>6 DEF Undisturbed
        <5>2. \A u \in Services : Working(u, n)' => u = t
          BY <4>4, <5>1 DEF Busy, Working
        <5>3. \A g \in Handlers : ~Asked(g, n) /\ ~Asked(g, n)'
          BY <3>3, <5>1 DEF Busy, Asked
        <5>4. Alone(n)'
          BY <5>2, <5>3 DEF Alone
        <5>5. Known(n)'
          BY <4>4, <5>2, <5>3 DEF Known, KnownTo, Exists, NewRow
        <5>6. Running(n)'
          BY <3>3, <4>4, <5>1, <5>3 DEF Running, Moving, Ours, NewRow
        <5> QED BY <5>4, <5>5, <5>6
      <4> QED BY <4>1, <4>2, <4>5, <4>6 DEF Undisturbed
    <3> QED BY <2>12, <3>1, <3>2, <3>3 DEF CreateWebUI, Goto
  <2> QED BY <1>2, <2>1, <2>2, <2>3, <2>4, <2>5, <2>6, <2>7, <2>8, <2>9, <2>10, <2>11, <2>12 DEF Provision
<1>3. CASE Crash
  BY <1>3 DEF Crash, NoRow, OwnCredentials, NamesAgree, Undisturbed, Alone, Known, Running,
     Moving,
              Ours, Working, Asked, Busy, Disturb, Exists, RowsInv
<1>4. CASE UNCHANGED vars
  BY <1>4 DEF vars, OwnCredentials, NamesAgree, Undisturbed, Alone, Known, KnownTo, KnownBy,
              Running, Moving, Ours, Working, Asked, Exists
<1> QED BY <1>1, <1>2, <1>3, <1>4 DEF Next

\* An active service nobody has disturbed runs with its own credentials (provisioner.go:
\* the status is set after the container was started).
THEOREM ActiveServicesRun == Spec => []ActiveRuns
<1>1. Init => CInv
  BY DEF Init, CInv, OwnCredentials, NamesAgree, Undisturbed, Alone, Known, Running, Moving,
         Working, Asked, Exists, NoRow
<1>2. IInv /\ CInv => ActiveRuns
  BY DEF CInv, IInv, TypeOK, RowsInv, Exists, Undisturbed, Running, Moving, Asked, Busy, Ours,
         ActiveRuns
<1> QED BY ServicesInductive, ContainersStep, <1>1, <1>2, PTL DEF Spec

=============================================================================
