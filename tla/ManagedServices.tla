-------------------------- MODULE ManagedServices --------------------------
(***************************************************************************)
(* The databases and object stores Talos runs for applications: the        *)
(* requests of internal/server/handlers/service.go, the goroutine that     *)
(* provisions a service after its creation has been answered               *)
(* (internal/services/provisioner.go), the rows of SQLite and the          *)
(* containers, each named after its service.                               *)
(*                                                                         *)
(* Every creation generates credentials of its own, so credentials are     *)
(* denoted by the id of the service they were generated for; ids are never *)
(* used twice, names are.                                                  *)
(***************************************************************************)

CONSTANTS
  Services,   \* the ids CreateService can still hand out (bounds the workload)
  Names,      \* names of services
  Garage,     \* the names under which object stores are created
  WebUI,      \* name of the web interface created along with an object store
  Handlers,   \* the HTTP handler goroutines
  None,       \* "", no request
  Ops,        \* the requests that arrive beside creations
  Faults,     \* what may fail: "docker", "db", "disk"
  MayCrash    \* the Talos process may end at any time

ASSUME ServicesAssumption ==
  /\ None \notin Services \cup Names
  /\ Garage \subseteq Names
  /\ WebUI \in [Garage -> Names \ Garage]
  /\ Ops \subseteq {"stop", "start", "delete", "bucket"}
  /\ Faults \subseteq {"docker", "db", "disk"}
  /\ MayCrash \in BOOLEAN

VARIABLES
  row,       \* the row of each service
  cont,      \* the container of each name
  work,      \* where the provisioning goroutine of a service is
  svc,       \* the struct that goroutine shares with the handler
  req,       \* the request each handler is serving, or None
  disturbed  \* history: names with operations that overlapped or were cut short

vars == <<row, cont, work, svc, req, disturbed>>

-----------------------------------------------------------------------------
Statuses == {"pending", "provisioning", "active", "error", "stopped"}

\* "started" says that there is a container id.
Row == [name : Names \cup {None}, status : Statuses \cup {"absent", "deleted"},
        started : BOOLEAN, cred : Services \cup {None}]

Container == [cred : Services \cup {None}, up : BOOLEAN]

Request == [op : {"create"} \cup Ops, id : Services, row : Row,
            stage : {"got", "start", "save"}]

ASSUME NoneIsNoRequest == None \notin Request

Steps == {"none", "mark", "encrypt", "pull", "start", "store", "fail", "bucket",
          "again", "ui", "done"}

TypeOK ==
  /\ row \in [Services -> Row]
  /\ cont \in [Names -> Container]
  /\ work \in [Services -> Steps]
  /\ svc \in [Services -> Row]
  /\ req \in [Handlers -> Request \cup {None}]
  /\ disturbed \subseteq Names

NoRow == [name |-> None, status |-> "absent", started |-> FALSE, cred |-> None]
NoContainer == [cred |-> None, up |-> FALSE]

Init ==
  /\ row = [s \in Services |-> NoRow]
  /\ cont = [n \in Names |-> NoContainer]
  /\ work = [s \in Services |-> "none"]
  /\ svc = [s \in Services |-> NoRow]
  /\ req = [h \in Handlers |-> None]
  /\ disturbed = {}

-----------------------------------------------------------------------------
Exists(s) == row[s].status \notin {"absent", "deleted"}
Taken(n) == \E s \in Services : Exists(s) /\ row[s].name = n

\* Somebody is working on the container of name n.
Busy(n) ==
  \/ \E s \in Services : work[s] \notin {"none", "done"} /\ svc[s].name = n
  \/ \E h \in Handlers : req[h] # None /\ req[h].row.name = n

Disturb(N) == disturbed' = disturbed \cup N
Overlap(n) == Disturb(IF Busy(n) THEN {n} ELSE {})

Goto(s, step) == work' = [work EXCEPT ![s] = step]
At(s, step) == work[s] = step

\* UpdateService writes every column, of a row that still exists.
Update(s, r) == row' = IF Exists(s) THEN [row EXCEPT ![s] = r] ELSE row

\* StopAndRemove.  Nobody acts upon its error.
StopAndRemove(n) ==
  \/ cont' = [cont EXCEPT ![n] = NoContainer]
  \/ "docker" \in Faults /\ cont' = [cont EXCEPT ![n].up = FALSE]
  \/ "docker" \in Faults /\ cont' = cont

\* StartContainerWithConfig: the name must be free.
Run(n, c) ==
  /\ cont[n] = NoContainer
  /\ cont' = [cont EXCEPT ![n] = [cred |-> c, up |-> TRUE]]

\* What was created but could not be started stays.
RunFails(n, c) ==
  \/ cont[n] # NoContainer /\ cont' = cont
  \/ "docker" \in Faults /\ cont' = cont
  \/ /\ "docker" \in Faults /\ cont[n] = NoContainer
     /\ cont' = [cont EXCEPT ![n].cred = c]

\* ProvisionService returns, and what the struct holds is forgotten.  The goroutine
\* of an object store goes on to create the web interface.
Return(s) ==
  LET n == svc[s].name
  IN  IF n \in Garage
      THEN Goto(s, "ui") /\ svc' = [svc EXCEPT ![s] = [NoRow EXCEPT !.name = n]]
      ELSE Goto(s, "done") /\ svc' = [svc EXCEPT ![s] = NoRow]

\* Faulty: an object store whose credentials cannot be decrypted is asked all the
\* same.
Acts_AsksGarageAnyway(op, r) ==
  CASE op = "stop"   -> r.started
    [] op = "start"  -> r.status # "active" /\ r.cred # None
    [] op = "bucket" -> r.name \in Garage
    [] op = "delete" -> TRUE

\* The requests that find nothing to do or cannot decrypt the credentials return.
Acts(op, r) ==
  CASE op = "stop"   -> r.started
    [] op = "start"  -> r.status # "active" /\ r.cred # None
    [] op = "bucket" -> r.name \in Garage /\ r.cred # None
    [] op = "delete" -> TRUE

-----------------------------------------------------------------------------
(***************************************************************************)
(* Faulty variants, to show which property would catch them.               *)
(***************************************************************************)

\* A failed pull uses the word deploys use.
PullFails_SaysFailed(s) ==
  /\ At(s, "pull") /\ "docker" \in Faults
  /\ svc' = [svc EXCEPT ![s].status = "failed"]
  /\ Goto(s, "fail")
  /\ UNCHANGED <<row, cont, req, disturbed>>

\* A container name that is in use is taken for the container wanted.
StartContainer_TakesConflict(s) ==
  /\ At(s, "start")
  /\ Run(svc[s].name, s) \/ (cont[svc[s].name].up /\ UNCHANGED cont)
  /\ svc' = [svc EXCEPT ![s].status = "active", ![s].started = TRUE]
  /\ Goto(s, "store")
  /\ UNCHANGED <<row, req, disturbed>>

\* The credentials are blanked for the answer before the row is saved.
SaveStopped_BlanksFirst(h) ==
  /\ req[h] # None /\ req[h].op = "stop" /\ req[h].stage = "save"
  /\ Update(req[h].id, [req[h].row EXCEPT !.status = "stopped", !.started = FALSE,
                                          !.cred = None])
  /\ req' = [req EXCEPT ![h] = None]
  /\ UNCHANGED <<cont, work, svc, disturbed>>

-----------------------------------------------------------------------------
(***************************************************************************)
(* Create, and the goroutine it starts.                                    *)
(***************************************************************************)
NewRow(n) == [name |-> n, status |-> "pending", started |-> FALSE, cred |-> None]

Create(h) ==
  /\ req[h] = None
  /\ \E s \in Services, n \in Names :
       /\ row[s].status = "absent" /\ ~Taken(n)
       /\ row' = [row EXCEPT ![s] = NewRow(n)]
       /\ svc' = [svc EXCEPT ![s] = NewRow(n)]
       /\ Goto(s, "mark")
       /\ Overlap(n)
       /\ req' = [req EXCEPT ![h] = [op |-> "create", id |-> s, row |-> NewRow(n),
                                     stage |-> "save"]]
  /\ UNCHANGED cont

\* The handler blanks the struct for its answer, while the goroutine uses it.
BlankCredentials(h) ==
  /\ req[h] # None /\ req[h].op = "create"
  /\ svc' = [svc EXCEPT ![req[h].id].cred = None]
  /\ req' = [req EXCEPT ![h] = None]
  /\ UNCHANGED <<row, cont, work, disturbed>>

Mark(s) ==
  /\ At(s, "mark")
  /\ \/ /\ svc' = [svc EXCEPT ![s].status = "provisioning"]
        /\ Update(s, svc'[s])
        /\ Goto(s, "encrypt")
     \/ "db" \in Faults /\ Return(s) /\ UNCHANGED row
  /\ UNCHANGED <<cont, req, disturbed>>

\* The encrypted credentials stay in the struct until the next update.
Encrypt(s) ==
  /\ At(s, "encrypt")
  /\ svc' = [svc EXCEPT ![s].cred = s]
  /\ Goto(s, "pull")
  /\ UNCHANGED <<row, cont, req, disturbed>>

\* The volume's directory or garage.toml cannot be written.
VolumeFails(s) ==
  /\ At(s, "pull") /\ "disk" \in Faults
  /\ Return(s)
  /\ UNCHANGED <<row, cont, req, disturbed>>

PullFails(s) ==
  /\ At(s, "pull") /\ "docker" \in Faults
  /\ svc' = [svc EXCEPT ![s].status = "error"]
  /\ Goto(s, "fail")
  /\ UNCHANGED <<row, cont, req, disturbed>>

\* The image has been pulled.
StopExisting(s) ==
  /\ At(s, "pull")
  /\ StopAndRemove(svc[s].name)
  /\ Goto(s, "start")
  /\ UNCHANGED <<row, svc, req, disturbed>>

StartContainer(s) ==
  /\ At(s, "start")
  /\ Run(svc[s].name, s)
  /\ svc' = [svc EXCEPT ![s].status = "active", ![s].started = TRUE]
  /\ Goto(s, "store")
  /\ UNCHANGED <<row, req, disturbed>>

StartFails(s) ==
  /\ At(s, "start")
  /\ RunFails(svc[s].name, s)
  /\ svc' = [svc EXCEPT ![s].status = "error"]
  /\ Goto(s, "fail")
  /\ UNCHANGED <<row, req, disturbed>>

\* An object store without a bucket then gets one.
StoreActive(s) ==
  /\ At(s, "store")
  /\ \/ /\ Update(s, svc[s])
        /\ IF svc[s].name \in Garage THEN Goto(s, "bucket") /\ UNCHANGED svc ELSE Return(s)
     \/ "db" \in Faults /\ Return(s) /\ UNCHANGED row
  /\ UNCHANGED <<cont, req, disturbed>>

StoreError(s) ==
  /\ At(s, "fail")
  /\ Update(s, svc[s]) \/ ("db" \in Faults /\ UNCHANGED row)
  /\ Return(s)
  /\ UNCHANGED <<cont, req, disturbed>>

\* The credentials are encrypted again, unless Garage does not answer, and stored.
AddBucket(s) ==
  /\ At(s, "bucket")
  /\ \/ svc' = [svc EXCEPT ![s].cred = s] /\ Goto(s, "again")
     \/ Return(s)
  /\ UNCHANGED <<row, cont, req, disturbed>>

StoreAgain(s) ==
  /\ At(s, "again")
  /\ Update(s, svc[s]) \/ ("db" \in Faults /\ UNCHANGED row)
  /\ Return(s)
  /\ UNCHANGED <<cont, req, disturbed>>

\* The same goroutine provisions the web interface, unless its name is taken.
CreateWebUI(s) ==
  /\ At(s, "ui")
  /\ LET n == WebUI[svc[s].name] IN
       \/ \E t \in Services :
            /\ row[t].status = "absent" /\ ~Taken(n)
            /\ row' = [row EXCEPT ![t] = NewRow(n)]
            /\ svc' = [svc EXCEPT ![s] = NoRow, ![t] = NewRow(n)]
            /\ work' = [work EXCEPT ![s] = "done", ![t] = "mark"]
            /\ Overlap(n)
       \/ /\ Taken(n) \/ "db" \in Faults \/ \A t \in Services : row[t].status # "absent"
          /\ svc' = [svc EXCEPT ![s] = NoRow]
          /\ Goto(s, "done")
          /\ UNCHANGED <<row, disturbed>>
  /\ UNCHANGED <<cont, req>>

-----------------------------------------------------------------------------
(***************************************************************************)
(* Requests about a service that exists.                                   *)
(***************************************************************************)
GetService(h) ==
  /\ req[h] = None
  /\ \E s \in Services, op \in Ops :
       /\ Exists(s) /\ Acts(op, row[s])
       /\ Overlap(row[s].name)
       /\ req' = [req EXCEPT ![h] = [op |-> op, id |-> s, row |-> row[s], stage |-> "got"]]
  /\ UNCHANGED <<row, cont, work, svc>>

StopOrDelete(h) ==
  /\ req[h] # None /\ req[h].op \in {"stop", "start", "delete"} /\ req[h].stage = "got"
  /\ StopAndRemove(req[h].row.name)
  /\ req' = [req EXCEPT ![h].stage = IF req[h].op = "start" THEN "start" ELSE "save"]
  /\ UNCHANGED <<row, work, svc, disturbed>>

\* What the request has left to do is to write r back.
Save(h, r) == req' = [req EXCEPT ![h] = [@ EXCEPT !.stage = "save", !.row = r]]

StartAgain(h) ==
  /\ req[h] # None /\ req[h].op = "start" /\ req[h].stage = "start"
  /\ LET r == req[h].row IN
       \/ Run(r.name, r.cred) /\ Save(h, [r EXCEPT !.status = "active", !.started = TRUE])
       \/ RunFails(r.name, r.cred) /\ Save(h, [r EXCEPT !.status = "error"])
  /\ UNCHANGED <<row, work, svc, disturbed>>

\* CreateBucket asks the running Garage first, and stores the row it read if the
\* credentials name no bucket yet.
CreateBucket(h) ==
  /\ req[h] # None /\ req[h].op = "bucket" /\ req[h].stage = "got"
  /\ cont[req[h].row.name].up
  /\ Save(h, [req[h].row EXCEPT !.cred = req[h].id])
  /\ UNCHANGED <<row, cont, work, svc, disturbed>>

SaveStopped(h) ==
  /\ req[h] # None /\ req[h].op = "stop" /\ req[h].stage = "save"
  /\ Update(req[h].id, [req[h].row EXCEPT !.status = "stopped", !.started = FALSE])
  /\ req' = [req EXCEPT ![h] = None]
  /\ UNCHANGED <<cont, work, svc, disturbed>>

SaveRow(h) ==
  /\ req[h] # None /\ req[h].op \in {"start", "bucket"} /\ req[h].stage = "save"
  /\ Update(req[h].id, req[h].row)
  /\ req' = [req EXCEPT ![h] = None]
  /\ UNCHANGED <<cont, work, svc, disturbed>>

DeleteRow(h) ==
  /\ req[h] # None /\ req[h].op = "delete" /\ req[h].stage = "save"
  /\ Update(req[h].id, [NoRow EXCEPT !.status = "deleted"])
  /\ req' = [req EXCEPT ![h] = None]
  /\ UNCHANGED <<cont, work, svc, disturbed>>

\* A call fails, or the client goes away and its context is cancelled.
Abort(h) ==
  /\ req[h] # None /\ req[h].op # "create"
  /\ Disturb({req[h].row.name})
  /\ req' = [req EXCEPT ![h] = None]
  /\ UNCHANGED <<row, cont, work, svc>>

-----------------------------------------------------------------------------
\* Nothing looks at services when Talos starts again.
Crash ==
  /\ MayCrash
  /\ work' = [s \in Services |-> IF work[s] = "none" THEN "none" ELSE "done"]
  /\ svc' = [s \in Services |-> NoRow]
  /\ req' = [h \in Handlers |-> None]
  /\ Disturb({n \in Names : Busy(n)})
  /\ UNCHANGED <<row, cont>>

HandlerStep(h) ==
  \/ Create(h) \/ BlankCredentials(h) \/ GetService(h) \/ StopOrDelete(h)
  \/ StartAgain(h) \/ CreateBucket(h) \/ SaveStopped(h) \/ SaveRow(h)
  \/ DeleteRow(h) \/ Abort(h)

Provision(s) ==
  \/ Mark(s) \/ Encrypt(s) \/ VolumeFails(s) \/ PullFails(s)
  \/ StopExisting(s) \/ StartContainer(s) \/ StartFails(s)
  \/ StoreActive(s) \/ StoreError(s) \/ AddBucket(s) \/ StoreAgain(s)
  \/ CreateWebUI(s)

Next ==
  \/ \E h \in Handlers : HandlerStep(h)
  \/ \E s \in Services : Provision(s)
  \/ Crash

Spec == Init /\ [][Next]_vars

-----------------------------------------------------------------------------
(***************************************************************************)
(* Properties.                                                             *)
(***************************************************************************)

\* A service is provisioned once: no row that was read earlier brings the status
\* back (managed-services.md: pending --> provisioning --> active or error).
NeverProvisionedAgain ==
  [][\A s \in Services :
       row'[s].status = "provisioning" => row[s].status \in {"pending", "provisioning"}]_vars

\* Credentials that were stored once are never lost, whatever requests overlap,
\* for every type but object stores (handlers/service.go blanks them only after
\* the row has been saved).
CredentialsKept ==
  [][\A s \in Services :
       row[s].cred # None /\ row[s].name \notin Garage =>
         row'[s].cred = row[s].cred \/ row'[s].status = "deleted"]_vars

\* If the operations on a name have come one at a time and to their end, an active
\* service has a running container with the credentials of that service
\* (provisioner.go: the status is set after the container was started).
ActiveRuns ==
  \A s \in Services : row[s].status = "active" =>
    \/ row[s].name \in disturbed
    \/ Busy(row[s].name)
    \/ cont[row[s].name] = [cred |-> s, up |-> TRUE]

=============================================================================
