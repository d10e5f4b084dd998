----------------------------- MODULE AppLifecycle -----------------------------
(***************************************************************************)
(* The life of applications from the forms and requests that create them   *)
(* to those that delete them (internal/server/handlers/app.go, pages.go,   *)
(* internal/store/app_repo.go), with their route files in the directory of *)
(* the internal proxy (internal/proxy/traefik/manager.go) and the deploys  *)
(* that run meanwhile.  Handlers change the row and then the file, and     *)
(* write whole rows they have read before.                                 *)
(*                                                                         *)
(* No application is named talos-ui, the name of the file Talos keeps for  *)
(* itself.  Ports, containers and the steps of a deploy in detail are the  *)
(* subject of DeployEngine.                                                *)
(***************************************************************************)
EXTENDS Naturals, FiniteSets

CONSTANTS
  Names,     \* names of applications
  Domains,   \* domains
  Types,     \* types of applications
  Handlers,  \* goroutines of requests
  MaxId,     \* bound on the applications created
  Empty,     \* a route file that was truncated and not written
  None       \* no row, no file, no domain, no request

Ids == 1..MaxId
Row == [name : Names, type : Types, domain : Domains \cup {None}]

\* To which application a file leads the requests for a domain.
Route == [to : Ids, domain : Domains]

\* alone: nothing else has been under way for the name since the request began.
Request == [does : {"create", "update", "sync", "delete", "unroute", "status"},
            id : Ids, copy : Row, alone : BOOLEAN]

\* The deploy of an application, with the row it was requested with.
Underway == [copy : Row, step : {"route", "save"}]

ASSUME LifecycleAssumption ==
  /\ Types \subseteq {"managed", "adopted", "external"}
  /\ MaxId \in Nat \ {0}
  /\ None \notin Domains \cup Row \cup Route \cup Request \cup Underway
  /\ Empty \notin Route

VARIABLES
  app,      \* the table apps
  next,     \* the id AUTOINCREMENT gives to the next one
  file,     \* the route files
  req,      \* what each handler is doing
  deploy,   \* the deploy of each application that is in progress
  settled   \* history: applications last touched by a request that had their name to itself

vars == <<app, next, file, req, deploy, settled>>

-----------------------------------------------------------------------------
TypeOK ==
  /\ app \in [Ids -> Row \cup {None}]
  /\ next \in 1..(MaxId + 1)
  /\ file \in [Names -> Route \cup {Empty, None}]
  /\ req \in [Handlers -> Request \cup {None}]
  /\ deploy \in [Ids -> Underway \cup {None}]
  /\ settled \in SUBSET Ids
  /\ \A i \in Ids : i >= next => app[i] = None
  /\ \A i, j \in Ids : app[i] # None /\ app[j] # None /\ app[i].name = app[j].name => i = j

Init ==
  /\ app = [i \in Ids |-> None] /\ next = 1
  /\ file = [n \in Names |-> None]
  /\ req = [h \in Handlers |-> None] /\ deploy = [i \in Ids |-> None]
  /\ settled = {}

Idle(h) == req[h] = None
Does(h, what) == req[h] # None /\ req[h].does = what
Exists(i) == app[i] # None

Using(n) == {h \in Handlers : req[h] # None /\ req[h].copy.name = n}
Deploying(n) == \E i \in Ids : deploy[i] # None /\ deploy[i].copy.name = n

\* Whoever uses the name of an application is not alone with it any more.
Disturb(n) == [g \in Handlers |-> IF g \in Using(n) THEN [req[g] EXCEPT !.alone = FALSE] ELSE req[g]]

Begin(h, what, i, copy) ==
  req' = [Disturb(copy.name) EXCEPT
            ![h] = [does |-> what, id |-> i, copy |-> copy,
                    alone |-> Using(copy.name) = {} /\ ~Deploying(copy.name)]]
Continue(h, what) == req' = [req EXCEPT ![h].does = what]
End(h) == req' = [req EXCEPT ![h] = None]

-----------------------------------------------------------------------------
(***************************************************************************)
(* The table.                                                              *)
(***************************************************************************)
DomainTaken(i, d) == d # None /\ \E j \in Ids \ {i} : Exists(j) /\ app[j].domain = d
NameTaken(n) == \E j \in Ids : Exists(j) /\ app[j].name = n

\* Faulty: the statement inserts the row if there is none.
UpdateApp_Upsert(i, r) == app' = [app EXCEPT ![i] = r]

\* UPDATE touches no row that was deleted, and says nothing of it.
UpdateApp(i, r) == app' = [app EXCEPT ![i] = IF @ = None THEN None ELSE r]

\* Faulty: a primary key without AUTOINCREMENT.
NextId_Reuses == 1 + Cardinality({i \in Ids : \E j \in Ids : i <= j /\ Exists(j)})

NextId == next

-----------------------------------------------------------------------------
(***************************************************************************)
(* Creating and updating.                                                  *)
(***************************************************************************)
Create(h) ==
  /\ Idle(h) /\ NextId <= MaxId
  /\ \E n \in Names, t \in Types, d \in Domains \cup {None} :
       LET r == [name |-> n, type |-> t, domain |-> d]
       IN  /\ ~NameTaken(n) /\ ~DomainTaken(NextId, d)
           /\ app' = [app EXCEPT ![NextId] = r]
           /\ next' = NextId + 1
           /\ Begin(h, "create", NextId, r)
  /\ UNCHANGED <<file, deploy, settled>>

\* A form or request may change the type and the domain.
GetForUpdate(h) ==
  /\ Idle(h)
  /\ \E i \in Ids, t \in Types, d \in Domains \cup {None} :
       /\ Exists(i)
       /\ Begin(h, "update", i, [app[i] EXCEPT !.type = t, !.domain = d])
  /\ UNCHANGED <<app, next, file, deploy, settled>>

SaveUpdate(h) ==
  /\ Does(h, "update")
  /\ LET i == req[h].id
         r == req[h].copy
     IN  IF Exists(i) /\ DomainTaken(i, r.domain)
         THEN End(h) /\ UNCHANGED <<app, settled>>
         ELSE /\ UpdateApp(i, r)
              /\ settled' = settled \ {i}
              /\ Continue(h, "sync")
  /\ UNCHANGED <<next, file, deploy>>

RouteOf(i, r) == IF r.domain = None THEN None ELSE [to |-> i, domain |-> r.domain]

\* Faulty: a route that is no longer wanted stays.
SyncNonManagedRoute_Keeps(i, r) ==
  IF r.type = "managed" \/ r.domain = None THEN file ELSE [file EXCEPT ![r.name] = RouteOf(i, r)]

\* The file of a managed application is left to its deploys.
SyncNonManagedRoute(i, r) ==
  IF r.type = "managed" THEN file ELSE [file EXCEPT ![r.name] = RouteOf(i, r)]

\* The page that creates an application for a container looks whether it runs.
SyncRoute(h) ==
  LET i == req[h].id
      r == req[h].copy
  IN  /\ Does(h, "create") \/ Does(h, "sync")
      /\ file' = SyncNonManagedRoute(i, r)
      /\ settled' = IF req[h].alone /\ r.type # "managed" THEN settled \cup {i} ELSE settled \ {i}
      /\ \/ End(h)
         \/ Does(h, "create") /\ r.type = "adopted" /\ Continue(h, "status")
      /\ UNCHANGED <<app, next, deploy>>

\* The row stays as it was written.  A file that could not be written is empty.
SyncFails(h) ==
  LET r == req[h].copy
  IN  /\ Does(h, "create") \/ Does(h, "sync")
      /\ r.type # "managed"
      /\ \/ UNCHANGED file
         \/ r.domain # None /\ file' = [file EXCEPT ![r.name] = Empty]
      /\ settled' = settled \ {req[h].id}
      /\ End(h)
      /\ UNCHANGED <<app, next, deploy>>

\* The page of an adopted container, which may have been started or stopped.
AppDetailPage(h) ==
  /\ Idle(h)
  /\ \E i \in Ids : Exists(i) /\ app[i].type = "adopted" /\ Begin(h, "status", i, app[i])
  /\ UNCHANGED <<app, next, file, deploy, settled>>

\* The status changes, and every other column is what it was when it was read.  The error of
\* a domain that is taken by now is dropped.
WriteStatus(h) ==
  LET i == req[h].id
      r == req[h].copy
  IN  /\ Does(h, "status")
      /\ \/ ~DomainTaken(i, r.domain) /\ UpdateApp(i, r)
         \/ UNCHANGED app
      /\ settled' = IF req[h].alone THEN settled ELSE settled \ {i}
      /\ End(h)
      /\ UNCHANGED <<next, file, deploy>>

-----------------------------------------------------------------------------
(***************************************************************************)
(* Deleting.  Containers are not stopped.                                  *)
(***************************************************************************)
GetForDelete(h) ==
  /\ Idle(h)
  /\ \E i \in Ids : Exists(i) /\ Begin(h, "delete", i, app[i])
  /\ UNCHANGED <<app, next, file, deploy, settled>>

DeleteRow(h) ==
  /\ Does(h, "delete")
  /\ app' = [app EXCEPT ![req[h].id] = None]
  /\ settled' = settled \ {req[h].id}
  /\ Continue(h, "unroute")
  /\ UNCHANGED <<next, file, deploy>>

\* Faulty: the file is left, as by the page.
RemoveRoute_Keeps(n) == file

RemoveRoute(n) == [file EXCEPT ![n] = None]

Unroute(h) ==
  /\ Does(h, "unroute")
  /\ \/ /\ file' = RemoveRoute(req[h].copy.name)
        /\ settled' = IF req[h].alone THEN settled \cup {req[h].id} ELSE settled
     \/ UNCHANGED <<file, settled>>
  /\ End(h)
  /\ UNCHANGED <<app, next, deploy>>

\* The button of the page deletes the row alone.
DeleteApp(i) ==
  /\ Exists(i)
  /\ app' = [app EXCEPT ![i] = None]
  /\ req' = Disturb(app[i].name)
  /\ settled' = settled \ {i}
  /\ UNCHANGED <<next, file, deploy>>

RequestFails(h) ==
  /\ Does(h, "update") \/ Does(h, "delete")
  /\ End(h)
  /\ UNCHANGED <<app, next, file, deploy, settled>>

-----------------------------------------------------------------------------
(***************************************************************************)
(* Deploys.                                                                *)
(***************************************************************************)
Deploy(i) ==
  /\ Exists(i) /\ app[i].type = "managed" /\ deploy[i] = None
  /\ deploy' = [deploy EXCEPT ![i] = [copy |-> app[i], step |-> "route"]]
  /\ req' = Disturb(app[i].name)
  /\ settled' = settled \ {i}
  /\ UNCHANGED <<app, next, file>>

DeployAt(i, step) == deploy[i] # None /\ deploy[i].step = step

\* An application without a domain has no route.
UpdateRoute(i) ==
  LET r == deploy[i].copy
  IN  /\ DeployAt(i, "route")
      /\ file' = IF r.domain = None THEN file ELSE [file EXCEPT ![r.name] = RouteOf(i, r)]
      /\ deploy' = [deploy EXCEPT ![i].step = "save"]
      /\ UNCHANGED <<app, next, req, settled>>

\* The error of a domain that is taken by now is dropped.
SaveApp(i) ==
  LET r == deploy[i].copy
  IN  /\ DeployAt(i, "save")
      /\ IF DomainTaken(i, r.domain) THEN UNCHANGED app ELSE UpdateApp(i, r)
      /\ deploy' = [deploy EXCEPT ![i] = None]
      /\ UNCHANGED <<next, file, req, settled>>

\* Before the route is written, or while it is: then the file has been truncated.
DeployFails(i) ==
  LET r == deploy[i].copy
  IN  /\ DeployAt(i, "route")
      /\ \/ UNCHANGED file
         \/ r.domain # None /\ file' = [file EXCEPT ![r.name] = Empty]
      /\ deploy' = [deploy EXCEPT ![i] = None]
      /\ UNCHANGED <<app, next, req, settled>>

-----------------------------------------------------------------------------
Serve(h) ==
  \/ Create(h) \/ GetForUpdate(h) \/ SaveUpdate(h) \/ SyncRoute(h) \/ SyncFails(h)
  \/ AppDetailPage(h) \/ WriteStatus(h)
  \/ GetForDelete(h) \/ DeleteRow(h) \/ Unroute(h)
  \/ RequestFails(h)

Execute(i) == Deploy(i) \/ UpdateRoute(i) \/ SaveApp(i) \/ DeployFails(i)

Next ==
  \/ \E h \in Handlers : Serve(h)
  \/ \E i \in Ids : DeleteApp(i) \/ Execute(i)

Spec == Init /\ [][Next]_vars

-----------------------------------------------------------------------------
\* When a request had the name of its application to itself and its steps succeeded, the
\* route file is what the row says, whatever was left behind before: an adopted or external
\* application has its own route exactly if it has a domain, and no file leads to an
\* application that was deleted by a request (handlers/app.go, Create, Update and Delete).
RoutesFollowRows ==
  \A i \in settled :
    IF Exists(i) THEN file[app[i].name] = RouteOf(i, app[i])
    ELSE \A n \in Names : file[n] \in Route => file[n].to # i

\* An application that was deleted does not come back, although deploys and handlers that
\* have read its row write it afterwards (app_repo.go, UpdateApp).
DeletedStaysDeleted == [][\A i \in Ids : i < next /\ ~Exists(i) => app'[i] = None]_vars

\* What is written late is never written over another application: a row keeps its name, and
\* a running deploy or request is about the application of the name it has read.
RowsKeepTheirNames ==
  /\ \A i \in Ids : deploy[i] # None /\ Exists(i) => deploy[i].copy.name = app[i].name
  /\ \A h \in Handlers : ~Idle(h) /\ Exists(req[h].id) => req[h].copy.name = app[req[h].id].name

=============================================================================
