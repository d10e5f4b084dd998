---------------------------- MODULE DeployEngine ----------------------------
(***************************************************************************)
(* The deploy engine of Talos: the requests that start a deploy, a         *)
(* rollback or a change of an application's access settings                *)
(* (internal/deploy/engine.go, internal/server/handlers), the background   *)
(* goroutine that carries each deploy out, and the three places where its  *)
(* effects live: the rows of SQLite, the Docker containers and the route   *)
(* file of Traefik.                                                        *)
(*                                                                         *)
(* Each deploy starts at most one container, named talos-<app>-<id>, so a  *)
(* container is denoted by its deploy.  The default name talos-<app>,      *)
(* which the engine stops before the first deploy, denotes no container.   *)
(***************************************************************************)
EXTENDS Naturals

CONSTANTS
  Apps,         \* the managed applications
  Deploys,      \* the ids CreateDeploy can still hand out (bounds the workload)
  Handlers,     \* the HTTP handler goroutines
  Images,       \* image references the registry can serve
  Built,        \* the references of images that Talos builds on this host
  None,         \* "", a missing row, a missing file
  Broken,       \* a route file that is empty or cannot be parsed
  TalosBuilt,   \* the applications in build mode talos_build
  External,     \* proxy mode: an external Traefik that reads container labels
  Modes,        \* the access modes applications have or may be given
  Ops,          \* the requests that arrive
  CoarseClock,  \* two deploys may be created in the same second
  Faults,       \* which calls may fail: "db", "stop", "route"
  MaxPort,      \* bound on fallback ports, counted from 40001
  MaxCrashes    \* bound on crashes of the Talos process

ASSUME EngineAssumption ==
  /\ None \notin Deploys \cup Images \cup Apps
  /\ Broken \notin Deploys \cup {None}
  /\ Built \cap (Images \cup {None}) = {}
  /\ TalosBuilt \subseteq Apps
  /\ External \in BOOLEAN
  /\ Modes \subseteq {"domain", "port"}
  /\ Ops \subseteq {"deploy", "rollback", "update"}
  /\ CoarseClock \in BOOLEAN
  /\ Faults \subseteq {"db", "stop", "route"}
  /\ MaxPort \in Nat
  /\ MaxCrashes \in Nat

VARIABLES
  app,        \* the row of each application: access mode, port, live container
  row,        \* the row of each deploy
  clock,      \* created_at of the newest deploy
  req,        \* the request each handler is serving, or None
  pc,         \* what the goroutine of a deploy does next
  snap,       \* the application row that goroutine was given
  img,        \* its copy of the deploy's image reference
  container,  \* the container of each deploy
  route,      \* the container each application's route file names
  dead,       \* the deploys whose goroutine a crash has killed
  crashes

vars == <<app, row, clock, req, pc, snap, img, container, route, dead, crashes>>

-----------------------------------------------------------------------------
AppRow == [mode : {"domain", "port"}, port : Nat, live : Deploys \cup {None}]

Statuses == {"absent", "pending", "running", "success", "failed", "auto_rollback"}
InProgress == {"pending", "running"}
Terminal == {"success", "failed", "auto_rollback"}

DeployRow == [status : Statuses, app : Apps \cup {None}, image : Images \cup {None},
              stamp : Nat, of : Deploys \cup {None}]

\* "of" is the deploy a rollback repeats, "stage" the handler's next query.
Request == [op : {"deploy", "rollback", "update"}, app : Apps, row : AppRow,
            image : Images \cup {None}, mode : {"domain", "port"},
            of : Deploys \cup {None}, stage : {"check", "write"}]

Ended == {"done", "failed"}
\* Traffic has been switched to the deploy's container.
Promoted == {"stopOld", "finish", "save", "done"}
Steps == {"none", "queued", "prepare", "cutover", "launch", "health", "route", "write",
          "failing", "rolling"} \cup Promoted \cup Ended

TypeOK ==
  /\ app \in [Apps -> AppRow]
  /\ row \in [Deploys -> DeployRow]
  /\ clock \in Nat
  /\ req \in [Handlers -> Request \cup {None}]
  /\ pc \in [Deploys -> Steps]
  /\ snap \in [Deploys -> AppRow]
  /\ img \in [Deploys -> Images \cup Built \cup {None}]
  /\ container \in [Deploys -> {"absent", "stopped", "running"}]
  /\ route \in [Apps -> Deploys \cup {None, Broken}]
  /\ dead \subseteq Deploys
  /\ crashes \in Nat

NoRow == [status |-> "absent", app |-> None, image |-> None, stamp |-> 0, of |-> None]
NoSnap == [mode |-> "domain", port |-> 0, live |-> None]

\* Applications that were created and never deployed, each with the fallback
\* port applyAccessFields gave it.
Init ==
  /\ app \in [Apps -> [mode : Modes, port : 0 .. MaxPort, live : {None}]]
  /\ \A a \in Apps : app[a].mode = "domain" <=> app[a].port = 0
  /\ \A a, b \in Apps : a # b /\ app[a].port = app[b].port => app[a].port = 0
  /\ row = [d \in Deploys |-> NoRow]
  /\ clock = 0
  /\ req = [h \in Handlers |-> None]
  /\ pc = [d \in Deploys |-> "none"]
  /\ snap = [d \in Deploys |-> NoSnap]
  /\ img = [d \in Deploys |-> None]
  /\ container = [d \in Deploys |-> "absent"]
  /\ route = [a \in Apps |-> None]
  /\ dead = {}
  /\ crashes = 0

-----------------------------------------------------------------------------
jobVars == <<pc, snap, img, container, route, dead, crashes>>

RowsOf(a, S) == {d \in Deploys : row[d].app = a /\ row[d].status \in S}

\* ORDER BY created_at DESC LIMIT 1: any of the rows that share the newest second.
Newest(D) == {d \in D : \A e \in D : row[e].stamp <= row[d].stamp}

At(d, s) == d \notin dead /\ pc[d] = s
Goto(d, s) == pc' = [pc EXCEPT ![d] = s]

\* UpdateDeploy.  Its error is dropped or logged, never acted upon.
SetStatus(d, s) ==
  \/ row' = [row EXCEPT ![d].status = s]
  \/ "db" \in Faults /\ row' = row

\* The old container has to go before the new one may start.
Exclusive(d) == snap[d].mode = "port" \/ External

\* StopAndRemove.  The engine goes on whatever it returns.
AfterStop(c) ==
  IF c = None \/ container[c] = "absent" THEN {container}
  ELSE {[container EXCEPT ![c] = s] :
          s \in {"absent"} \cup IF "stop" \in Faults THEN {"stopped", container[c]} ELSE {}}

\* The unique index on fallback ports.
PortTaken(a, p) == p # 0 /\ \E b \in Apps \ {a} : app[b].port = p

\* A faulty variant: a rollback is carried out by executeQueued, as a deploy is.
NeedsBuild_OfRollback(d) == row[d].app \in TalosBuilt /\ img[d] = None

\* executeQueued.  Rollback calls execute itself.
NeedsBuild(d) == row[d].of = None /\ row[d].app \in TalosBuilt /\ img[d] = None
SkipsPull(d) == img[d] \in Built

-----------------------------------------------------------------------------
(***************************************************************************)
(* Faulty variants of actions below, one plausible mistake in each.  No    *)
(* specification uses them; each shows a property that would catch it.     *)
(***************************************************************************)

\* Only a deploy that is "running" counts as in progress.
CheckInProgress_IgnoresPending(h) ==
  /\ req[h] # None /\ req[h].op = "deploy" /\ req[h].stage = "check"
  /\ LET latest == Newest(RowsOf(req[h].app, Statuses))
     IN  req' = IF \E d \in latest : row[d].status = "running"
                THEN [req EXCEPT ![h] = None]
                ELSE [req EXCEPT ![h].stage = "write"]
  /\ UNCHANGED <<app, row, clock, jobVars>>

\* A failed validation or pull returns without calling failDeploy.
PrepareFails_JustReturns(d) ==
  /\ At(d, "prepare")
  /\ Goto(d, "failed")
  /\ UNCHANGED <<app, row, clock, req, snap, img, container, route, dead, crashes>>

\* An unhealthy deploy removes the live container instead of its own.
HealthFails_RemovesLive(d) ==
  /\ At(d, "health")
  /\ container' \in AfterStop(snap[d].live)
  /\ Goto(d, "rolling")
  /\ UNCHANGED <<app, row, clock, req, snap, img, route, dead, crashes>>

\* The domain has one more status for the end of a rollback.
AutoRollback_AsRollback(d) ==
  /\ At(d, "rolling")
  /\ SetStatus(d, "rollback")
  /\ Goto(d, "failed")
  /\ UNCHANGED <<app, clock, req, snap, img, container, route, dead, crashes>>

\* The live container is read again instead of taken from the row the deploy
\* was given.
StopOld_ReadsLiveAgain(d) ==
  /\ At(d, "stopOld")
  /\ container' \in AfterStop(app[row[d].app].live)
  /\ Goto(d, "finish")
  /\ UNCHANGED <<app, row, clock, req, snap, img, route, dead, crashes>>

\* The application's row is saved before the deploy's row.
Finalize_SavesAppFirst(d) ==
  /\ At(d, "finish")
  /\ app' = [app EXCEPT ![row[d].app].live = d]
  /\ SetStatus(d, "success")
  /\ Goto(d, "save")
  /\ UNCHANGED <<clock, req, snap, img, container, route, dead, crashes>>

\* A row that cannot be saved fails the deploy.
SaveApp_FailsDeploy(d) ==
  /\ At(d, "save")
  /\ LET a == row[d].app IN
       \/ /\ ~PortTaken(a, snap[d].port)
          /\ app' = [app EXCEPT ![a] = [snap[d] EXCEPT !.live = d]]
          /\ Goto(d, "done")
       \/ /\ "db" \in Faults \/ PortTaken(a, snap[d].port)
          /\ app' = app
          /\ Goto(d, "failing")
  /\ UNCHANGED <<row, clock, req, snap, img, container, route, dead, crashes>>

\* A failed build returns without calling failDeploy.
BuildFails_JustReturns(d) ==
  /\ At(d, "queued") /\ NeedsBuild(d)
  /\ Goto(d, "failed")
  /\ UNCHANGED <<app, row, clock, req, snap, img, container, route, dead, crashes>>

-----------------------------------------------------------------------------
(***************************************************************************)
(* Requests.  A handler makes one query after another, each on the rows as *)
(* they are then; between two queries anything else may happen.            *)
(***************************************************************************)
\* The request arrives and GetApp reads the application's row.
Receive(h) ==
  /\ req[h] = None
  /\ \E a \in Apps, o \in Ops, i \in Images \cup {None}, m \in Modes :
       /\ i = None => o # "deploy" \/ a \in TalosBuilt
       /\ o # "deploy" => i = None
       /\ o # "update" => m = app[a].mode
       /\ req' = [req EXCEPT ![h] = [op |-> o, app |-> a, row |-> app[a], image |-> i,
                                     mode |-> m, of |-> None, stage |-> "check"]]
  /\ UNCHANGED <<app, row, clock, jobVars>>

\* Deploy: the newest deploy must not be in progress.
CheckInProgress(h) ==
  /\ req[h] # None /\ req[h].op = "deploy" /\ req[h].stage = "check"
  /\ LET latest == Newest(RowsOf(req[h].app, Statuses))
     IN  \/ /\ latest = {}
            /\ req' = [req EXCEPT ![h].stage = "write"]
         \/ \E d \in latest :
              req' = IF row[d].status \in InProgress
                     THEN [req EXCEPT ![h] = None]
                     ELSE [req EXCEPT ![h].stage = "write"]
  /\ UNCHANGED <<app, row, clock, jobVars>>

\* Rollback: repeat the newest successful deploy, if there is one.
FindSuccessful(h) ==
  /\ req[h] # None /\ req[h].op = "rollback" /\ req[h].stage = "check"
  /\ LET latest == Newest(RowsOf(req[h].app, {"success"}))
     IN  \/ /\ latest = {}
            /\ req' = [req EXCEPT ![h] = None]
         \/ \E d \in latest :
              req' = [req EXCEPT ![h].of = d, ![h].image = row[d].image,
                                 ![h].stage = "write"]
  /\ UNCHANGED <<app, row, clock, jobVars>>

\* Insert the pending row and start the goroutine, with the application row
\* that GetApp read.
CreateDeploy(h) ==
  /\ req[h] # None /\ req[h].op \in {"deploy", "rollback"} /\ req[h].stage = "write"
  /\ \E d \in Deploys, s \in IF CoarseClock THEN {clock, clock + 1} ELSE {clock + 1} :
       /\ row[d].status = "absent"
       /\ row' = [row EXCEPT ![d] = [status |-> "pending", app |-> req[h].app,
                                     image |-> req[h].image, stamp |-> s,
                                     of |-> req[h].of]]
       /\ clock' = s
       /\ pc' = [pc EXCEPT ![d] = "queued"]
       /\ snap' = [snap EXCEPT ![d] = req[h].row]
       /\ img' = [img EXCEPT ![d] = req[h].image]
  /\ req' = [req EXCEPT ![h] = None]
  /\ UNCHANGED <<app, container, route, dead, crashes>>

\* SELECT MAX(fallback_port) + 1
IsNextPort(p) ==
  /\ \A b \in Apps : app[b].port < p
  /\ p = 1 \/ \E b \in Apps : app[b].port + 1 = p

\* applyAccessFields: an application without a domain gets a new port.
AssignPort(h) ==
  /\ req[h] # None /\ req[h].op = "update" /\ req[h].stage = "check"
  /\ \E p \in 0 .. MaxPort :
       /\ IF req[h].mode = "domain" THEN p = 0 ELSE IsNextPort(p)
       /\ req' = [req EXCEPT ![h].row = [mode |-> req[h].mode, port |-> p,
                                         live |-> req[h].row.live],
                             ![h].stage = "write"]
  /\ UNCHANGED <<app, row, clock, jobVars>>

\* UpdateApp writes every column, the live container it read included.
UpdateSettings(h) ==
  /\ req[h] # None /\ req[h].op = "update" /\ req[h].stage = "write"
  /\ app' = IF PortTaken(req[h].app, req[h].row.port)
            THEN app
            ELSE [app EXCEPT ![req[h].app] = req[h].row]
  /\ req' = [req EXCEPT ![h] = None]
  /\ UNCHANGED <<row, clock, jobVars>>

\* A query fails, or the client goes away and its context is cancelled.
Abort(h) ==
  /\ req[h] # None
  /\ req' = [req EXCEPT ![h] = None]
  /\ UNCHANGED <<app, row, clock, jobVars>>

-----------------------------------------------------------------------------
(***************************************************************************)
(* The goroutine of a deploy: executeQueued and execute.                   *)
(***************************************************************************)
\* prepareTalosBuild.  UpdateDeploy does not write the image reference.
Build(d) ==
  /\ At(d, "queued") /\ NeedsBuild(d)
  /\ \E i \in Built : img' = [img EXCEPT ![d] = i]
  /\ UNCHANGED <<app, row, clock, req, pc, snap, container, route, dead, crashes>>

BuildFails(d) ==
  /\ At(d, "queued") /\ NeedsBuild(d)
  /\ Goto(d, "failing")
  /\ UNCHANGED <<app, row, clock, req, snap, img, container, route, dead, crashes>>

Begin(d) ==
  /\ At(d, "queued") /\ ~NeedsBuild(d)
  /\ SetStatus(d, "running")
  /\ Goto(d, "prepare")
  /\ UNCHANGED <<app, clock, req, snap, img, container, route, dead, crashes>>

\* The required variables are set and the image is there.
Prepare(d) ==
  /\ At(d, "prepare")
  /\ SkipsPull(d) \/ img[d] \in Images
  /\ Goto(d, IF Exclusive(d) THEN "cutover" ELSE "launch")
  /\ UNCHANGED <<app, row, clock, req, snap, img, container, route, dead, crashes>>

PrepareFails(d) ==
  /\ At(d, "prepare")
  /\ Goto(d, "failing")
  /\ UNCHANGED <<app, row, clock, req, snap, img, container, route, dead, crashes>>

StopLiveFirst(d) ==
  /\ At(d, "cutover")
  /\ container' \in AfterStop(snap[d].live)
  /\ Goto(d, "launch")
  /\ UNCHANGED <<app, row, clock, req, snap, img, route, dead, crashes>>

PortBound(d) ==
  snap[d].port # 0 /\ \E c \in Deploys \ {d} : /\ container[c] = "running"
                                               /\ snap[c].port = snap[d].port

Launch(d) ==
  /\ At(d, "launch") /\ ~PortBound(d)
  /\ container' = [container EXCEPT ![d] = "running"]
  /\ Goto(d, "health")
  /\ UNCHANGED <<app, row, clock, req, snap, img, route, dead, crashes>>

\* Docker may refuse to create the container or to start it, and in external
\* proxy mode to connect the running one to the proxy's network.  Nothing
\* removes what was created.
LaunchFails(d) ==
  /\ At(d, "launch")
  /\ \E s \in {"absent", "stopped"}
             \cup IF External /\ snap[d].mode = "domain" THEN {"running"} ELSE {} :
       container' = [container EXCEPT ![d] = s]
  /\ Goto(d, "failing")
  /\ UNCHANGED <<app, row, clock, req, snap, img, route, dead, crashes>>

HealthPasses(d) ==
  /\ At(d, "health") /\ container[d] = "running"
  /\ Goto(d, IF Exclusive(d) THEN "finish" ELSE "route")
  /\ UNCHANGED <<app, row, clock, req, snap, img, container, route, dead, crashes>>

HealthFails(d) ==
  /\ At(d, "health")
  /\ container' \in AfterStop(d)
  /\ Goto(d, "rolling")
  /\ UNCHANGED <<app, row, clock, req, snap, img, route, dead, crashes>>

AutoRollback(d) ==
  /\ At(d, "rolling")
  /\ SetStatus(d, "auto_rollback")
  /\ Goto(d, "failed")
  /\ UNCHANGED <<app, clock, req, snap, img, container, route, dead, crashes>>

\* UpdateRoute: os.Create empties the route file ...
CreateRouteFile(d) ==
  /\ At(d, "route")
  /\ route' = [route EXCEPT ![row[d].app] = Broken]
  /\ Goto(d, "write")
  /\ UNCHANGED <<app, row, clock, req, snap, img, container, dead, crashes>>

\* ... and the template is written over it.  Over what another deploy has
\* written in between, a shorter text leaves the tail of a longer one.
WriteRoute(d) ==
  /\ At(d, "write")
  /\ \E r \in {d} \cup IF route[row[d].app] = Broken THEN {} ELSE {Broken} :
       route' = [route EXCEPT ![row[d].app] = r]
  /\ Goto(d, "stopOld")
  /\ UNCHANGED <<app, row, clock, req, snap, img, container, dead, crashes>>

RouteFails(d) ==
  /\ "route" \in Faults /\ (At(d, "route") \/ At(d, "write"))
  /\ container' \in AfterStop(d)
  /\ Goto(d, "failing")
  /\ UNCHANGED <<app, row, clock, req, snap, img, route, dead, crashes>>

StopOld(d) ==
  /\ At(d, "stopOld")
  /\ container' \in AfterStop(snap[d].live)
  /\ Goto(d, "finish")
  /\ UNCHANGED <<app, row, clock, req, snap, img, route, dead, crashes>>

Finalize(d) ==
  /\ At(d, "finish")
  /\ SetStatus(d, "success")
  /\ Goto(d, "save")
  /\ UNCHANGED <<app, clock, req, snap, img, container, route, dead, crashes>>

\* UpdateApp writes every column of the row read when the deploy was requested,
\* with the new live container.
SaveApp(d) ==
  /\ At(d, "save")
  /\ LET a == row[d].app IN
       \/ /\ ~PortTaken(a, snap[d].port)
          /\ app' = [app EXCEPT ![a] = [snap[d] EXCEPT !.live = d]]
       \/ /\ "db" \in Faults \/ PortTaken(a, snap[d].port)
          /\ app' = app
  /\ Goto(d, "done")
  /\ UNCHANGED <<row, clock, req, snap, img, container, route, dead, crashes>>

FailDeploy(d) ==
  /\ At(d, "failing")
  /\ SetStatus(d, "failed")
  /\ Goto(d, "failed")
  /\ UNCHANGED <<app, clock, req, snap, img, container, route, dead, crashes>>

-----------------------------------------------------------------------------
\* The process ends and is started again.  Containers, rows and route files
\* survive; goroutines and requests do not, and nothing looks for what they left.
Crash ==
  /\ crashes < MaxCrashes
  /\ crashes' = crashes + 1
  /\ dead' = dead \cup {d \in Deploys : pc[d] \notin Ended \cup {"none"}}
  /\ req' = [h \in Handlers |-> None]
  /\ UNCHANGED <<app, row, clock, pc, snap, img, container, route>>

HandlerStep(h) ==
  \/ Receive(h) \/ CheckInProgress(h) \/ FindSuccessful(h) \/ CreateDeploy(h)
  \/ AssignPort(h) \/ UpdateSettings(h) \/ Abort(h)

Execute(d) ==
  \/ Build(d) \/ BuildFails(d) \/ Begin(d) \/ Prepare(d) \/ PrepareFails(d)
  \/ StopLiveFirst(d) \/ Launch(d) \/ LaunchFails(d)
  \/ HealthPasses(d) \/ HealthFails(d) \/ AutoRollback(d)
  \/ CreateRouteFile(d) \/ WriteRoute(d) \/ RouteFails(d)
  \/ StopOld(d) \/ Finalize(d) \/ SaveApp(d) \/ FailDeploy(d)

Next ==
  \/ \E h \in Handlers : HandlerStep(h)
  \/ \E d \in Deploys : Execute(d)
  \/ Crash

Spec == Init /\ [][Next]_vars

\* Go runs every goroutine that can run; every call the goroutine of a deploy
\* waits for has a timeout or an answer.  Nobody has to send a request.
FairSpec == Spec /\ \A d \in Deploys : WF_vars(Execute(d))

-----------------------------------------------------------------------------
(***************************************************************************)
(* Properties.                                                             *)
(***************************************************************************)

\* The container a route file names is running, whatever deploys overlapped,
\* failed or were killed; the one exception is a container that an exclusive
\* cutover was told to stop first (engine.go, execute: the route is switched
\* before the old container is stopped).
RouteServed ==
  \A a \in Apps : route[a] \in Deploys =>
    \/ container[route[a]] = "running"
    \/ \E e \in Deploys : pc[e] # "none" /\ Exclusive(e) /\ snap[e].live = route[a]

\* A running container is only ever stopped by its own deploy, before traffic
\* was switched to it, or by a deploy that replaces it and has been switched to.
\* README.md: "the old container is never stopped until the new one is proven
\* healthy".
ZeroDowntime ==
  [][\A c \in Deploys :
       container[c] = "running" /\ container'[c] # "running" =>
         \/ pc[c] \notin Promoted
         \/ \E e \in Deploys : /\ snap[e].live = c
                               /\ pc[e] \in Promoted
                               /\ container[e] = "running"]_vars

\* The same for every access mode: a container that traffic was switched to is
\* only stopped by a deploy that found it live when it was requested, and by that
\* deploy either in an exclusive cutover or with its own container running
\* (engine.go, execute: both calls of StopAndRemove on liveName).
SuccessorStops ==
  [][\A c \in Deploys :
       container[c] = "running" /\ container'[c] # "running" /\ pc[c] \in Promoted =>
         \E e \in Deploys :
           /\ snap[e].live = c
           /\ \/ pc[e] = "cutover" /\ Exclusive(e)
              \/ pc[e] = "stopOld" /\ container[e] = "running"]_vars

\* The live container an application's row names belongs to a deploy of that
\* application that has run to its end, so nobody else may be about to remove
\* it as its own staging container (engine.go, execute: UpdateApp comes last;
\* handlers/app.go, Update: writes back what it read).
LiveIsFinished ==
  \A a \in Apps : app[a].live # None =>
    pc[app[a].live] = "done" /\ row[app[a].live].app = a

\* A rollback runs the image that the deploy it repeats ran, or nothing: the
\* reference of an image that Talos built is not stored (deploy_repo.go,
\* UpdateDeploy), and a rollback that has lost it fails before it has stopped or
\* started a container; it does not build whatever is the newest commit by now
\* (engine.go, Rollback and execute).
RollbackRunsSameImage ==
  \A d \in Deploys : row[d].of # None /\ img[d] # img[row[d].of] =>
    pc[d] \in {"queued", "prepare", "failing", "failed"} /\ container[d] = "absent"

\* deployment-flow.md: "a deploy that targets the image from the last successful
\* deploy".  Refuted by rollback_image.cfg.
RollbackKeepsImage ==
  \A d \in Deploys : row[d].of # None => img[d] = img[row[d].of]

\* deployment-flow.md: "Only one deploy can run per application at a time"
\* (engine.go, Deploy: ErrDeployInProgress).
OneDeployPerApp ==
  \A d, e \in Deploys :
    /\ row[d].status \in InProgress
    /\ row[e].status \in InProgress
    /\ row[d].app = row[e].app
    => d = e

\* What OneDeployPerApp asks of those who send requests.  Of the requests for one
\* application no two are served at once, none is a rollback that comes while a
\* deploy is in progress, and no two of them create deploys in the same second.
Asks(h, a) == req[h] # None /\ req[h].app = a /\ req[h].op \in {"deploy", "rollback"}
Apart ==
  /\ \A a \in Apps, g, h \in Handlers : Asks(g, a) /\ Asks(h, a) => g = h
  /\ \A h \in Handlers : req[h] # None /\ req[h].op = "rollback" =>
       RowsOf(req[h].app, InProgress) = {}
  /\ \A d, e \in Deploys : row[d].app = row[e].app /\ row[d].stamp = row[e].stamp =>
       d = e \/ row[d].status = "absent"

\* If requests come apart, deploys of one application exclude one another, whatever
\* fails, is lost or is restarted in between: the newest row by created_at is then
\* the one in progress (engine.go, Deploy; deploy_repo.go, GetLatestDeploy).
DeploysExclude == []Apart => []OneDeployPerApp

\* A row that says a deploy is waiting or in progress has a goroutine working
\* on it, so ErrDeployInProgress is a reason to wait (engine.go, Deploy and
\* execute).
InProgressIsBacked ==
  \A d \in Deploys : row[d].status \in InProgress =>
    d \notin dead /\ pc[d] \notin Ended \cup {"none"}

\* Every deploy keeps the promises of BlueGreen: it succeeds only after traffic
\* was switched to it and is not reported as failed afterwards (engine.go,
\* execute and failDeploy).
BG == INSTANCE BlueGreen WITH
        status <- [d \in Deploys |-> row[d].status],
        switched <- {d \in Deploys : pc[d] \in Promoted}
ImplementsBlueGreen == BG!Spec

\* Every deploy that is accepted reaches a final status (engine.go: every path
\* of executeQueued and execute ends in UpdateDeploy).
DeployEnds ==
  \A d \in Deploys : row[d].status = "pending" ~> row[d].status \in Terminal

-----------------------------------------------------------------------------
(***************************************************************************)
(* An inductive invariant that implies RouteServed and, step by step,      *)
(* SuccessorStops and ZeroDowntime.                                        *)
(***************************************************************************)

\* A deploy has a goroutine exactly when it has a row.
Started ==
  \A d \in Deploys :
    /\ pc[d] = "none" <=> row[d].status = "absent"
    /\ pc[d] # "none" => row[d].app \in Apps

\* An application's row, wherever a copy of it is held, names as live only a
\* deploy of that application whose goroutine has nothing left to do.
Settled(r, a) == r.live # None => pc[r.live] = "done" /\ row[r.live].app = a

LiveSettled ==
  /\ \A a \in Apps : Settled(app[a], a)
  /\ \A h \in Handlers : req[h] # None => Settled(req[h].row, req[h].app)
  /\ \A d \in Deploys : IF pc[d] = "none" THEN snap[d].live = None
                                           ELSE Settled(snap[d], row[d].app)

\* From its start to the end of its deploy a container runs.
Up ==
  \A d \in Deploys :
    pc[d] \in {"health", "route", "write", "stopOld", "finish", "save"} => container[d] = "running"

\* A route file names a deploy of its application that traffic was switched to.
Routed ==
  \A a \in Apps : route[a] \in Deploys =>
    pc[route[a]] \in Promoted /\ row[route[a]].app = a

\* When a deploy is about to stop the old container, no route names it any more.
OldUnrouted ==
  \A e \in Deploys : pc[e] = "stopOld" /\ snap[e].live # None =>
    \A a \in Apps : route[a] # snap[e].live

CutoverIsExclusive == \A d \in Deploys : pc[d] = "cutover" => Exclusive(d)

IInv ==
  /\ TypeOK
  /\ Started
  /\ LiveSettled
  /\ Up
  /\ Routed
  /\ OldUnrouted
  /\ CutoverIsExclusive
  /\ RouteServed

=============================================================================
