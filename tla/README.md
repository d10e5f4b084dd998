# Talos: specifications, model checking and proofs

Talos is a self-hosted platform written in Go: one process that deploys
containers on one Docker host, puts Traefik in front of them, runs managed
databases, and keeps its state in SQLite and in a few files. This directory
holds TLA+ modules that model the parts of it in which several goroutines,
failures and restarts meet, the TLC configurations that check them, and proofs
checked by TLAPS.

Run, in this directory, `tlc -config <run>.cfg <module>` for a run of
`PROJECT.json`, `tlapm <module>` for a module of proofs, and
`tlc -config <name>.cfg <module>` for a counterexample of section 3.

## 1. Inventory

| Component | State | Operations | Talks to | Hard parts | What makes it correct |
|---|---|---|---|---|---|
| Deploy engine (`internal/deploy/engine.go`) | rows `deploys` and `apps`; containers; route files; one goroutine per deploy with copies of both rows | Deploy, Rollback, executeQueued, execute, failDeploy | Docker, proxy manager, builder, repositories, broadcaster | check and insert are two statements; goroutines work for minutes with old copies; failures in mid-switch; the process ends with goroutines running | the old container serves until the new one does; what the route names runs; one deploy per application; every deploy ends; rollback runs the old image |
| Deploy events (`event_broadcaster.go`) | map of channels per deploy | Subscribe, unsubscribe, Publish | event stream | sends happen outside the lock; slow readers are evicted | no silent gap, no double close, Publish never blocks |
| Event stream (`handlers/deploy.go`, StreamEvents) | one goroutine per browser | list, subscribe, forward, end | broadcaster, `deploy_events` rows | the seam between stored and live events; the end is noticed only after an event | order, no endless subscriptions |
| Start-up (`cmd/talos/main.go`, `store/migrations.go`) | environment file, process environment, schema, `schema_migrations` | key initialisation, migrate, serve | systemd or Docker, SQLite | each step of several writes may be the last | one encryption key per database; full schema when serving |
| General settings (`settings/service.go`) | environment file | Save | start-up of the next process | read, edit and rewrite in place without a lock | other lines survive |
| Application handlers and pages (`handlers/app.go`, `pages.go`) | rows `apps`, env vars, route files | Create, Update, Delete, Start/Stop/Restart, env vars, the status a page writes back | proxy manager, Docker, deploys | whole-row writes beside a deploy or another request; row and file are two steps; names that are used again | routes follow rows; deleted stays deleted; no row is written over another |
| Managed services (`services/`, `handlers/service.go`) | rows `services`, containers, volumes; one goroutine per creation | create, provision, stop, start, delete, buckets, links | Docker, Garage's admin API | a struct shared by handler and goroutine; deletion during provisioning | status tells the truth; credentials are never lost |
| Backups (`backup/manager.go`) | archives, rows `backups` | full backup, retention, delete, restore, scheduler | SQLite files under open connections | file and record are two steps; retention runs overlap; names of one second's resolution; the table is inside what is restored | every record has its archive; retention keeps the newest and no more |
| GitHub (`internal/github`, `handlers/github.go`, webhook in `server.go`) | lazily created client, connection columns of `apps`, workflow files, token cache | connect, disconnect, install, webhook, dispatch | GitHub, engine | retry window; webhooks late, twice or lost; stale rows written over a connection | a push deploys its application and never an older commit; disconnected means quiet |
| Builder, detection (`internal/builder`) | clone directories, images | clone, check out, detect, generate Dockerfile, build, clean up | Docker, git | builds of one commit share a directory; a crash leaves it; the branch moves on meanwhile | an image is of the commit in its name; the recipe fits the project |
| Docker client, proxy manager | none of their own (containers, route files) | start, stop, health; create, remove routes | Docker daemon, Traefik | files are rewritten in place | as the engine needs |
| Authentication, server wiring, pages, templates, logs, cryptography, scripts | users table, cookies | - | - | none a model checker would find | - |

`PROJECT.json` lists these with their sources under "components", and every
hazard with its line under "hazards".

## 2. The modules

| Module | Models | Extends / uses |
|---|---|---|
| `DeployEngine` | requests (deploy, rollback, update of access settings), the goroutine of each deploy, rows, containers, route files, crashes | - |
| `BlueGreen` | the promise about one deploy's status and the traffic | instantiated by `DeployEngine` (refinement `BG`) |
| `DeployEngineProofs` | theorems about routes, containers, rows and images, and the refinement | `DeployEngine`, TLAPS |
| `EventBroadcaster` | the subscription map, buffered channels, Publish one send at a time | - |
| `EventStream` | StreamEvents and emitEvent on top of the broadcaster | `EventBroadcaster` |
| `EventStreamProofs` | theorems about both | `EventStream`, TLAPS |
| `Startup` | the encryption key, the environment file, schema migrations, restarts, saving settings | - |
| `StartupProofs` | theorems | `Startup`, TLAPS |
| `ManagedServices` | requests about services, the goroutine of each creation, rows, containers by name, restarts | - |
| `ManagedServicesProofs` | theorems | `ManagedServices`, TLAPS |
| `BuilderProofs` | theorems | `Builder`, TLAPS |
| `AppLifecycle` | requests and pages that create, change and delete applications, their rows and route files, beside deploys | - |
| `AppLifecycleProofs` | theorems | `AppLifecycle`, TLAPS |
| `Backups` | backups, retention, deletion, restore and restarts | - |
| `BackupsProofs` | theorems | `Backups`, TLAPS |
| `ProjectDetection` | the four providers, the plan and the Dockerfile, as pure functions of a project | - |
| `Builder` | builds of one repository, their directories and images, pushes, crashes | `ProjectDetection` |
| `GitHubConnection` | the client, the connection in an application's row, workflow files, webhooks, the deploys they request | - |
| `GitHubConnectionProofs` | theorems | `GitHubConnection`, TLAPS |
| `MC...` | symmetry sets and values of constants for TLC | the module of that name |

### DeployEngine

| State | Code |
|---|---|
| `app[a]` | row of `apps`: access mode, fallback port (counted from 40001), `live_container_name` |
| `row[d]` | row of `deploys`: status, application, `image_ref`, `created_at` (`stamp`), and, as history, the deploy a rollback repeats |
| `req[h]` | local variables of an HTTP handler (`Trigger`, `Rollback`, `Update`), the GitHub webhook's included |
| `pc`, `snap`, `img` | program counter and copies of the goroutine started by `Deploy` or `Rollback` |
| `container[c]` | the container `talos-<app>-<deploy id>`; a deploy starts at most one, so it is denoted by its deploy |
| `route[a]` | what Traefik's file `<app>.yml` names; `Broken` is an empty or mangled file |
| `dead` | goroutines a crash has ended |

Every action is the code between two points at which another goroutine can see
the difference: one query or one statement, one call to Docker, one of the two
halves of rewriting a route file. `Receive` reads the application (GetApp),
`CheckInProgress` or `FindSuccessful` makes the second query, `CreateDeploy`
inserts and starts the goroutine; a handler may be given up between any two
(`Abort`). `Execute(d)` is `executeQueued` and `execute`, in the code's order.
An update of a row whose error the code drops may be lost (`"db" \in Faults`), a
container may refuse to stop (`"stop"`), a route file may be unwritable
(`"route"`). Images, environment variables and messages are abstracted; whether
a pull, a build or a health check succeeds is a choice.

### EventBroadcaster and EventStream

`subscribers`, `chan`, `buf` are the map and its channels; `targets` and `slow`
are Publish's local copies, which it uses outside the lock. Calls of Publish for
one deploy come from one goroutine, so at most one is under way. `since` and
`received` are history. `EventStream` adds the rows of `deploy_events` and of the
deploy, and the handler's steps: read the status, list, write the list,
subscribe, forward, recheck the status after each event, leave. Storing an event
may fail (the code only logs it).

### Startup

`env` is the set of keys in the environment file (the other lines share their
fate), `procEnv` the key in the environment of the process: systemd reads the
file at each start, a restarted container keeps the environment it was created
with. `os.WriteFile` truncates and then writes, so both writers of the file take
two steps. `applied` is the schema, `recorded` the table `schema_migrations`,
`max` the local variable of `migrate`. Most migrations are CREATE ... IF NOT EXISTS
and may be repeated; `Alters` are those that fail when repeated (the code's
versions that add a column: 10 to 12, 15, 18, 19 and 21 to 28). A start may be killed at any step (`MayStop`). Databases from before the tracking table have the migrations of this
release, which is what the code assumes of them; a database from before it that
lacks some would be misjudged without any crash.

### ManagedServices

| State | Code |
|---|---|
| `row[s]` | row of `services`: name, status, whether `container_id` is set, `credentials`; `deleted` is a row that is gone, ids are never used again (AUTOINCREMENT) |
| `cont[n]` | the container `talos-svc-<n>`: the credentials it was created with, and whether it runs |
| `work[s]`, `svc[s]` | the goroutine that `Create` starts, and the struct it shares with `Create` |
| `req[h]` | a handler's request and the copy of the row it read |
| `disturbed` | history: names on which two operations overlapped or one was cut short |

Every creation generates new credentials, so credentials are denoted by the id
they were generated for. The type of a service is told by its name: names in
`Garage` are object stores, whose goroutine goes on to create a service
`WebUI[n]`, the row `<name>-webui`. `Provision(s)` is `ProvisionService` in the
code's order; the struct's credentials, which the handler blanks after it has
started the goroutine, are blanked by a step of its own (`BlankCredentials`) that
may come at any time. `StopOrDelete`, `StartAgain` and the steps that save are
StopService, StartService, DeleteService and CreateBucket between their calls; a
request may be given up between any two (`Abort`). Pulling has no effect that
another goroutine sees, so it and the stop that follows it are one step. Docker,
the database and the disk may fail (`Faults`), and what Docker created but could
not start stays (`RunFails`).

### AppLifecycle

| State | Code |
|---|---|
| `app[i]`, `next` | rows of `apps` by id (name, type, domain), and AUTOINCREMENT |
| `file[n]` | the route file `<n>.yml`: to which application it leads a domain; `Empty` when it was truncated and not written |
| `req[h]` | what a handler is doing, and the row it has read |
| `deploy[i]` | the deploy in progress of an application, with its copy of the row |
| `settled` | history: applications whose last request had their name to itself and succeeded |

The deploy of `DeployEngine` is reduced to what concerns a row and its file:
`Deploy`, `UpdateRoute`, `SaveApp`, `DeployFails` (which may leave an emptied file). `SaveUpdate`, `SyncRoute` and `DeleteRow`,
`Unroute` are the two steps of Update and Delete, between which anybody may come.
`SyncNonManagedRoute` writes the route of an adopted application and leaves that
of a managed one to its deploys. `UpdateApp` is an UPDATE, so it brings no
deleted row back, and the errors two of its callers drop are choices.
`AppDetailPage` and `WriteStatus` are a page that looks at a container and writes
the whole row back. `DeleteApp` is the page's own way of deleting, which leaves
the route file; `GetForDelete` to `Unroute` is the API's.

### Backups

| State | Code |
|---|---|
| `archive[n]` | the file named after the second `n` its backup began in: being written, whole, cut short when it was closed, or spoilt (given up, or written by two); the database inside, and who still writes to it |
| `rows`, `next` | the table `backups` and its AUTOINCREMENT, which are part of the database that is restored |
| `pc[w]`, `job[w]` | each goroutine (handlers and scheduler) and its local variables; `doomed` is the list retention works through |
| `health` | what a restore has done to the database under its open connections |
| `past` | history: names whose file and row may differ, and why |

`CreateFullBackup` is `TakeSnapshot` (VACUUM INTO), `OpenArchive`, `WriteArchive`,
`Record`, then retention: `ListBackups`, and per backup `PurgeFile` and `PurgeRow`.
Delete and Restore follow the code in the same way. Disk and database may fail
(`Faults`), the process may end anywhere (`Restart`); `Mishaps` bounds failures,
restarts and restores together. A full disk may end `WriteArchive` in two ways: an
error that is seen ends the backup (`CreateFails`), one that comes when the writers are
closed is dropped, and an archive cut short is recorded. Restoring an archive that is
not whole either gets as far as the end of the database or loses it (`torn`). When two
write to one archive, either may have had the last word on the database in it. Volumes of services are a step without effect on
this state.

### ProjectDetection and Builder

A project is a record of what the providers look at: files of the root, lock
files, scripts, dependencies, main packages with their depth and order, Java
versions; a file that is not asked for is left out. `Detect`, `NodePlan`, `GoPlan`, `JavaPlan`, `StaticPlan` and
`GenerateDockerfile` are translated one by one. `Builder` runs them: `Request`
makes the directory of application and commit, `Clone` and `Checkout` are git's
(depth one, so only the head of the branch is there), `KeepDockerfile` or
`WriteDockerfile` follow, `DockerBuild` moves the image's name, and the deferred
removal takes two steps, between which another build may find some of the files.
A recipe has the install commands of both stages (`install`, `second`). The reference
definition `Fits` says which recipe a project calls for, without the order in which
the providers ask, and `SeesLocks` whether each install command runs where its lock
file has been copied; `Fits` says for which projects that is so (`Installs`).

### GitHubConnection

| State | Code |
|---|---|
| `client` | whether the key can be read, whether handlers and engine have a client, and whether the last attempt was less than thirty seconds ago |
| `row[a]` | build mode, installation and repository of the row in `apps` |
| `request[h]`, `deploy[a]` | handlers and deploys with the rows they have read |
| `head`, `grant`, `workflows`, `published` | GitHub: the newest commits, what is installed where, the workflow files Talos commits, and which images a workflow has pushed |
| `events` | webhooks under way: each may be lost, repeated and overtaken |
| `missed`, `settled` | history: why the newest commit may not be deployed; who was disconnected with nothing else under way |

`HandleCallback`, `SaveConnection` and `SetupWorkflow` are the callback that follows
an installation; `FindApp`, `Verified` and `Wanted` are the webhook's lookup by
installation and then by repository, its signature, and which build modes it
deploys; `ResolveCommit`, `Build`, `Pull` and `Finish` are the steps of a deploy that
matter here, the last of which writes the connection back as it was read.
GitHub's side is external and modelled from what Talos sends and expects.

## 3. The runs

All bounds are constants of the cfg: how many deploys, handlers, applications,
ports, crashes; how many subscribers, events and buffer places; how many
migrations and keys; how many seconds and backups, commits, webhooks under way.
The second column of the table gives them. A property that two instances of
`DeployEngine` could check is checked in one of them.

| Run | Instance | Shows |
|---|---|---|
| `engine_domain` | 1 application, 3 deploys, 2 handlers, deploy/rollback/update, route faults | `TypeOK`; `RouteServed`: the container a route names runs, although rollbacks and racing requests make deploys overlap; `ZeroDowntime`: a container is only stopped by its own unfinished deploy or by a successor that has been switched to |
| `engine_ports` | 2 applications, 2 deploys, 1 handler, deploy/rollback/update, external proxy, both modes, ports 40001-2, lost writes, stubborn containers, 1 crash | `LiveIsFinished`: a live container named by a row written back late is never one whose own deploy may still remove it, exclusive cutovers and overlapping rollbacks included; `SuccessorStops`; `ImplementsBlueGreen` |
| `engine_fair` | 1 application that Talos builds (2 images), 2 deploys, 1 handler, deploy/rollback, both modes, stop and route faults, `FairSpec` | `RollbackRunsSameImage`: a rollback of what Talos has built, whose reference is lost, fails before it has touched a container, and no other image is run in its place; `DeployEnds`: every deploy reaches a final status; `InProgressIsBacked`: a row in progress has a goroutine or handler that will end it (no crash in this run: `crash_stuck`) |
| `engine_overlap` | 1 application, 2 deploys, 2 handlers, deploy/rollback, a clock of whole seconds, lost writes, 1 crash, `FairSpec` | `DeploysExclude`: while requests come `Apart`, at most one deploy of an application is in progress |
| `streams` | 2 streams, 1 deploy, 4 events, buffers of 2, events that cannot be stored, `FairSpec` | `TypeOK`; `NoGaps`: a subscription never skips an event; `ClosedOnce`; `PublishReturns`; `StreamNeverGoesBack` (in order, at most one joint); `NoSubscriberLeaks` |
| `services` | 2 ids, 2 names (an object store's and its web interface's), 2 handlers, all requests, all faults, restarts | `TypeOK`; `NeverProvisionedAgain`: no row read earlier brings the status provisioning back; `CredentialsKept`: stored credentials of a database survive all overlapping whole-row writes; `ActiveRuns`: a service nobody has disturbed says active only if its own container runs |
| `startup` | 5 migrations (2 of them ALTER), 2 keys, 2 handlers, kills anywhere | `TypeOK`, `ServesWithOneKey`, `SchemaIsCompleteUnlessMisjudged` |
| `apps` | 2 names, 1 domain, managed and adopted, 2 handlers, 2 ids | `TypeOK`; `RoutesFollowRows`: whoever had a name to himself leaves the route file its row asks for, whatever others left behind; `RowsKeepTheirNames`; `DeletedStaysDeleted` |
| `backups` | 2 workers, 1 backup kept, 2 seconds, 3 ids, 2 mishaps (disk, database, restart, restore) | `TypeOK`; `ArchivesMatchRecords`: a backup is listed exactly if its archive was written to its end, unless something failed or two bore one name (that closing it may lose its last part unnoticed is `backup_cut_short`); `RetentionHolds`: overlapping runs with stale lists leave no more than are to be kept; `RetentionKeepsNewest`: nor fewer |
| `builds` | 1 application, 2 builds at a time, 2 commits, some sixty projects with their settings, 1 crash | `TypeOK`; `ImagesAreOfTheirCommit`; `OnlyCrashesLeaveDirectories`; `RecipesFit`: the generated Dockerfile is one the definition `Fits` calls for, and its installs see their lock files exactly for the projects of `Installs` |
| `github` | 1 application of either build mode, 2 repositories with names that contain each other, 1 installation, 1 handler, 3 commits, 2 webhooks under way, `FairSpec` | `TypeOK`; `DisconnectedStaysQuiet`; `NeverGoesBack`: late and repeated webhooks never put an older commit back; `ArrivesAtHead`: when all is quiet the newest commit runs, unless its webhook was lost, refused or overtaken or something failed; `ClientComesUp` |
| `race_two_requests` | 2 handlers | violates `OneDeployPerApp`, see below |

Why the bounds are enough for the cases of interest: three deploys are a
predecessor, a deploy and one that races with it (or repeats the first); two deploys
are a predecessor and its successor or rollback, or two that meet; two
handlers are two requests; two applications compete for one port; two events
overflow a buffer of two while a third and fourth come during eviction and
after it; two streams are one that lags or leaves beside one that reads; two ids
are a service beside its web interface, or a service and its successor under the
same name; two handlers are the request that creates and another, or two that
meet; one backup to be kept and three of them over two seconds are a purge
beside another, and two of one second; two mishaps are a failure and the restart
or restore that meets it; two commits are a build whose branch moves on; three
commits are two webhooks that overtake each other about a running deploy; two
requests for two ids and two names are a deletion, a successor of the same name
and a neighbour; two ALTERs beside three CREATEs put a crash before, between and after
each kind. What does not depend on a bound is proved (section 4).

Fairness. `FairSpec` asks for weak fairness of `Execute(d)` for each deploy: Go's
scheduler runs every runnable goroutine, and each call the goroutine waits for
has a timeout or an answer of Docker's or SQLite's. No fairness of handlers,
clients or crashes is assumed. `DeploysExclude` needs none; its run has it so that what
refuted it would be a behaviour that goes on to its end. In `EventStream`, `FairSpec` asks it of
the goroutine inside Publish only; readers may stop for ever. In `PublishReturns` a process that has
panicked counts as an end, see `send_on_closed`. In `GitHubConnection`, `FairSpec` says that
the thirty seconds pass and that pages which need the client are asked for
again; nothing is assumed of GitHub, webhooks or deploys.

CHECK_DEADLOCK is FALSE where ids of deploys, services, applications or backups, or
events, run out: the workload is bounded, the program is not. `startup`, `builds`
and `github` check for deadlock.

### Disagreements between code and documentation

The run `race_two_requests` is the one of them that `PROJECT.json` lists, as its
finding. The other configurations of this table are kept beside it and are run by
hand; each checks one property, and TLC prints a behaviour that violates it.

| Configuration, module, property | What TLC shows |
|---|---|
| `race_two_requests`, `MCDeployEngine`, `OneDeployPerApp` | Two requests query the newest deploy before either inserts its own: two deploys of one application run at once. Against `docs/architecture/deployment-flow.md:258`. |
| `rollback_image`, `MCDeployEngine`, `RollbackKeepsImage` | `prepareTalosBuild` sets `d.ImageRef`, `UpdateDeploy` does not store it; rolling back to such a deploy pulls `""`. Against `deployment-flow.md:223`. |
| `crash_stuck`, `MCDeployEngine`, `InProgressIsBacked` | The row of a deploy that a restart interrupted stays pending or running, and every later deploy is refused. Against `deployment-flow.md:215`. |
| `send_on_closed`, `MCEventBroadcaster`, `NeverSendsOnClosed` | A client disconnects while Publish is between its two critical sections; Publish sends on the closed channel and the process panics. Against `deploy_test.go:88`. |
| `schema_misjudged`, `MCStartup`, `SchemaIsComplete` | A start stopped between CREATE TABLE users and its record looks like a pre-tracking database to the next, which records all versions and serves without most tables. Against `docs/guide/upgrading.md:259`. |
| `backup_cut_short`, `MCBackups`, `ArchivesAreWhole` | `CreateFullBackup` drops the errors of closing the archive (`manager.go:93-95`), where what is still held is written: on a full disk an archive that lacks its end is recorded as completed (`manager.go:106`). |
| `install_without_lock`, `MCBuilder`, `InstallsSeeTheirLock` | The templates for Node copy `package-lock.json` only, so `pnpm install --frozen-lockfile` and `yarn install --frozen-lockfile` run in an image without the lock file they insist on. The second stage of a Node project with a build runs `npm ci` (`dockerfile.go:84`) whatever the package manager, so it fails for pnpm's and Yarn's projects once more, and for npm's without `package-lock.json`. Bun's fail when they have `bunfig.toml` and no `bun.lockb`. `Installs` in `Builder` names the projects that are left. Against `docs/architecture/components.md:127`, "Detects npm/yarn/pnpm/bun, runs install + build + start". |
| `push_refused`, `MCGitHubConnection`, `EveryPushDeploys` | A push arrives while a deploy of the application runs; its request is refused and nobody tries again, so the newest commit is never deployed. Against `docs/guide/first-deploy.md:48`, "every push to your app's configured branch will trigger an automatic deployment". |

Others met while modelling, visible in the same modules but without a run of
their own:

- `Rollback` never checks for a deploy in progress, and `GetLatestDeploy` orders
  by a timestamp of whole seconds, so two deploys overlap on these ways too.
- In port mode and with an external proxy the old container is stopped before
  the new one starts; a deploy that then fails leaves nothing running
  (`README.md:279` of the repository promises no downtime for failed deploys).
- `UpdateRoute` truncates the live route file before writing; a write that fails
  leaves it empty until a later deploy writes it. No property forbids it:
  `RouteServed` speaks of the containers that routes name, and in `AppLifecycle` a
  deploy takes its application out of `settled`.
- A rollback that has lost its image (`rollback_image`) fails when it pulls; an
  application that Talos builds can therefore never be rolled back to what it built.
- `Update` and the end of a deploy write the whole row of an application, over a
  live container or a port stored since; the unique index may refuse a deploy's
  last write, after which the row names the container before. A crash leaves
  containers nobody removes. These are states of `DeployEngine` that none of its
  properties calls wrong.
- A deploy requested between its predecessor's final status and `UpdateApp`
  does not know the predecessor's container, which then runs for ever.
- StreamEvents may miss an event stored and published between its list and its
  subscription, may end before the last event (the status is stored first), and
  may wait for an event that never comes.
- A crash between an ALTER TABLE and its record makes every later start fail on
  a duplicate column. Two saves of the settings at once, or a crash during one,
  can lose the encryption key's line, after which Talos refuses to start.
- `Create` of a service blanks the struct's credentials for its answer while the
  goroutine it started uses the struct: if it comes late, the service becomes
  active without stored credentials, and can neither show them nor be started
  again once it was stopped.
- Provisioning that fails before the pull, that cannot store its outcome or that a
  restart interrupts leaves the service in pending or provisioning for ever.
- A service deleted while it is provisioned leaves a running container without a
  row; overlapping requests about one name remove each other's container, so an
  active service may have none.
- `ProvisionService` creates a bucket for an object store but never records it in
  the credentials, although it encrypts and stores them again for that purpose.

Of applications:

- Neither way of deleting an application stops its container
  (`docs/features/app-management.md:174` says "The running container is stopped
  and removed"), and the page's leaves the route file as well. A deploy that is
  still running starts a container and writes a route nobody owns.
- A managed application whose domain is changed keeps the old route until its
  next deploy. An application named `talos-ui` would overwrite Talos' own route
  (`manager.go:178`); the model excludes the name.

Of backups:

- An archive that is not whole is restored all the same, as far as it goes:
  `extractFile` truncates the database before it reads, so a fault in that part of
  the archive leaves a torn or an empty one. The error comes too late.
- Restore leaves `talos.db-wal` in place, so the next open applies its frames to
  the restored file. A restore brings old values of AUTOINCREMENT back, so a
  deletion that is under way may delete another backup's record.
- Two backups of one second write the same archive and record it twice
  (`manager.go:48`). Retention deletes the record of a backup whose file it could
  not remove (`manager.go:133`), so that file stays for ever. Volumes are copied
  while their services run.

Of builds:

- Two builds of one commit share a directory, and the first to end removes it
  under the other; `ImagesAreOfTheirCommit` leaves these images out. The directory
  a crash leaves makes the next build of that commit fail, once. A build fails if
  its branch has moved on, because a clone of depth one has no older commit.
- Images are named after repository and commit, not application, so applications
  of one repository with different settings replace each other's image. The
  repository is cloned at the application's branch even if the deploy's commit is
  of another.
- The engine ignores the port a build returns. `effectivePlanPort` lets a
  configured port win over the provider's.
- Providers for Go and Java do not fail without their build files. `go.sum` and
  `bun.lockb` are copied whether or not there are any, the Node template for
  builds copies four output directories of which a project has one, Vite without
  a server starts a shell, and the images of Temurin have neither Maven nor Gradle.

Of GitHub:

- The callback takes the first repository whose name is a part of the
  application's URL, or else the first there is (`github.go:167`), so a workflow
  may be committed to, and the row connected with, another repository.
- Any finished workflow deploys, whatever it was; an application that Talos builds
  is then deployed by pulling an image nobody has pushed.
- The notify workflow posts `${{ github.repository_owner.id }}` (`workflow.go:236`),
  which GitHub does not have, so the webhook does not parse; and it does not sign what
  it posts, so a secret makes Talos refuse it. The deploy workflow tags its image
  with an expression in two braces (`github.go:234`), where the webhook expects
  seven digits of the commit.
- The manifest asks for no push events (`manifest.go:72`), and the credentials it
  yields are written to a file that is never read, although
  `docs/guide/first-deploy.md:46` says Talos will "store them for you".
- The end of a deploy and Update write the connection back as they read it, over
  one that was made or removed meanwhile. The webhook about an uninstallation
  changes nothing (`server.go:241`). Of several applications with one repository
  a webhook deploys only the first row.

## 4. What is proved

For all values of the constants that satisfy the modules' assumptions
(`EngineAssumption`, `StreamAssumption`, `StartupAssumption`, `ServicesAssumption`,
`LifecycleAssumption`, `BackupsAssumption`, `ConnectionAssumption`,
`BuilderAssumption`, `NoneIsNoRequest`, and in several modules `NoneIsNothing`, which
keeps None apart from what may stand in its place; all evaluated by TLC in the runs),
and under what a theorem assumes besides:

| Theorem | Statement |
|---|---|
| `DeployEngineProofs!TypeCorrect` | `Spec => []TypeOK` |
| `Inductive` | `Spec => []IInv` |
| `TrafficIsServed` | `Spec => []RouteServed` |
| `LiveIsOver` | `Spec => []LiveIsFinished` |
| `OnlySuccessorsStop` | `Spec => SuccessorStops` |
| `DomainsKeepRunning` | with the managed proxy and domain mode only, `Spec => ZeroDowntime` |
| `EngineImplementsBlueGreen` | `Spec => ImplementsBlueGreen`, with all faults, crashes and rollbacks |
| `InProgressIsBackedAlways` | with no crash and no lost write, `Spec => []InProgressIsBacked` |
| `EndedHasFinalStatus` | with no lost write, `Spec => [](a goroutine at its end has left a final status)` |
| `DeployNearsItsEnd` | `Spec => [][StepsCounted]_vars` |
| `RollbackRunsSameImageAlways` | `Spec => []RollbackRunsSameImage` |
| `DeploysExcludeAlways` | `Spec => DeploysExclude`, that is `[]Apart => []OneDeployPerApp` |
| `EventStreamProofs!StreamsInductive` | `Spec => []IInv` |
| `StreamsTyped` | `Spec => []TypeOK` |
| `SubscriptionsHaveNoGaps` | `Spec => []NoGaps` |
| `ChannelsClosedOnce` | `Spec => []ClosedOnce` |
| `StreamsKeepOrder` | `Spec => []StreamNeverGoesBack` |
| `OverMeansUnsubscribed` | `Spec => []NoSubscriberLeaks` |
| `PublishNearsItsReturn` | with finitely many streams, `Spec => [][SendsCounted]_vars` |
| `StartupProofs!StartupTyped` | `Spec => []TypeOK` |
| `StartupInductive` | `Spec => []IInv` |
| `OneKeyServes` | `Spec => []ServesWithOneKey` |
| `ServedSchemaIsComplete` | `Spec => []SchemaIsCompleteUnlessMisjudged` |
| `ManagedServicesProofs!ServicesTyped` | `Spec => []TypeOK` |
| `ServicesInductive` | `Spec => []IInv` |
| `ProvisionedOnce` | `Spec => NeverProvisionedAgain` |
| `CredentialsSurvive` | `Spec => CredentialsKept` |
| `ActiveServicesRun` | `Spec => []ActiveRuns` |
| `AppLifecycleProofs!AppTypes` | `Spec => []TypeOK` |
| `RowsKeepTheirNamesAlways` | `Spec => []RowsKeepTheirNames` |
| `DeletedStaysDeletedAlways` | `Spec => DeletedStaysDeleted` |
| `RoutesFollowRowsAlways` | `Spec => []RoutesFollowRows` |
| `GitHubConnectionProofs!ConnectionTypes` | `Spec => []TypeOK` |
| `DisconnectedStaysQuietAlways` | `Spec => []DisconnectedStaysQuiet` |
| `NeverGoesBackAlways` | `Spec => NeverGoesBack` |
| `ArrivesAtHeadAlways` | `Spec => []ArrivesAtHead` |
| `BuilderProofs!BuildsInductive` | `Spec => []IInv` |
| `BuilderTyped` | `Spec => []TypeOK` |
| `ImagesAreOfTheirCommitAlways` | `Spec => []ImagesAreOfTheirCommit` |
| `OnlyCrashesLeaveDirectoriesAlways` | `Spec => []OnlyCrashesLeaveDirectories` |
| `RecipesAlwaysFit` | `Spec => []RecipesFit` |
| `BackupsProofs!BackupsTyped` | `Spec => []TypeOK` |
| `BackupsInductive` | `Spec => []IInv` |
| `ArchivesAlwaysMatchRecords` | `Spec => []ArchivesMatchRecords` |
| `RetentionAlwaysHolds` | `Spec => []RetentionHolds` |
| `RetentionAlwaysKeepsNewest` | `Spec => RetentionKeepsNewest` |

The engine. `RouteServed` is not inductive: that the container a deploy stops is
not the one a route names depends on who may still name it. Two facts carry the
argument. First (`LiveSettled`), every copy of an application's row - the table,
a handler's, a goroutine's - names as live only a deploy that has run to its end,
because `UpdateApp` is the goroutine's last step and every other writer writes
back what it read. So the container a deploy stops belongs to a goroutine with
nothing left to do. Second (`Routed`, `OldUnrouted`), a route names only promoted
deploys of its application, and a deploy that is about to stop the old container
has itself overwritten the route since; a route can come to name a container only
by its own deploy's step, and that one is over. `Up` adds that a container runs
from its start to the end of its deploy. The action properties follow step by
step from the same invariant. `DomainsKeepRunning` needs the extra invariant that
no goroutine is at its exclusive cutover.

The refinement maps the status of the row and what has been switched to. Each
step of a goroutine changes at most one status (`Moves`) or nothing the abstract
engine sees (`Stutters`, `QuietStep`); `Phases` says what a row may say at each
step, lost updates included, and that is enough for every move to be an allowed
one. `InProgressIsBackedAlways` and `EndedHasFinalStatus` restrict the faults; the
first would be refuted by `crash_stuck` without that.

`RollbackRunsSameImageAlways` restricts nothing. A deploy has the image of its row, or
one that was built for it while the row says none, and a rollback has what the row of
the deploy it repeats says (`SameImages`). If that is nothing, `Rollback` starts
`execute` and not `executeQueued`, so nothing is built, and pulling nothing fails before
the goroutine has left the steps of `Untouched`.

`DeploysExcludeAlways` assumes of the environment what the code does not enforce, and
nothing else: `Apart` says that no two requests for one application are between their
check and their insert together, that a rollback comes when nothing is in progress, and
that deploys of one application are not created within one second. Any number of
handlers, updates, lost writes, crashes and applications is covered. `Exclusion` is the
invariant: a deploy in progress is the newest of its application, and while a request is
past its check there is none in progress. Each clause of `Apart` is needed: requests that check
together violate `OneDeployPerApp` in `race_two_requests`, and the other two are listed
in section 3.

Events. `Delivered`, on which `NoGaps` rests, is taken apart into what was received
and what is buffered. A target of the running Publish is exactly one event behind
(`Current`), everybody else in the map is up to date, so a send appends the next
event and an eviction loses only the end. A stream is the stored events of its
list and then those of its subscription; that the list is not ahead of the
subscription by more than the event about to be published bounds the joint.

Start-up. One key is left anywhere that can still matter (`OneKey`): in the file,
the process's environment, the handlers' copies, and the history; the exception
is a start that is about to replace it, and `Phases` says that happens only
while there is no database, hence before anything was encrypted. The record of
migrations lags the schema by at most one (`LagsByOne`), and a serving process has
left the loop, so both are complete - unless `misjudged`, which the first clause
of `SchemaTracked` carries.

Services. Stop, Start and CreateBucket write whole rows they read earlier, so both
properties depend on what such a row can say. They act only upon a row that has a
container id or credentials, and a row has neither before its provisioning has an
outcome (`RowsInv`); the goroutine, in turn, writes only while the row says
pending or provisioning, object stores excepted (`WorkInv`). So a request that
will write back (`WritesBack`) was made after the goroutine's last write, carries
the credentials that are stored, and never a status from before. Object stores
are excepted from `CredentialsKept` because their goroutine stores credentials a
second time, after the service has become active. For `ActiveRuns`, a name nobody
has disturbed has one operation at a time (`Alone`): a goroutine, beside which only
the answer of its own creation may be under way, or one request. `Known` says what
an operation that is about to store active knows of the container of that name,
and that it knows it still; steps for other names change nothing of it (`WorkStep`,
`AskStep`).

Applications. `HaveNames` says that there is one name for every id ever given out,
and that rows, copies and route files agree with it; so a late write is never over
another application, and what a name's files and rows have in common is an id. For
`RoutesFollowRows`, a request that has its name to itself knows the row
(`AloneInv`), and while an application is settled nobody is about to write its
file (`SettledInv`): every way of getting there goes through `Begin` or `Deploy`,
which look for others or unsettle it.

GitHub. A build ends with the newest commit there was when it cloned, for the clone
has no other, and one deploy of an application runs at a time; so an image that
waits to be finished is no older than what runs (`ImagedOK`), and no webhook, however
late, can change that. `QuietInv` says the same of a disconnected application: no
request or deploy has a connection to write back or a webhook to deploy, and
`FindApp` finds only rows that have a connection. `ArrivesAtHead` speaks only of
quiet states, so its invariant (`FollowInv`) follows the newest commit while it is
under way: as a webhook of the kind that the build mode calls for, by an installation,
hence signed; as a handler's request; as a deploy that ends with that commit or fails
in a way the history records; or it runs, and the deploy in progress, if any, can end
with no other (`Harmless`). A push begins this anew, and finds the commit unpublished
(`PublishedInv`). An application keeps its connection as long as nothing is recorded
against it, and whoever else takes up or gives up the same repository is recorded
(`RowKept`), so the webhook finds it and it alone. The attempt to prove this showed
what the `github` run is too small for: a webhook of an earlier connection that is
answered after the application has been connected to another repository still
deploys the image of the old one. The history now records that as it does a webhook of
an older commit.

Builds. Two builds that share a directory both know it (`Exclusive`), so one that
does not share has the directory of its commit to itself, and `FoundBy` says for
each step what it must find there: nothing, the whole of some commit, the whole of
its own, a Dockerfile. A directory that is found when a build begins alone has
nobody in it, hence was left by a crash (`LeftInv`). The type rests on lemmas about
detection over all projects: each provider makes a whole plan or fails
(`PlanOrNone`), and a plan gives a Dockerfile whatever the port (`PlanGivesRecipe`).
`RecipesFit` is one more such lemma (`RecipeFits`), proved provider by provider: the
two places that choose a package manager choose the same one, and the lock files its
installs see are those of `Installs` (`NodeFits`), the main
package Go is told to build is one that was found (`TargetExists`, which needs that a
set of numbers has a least element), and who is asked before whom when no type is set.
It becomes an invariant because a build alone in its directory finds there, until it
has been built, the Dockerfile it wrote for its own commit (`Untouched`).

Backups. Everything hangs on names and ids. A name that nothing has cut (no failure or
restart in between, no second backup of the same second, no restore under which archive
and row differ) belongs to one row
(`OneRow`) and to one worker that makes it (`MakingInv`), so archive and record are
written by one worker, and the three moments in which only one of the two is there are
that worker's own (`Half`). A removal takes the archive first (`RemovedInv`) and then a
row by its id, and that is the row it has read (`IdsInv`) because ids are not given out
twice - until a restore brings back an old table with its counter, which is where the
history stops promising. What an archive would restore is itself a table of that kind
(`SnapshotsSane`). For retention the argument is one of counting: a list that is taken
dooms all rows but those that are to be kept, a row that is added is paid for by a run
that is still to list (`RetentionHolds` is inductive with these), and what has been
doomed keeps its newer rows in the table or among those a user has deleted since
(`EnoughNewer`), since a run deletes the rows it has doomed and no newer ones. `FiniteInv`
keeps the counts finite for any set of workers.

Only model-checked: liveness (`DeployEnds`, `PublishReturns`, `ClientComesUp`), which
with ENABLED is beyond the proof system's reach. Every other property of a passing run
is proved. Of the first two, the part that is safety is proved as well. `StepsLeft`
counts what a goroutine has still to do: only its own steps change it, each lowers it
(`DeployNearsItsEnd`; that nobody else does needs that what a row repeats and the
image of a deploy that has begun are never written again), and at the end the status is final
(`EndedHasFinalStatus`). `SendsLeft` is the same for a Publish: it sends to the copy of
the map it took, so a subscription made meanwhile adds nothing (`PublishNearsItsReturn`).
What remains for TLC is that a goroutine which is at work always has a step to take.

## 5. Plan

1. Done: the engine with its refinement, events and streams, start-up, managed
   services, applications' life cycle, GitHub's connections, detection and builds,
   and backups, all with proofs.
2. Left to model: links between services and applications with the variables they
   inject, the token cache, restarts of containers by hand, applications with an
   external address.
3. Left to prove: variants, as for a deploy and a Publish, for the other workers with
   a bounded amount of work (a build, a backup, the provisioning of a service).

## 6. What is not modelled

Listed per component in `PROJECT.json`. Requests to GitHub and Garage, logs and
rendering (`web/`, most of `pages.go`) are pure input and output; signed cookies,
sessions and hashes keep no state that interleaves; environment variables and links
are rows that are replaced whole and read when a deploy begins;
`internal/backup/service.go` has no caller. Text formats are abstracted throughout,
with exceptions where they matter: a route file or an environment file that is
being rewritten is empty in between and may keep the tail of a longer text, and
commands of a Dockerfile are told apart by the tool and the lock file they need.
Of GitHub's behaviour only what the code relies on is modelled. `Disconnect` reads
and writes a row in one step of the model. The page that creates an application
(`pages.go:317-330`) may connect it at once, with an installation and a repository
from two independent fields of its form; that the row then has both or neither rests
on the form, and this path is not part of `GitHubConnection`, whose type invariant
speaks of the callback's connections.
