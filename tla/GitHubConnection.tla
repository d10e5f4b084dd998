--------------------------- MODULE GitHubConnection ---------------------------
(***************************************************************************)
(* How an application is connected to a repository on GitHub and deployed  *)
(* when somebody pushes (internal/server/handlers/github.go, the webhook   *)
(* of internal/server/server.go, internal/github): the client that is made *)
(* when it can be, the callback that writes a connection into the row of   *)
(* an application, and the webhooks that look for an application by it.    *)
(*                                                                         *)
(* The commits of the branch an application is deployed from are numbered. *)
(* Webhooks of other branches are dropped by the branch guard, and those   *)
(* the notify workflow posts do not parse (they name an expression GitHub  *)
(* does not have), so neither is shown. No application is named like a     *)
(* repository, so the lookup by name finds nothing. A deploy of an image   *)
(* given by hand, and what happens inside a deploy, are the subjects of    *)
(* DeployEngine and Builder.                                               *)
(***************************************************************************)
EXTENDS Naturals, FiniteSets

CONSTANTS
  Apps,           \* applications, all of them managed
  Repos,          \* repositories
  Url,            \* the repository each application's URL names
  Contains,       \* pairs <<r, q>>: the name of r is a part of the URL of q
  Installations,  \* ids GitHub gives to installations of the GitHub App
  Secret,         \* whether a webhook secret is set
  Handlers,       \* goroutines of requests
  LastCommit,     \* bounds on the commits of each repository
  MaxEvents,      \* bound on the webhooks under way
  None            \* no id, no deploy

ASSUME ConnectionAssumption ==
  /\ Url \in [Apps -> Repos]
  /\ Contains \subseteq Repos \X Repos /\ \A r \in Repos : <<r, r>> \in Contains
  /\ None \notin Repos \cup Installations
  /\ Secret \in BOOLEAN
  /\ LastCommit \in [Repos -> Nat \ {0}] /\ MaxEvents \in Nat

VARIABLES
  client,     \* the GitHub client, and the file its key is in
  row,        \* the build mode and the connection in the table apps
  request,    \* what each handler is doing
  deploy,     \* the deploy of each application that is in progress
  deployed,   \* the commit each application was last deployed from
  head,       \* GitHub: the newest commit of each repository
  grant,      \* GitHub: the repositories of each installation
  workflows,  \* GitHub: the workflow files Talos committed
  published,  \* the registry: commits whose image a workflow has pushed
  events,     \* the network: webhooks under way
  missed,     \* history: why the newest commit may never be deployed
  settled     \* history: applications that were disconnected with nothing else under way

vars == <<client, row, request, deploy, deployed, head, grant, workflows, published, events,
          missed, settled>>
talos == <<client, row, request, deploy, deployed>>
github == <<head, grant, workflows, published>>

-----------------------------------------------------------------------------
Commits == UNION {1..LastCommit[r] : r \in Repos}
Row == [mode : {"talos_build", "external_ci"}, inst : Installations \cup {None}, repo : Repos \cup {None}]
\* Faulty: the repository alone is stored.
Connected_RepoOnly(a, i, r) == [row[a] EXCEPT !.repo = r]

Connected(a, i, r) == [row[a] EXCEPT !.inst = i, !.repo = r]

\* push and workflow_run webhooks.  inst: the installation they come by; those a workflow
\* posts have none.
Event == [kind : {"push", "workflow_run"}, repo : Repos, commit : Commits,
          inst : Installations \cup {None}]

\* copy: the row it was requested with.  pull: whether the image is pulled or built.
\* commit: None before the head of the branch is resolved.
Deploy == [copy : Row, repo : Repos, commit : Commits \cup {None}, pull : BOOLEAN,
           by : {"webhook", "manual"}, step : {"queued", "imaged"}]

Request == [does : {"save", "workflow", "update"}, app : Apps, copy : Row]
             \cup [does : {"deploy"}, app : Apps, event : Event]

ASSUME NoneIsNothing == None \notin Commits \cup Deploy \cup Request

\* Why the newest commit may never be deployed: nothing, because a deploy was refused while
\* another was in progress, or something else has gone wrong or has changed.
Causes == {"nothing", "refused", "other"}

\* Every variable keeps its type, and what the callback connects has both an installation
\* and a repository.  (The page that creates an application takes the two from fields of its
\* form, pages.go:317-330; it is not part of this module.)
TypeOK ==
  /\ client \in [key : BOOLEAN, handlers : BOOLEAN, engine : BOOLEAN, recent : BOOLEAN]
  /\ row \in [Apps -> Row]
  /\ request \in [Handlers -> Request \cup {None}]
  /\ deploy \in [Apps -> Deploy \cup {None}]
  /\ deployed \in [Apps -> [repo : Repos, commit : Commits] \cup {None}]
  /\ head \in [Repos -> Commits]
  /\ grant \in [Installations -> (SUBSET Repos) \cup {None}]
  /\ workflows \in [Repos -> SUBSET {"talos-notify.yml", "talos-deploy.yml"}]
  /\ published \in SUBSET (Repos \X Commits)
  /\ events \in SUBSET Event
  /\ missed \in [Apps -> Causes]
  /\ settled \in SUBSET Apps
  /\ \A a \in Apps : row[a].inst = None <=> row[a].repo = None
  /\ client.engine => client.key

\* main makes the client if it can read the key.  missed: the commits there are before an
\* application is connected are not deployed.
Init ==
  /\ \E key \in BOOLEAN :
       client = [key |-> key, handlers |-> key, engine |-> key, recent |-> FALSE]
  /\ row \in [Apps -> {c \in Row : c.inst = None /\ c.repo = None}]
  /\ request = [h \in Handlers |-> None]
  /\ deploy = [a \in Apps |-> None] /\ deployed = [a \in Apps |-> None]
  /\ head = [r \in Repos |-> 1]
  /\ grant = [i \in Installations |-> None]
  /\ workflows = [r \in Repos |-> {}] /\ published = {}
  /\ events = {}
  /\ missed = [a \in Apps |-> "other"] /\ settled = {}

Idle(h) == request[h] = None
Does(h, what) == request[h] # None /\ request[h].does = what
Continue(h, r) == request' = [request EXCEPT ![h] = r]
End(h) == request' = [request EXCEPT ![h] = None]

\* History: a is no longer sure to get its newest commit.
Excuse(A) == missed' = [a \in Apps |-> IF a \in A THEN "other" ELSE missed[a]]
Of(r) == {a \in Apps : Url[a] = r}
IsHead(r, c) == c = head[r]

-----------------------------------------------------------------------------
(***************************************************************************)
(* The client.  recent: the last attempt was less than thirty seconds ago. *)
(***************************************************************************)
KeyArrives ==
  /\ ~client.key
  /\ client' = [client EXCEPT !.key = TRUE]
  /\ UNCHANGED <<row, request, deploy, deployed, github, events, missed, settled>>

WindowPasses ==
  /\ client.recent
  /\ client' = [client EXCEPT !.recent = FALSE]
  /\ UNCHANGED <<row, request, deploy, deployed, github, events, missed, settled>>

\* Faulty: the new client is not handed to the engine.
GetClient_KeepsToItself ==
  /\ ~client.handlers /\ ~client.recent
  /\ client' = [client EXCEPT !.recent = TRUE, !.handlers = client.key]
  /\ UNCHANGED <<row, request, deploy, deployed, github, events, missed, settled>>

\* Every page that needs the client calls this first.
GetClient ==
  /\ ~client.handlers /\ ~client.recent
  /\ client' = [client EXCEPT !.recent = TRUE, !.handlers = client.key, !.engine = client.key]
  /\ UNCHANGED <<row, request, deploy, deployed, github, events, missed, settled>>

-----------------------------------------------------------------------------
(***************************************************************************)
(* GitHub.                                                                 *)
(***************************************************************************)
InstallationsOf(r) == {i \in Installations : grant[i] # None /\ r \in grant[i]}

\* GitHub sends its webhooks to the GitHub App where it is installed.
Hooks(kind, r, c) == [kind : {kind}, repo : {r}, commit : {c}, inst : InstallationsOf(r)]

Send(E) == events' = events \cup E /\ Cardinality(events \cup E) <= MaxEvents

\* After a push the new commit is expected to be deployed by the applications that are
\* connected to the repository.
ExpectDeploys(r) ==
  missed' = [a \in Apps |->
               IF Url[a] # r THEN missed[a]
               ELSE IF row[a].repo = r /\ InstallationsOf(r) # {} THEN "nothing" ELSE "other"]

NewCommit(r) ==
  /\ head[r] < LastCommit[r]
  /\ head' = [head EXCEPT ![r] = @ + 1]
  /\ Send(Hooks("push", r, head[r] + 1))
  /\ ExpectDeploys(r)

Push(r) ==
  /\ NewCommit(r)
  /\ UNCHANGED <<talos, grant, workflows, published, settled>>

\* Of a repository that has the deploy workflow, its tag corrected by hand (the one Talos
\* writes is no valid reference, github.go:234): the image is pushed, then the workflow posts to
\* Talos, and GitHub reports that it has completed.
DeployWorkflow(r, c) ==
  /\ "talos-deploy.yml" \in workflows[r]
  /\ c <= head[r] /\ <<r, c>> \notin published
  /\ published' = published \cup {<<r, c>>}
  /\ Send(Hooks("workflow_run", r, c)
            \cup {[kind |-> "workflow_run", repo |-> r, commit |-> c, inst |-> None]})
  /\ UNCHANGED <<talos, head, grant, workflows, missed, settled>>

\* GitHub reports every workflow of a repository, the notify workflow among them.
OtherWorkflow(r) ==
  /\ Send(Hooks("workflow_run", r, head[r]))
  /\ UNCHANGED <<talos, github, missed, settled>>

\* An id is used once.  A repository is in one installation.
Install(i) ==
  /\ grant[i] = None
  /\ \E R \in (SUBSET Repos) \ {{}} :
       /\ \A r \in R : InstallationsOf(r) = {}
       /\ grant' = [grant EXCEPT ![i] = R]
  /\ UNCHANGED <<talos, head, workflows, published, events, missed, settled>>

\* The webhook that reports it changes nothing (server.go:241).
Uninstall(i) ==
  /\ grant[i] \notin {None, {}}
  /\ grant' = [grant EXCEPT ![i] = {}]
  /\ Excuse({a \in Apps : Url[a] \in grant[i]})
  /\ UNCHANGED <<talos, head, workflows, published, events, settled>>

Lose(e) ==
  /\ events' = events \ {e}
  /\ Excuse(IF IsHead(e.repo, e.commit) THEN Of(e.repo) ELSE {})
  /\ UNCHANGED <<talos, github, settled>>

-----------------------------------------------------------------------------
(***************************************************************************)
(* Webhooks.                                                               *)
(***************************************************************************)
GetAppByInstallationAndRepo(i, r) == {a \in Apps : row[a].inst = i /\ row[a].repo = r}
GetAppByGitHubRepoID(r) == {a \in Apps : row[a].repo = r}

\* Either query returns the first row SQLite comes upon.
FindApp(e) ==
  LET exact == IF e.inst = None THEN {} ELSE GetAppByInstallationAndRepo(e.inst, e.repo)
  IN  IF exact # {} THEN exact ELSE GetAppByGitHubRepoID(e.repo)

\* What a workflow posts is not signed.
Verified(e) == Secret => e.inst # None

\* Faulty: finished workflows, too, deploy only what Talos builds.
Wanted_OnlyTalosBuild(a, e) == row[a].mode = "talos_build"

\* A push deploys what Talos builds, a finished workflow whatever it finds.
Wanted(a, e) == e.kind = "push" => row[a].mode = "talos_build"

\* A webhook may be delivered again, and later than younger ones.
Webhook(h, e) ==
  /\ Idle(h)
  /\ events' \in {events, events \ {e}}
  /\ \/ /\ Verified(e)
        /\ \E a \in FindApp(e) : Wanted(a, e) /\ Continue(h, [does |-> "deploy", app |-> a, event |-> e])
     \/ /\ ~Verified(e) \/ \A a \in FindApp(e) : ~Wanted(a, e)
        /\ UNCHANGED request
  /\ UNCHANGED <<client, row, deploy, deployed, github, missed, settled>>

NewDeploy(a, e) ==
  [copy |-> row[a], repo |-> e.repo, commit |-> e.commit, pull |-> e.kind = "workflow_run",
   by |-> "webhook", step |-> "queued"]

\* Engine.Deploy; DeployEngine shows what falls between its check and its insert.
StartDeploy(h) ==
  LET a == request[h].app
      e == request[h].event
  IN  /\ Does(h, "deploy")
      /\ End(h)
      /\ IF deploy[a] = None
         THEN /\ deploy' = [deploy EXCEPT ![a] = NewDeploy(a, e)]
              /\ IF e.kind = "workflow_run" /\ ~(e.repo = Url[a] /\ IsHead(e.repo, e.commit))
                 THEN Excuse({a}) ELSE UNCHANGED missed
         ELSE /\ UNCHANGED deploy
              /\ missed' = [missed EXCEPT ![a] = IF @ = "nothing" THEN "refused" ELSE @]
      /\ UNCHANGED <<client, row, deployed, github, events, settled>>

\* Of an application that Talos builds: the commit is resolved by the goroutine.
Trigger(a) ==
  /\ row[a].mode = "talos_build" /\ deploy[a] = None
  /\ deploy' = [deploy EXCEPT ![a] = [copy |-> row[a], repo |-> Url[a], commit |-> None, pull |-> FALSE,
                                      by |-> "manual", step |-> "queued"]]
  /\ UNCHANGED <<client, row, request, deployed, github, events, missed, settled>>

-----------------------------------------------------------------------------
(***************************************************************************)
(* The goroutine of a deploy.                                              *)
(***************************************************************************)
Queued(a) == deploy[a] # None /\ deploy[a].step = "queued"

\* The engine has a client, and the installation a token for the repository.
CanReach(a) ==
  /\ client.engine
  /\ deploy[a].copy.inst # None /\ Url[a] \in grant[deploy[a].copy.inst]

ResolveCommit(a) ==
  /\ Queued(a) /\ deploy[a].commit = None /\ CanReach(a)
  /\ deploy' = [deploy EXCEPT ![a].commit = head[Url[a]]]
  /\ UNCHANGED <<client, row, request, deployed, github, events, missed, settled>>

\* Faulty: whatever the clone contains is built.
Build_AnyCommit(a) ==
  /\ Queued(a) /\ ~deploy[a].pull /\ deploy[a].commit # None /\ CanReach(a)
  /\ deploy' = [deploy EXCEPT ![a].step = "imaged"]
  /\ UNCHANGED <<client, row, request, deployed, github, events, missed, settled>>

\* A clone of depth one, from which the commit is checked out.
Build(a) ==
  /\ Queued(a) /\ ~deploy[a].pull /\ deploy[a].commit # None /\ CanReach(a)
  /\ deploy[a].repo = Url[a] /\ IsHead(Url[a], deploy[a].commit)
  /\ deploy' = [deploy EXCEPT ![a].step = "imaged"]
  /\ UNCHANGED <<client, row, request, deployed, github, events, missed, settled>>

Pull(a) ==
  /\ Queued(a) /\ deploy[a].pull
  /\ <<deploy[a].repo, deploy[a].commit>> \in published
  /\ deploy' = [deploy EXCEPT ![a].step = "imaged"]
  /\ UNCHANGED <<client, row, request, deployed, github, events, missed, settled>>

\* Any step may fail.  It has to where the commit is not in the clone, the image not in the
\* registry, or the repository out of reach.
DeployFails(a) ==
  LET d == deploy[a]
      hadTo == IF d.pull THEN <<d.repo, d.commit>> \notin published
               ELSE d.commit # None /\ (d.repo # Url[a] \/ ~IsHead(Url[a], d.commit))
  IN  /\ d # None
      /\ deploy' = [deploy EXCEPT ![a] = None]
      /\ IF hadTo THEN UNCHANGED missed ELSE Excuse({a})
      /\ UNCHANGED <<client, row, request, deployed, github, events, settled>>

\* Whoever shares one of the repositories may have lost a webhook to a, or to the others.
SetRow(a, c) ==
  /\ row' = [row EXCEPT ![a] = c]
  /\ IF row[a] = c THEN UNCHANGED missed
     ELSE Excuse({b \in Apps : b = a \/ Url[b] \in {row[a].repo, c.repo}})

\* UpdateApp writes the row the deploy was requested with.
Finish(a) ==
  /\ deploy[a] # None /\ deploy[a].step = "imaged"
  /\ deployed' = [deployed EXCEPT ![a] = [repo |-> deploy[a].repo, commit |-> deploy[a].commit]]
  /\ SetRow(a, deploy[a].copy)
  /\ deploy' = [deploy EXCEPT ![a] = None]
  /\ UNCHANGED <<client, request, github, events, settled>>

-----------------------------------------------------------------------------
(***************************************************************************)
(* Connecting and disconnecting.                                           *)
(***************************************************************************)

\* The first repository of the installation whose name is in the URL, else the first.
MatchedRepos(a, i) ==
  LET matching == {r \in grant[i] : <<r, Url[a]>> \in Contains}
  IN  IF matching # {} THEN matching ELSE grant[i]

HandleCallback(h) ==
  /\ Idle(h) /\ client.handlers
  /\ \E a \in Apps, i \in Installations :
       /\ grant[i] \notin {None, {}}
       /\ \E r \in MatchedRepos(a, i) :
            Continue(h, [does |-> "save", app |-> a, copy |-> Connected(a, i, r)])
       /\ settled' = settled \ {a}
  /\ UNCHANGED <<client, row, deploy, deployed, github, events, missed>>

SaveConnection(h) ==
  /\ Does(h, "save")
  /\ SetRow(request[h].app, request[h].copy)
  /\ Continue(h, [request[h] EXCEPT !.does = "workflow"])
  /\ UNCHANGED <<client, deploy, deployed, github, events, settled>>

\* The file is committed to the default branch.
SetupWorkflow(h) ==
  LET a == request[h].app
      r == request[h].copy.repo
      file == IF row[a].mode = "talos_build" THEN "talos-notify.yml" ELSE "talos-deploy.yml"
  IN  /\ Does(h, "workflow")
      /\ r \in grant[request[h].copy.inst]
      /\ workflows' = [workflows EXCEPT ![r] = @ \cup {file}]
      /\ NewCommit(r)
      /\ End(h)
      /\ UNCHANGED <<client, row, deploy, deployed, grant, published, settled>>

\* The database or GitHub refuses.  If it is the workflow that cannot be committed, the
\* application stays connected.
RequestFails(h) ==
  /\ ~Idle(h)
  /\ End(h)
  /\ IF Does(h, "deploy") THEN Excuse({request[h].app}) ELSE UNCHANGED missed
  /\ UNCHANGED <<client, row, deploy, deployed, github, events, settled>>

\* Requests and deploys that have a connection to write, or a webhook to deploy.
Pending(a) == deploy[a] # None \/ \E h \in Handlers : ~Idle(h) /\ request[h].app = a

\* Faulty: forgets the installation, and keeps the repository.
Disconnect_KeepsRepo(a) ==
  /\ SetRow(a, [row[a] EXCEPT !.inst = None])
  /\ settled' = IF Pending(a) THEN settled ELSE settled \cup {a}
  /\ UNCHANGED <<client, request, deploy, deployed, github, events>>

Disconnect(a) ==
  /\ SetRow(a, Connected(a, None, None))
  /\ settled' = IF Pending(a) THEN settled ELSE settled \cup {a}
  /\ UNCHANGED <<client, request, deploy, deployed, github, events>>

\* AppHandler.Update writes the connection back as it has read it.
ReadForUpdate(h) ==
  /\ Idle(h)
  /\ \E a \in Apps : Continue(h, [does |-> "update", app |-> a, copy |-> row[a]])
  /\ UNCHANGED <<client, row, deploy, deployed, github, events, missed, settled>>

WriteUpdate(h) ==
  /\ Does(h, "update")
  /\ SetRow(request[h].app, request[h].copy)
  /\ End(h)
  /\ UNCHANGED <<client, deploy, deployed, github, events, settled>>

-----------------------------------------------------------------------------
Execute(a) == ResolveCommit(a) \/ Build(a) \/ Pull(a) \/ DeployFails(a) \/ Finish(a)

Serve(h) ==
  \/ \E e \in events : Webhook(h, e)
  \/ StartDeploy(h)
  \/ HandleCallback(h) \/ SaveConnection(h) \/ SetupWorkflow(h)
  \/ ReadForUpdate(h) \/ WriteUpdate(h)
  \/ RequestFails(h)

GitHub ==
  \/ \E r \in Repos : Push(r) \/ OtherWorkflow(r) \/ \E c \in Commits : DeployWorkflow(r, c)
  \/ \E i \in Installations : Install(i) \/ Uninstall(i)
  \/ \E e \in events : Lose(e)

Next ==
  \/ KeyArrives \/ WindowPasses \/ GetClient
  \/ GitHub
  \/ \E h \in Handlers : Serve(h)
  \/ \E a \in Apps : Execute(a) \/ Trigger(a) \/ Disconnect(a)

Spec == Init /\ [][Next]_vars

\* Time passes, and pages are asked for again.
FairSpec == Spec /\ WF_vars(WindowPasses) /\ WF_vars(GetClient)

-----------------------------------------------------------------------------
\* An application Talos builds runs a commit of the repository its URL names and, rollbacks
\* apart, is never put back to an older one: however late or often webhooks arrive, whichever
\* repository it was connected to, and whoever pushes meanwhile.  (Where a workflow publishes
\* images, a webhook has these pulled instead.)
NeverGoesBack ==
  [][\A a \in Apps :
       row[a].mode = "talos_build" /\ published = {} /\ deployed'[a] # deployed[a] =>
         /\ deployed'[a].repo = Url[a]
         /\ deployed[a] # None => deployed'[a].commit >= deployed[a].commit]_vars

\* An application that was disconnected while nothing else wrote its row stays so, and no
\* webhook deploys it, neither by its installation nor by its repository.
DisconnectedStaysQuiet ==
  \A a \in settled :
    /\ row[a] = Connected(a, None, None)
    /\ deploy[a] # None => deploy[a].by = "manual"
    /\ \A h \in Handlers : Does(h, "deploy") => request[h].app # a

\* a alone is connected to its repository, and what it is deployed from can be had.
Working(a) ==
  /\ GetAppByGitHubRepoID(Url[a]) = {a}
  /\ IF row[a].mode = "talos_build" THEN client.engine ELSE <<Url[a], head[Url[a]]>> \in published

Quiet(a) == ~Pending(a) /\ \A e \in events : e.repo # Url[a]

AtHead(a) == deployed[a] = [repo |-> Url[a], commit |-> head[Url[a]]]

\* When everything under way has ended, an application runs the newest commit of its
\* repository, unless the webhook for it was lost, refused because of another deploy, or
\* overtaken by that of an older commit or of an earlier connection, its deploy failed, or the
\* connection has changed since the push.
ArrivesAtHead ==
  \A a \in Apps : Working(a) /\ Quiet(a) /\ missed[a] = "nothing" => AtHead(a)

\* docs/guide/first-deploy.md:48: every push to the configured branch triggers a deployment.
EveryPushDeploys ==
  \A a \in Apps : Working(a) /\ Quiet(a) /\ missed[a] # "other" => AtHead(a)

\* A key that becomes readable after the start reaches the engine.
ClientComesUp == client.key ~> client.engine

=============================================================================
