------------------------ MODULE GitHubConnectionProofs ------------------------
(***************************************************************************)
(* Proofs about GitHubConnection, for any applications, repositories,      *)
(* installations and handlers, and any number of commits and webhooks: an  *)
(* application Talos builds never goes back to an older commit, one that   *)
(* was disconnected stays quiet, and when all is quiet the newest commit   *)
(* runs.                                                                   *)
(***************************************************************************)
EXTENDS GitHubConnection, TLAPS

\* A row, or a copy of one, has both parts of a connection or none.
Whole(c) == c.inst = None <=> c.repo = None

\* What a handler is about to write is whole, and that of a callback is a connection.
Sound(r) == r.does # "deploy" => Whole(r.copy) /\ (r.does # "update" => r.copy.inst # None)

ClientOK ==
  /\ client \in [key : BOOLEAN, handlers : BOOLEAN, engine : BOOLEAN, recent : BOOLEAN]
  /\ client.engine => client.key
RowOK == row \in [Apps -> Row] /\ \A a \in Apps : Whole(row[a])
RequestOK ==
  /\ request \in [Handlers -> Request \cup {None}]
  /\ \A h \in Handlers : request[h] # None => Sound(request[h])
DeployOK ==
  /\ deploy \in [Apps -> Deploy \cup {None}]
  /\ \A a \in Apps : deploy[a] # None => Whole(deploy[a].copy)
DeployedOK == deployed \in [Apps -> [repo : Repos, commit : Commits] \cup {None}]
GitHubOK ==
  /\ head \in [Repos -> Commits]
  /\ grant \in [Installations -> (SUBSET Repos) \cup {None}]
  /\ workflows \in [Repos -> SUBSET {"talos-notify.yml", "talos-deploy.yml"}]
  /\ published \in SUBSET (Repos \X Commits)
EventsOK == events \in SUBSET Event
HistoryOK == missed \in [Apps -> Causes] /\ settled \in SUBSET Apps

Types ==
  ClientOK /\ RowOK /\ RequestOK /\ DeployOK /\ DeployedOK /\ GitHubOK /\ EventsOK /\ HistoryOK

\* An image is of a commit, and while nothing is published it was built: from the newest
\* commit there was then, which is no older than what runs.
ImagedOK ==
  \A a \in Apps : deploy[a] # None /\ deploy[a].step = "imaged" =>
    /\ deploy[a].commit \in Commits
    /\ published = {} =>
         /\ deploy[a].repo = Url[a] /\ deploy[a].commit <= head[Url[a]]
         /\ deployed[a] # None => deployed[a].commit <= deploy[a].commit

\* What runs is of a commit there is.
HeadOK ==
  \A a \in Apps : deployed[a] # None /\ published = {} =>
    deployed[a].repo = Url[a] /\ deployed[a].commit <= head[Url[a]]

\* Nobody is about to connect or deploy an application that is settled.
QuietInv ==
  \A a \in settled :
    /\ row[a].inst = None /\ row[a].repo = None
    /\ deploy[a] # None => deploy[a].by = "manual" /\ deploy[a].copy.inst = None
    /\ \A h \in Handlers : request[h] # None /\ request[h].app = a =>
         request[h].does = "update" /\ request[h].copy.inst = None

IInv == Types /\ ImagedOK /\ HeadOK /\ QuietInv

-----------------------------------------------------------------------------
USE ConnectionAssumption DEF Row, Deploy, Request, Event, talos, github

LEMMA CommitFacts ==
  /\ Commits \subseteq Nat
  /\ \A r \in Repos : 1 \in Commits
  /\ \A r \in Repos, c \in Nat : c < LastCommit[r] => c + 1 \in Commits
<1>1. \A r \in Repos : LastCommit[r] \in Nat \ {0}
  OBVIOUS
<1>2. Commits \subseteq Nat
  BY <1>1 DEF Commits
<1>3. ASSUME NEW r \in Repos, NEW c \in 1..LastCommit[r] PROVE c \in Commits
  BY DEF Commits
<1>4. \A r \in Repos : 1 \in 1..LastCommit[r]
  BY <1>1
<1>5. ASSUME NEW r \in Repos, NEW c \in Nat, c < LastCommit[r] PROVE c + 1 \in 1..LastCommit[r]
  BY <1>1, <1>5
<1> QED BY <1>2, <1>3, <1>4, <1>5

LEMMA Unchanged ==
  ASSUME IInv
  PROVE  /\ UNCHANGED client => ClientOK'
         /\ UNCHANGED row => RowOK'
         /\ UNCHANGED request => RequestOK'
         /\ UNCHANGED deploy => DeployOK'
         /\ UNCHANGED deployed => DeployedOK'
         /\ UNCHANGED <<head, grant, workflows, published>> => GitHubOK'
         /\ UNCHANGED events => EventsOK'
         /\ UNCHANGED <<missed, settled>> => HistoryOK'
         /\ UNCHANGED <<row, deploy, request, settled>> => QuietInv'
<1> HIDE DEF Row, Deploy, Request, Event
<1> QED
  BY DEF IInv, Types, ClientOK, RowOK, RequestOK, DeployOK, DeployedOK, GitHubOK, EventsOK,
         HistoryOK, QuietInv, Sound, Whole

\* Commits and images are added, never taken away.
LEMMA ImagedKept ==
  ASSUME IInv, UNCHANGED <<deploy, deployed>>, published \subseteq published',
         GitHubOK', \A r \in Repos : head[r] <= head'[r]
  PROVE  ImagedOK' /\ HeadOK'
<1>1. published' = {} => published = {}
  OBVIOUS
<1>2. \A r \in Repos : head[r] \in Nat /\ head'[r] \in Nat
  BY CommitFacts DEF IInv, Types, GitHubOK
<1>3. \A a \in Apps : /\ deployed[a] # None => deployed[a].commit \in Nat
                      /\ Url[a] \in Repos
  BY CommitFacts DEF IInv, Types, DeployedOK
<1>4. \A a \in Apps : deploy[a] # None /\ deploy[a].step = "imaged" => deploy[a].commit \in Nat
  BY CommitFacts DEF IInv, ImagedOK
<1>5. ImagedOK'
  BY <1>1, <1>2, <1>3, <1>4 DEF IInv, ImagedOK
<1>6. HeadOK'
  BY <1>1, <1>2, <1>3 DEF IInv, HeadOK
<1> QED BY <1>5, <1>6

LEMMA ImagedUnchanged ==
  ASSUME IInv, UNCHANGED <<deploy, deployed, head, published>>
  PROVE  ImagedOK' /\ HeadOK'
BY DEF IInv, ImagedOK, HeadOK

LEMMA ExcuseFacts ==
  ASSUME IInv, NEW A, Excuse(A) \/ UNCHANGED missed
  PROVE  missed' \in [Apps -> Causes]
BY DEF IInv, Types, HistoryOK, Excuse, Causes

\* Requests of the other handlers stay.
LEMMA RequestFacts ==
  ASSUME IInv, NEW h \in Handlers
  PROVE  /\ \A r : Continue(h, r) => request'[h] = r /\ \A g \in Handlers \ {h} : request'[g] = request[g]
         /\ End(h) => request'[h] = None /\ \A g \in Handlers \ {h} : request'[g] = request[g]
         /\ \A r \in Request : Continue(h, r) /\ Sound(r) => RequestOK'
         /\ End(h) => RequestOK'
<1>0. request \in [Handlers -> Request \cup {None}]
  BY DEF IInv, Types, RequestOK
<1> HIDE DEF Row, Deploy, Request, Event
<1>1. \A r : Continue(h, r) => request'[h] = r /\ \A g \in Handlers \ {h} : request'[g] = request[g]
  BY <1>0 DEF Continue
<1>2. End(h) => request'[h] = None /\ \A g \in Handlers \ {h} : request'[g] = request[g]
  BY <1>0 DEF End
<1>3. \A r \in Request : Continue(h, r) /\ Sound(r) => RequestOK'
  BY <1>0, <1>1 DEF Continue, IInv, Types, RequestOK, Sound, Whole
<1>4. End(h) => RequestOK'
  BY <1>0, <1>2 DEF End, IInv, Types, RequestOK, Sound, Whole
<1> QED BY <1>1, <1>2, <1>3, <1>4

-----------------------------------------------------------------------------
(***************************************************************************)
(* The client and GitHub.                                                  *)
(***************************************************************************)
LEMMA ClientStep ==
  ASSUME IInv, KeyArrives \/ WindowPasses \/ GetClient
  PROVE  IInv'
<1>1. ClientOK'
  BY DEF KeyArrives, WindowPasses, GetClient, IInv, Types, ClientOK
<1>2. UNCHANGED <<row, request, deploy, deployed, github, events, missed, settled>>
  BY DEF KeyArrives, WindowPasses, GetClient
<1> QED BY <1>1, <1>2, Unchanged, ImagedUnchanged DEF IInv, Types

LEMMA NewCommitFacts ==
  ASSUME IInv, NEW r \in Repos, NewCommit(r)
  PROVE  /\ head' \in [Repos -> Commits] /\ \A q \in Repos : head[q] <= head'[q]
         /\ EventsOK' /\ missed' \in [Apps -> Causes]
<1>1. head[r] \in Nat /\ head[r] + 1 \in Commits
  BY CommitFacts DEF NewCommit, IInv, Types, GitHubOK
<1>2. head' = [head EXCEPT ![r] = head[r] + 1]
  BY DEF NewCommit
<1>3. head' \in [Repos -> Commits]
  BY <1>1, <1>2 DEF IInv, Types, GitHubOK
<1>4. \A q \in Repos : head[q] \in Nat
  BY CommitFacts DEF IInv, Types, GitHubOK
<1>5. \A q \in Repos : head[q] <= head'[q]
  BY <1>1, <1>2, <1>4 DEF IInv, Types, GitHubOK
<1>6. EventsOK'
  BY <1>1 DEF NewCommit, Send, Hooks, InstallationsOf, IInv, Types, EventsOK
<1>7. missed' \in [Apps -> Causes]
  BY DEF NewCommit, ExpectDeploys, IInv, Types, HistoryOK, Causes
<1> QED BY <1>3, <1>5, <1>6, <1>7

LEMMA PushStep ==
  ASSUME IInv, NEW r \in Repos, Push(r)
  PROVE  IInv'
<1>1. GitHubOK' /\ EventsOK' /\ HistoryOK'
  BY NewCommitFacts DEF Push, IInv, Types, GitHubOK, HistoryOK
<1>2. ImagedOK' /\ HeadOK'
  BY <1>1, NewCommitFacts, ImagedKept DEF Push
<1> QED BY <1>1, <1>2, Unchanged DEF Push, IInv, Types

LEMMA DeployWorkflowStep ==
  ASSUME IInv, NEW r \in Repos, NEW c \in Commits, DeployWorkflow(r, c)
  PROVE  IInv'
<1>1. GitHubOK'
  BY DEF DeployWorkflow, IInv, Types, GitHubOK
<1>2. EventsOK'
  BY DEF DeployWorkflow, Send, Hooks, InstallationsOf, IInv, Types, EventsOK
<1>3. \A q \in Repos : head[q] <= head'[q]
  BY CommitFacts DEF DeployWorkflow, IInv, Types, GitHubOK
<1>4. ImagedOK' /\ HeadOK'
  BY <1>1, <1>3, ImagedKept DEF DeployWorkflow
<1> QED BY <1>1, <1>2, <1>4, Unchanged DEF DeployWorkflow, IInv, Types

LEMMA OtherWorkflowStep ==
  ASSUME IInv, NEW r \in Repos, OtherWorkflow(r)
  PROVE  IInv'
<1>1. EventsOK'
  BY DEF OtherWorkflow, Send, Hooks, InstallationsOf, IInv, Types, EventsOK, GitHubOK
<1> QED BY <1>1, Unchanged, ImagedUnchanged DEF OtherWorkflow, IInv, Types

LEMMA InstallStep ==
  ASSUME IInv, NEW i \in Installations, Install(i) \/ Uninstall(i)
  PROVE  IInv'
<1>1. PICK R \in SUBSET Repos : grant' = [grant EXCEPT ![i] = R]
  BY DEF Install, Uninstall
<1>2. GitHubOK'
  BY <1>1 DEF Install, Uninstall, IInv, Types, GitHubOK
<1>3. HistoryOK'
  BY ExcuseFacts DEF Install, Uninstall, IInv, Types, HistoryOK
<1> QED BY <1>2, <1>3, Unchanged, ImagedUnchanged DEF Install, Uninstall, IInv, Types

LEMMA LoseStep ==
  ASSUME IInv, NEW e \in events, Lose(e)
  PROVE  IInv'
<1>1. EventsOK'
  BY DEF Lose, IInv, Types, EventsOK
<1>2. HistoryOK'
  BY ExcuseFacts DEF Lose, IInv, Types, HistoryOK
<1> QED BY <1>1, <1>2, Unchanged, ImagedUnchanged DEF Lose, IInv, Types

-----------------------------------------------------------------------------
(***************************************************************************)
(* Deploys.                                                                *)
(***************************************************************************)
LEMMA WebhookStep ==
  ASSUME IInv, NEW h \in Handlers, NEW e \in events, Webhook(h, e)
  PROVE  IInv'
<1>1. e \in Event /\ EventsOK'
  BY DEF Webhook, IInv, Types, EventsOK
<1>2. CASE UNCHANGED request
  BY <1>1, <1>2, Unchanged, ImagedUnchanged DEF Webhook, IInv, Types
<1>3. ASSUME NEW a \in FindApp(e), Continue(h, [does |-> "deploy", app |-> a, event |-> e])
      PROVE  IInv'
  <2>1. a \in Apps /\ row[a].repo # None
    BY <1>1 DEF FindApp, GetAppByInstallationAndRepo, GetAppByGitHubRepoID
  <2>2. RequestOK'
    BY <1>1, <1>3, <2>1, RequestFacts DEF Sound
  <2>3. QuietInv'
    <3>1. a \notin settled
      BY <2>1 DEF IInv, QuietInv
    <3>2. request'[h] = [does |-> "deploy", app |-> a, event |-> e]
          /\ \A g \in Handlers \ {h} : request'[g] = request[g]
      BY <1>3, RequestFacts
    <3>3. UNCHANGED <<row, deploy, settled>>
      BY DEF Webhook
    <3> HIDE DEF Row, Deploy, Request, Event
    <3> QED BY <3>1, <3>2, <3>3 DEF IInv, QuietInv
  <2> QED BY <1>1, <2>2, <2>3, Unchanged, ImagedUnchanged DEF Webhook, IInv, Types
<1> QED BY <1>2, <1>3 DEF Webhook

\* Changes to the deploy of one application that leave what runs alone.
LEMMA DeployKept ==
  ASSUME IInv, NEW a \in Apps, NEW d \in Deploy \cup {None}, deploy' = [deploy EXCEPT ![a] = d],
         d # None => Whole(d.copy),
         UNCHANGED <<row, deployed, head, published, settled>>,
         d # None /\ d.step = "imaged" =>
           /\ d.commit \in Commits
           /\ published = {} => /\ d.repo = Url[a] /\ d.commit <= head[Url[a]]
                                /\ deployed[a] # None => deployed[a].commit <= d.commit,
         a \in settled /\ d # None => d.by = "manual" /\ d.copy.inst = None,
         \A h \in Handlers : request'[h] = request[h] \/ request'[h] = None
  PROVE  DeployOK' /\ ImagedOK' /\ HeadOK' /\ QuietInv'
<1> HIDE DEF Row, Deploy, Request, Event
<1>1. deploy'[a] = d /\ \A b \in Apps \ {a} : deploy'[b] = deploy[b]
  BY DEF IInv, Types, DeployOK
<1>2. DeployOK'
  BY <1>1 DEF IInv, Types, DeployOK, Whole
<1>3. ImagedOK'
  BY <1>1 DEF IInv, ImagedOK
<1>4. HeadOK'
  BY DEF IInv, HeadOK
<1>5. settled \subseteq Apps
  BY DEF IInv, Types, HistoryOK
<1>6. QuietInv'
  BY <1>1, <1>5 DEF IInv, QuietInv
<1> QED BY <1>2, <1>3, <1>4, <1>6

LEMMA StartDeployStep ==
  ASSUME IInv, NEW h \in Handlers, StartDeploy(h)
  PROVE  IInv'
<1> DEFINE a == request[h].app
           e == request[h].event
<1>1. /\ request[h] # None /\ request[h].does = "deploy" /\ request[h] \in Request
      /\ a \in Apps /\ e \in Event
  BY DEF StartDeploy, Does, IInv, Types, RequestOK
<1>2. RequestOK' /\ \A g \in Handlers : request'[g] = request[g] \/ request'[g] = None
  BY RequestFacts DEF StartDeploy
<1>3. HistoryOK'
  BY <1>1, ExcuseFacts DEF StartDeploy, IInv, Types, HistoryOK, Causes
<1>4. CASE UNCHANGED deploy
  <2>1. QuietInv'
    <3> HIDE DEF Row, Deploy, Request, Event
    <3> QED BY <1>2, <1>4 DEF StartDeploy, IInv, QuietInv
  <2> QED BY <1>2, <1>3, <1>4, <2>1, Unchanged, ImagedUnchanged DEF StartDeploy, IInv, Types
<1>5. CASE deploy' = [deploy EXCEPT ![a] = NewDeploy(a, e)]
  <2>1. /\ NewDeploy(a, e) \in Deploy /\ Whole(NewDeploy(a, e).copy)
        /\ NewDeploy(a, e).step = "queued"
    BY <1>1 DEF NewDeploy, IInv, Types, RowOK, Whole
  <2>2. a \notin settled
    BY <1>1 DEF IInv, QuietInv
  <2>3. DeployOK' /\ ImagedOK' /\ HeadOK' /\ QuietInv'
    BY <1>1, <1>2, <1>5, <2>1, <2>2, DeployKept DEF StartDeploy
  <2> QED BY <1>2, <1>3, <2>3, Unchanged DEF StartDeploy, IInv, Types
<1> QED BY <1>4, <1>5 DEF StartDeploy

LEMMA TriggerStep ==
  ASSUME IInv, NEW a \in Apps, Trigger(a)
  PROVE  IInv'
<1> DEFINE d == [copy |-> row[a], repo |-> Url[a], commit |-> None, pull |-> FALSE,
                 by |-> "manual", step |-> "queued"]
<1>1. d \in Deploy /\ Whole(d.copy)
  BY DEF IInv, Types, RowOK, Whole
<1>2. a \in settled => d.copy.inst = None
  BY DEF IInv, QuietInv
<1>3. DeployOK' /\ ImagedOK' /\ HeadOK' /\ QuietInv'
  BY <1>1, <1>2, DeployKept DEF Trigger
<1> QED BY <1>3, Unchanged DEF Trigger, IInv, Types

\* The deploy of an application and its copy of the row.
LEMMA DeployFacts ==
  ASSUME IInv, NEW a \in Apps, deploy[a] # None
  PROVE  /\ deploy[a] \in Deploy /\ deploy[a].copy \in Row /\ Whole(deploy[a].copy)
         /\ a \in settled => deploy[a].by = "manual" /\ deploy[a].copy.inst = None
BY DEF IInv, Types, DeployOK, QuietInv

LEMMA ResolveCommitStep ==
  ASSUME IInv, NEW a \in Apps, ResolveCommit(a)
  PROVE  IInv'
<1> DEFINE d == [deploy[a] EXCEPT !.commit = head[Url[a]]]
<1>1. deploy[a] # None /\ deploy[a].step = "queued"
  BY DEF ResolveCommit, Queued
<1>2. /\ d \in Deploy /\ d.copy = deploy[a].copy /\ d.by = deploy[a].by
      /\ d.step = "queued"
  BY <1>1, DeployFacts DEF IInv, Types, GitHubOK
<1>3. DeployOK' /\ ImagedOK' /\ HeadOK' /\ QuietInv'
  BY <1>1, <1>2, DeployFacts, DeployKept DEF ResolveCommit
<1> QED BY <1>3, Unchanged DEF ResolveCommit, IInv, Types

LEMMA BuildStep ==
  ASSUME IInv, NEW a \in Apps, Build(a)
  PROVE  IInv'
<1> DEFINE d == [deploy[a] EXCEPT !.step = "imaged"]
<1>1. /\ deploy[a] # None /\ deploy[a].repo = Url[a] /\ deploy[a].commit = head[Url[a]]
      /\ head[Url[a]] \in Commits /\ head[Url[a]] \in Nat
  BY CommitFacts DEF Build, Queued, IsHead, IInv, Types, GitHubOK
<1>2. /\ d \in Deploy /\ d.copy = deploy[a].copy /\ d.by = deploy[a].by
      /\ d.repo = deploy[a].repo /\ d.commit = deploy[a].commit
  BY <1>1, DeployFacts
<1>3. published = {} /\ deployed[a] # None => deployed[a].commit <= d.commit
  BY <1>1, <1>2 DEF IInv, HeadOK
<1>4. DeployOK' /\ ImagedOK' /\ HeadOK' /\ QuietInv'
  <2>1. d.commit <= head[Url[a]]
    BY <1>1, <1>2
  <2>2. deploy' = [deploy EXCEPT ![a] = d] /\ UNCHANGED <<row, deployed, head, published, settled, request>>
    BY DEF Build
  <2>3. Whole(d.copy) /\ (a \in settled => d.by = "manual" /\ d.copy.inst = None)
    BY <1>1, <1>2, DeployFacts
  <2> HIDE DEF d
  <2> QED BY <1>1, <1>2, <1>3, <2>1, <2>2, <2>3, DeployKept
<1> QED BY <1>4, Unchanged DEF Build, IInv, Types

LEMMA PullStep ==
  ASSUME IInv, NEW a \in Apps, Pull(a)
  PROVE  IInv'
<1> DEFINE d == [deploy[a] EXCEPT !.step = "imaged"]
<1>1. deploy[a] # None /\ <<deploy[a].repo, deploy[a].commit>> \in published
  BY DEF Pull, Queued
<1>2. deploy[a].commit \in Commits /\ published # {}
  BY <1>1 DEF IInv, Types, GitHubOK
<1>3. /\ d \in Deploy /\ d.copy = deploy[a].copy /\ d.by = deploy[a].by
      /\ d.commit = deploy[a].commit
  BY <1>1, DeployFacts
<1>4. DeployOK' /\ ImagedOK' /\ HeadOK' /\ QuietInv'
  <2>1. deploy' = [deploy EXCEPT ![a] = d] /\ UNCHANGED <<row, deployed, head, published, settled, request>>
    BY DEF Pull
  <2>2. Whole(d.copy) /\ (a \in settled => d.by = "manual" /\ d.copy.inst = None)
    BY <1>1, <1>3, DeployFacts
  <2> HIDE DEF d
  <2> QED BY <1>1, <1>2, <1>3, <2>1, <2>2, DeployKept
<1> QED BY <1>4, Unchanged DEF Pull, IInv, Types

LEMMA DeployFailsStep ==
  ASSUME IInv, NEW a \in Apps, DeployFails(a)
  PROVE  IInv'
<1>1. deploy' = [deploy EXCEPT ![a] = None]
      /\ UNCHANGED <<client, row, request, deployed, github, events, settled>>
  BY DEF DeployFails
<1>2. DeployOK' /\ ImagedOK' /\ HeadOK' /\ QuietInv'
  BY <1>1, DeployKept
<1>3. HistoryOK'
  BY ExcuseFacts DEF DeployFails, IInv, Types, HistoryOK
<1> QED BY <1>1, <1>2, <1>3, Unchanged DEF IInv, Types

\* A row that is written.
LEMMA SetRowFacts ==
  ASSUME IInv, NEW a \in Apps, NEW c \in Row, Whole(c), SetRow(a, c)
  PROVE  /\ RowOK' /\ row'[a] = c /\ \A b \in Apps \ {a} : row'[b] = row[b]
         /\ missed' \in [Apps -> Causes]
<1>1. row' = [row EXCEPT ![a] = c]
  BY DEF SetRow
<1>2. missed' \in [Apps -> Causes]
  BY ExcuseFacts DEF SetRow
<1> HIDE DEF Row
<1> QED BY <1>1, <1>2 DEF IInv, Types, RowOK, Whole

LEMMA FinishStep ==
  ASSUME IInv, NEW a \in Apps, Finish(a)
  PROVE  IInv'
<1> DEFINE d == deploy[a]
           new == [repo |-> d.repo, commit |-> d.commit]
<1>1. /\ d # None /\ d.step = "imaged" /\ d \in Deploy /\ d.commit \in Commits
      /\ d.copy \in Row /\ Whole(d.copy) /\ d.repo \in Repos
  BY DeployFacts DEF Finish, IInv, ImagedOK
<1>2. /\ deployed' = [deployed EXCEPT ![a] = new] /\ SetRow(a, d.copy)
      /\ deploy' = [deploy EXCEPT ![a] = None]
      /\ UNCHANGED <<client, request, github, events, settled>>
  BY DEF Finish
<1>3. RowOK' /\ row'[a] = d.copy /\ (\A b \in Apps \ {a} : row'[b] = row[b]) /\ HistoryOK'
  BY <1>1, <1>2, SetRowFacts DEF IInv, Types, HistoryOK
<1>4. DeployedOK' /\ deployed'[a] = new /\ \A b \in Apps \ {a} : deployed'[b] = deployed[b]
  BY <1>1, <1>2 DEF IInv, Types, DeployedOK
<1>5. deploy'[a] = None /\ \A b \in Apps \ {a} : deploy'[b] = deploy[b]
  BY <1>2 DEF IInv, Types, DeployOK
<1>6. DeployOK'
  <2> HIDE DEF Row, Deploy
  <2> QED BY <1>2, <1>5 DEF IInv, Types, DeployOK, Whole
<1>7. ImagedOK' /\ HeadOK'
  <2>1. published = {} => d.repo = Url[a] /\ d.commit <= head[Url[a]]
    BY <1>1 DEF IInv, ImagedOK
  <2> HIDE DEF Row, Deploy, d
  <2>2. ImagedOK'
    BY <1>2, <1>4, <1>5 DEF IInv, ImagedOK
  <2>3. HeadOK'
    BY <1>2, <1>4, <2>1 DEF IInv, HeadOK
  <2> QED BY <2>2, <2>3
<1>8. QuietInv'
  <2>1. a \in settled => d.copy.inst = None /\ d.copy.repo = None
    BY <1>1, DeployFacts DEF Whole
  <2>2. settled \subseteq Apps
    BY DEF IInv, Types, HistoryOK
  <2> HIDE DEF Row, Deploy, Request, d
  <2> QED BY <1>2, <1>3, <1>5, <2>1, <2>2 DEF IInv, QuietInv
<1> QED BY <1>2, <1>3, <1>4, <1>6, <1>7, <1>8, Unchanged DEF IInv, Types

-----------------------------------------------------------------------------
(***************************************************************************)
(* Connecting and disconnecting.                                           *)
(***************************************************************************)
LEMMA ConnectedFacts ==
  ASSUME IInv, NEW a \in Apps, NEW i \in Installations \cup {None}, NEW r \in Repos \cup {None}
  PROVE  /\ Connected(a, i, r) \in Row
         /\ Connected(a, i, r).inst = i /\ Connected(a, i, r).repo = r
BY ZenonT(60) DEF Connected, IInv, Types, RowOK

LEMMA HandleCallbackStep ==
  ASSUME IInv, NEW h \in Handlers, HandleCallback(h)
  PROVE  IInv'
<1>1. PICK a \in Apps, i \in Installations :
        /\ grant[i] \notin {None, {}}
        /\ \E r \in MatchedRepos(a, i) :
             Continue(h, [does |-> "save", app |-> a, copy |-> Connected(a, i, r)])
        /\ settled' = settled \ {a}
  BY DEF HandleCallback
<1>2. PICK r \in Repos : Continue(h, [does |-> "save", app |-> a, copy |-> Connected(a, i, r)])
  BY <1>1 DEF MatchedRepos, IInv, Types, GitHubOK
<1> DEFINE q == [does |-> "save", app |-> a, copy |-> Connected(a, i, r)]
<1>3. q \in Request /\ Sound(q)
  BY ConnectedFacts DEF Sound, Whole
<1>4. RequestOK' /\ request'[h] = q /\ \A g \in Handlers \ {h} : request'[g] = request[g]
  BY <1>2, <1>3, RequestFacts
<1>5. HistoryOK'
  BY <1>1 DEF HandleCallback, IInv, Types, HistoryOK
<1>6. QuietInv'
  <2>1. q.app = a /\ a \notin settled'
    BY <1>1
  <2> HIDE DEF Row, Deploy, Request, q
  <2> QED BY <1>1, <1>4, <2>1 DEF HandleCallback, IInv, QuietInv
<1> QED BY <1>4, <1>5, <1>6, Unchanged, ImagedUnchanged DEF HandleCallback, IInv, Types

\* The row a handler has a copy of.
LEMMA CopyFacts ==
  ASSUME IInv, NEW h \in Handlers, request[h] # None, request[h].does # "deploy"
  PROVE  /\ request[h] \in Request /\ request[h].app \in Apps /\ request[h].copy \in Row
         /\ Whole(request[h].copy) /\ Sound(request[h])
BY DEF IInv, Types, RequestOK, Sound

LEMMA SaveConnectionStep ==
  ASSUME IInv, NEW h \in Handlers, SaveConnection(h)
  PROVE  IInv'
<1> DEFINE a == request[h].app
           c == request[h].copy
           q == [request[h] EXCEPT !.does = "workflow"]
<1>1. /\ request[h] # None /\ request[h].does = "save" /\ a \in Apps /\ c \in Row /\ Whole(c)
      /\ SetRow(a, c) /\ Continue(h, q)
      /\ UNCHANGED <<client, deploy, deployed, github, events, settled>>
  BY CopyFacts DEF SaveConnection, Does
<1>2. q \in Request /\ q.copy = c /\ q.app = a /\ Sound(q)
  BY <1>1, CopyFacts DEF Sound
<1>3. RequestOK' /\ request'[h] = q /\ \A g \in Handlers \ {h} : request'[g] = request[g]
  BY <1>1, <1>2, RequestFacts
<1>4. RowOK' /\ (\A b \in Apps \ {a} : row'[b] = row[b]) /\ HistoryOK'
  BY <1>1, SetRowFacts DEF IInv, Types, HistoryOK
<1>5. QuietInv'
  <2>1. a \notin settled /\ settled \subseteq Apps
    BY <1>1 DEF IInv, QuietInv, Types, HistoryOK
  <2> HIDE DEF Row, Deploy, Request, q
  <2> QED BY <1>1, <1>2, <1>3, <1>4, <2>1 DEF IInv, QuietInv
<1> QED BY <1>1, <1>3, <1>4, <1>5, Unchanged, ImagedUnchanged DEF IInv, Types

\* A request that ends leaves less to be afraid of.
LEMMA EndQuiet ==
  ASSUME IInv, NEW h \in Handlers, End(h), UNCHANGED <<row, deploy, settled>>
  PROVE  RequestOK' /\ QuietInv'
<1>1. RequestOK' /\ request'[h] = None /\ \A g \in Handlers \ {h} : request'[g] = request[g]
  BY RequestFacts
<1> HIDE DEF Row, Deploy, Request
<1> QED BY <1>1 DEF IInv, QuietInv

LEMMA SetupWorkflowStep ==
  ASSUME IInv, NEW h \in Handlers, SetupWorkflow(h)
  PROVE  IInv'
<1> DEFINE r == request[h].copy.repo
<1>1. request[h] # None /\ request[h].does = "workflow" /\ r \in grant[request[h].copy.inst]
  BY DEF SetupWorkflow, Does
<1>2. /\ NewCommit(r) /\ End(h)
      /\ \E f \in {"talos-notify.yml", "talos-deploy.yml"} :
           workflows' = [workflows EXCEPT ![r] = @ \cup {f}]
      /\ UNCHANGED <<client, row, deploy, deployed, grant, published, settled>>
  BY DEF SetupWorkflow
<1>3. r \in Repos \cup {None}
  BY <1>1, CopyFacts
<1>4. RequestOK' /\ QuietInv'
  BY <1>2, EndQuiet
<1>5. r # None
  BY <1>1, CopyFacts DEF Sound, Whole
<1>6. GitHubOK' /\ EventsOK' /\ HistoryOK' /\ \A q \in Repos : head[q] <= head'[q]
  BY <1>2, <1>3, <1>5, NewCommitFacts DEF IInv, Types, GitHubOK, HistoryOK
<1>7. ImagedOK' /\ HeadOK'
  BY <1>2, <1>6, ImagedKept
<1> QED BY <1>2, <1>4, <1>6, <1>7, Unchanged DEF IInv, Types

LEMMA RequestFailsStep ==
  ASSUME IInv, NEW h \in Handlers, RequestFails(h)
  PROVE  IInv'
<1>1. RequestOK' /\ QuietInv'
  BY EndQuiet DEF RequestFails
<1>2. HistoryOK'
  BY ExcuseFacts DEF RequestFails, IInv, Types, HistoryOK
<1> QED BY <1>1, <1>2, Unchanged, ImagedUnchanged DEF RequestFails, IInv, Types

LEMMA DisconnectStep ==
  ASSUME IInv, NEW a \in Apps, Disconnect(a)
  PROVE  IInv'
<1> DEFINE c == Connected(a, None, None)
<1>1. /\ SetRow(a, c) /\ UNCHANGED <<client, request, deploy, deployed, github, events>>
      /\ settled' = IF Pending(a) THEN settled ELSE settled \cup {a}
  BY DEF Disconnect
<1>2. c \in Row /\ c.inst = None /\ c.repo = None /\ Whole(c)
  BY ConnectedFacts DEF Whole
<1>3. /\ RowOK' /\ row'[a] = c /\ \A b \in Apps \ {a} : row'[b] = row[b]
      /\ missed' \in [Apps -> Causes]
  BY <1>1, <1>2, SetRowFacts
<1>4. HistoryOK'
  BY <1>1, <1>3 DEF IInv, Types, HistoryOK
<1>5. ~Pending(a) => deploy[a] = None /\ \A h \in Handlers : request[h] # None => request[h].app # a
  BY DEF Pending, Idle
<1>6. QuietInv'
  <2>1. settled' \subseteq Apps
    BY <1>4 DEF HistoryOK
  <2> HIDE DEF Row, Deploy, Request, c
  <2> QED BY <1>1, <1>2, <1>3, <1>5, <2>1 DEF IInv, QuietInv
<1> QED BY <1>1, <1>3, <1>4, <1>6, Unchanged, ImagedUnchanged DEF IInv, Types

LEMMA ReadForUpdateStep ==
  ASSUME IInv, NEW h \in Handlers, ReadForUpdate(h)
  PROVE  IInv'
<1>1. PICK a \in Apps : Continue(h, [does |-> "update", app |-> a, copy |-> row[a]])
  BY DEF ReadForUpdate
<1> DEFINE q == [does |-> "update", app |-> a, copy |-> row[a]]
<1>2. q \in Request /\ Sound(q)
  BY DEF IInv, Types, RowOK, Sound, Whole
<1>3. RequestOK' /\ request'[h] = q /\ \A g \in Handlers \ {h} : request'[g] = request[g]
  BY <1>1, <1>2, RequestFacts
<1>4. QuietInv'
  <2>1. q.app = a /\ q.does = "update" /\ q.copy = row[a]
    OBVIOUS
  <2> HIDE DEF Row, Deploy, Request, q
  <2> QED BY <1>3, <2>1 DEF ReadForUpdate, IInv, QuietInv
<1> QED BY <1>3, <1>4, Unchanged, ImagedUnchanged DEF ReadForUpdate, IInv, Types

LEMMA WriteUpdateStep ==
  ASSUME IInv, NEW h \in Handlers, WriteUpdate(h)
  PROVE  IInv'
<1> DEFINE a == request[h].app
           c == request[h].copy
<1>1. /\ request[h] # None /\ request[h].does = "update" /\ a \in Apps /\ c \in Row /\ Whole(c)
      /\ SetRow(a, c) /\ End(h) /\ UNCHANGED <<client, deploy, deployed, github, events, settled>>
  BY CopyFacts DEF WriteUpdate, Does
<1>2. RequestOK' /\ request'[h] = None /\ \A g \in Handlers \ {h} : request'[g] = request[g]
  BY <1>1, RequestFacts
<1>3. RowOK' /\ row'[a] = c /\ (\A b \in Apps \ {a} : row'[b] = row[b]) /\ HistoryOK'
  BY <1>1, SetRowFacts DEF IInv, Types, HistoryOK
<1>4. QuietInv'
  <2>1. a \in settled => c.inst = None /\ c.repo = None
    BY <1>1 DEF IInv, QuietInv, Whole
  <2>2. settled \subseteq Apps
    BY DEF IInv, Types, HistoryOK
  <2> HIDE DEF Row, Deploy, Request
  <2> QED BY <1>1, <1>2, <1>3, <2>1, <2>2 DEF IInv, QuietInv
<1> QED BY <1>1, <1>2, <1>3, <1>4, Unchanged, ImagedUnchanged DEF IInv, Types

-----------------------------------------------------------------------------
LEMMA InitIInv == Init => IInv
<1> SUFFICES ASSUME Init PROVE IInv
  OBVIOUS
<1>1. ClientOK /\ RequestOK /\ DeployOK /\ DeployedOK /\ EventsOK /\ HistoryOK
  BY DEF Init, ClientOK, RequestOK, DeployOK, DeployedOK, EventsOK, HistoryOK, Causes
<1>2. RowOK
  BY DEF Init, RowOK, Whole
<1>3. GitHubOK
  BY CommitFacts DEF Init, GitHubOK
<1>4. ImagedOK /\ HeadOK /\ QuietInv
  BY DEF Init, ImagedOK, HeadOK, QuietInv
<1> QED BY <1>1, <1>2, <1>3, <1>4 DEF IInv, Types

LEMMA NextIInv == IInv /\ [Next]_vars => IInv'
<1> SUFFICES ASSUME IInv, [Next]_vars PROVE IInv'
  OBVIOUS
<1>1. CASE UNCHANGED vars
  BY <1>1, Unchanged, ImagedUnchanged DEF vars, IInv, Types
<1>2. CASE GitHub
  BY <1>2, PushStep, OtherWorkflowStep, DeployWorkflowStep, InstallStep, LoseStep DEF GitHub
<1>3. ASSUME NEW h \in Handlers, Serve(h) PROVE IInv'
  BY <1>3, WebhookStep, StartDeployStep, HandleCallbackStep, SaveConnectionStep, SetupWorkflowStep,
     ReadForUpdateStep, WriteUpdateStep, RequestFailsStep DEF Serve
<1>4. ASSUME NEW a \in Apps, Execute(a) \/ Trigger(a) \/ Disconnect(a) PROVE IInv'
  BY <1>4, ResolveCommitStep, BuildStep, PullStep, DeployFailsStep, FinishStep, TriggerStep,
     DisconnectStep DEF Execute
<1> QED BY <1>1, <1>2, <1>3, <1>4, ClientStep DEF Next

LEMMA Inductive == Spec => []IInv
BY InitIInv, NextIInv, PTL DEF Spec

\* Rows, deploys, requests and webhooks keep their types, and a connection has both its parts or
\* none (handlers/github.go, HandleCallback and Disconnect).
THEOREM ConnectionTypes == Spec => []TypeOK
<1>1. IInv => TypeOK
  <2> HIDE DEF Row, Deploy, Request, Event
  <2> QED BY DEF IInv, Types, TypeOK, ClientOK, RowOK, RequestOK, DeployOK, DeployedOK, GitHubOK,
                 EventsOK, HistoryOK, Whole
<1> QED BY <1>1, Inductive, PTL

\* No webhook, however late, and no handler or deploy that was started later deploys or connects
\* an application again that was disconnected while nothing else was under way for it.
THEOREM DisconnectedStaysQuietAlways == Spec => []DisconnectedStaysQuiet
<1>1. IInv => DisconnectedStaysQuiet
  <2> SUFFICES ASSUME IInv, NEW a \in settled
               PROVE  /\ row[a] = Connected(a, None, None)
                      /\ deploy[a] # None => deploy[a].by = "manual"
                      /\ \A h \in Handlers : Does(h, "deploy") => request[h].app # a
    BY DEF DisconnectedStaysQuiet
  <2>1. row[a] \in Row /\ row[a].inst = None /\ row[a].repo = None
    BY DEF IInv, Types, RowOK, HistoryOK, QuietInv
  <2>2. row[a] = Connected(a, None, None)
    BY <2>1 DEF Connected
  <2> QED BY <2>2 DEF IInv, QuietInv, Does
<1> QED BY <1>1, Inductive, PTL

\* Late, repeated and reordered webhooks never put an application Talos builds back to an older
\* commit, nor to one of another repository (internal/deploy/builder.go, CloneGitHubRepo and
\* CheckoutCommit: a clone of depth one has the newest commit alone).
THEOREM NeverGoesBackAlways == Spec => NeverGoesBack
<1>1. ASSUME IInv, [Next]_vars, NEW a \in Apps, published = {}, deployed'[a] # deployed[a]
      PROVE  /\ deployed'[a].repo = Url[a]
             /\ deployed[a] # None => deployed'[a].commit >= deployed[a].commit
  <2>1. PICK b \in Apps : Finish(b)
    BY <1>1 DEF Next, vars, KeyArrives, WindowPasses, GetClient, GitHub, Push, OtherWorkflow,
                DeployWorkflow, Install, Uninstall, Lose, Serve, Webhook, StartDeploy,
                HandleCallback, SaveConnection, SetupWorkflow, ReadForUpdate, WriteUpdate,
                RequestFails, Execute, ResolveCommit, Build, Pull, DeployFails, Trigger, Disconnect
  <2>2. a = b /\ deployed'[a] = [repo |-> deploy[a].repo, commit |-> deploy[a].commit]
    BY <1>1, <2>1 DEF Finish, IInv, Types, DeployedOK
  <2>3. /\ deploy[a].repo = Url[a] /\ deploy[a].commit \in Nat
        /\ deployed[a] # None => deployed[a].commit <= deploy[a].commit
    BY <1>1, <2>1, <2>2, CommitFacts DEF Finish, IInv, ImagedOK
  <2>4. deployed[a] # None => deployed[a].commit \in Nat
    BY <1>1, CommitFacts DEF IInv, Types, DeployedOK
  <2> QED BY <2>2, <2>3, <2>4
<1>2. IInv /\ [Next]_vars =>
        [\A a \in Apps :
           row[a].mode = "talos_build" /\ published = {} /\ deployed'[a] # deployed[a] =>
             /\ deployed'[a].repo = Url[a]
             /\ deployed[a] # None => deployed'[a].commit >= deployed[a].commit]_vars
  BY <1>1
<1> QED BY <1>2, Inductive, PTL DEF Spec, NeverGoesBack

-----------------------------------------------------------------------------
(***************************************************************************)
(* The newest commit, followed from the push to the deploy.                *)
(***************************************************************************)

\* A webhook that has the newest commit c of r deployed, if it is neither lost nor refused.
Carries(r, c, mode, e) ==
  /\ e.repo = r /\ e.commit = c /\ e.inst # None
  /\ IF mode = "talos_build" THEN e.kind = "push" ELSE e.kind = "workflow_run"

\* A deploy that ends with it, or fails for a reason that excuses; done: what is published.
Brings(r, c, done, d) ==
  /\ d # None /\ d.repo = r
  /\ IF d.pull THEN d.commit = c /\ <<r, c>> \in done ELSE d.commit \in {None, c}

\* A deploy that does not replace it.
Harmless(r, c, d) ==
  d # None /\ (d.pull \/ d.step = "imaged") => d.repo = r /\ d.commit = c

Newest(a) == head[Url[a]]

Announced(a) == \E e \in events : Carries(Url[a], Newest(a), row[a].mode, e)
Requested(a) ==
  \E h \in Handlers :
    /\ request[h] # None /\ request[h].does = "deploy" /\ request[h].app = a
    /\ Carries(Url[a], Newest(a), row[a].mode, request[h].event)
Underway(a) ==
  \/ Announced(a) \/ Requested(a)
  \/ Brings(Url[a], Newest(a), published, deploy[a])
  \/ AtHead(a) /\ Harmless(Url[a], Newest(a), deploy[a])

\* a alone is connected to its repository; its newest commit can be had.
Sole(a) == GetAppByGitHubRepoID(Url[a]) = {a}
Due(a) == row[a].mode = "talos_build" \/ <<Url[a], Newest(a)>> \in published

\* The newest commit of an application is under way, or runs and is not about to be replaced.
Followed(a) ==
  /\ row[a].repo = Url[a] /\ InstallationsOf(Url[a]) # {}
  /\ Sole(a) /\ Due(a) => Underway(a)

FollowInv == \A a \in Apps : missed[a] = "nothing" => Followed(a)
PublishedInv == \A r \in Repos, c \in Commits : <<r, c>> \in published => c <= head[r]

\* Where a step neither moves the branch, publishes, connects nor answers anything of a, its
\* newest commit stays under way.
LEMMA Bystander ==
  ASSUME NEW a \in Apps, Followed(a),
         row'[a] = row[a], head'[Url[a]] = head[Url[a]], published' = published,
         InstallationsOf(Url[a])' # {}, Sole(a)' => Sole(a),
         deploy'[a] = deploy[a], deployed'[a] = deployed[a],
         \A h \in Handlers : request[h] # None /\ request[h].does = "deploy" /\ request[h].app = a =>
           request'[h] = request[h],
         \A e \in events : e.repo = Url[a] /\ e.commit = head[Url[a]] => e \in events'
  PROVE  Followed(a)'
<1> HIDE DEF Row, Deploy, Request, Event
<1>1. Due(a)' => Due(a)
  BY DEF Due, Newest
<1>2. Announced(a) => Announced(a)'
  BY DEF Announced, Carries, Newest
<1>3. Requested(a) => Requested(a)'
  BY DEF Requested, Carries, Newest
<1>4. Brings(Url[a], Newest(a), published, deploy[a])
        => Brings(Url[a], Newest(a), published, deploy[a])'
  BY DEF Brings, Newest
<1>5. AtHead(a) /\ Harmless(Url[a], Newest(a), deploy[a])
        => (AtHead(a) /\ Harmless(Url[a], Newest(a), deploy[a]))'
  BY DEF AtHead, Harmless, Newest
<1>6. Underway(a) => Underway(a)'
  BY <1>2, <1>3, <1>4, <1>5 DEF Underway
<1> QED BY <1>1, <1>6 DEF Followed

\* Whose row is written, and whoever shares a repository with it, is excused.
LEMMA RowKept ==
  ASSUME IInv, NEW b \in Apps, NEW c \in Row, SetRow(b, c),
         NEW a \in Apps, missed'[a] = "nothing"
  PROVE  missed[a] = "nothing" /\ row'[a] = row[a] /\ (Sole(a)' => Sole(a))
<1>1. row \in [Apps -> Row] /\ row' = [row EXCEPT ![b] = c]
  BY DEF SetRow, IInv, Types, RowOK
<1> HIDE DEF Row
<1>2. CASE row[b] = c
  <2>1. row' = row /\ missed' = missed
    BY <1>1, <1>2 DEF SetRow
  <2> QED BY <2>1 DEF Sole, GetAppByGitHubRepoID
<1>3. CASE row[b] # c
  <2>1. missed' = [x \in Apps |-> IF x \in {y \in Apps : y = b \/ Url[y] \in {row[b].repo, c.repo}}
                                  THEN "other" ELSE missed[x]]
    BY <1>3 DEF SetRow, Excuse
  <2>2. a # b /\ Url[a] # row[b].repo /\ Url[a] # c.repo /\ missed[a] = "nothing"
    BY <2>1
  <2>3. row'[b] = c /\ \A x \in Apps \ {b} : row'[x] = row[x]
    BY <1>1
  <2>4. \A x \in Apps : (row'[x].repo = Url[a]) <=> (row[x].repo = Url[a])
    BY <2>2, <2>3
  <2> QED BY <2>2, <2>3, <2>4 DEF Sole, GetAppByGitHubRepoID
<1> QED BY <1>2, <1>3

LEMMA RowUnchanged ==
  ASSUME NEW a \in Apps, UNCHANGED row
  PROVE  row'[a] = row[a] /\ (Sole(a)' => Sole(a))
BY DEF Sole, GetAppByGitHubRepoID

\* Nobody is excused the less for a step.
LEMMA ExcuseKept ==
  ASSUME IInv, NEW A, Excuse(A) \/ UNCHANGED missed, NEW a \in Apps, missed'[a] = "nothing"
  PROVE  missed[a] = "nothing" /\ (Excuse(A) => a \notin A)
BY DEF Excuse

LEMMA GrantUnchanged ==
  ASSUME NEW r, UNCHANGED grant
  PROVE  InstallationsOf(r)' = InstallationsOf(r)
BY DEF InstallationsOf

LEMMA ClientFollow ==
  ASSUME IInv, FollowInv, KeyArrives \/ WindowPasses \/ GetClient \/ UNCHANGED vars,
         NEW a \in Apps, missed'[a] = "nothing"
  PROVE  Followed(a)'
<1>1. UNCHANGED <<row, request, deploy, deployed, github, events, missed>>
  BY DEF KeyArrives, WindowPasses, GetClient, vars
<1>2. Followed(a)
  BY <1>1 DEF FollowInv
<1> QED BY <1>1, <1>2, Bystander, RowUnchanged, GrantUnchanged DEF Followed

\* After a push the new commit is announced, and not published yet.
LEMMA NewCommitFollow ==
  ASSUME IInv, FollowInv, PublishedInv, NEW r \in Repos, NewCommit(r),
         UNCHANGED <<row, deploy, deployed, grant, published>>,
         \A h \in Handlers : request[h] # None /\ request[h].does = "deploy" => request'[h] = request[h],
         NEW a \in Apps, missed'[a] = "nothing"
  PROVE  Followed(a)'
<1>1. /\ head' = [head EXCEPT ![r] = @ + 1]
      /\ events' = events \cup Hooks("push", r, head[r] + 1)
      /\ missed' = [x \in Apps |->
                      IF Url[x] # r THEN missed[x]
                      ELSE IF row[x].repo = r /\ InstallationsOf(r) # {} THEN "nothing" ELSE "other"]
  BY DEF NewCommit, Send, ExpectDeploys
<1>2. head[r] \in Nat /\ head[r] + 1 \in Commits /\ head'[r] = head[r] + 1
  BY <1>1, CommitFacts DEF NewCommit, IInv, Types, GitHubOK
<1>3. CASE Url[a] # r
  <2>1. missed[a] = "nothing"
    BY <1>1, <1>3
  <2>2. Followed(a)
    BY <2>1 DEF FollowInv
  <2>3. head'[Url[a]] = head[Url[a]]
    BY <1>1, <1>3 DEF IInv, Types, GitHubOK
  <2> QED BY <1>1, <2>2, <2>3, Bystander, RowUnchanged, GrantUnchanged DEF Followed
<1>4. CASE Url[a] = r
  <2>1. row[a].repo = r /\ InstallationsOf(r) # {}
    BY <1>1, <1>4
  <2>2. row'[a].repo = Url[a] /\ InstallationsOf(Url[a])' # {}
    BY <1>4, <2>1, GrantUnchanged
  <2>3. ~ (<<r, head[r] + 1>> \in published)
    BY <1>2 DEF PublishedInv
  <2>4. Due(a)' => row'[a].mode = "talos_build"
    BY <1>2, <1>4, <2>3 DEF Due, Newest
  <2>5. PICK i : i \in InstallationsOf(r)
    BY <2>1
  <2>6. i \in Installations /\ i # None
    BY <2>5 DEF InstallationsOf
  <2> DEFINE e == [kind |-> "push", repo |-> r, commit |-> head[r] + 1, inst |-> i]
  <2>7. e \in events'
    BY <1>1, <2>5 DEF Hooks
  <2>8. row'[a].mode = "talos_build" => Carries(Url[a], head'[Url[a]], row'[a].mode, e)
    BY <1>2, <1>4, <2>6 DEF Carries
  <2> HIDE DEF e
  <2>9. row'[a].mode = "talos_build" => Announced(a)'
    BY <2>7, <2>8 DEF Announced, Newest, Carries
  <2> QED BY <2>2, <2>4, <2>9 DEF Followed, Underway
<1> QED BY <1>3, <1>4

\* A workflow that publishes the newest commit says so.
LEMMA DeployWorkflowFollow ==
  ASSUME IInv, FollowInv, NEW r \in Repos, NEW c \in Commits, DeployWorkflow(r, c),
         NEW a \in Apps, missed'[a] = "nothing"
  PROVE  Followed(a)'
<1>1. /\ published' = published \cup {<<r, c>>}
      /\ Hooks("workflow_run", r, c) \subseteq events' /\ events \subseteq events'
      /\ UNCHANGED <<row, request, deploy, deployed, head, grant, missed>>
  BY DEF DeployWorkflow, Send
<1>2. Followed(a)
  BY <1>1 DEF FollowInv
<1>3. row'[a] = row[a] /\ (Sole(a)' => Sole(a)) /\ InstallationsOf(Url[a])' # {}
  BY <1>1, <1>2, RowUnchanged, GrantUnchanged DEF Followed
<1>4. Underway(a) => Underway(a)'
  <2> HIDE DEF Row, Deploy, Request, Event
  <2>1. Announced(a) => Announced(a)'
    BY <1>1 DEF Announced, Carries, Newest
  <2>2. Requested(a) => Requested(a)'
    BY <1>1 DEF Requested, Carries, Newest
  <2>3. Brings(Url[a], Newest(a), published, deploy[a])
          => Brings(Url[a], Newest(a), published, deploy[a])'
    BY <1>1 DEF Brings, Newest
  <2>4. AtHead(a) /\ Harmless(Url[a], Newest(a), deploy[a])
          => (AtHead(a) /\ Harmless(Url[a], Newest(a), deploy[a]))'
    BY <1>1 DEF AtHead, Harmless, Newest
  <2> QED BY <2>1, <2>2, <2>3, <2>4 DEF Underway
<1>5. CASE Due(a)
  BY <1>2, <1>3, <1>4, <1>5 DEF Followed
<1>6. CASE ~Due(a) /\ Due(a)'
  <2>1. row[a].mode # "talos_build" /\ r = Url[a] /\ c = head[Url[a]]
    BY <1>1, <1>6 DEF Due, Newest
  <2>2. PICK i : i \in InstallationsOf(r)
    BY <1>2, <2>1 DEF Followed
  <2>3. i \in Installations /\ i # None
    BY <2>2 DEF InstallationsOf
  <2> DEFINE e == [kind |-> "workflow_run", repo |-> r, commit |-> c, inst |-> i]
  <2>4. e \in events'
    BY <1>1, <2>2 DEF Hooks
  <2>5. Carries(Url[a], head'[Url[a]], row'[a].mode, e)
    BY <1>1, <2>1, <2>3 DEF Carries
  <2> HIDE DEF e
  <2>6. Announced(a)'
    BY <2>4, <2>5 DEF Announced, Newest, Carries
  <2> QED BY <1>2, <1>3, <2>6 DEF Followed, Underway
<1>7. CASE ~Due(a) /\ ~Due(a)'
  BY <1>2, <1>3, <1>7 DEF Followed
<1> QED BY <1>5, <1>6, <1>7

LEMMA InstallFollow ==
  ASSUME IInv, FollowInv, NEW i \in Installations, Install(i) \/ Uninstall(i),
         NEW a \in Apps, missed'[a] = "nothing"
  PROVE  Followed(a)'
<1>1. UNCHANGED <<row, request, deploy, deployed, head, published, events>>
  BY DEF Install, Uninstall
<1>2. missed[a] = "nothing" /\ (Uninstall(i) => Url[a] \notin grant[i])
  BY DEF Install, Uninstall, Excuse
<1>3. Followed(a)
  BY <1>2 DEF FollowInv
<1>4. InstallationsOf(Url[a])' # {}
  <2>1. PICK j \in Installations : grant[j] # None /\ Url[a] \in grant[j]
    BY <1>3 DEF Followed, InstallationsOf
  <2>2. j # i
    BY <1>2, <2>1 DEF Install
  <2>3. grant'[j] = grant[j]
    BY <2>2 DEF Install, Uninstall, IInv, Types, GitHubOK
  <2> QED BY <2>1, <2>3 DEF InstallationsOf
<1> QED BY <1>1, <1>3, <1>4, Bystander, RowUnchanged

LEMMA LoseFollow ==
  ASSUME IInv, FollowInv, NEW e \in events, Lose(e), NEW a \in Apps, missed'[a] = "nothing"
  PROVE  Followed(a)'
<1>1. /\ events' = events \ {e}
      /\ UNCHANGED <<row, request, deploy, deployed, head, published, grant>>
  BY DEF Lose
<1>2. missed[a] = "nothing" /\ ~(e.commit = head[e.repo] /\ Url[a] = e.repo)
  BY DEF Lose, Excuse, IsHead, Of
<1>3. Followed(a)
  BY <1>2 DEF FollowInv
<1> QED BY <1>1, <1>2, <1>3, Bystander, RowUnchanged, GrantUnchanged DEF Followed

\* A webhook that is answered becomes the request for a deploy of the application it is for.
LEMMA WebhookFollow ==
  ASSUME IInv, FollowInv, NEW h \in Handlers, NEW e \in events, Webhook(h, e),
         NEW a \in Apps, missed'[a] = "nothing"
  PROVE  Followed(a)'
<1>1. /\ UNCHANGED <<row, deploy, deployed, head, published, grant, missed>>
      /\ events' \in {events, events \ {e}} /\ request[h] = None
  BY DEF Webhook, Idle
<1>2. Followed(a)
  BY <1>1 DEF FollowInv
<1>3. row'[a] = row[a] /\ (Sole(a)' => Sole(a)) /\ InstallationsOf(Url[a])' # {}
  BY <1>1, <1>2, RowUnchanged, GrantUnchanged DEF Followed
<1>4. \A g \in Handlers : request[g] # None => request'[g] = request[g]
  <2>1. CASE UNCHANGED request
    BY <2>1
  <2>2. CASE ~UNCHANGED request
    <3>1. PICK b \in FindApp(e) : Continue(h, [does |-> "deploy", app |-> b, event |-> e])
      BY <2>2 DEF Webhook
    <3>2. \A g \in Handlers \ {h} : request'[g] = request[g]
      BY <3>1, RequestFacts
    <3> QED BY <1>1, <3>2
  <2> QED BY <2>1, <2>2
<1>5. CASE ~Carries(Url[a], head[Url[a]], row[a].mode, e)
  <2> HIDE DEF Row, Deploy, Request, Event
  <2>1. Due(a)' => Due(a)
    BY <1>1 DEF Due, Newest
  <2>2. Announced(a) => Announced(a)'
    <3>1. ASSUME NEW f \in events, Carries(Url[a], head[Url[a]], row[a].mode, f) PROVE f \in events'
      BY <1>1, <1>5, <3>1
    <3> QED BY <1>1, <3>1 DEF Announced, Carries, Newest
  <2>3. Requested(a) => Requested(a)'
    BY <1>1, <1>4 DEF Requested, Carries, Newest
  <2>4. Brings(Url[a], Newest(a), published, deploy[a])
          => Brings(Url[a], Newest(a), published, deploy[a])'
    BY <1>1 DEF Brings, Newest
  <2>5. AtHead(a) /\ Harmless(Url[a], Newest(a), deploy[a])
          => (AtHead(a) /\ Harmless(Url[a], Newest(a), deploy[a]))'
    BY <1>1 DEF AtHead, Harmless, Newest
  <2> QED BY <1>1, <1>2, <1>3, <2>1, <2>2, <2>3, <2>4, <2>5 DEF Followed, Underway
<1>6. CASE Carries(Url[a], head[Url[a]], row[a].mode, e) /\ Sole(a)
  <2>1. /\ e.repo = Url[a] /\ e.inst # None
        /\ IF row[a].mode = "talos_build" THEN e.kind = "push" ELSE e.kind = "workflow_run"
    BY <1>6 DEF Carries
  <2>2. FindApp(e) = {a}
    <3>1. GetAppByGitHubRepoID(e.repo) = {a}
      BY <1>6, <2>1 DEF Sole
    <3>2. GetAppByInstallationAndRepo(e.inst, e.repo) \subseteq GetAppByGitHubRepoID(e.repo)
      BY DEF GetAppByInstallationAndRepo, GetAppByGitHubRepoID
    <3> QED BY <3>1, <3>2 DEF FindApp
  <2>3. Verified(e) /\ Wanted(a, e)
    BY <2>1 DEF Verified, Wanted
  <2>4. Continue(h, [does |-> "deploy", app |-> a, event |-> e])
    BY <2>2, <2>3 DEF Webhook
  <2>5. request'[h] = [does |-> "deploy", app |-> a, event |-> e]
    BY <2>4, RequestFacts
  <2>6. request'[h] # None /\ request'[h].does = "deploy" /\ request'[h].app = a
        /\ request'[h].event = e
    <3>1. [does |-> "deploy", app |-> a, event |-> e] \in Request
      BY DEF IInv, Types, EventsOK
    <3> QED BY <2>5, <3>1, NoneIsNothing
  <2>7. Requested(a)'
    BY <1>1, <1>6, <2>6 DEF Requested, Carries, Newest
  <2> QED BY <1>2, <1>3, <2>7 DEF Followed, Underway
<1>7. CASE ~Sole(a)
  BY <1>2, <1>3, <1>7 DEF Followed
<1> QED BY <1>5, <1>6, <1>7

\* The request for a deploy of another application, or of an older commit, leaves the newest
\* under way; that for the newest begins its deploy, or is refused.
LEMMA StartDeployFollow ==
  ASSUME IInv, FollowInv, NEW h \in Handlers, StartDeploy(h),
         NEW a \in Apps, missed'[a] = "nothing"
  PROVE  Followed(a)'
<1> DEFINE b == request[h].app
           e == request[h].event
<1>1. /\ UNCHANGED <<row, deployed, head, published, grant, events>>
      /\ request[h] # None /\ request[h].does = "deploy" /\ b \in Apps /\ e \in Event
      /\ End(h)
  BY DEF StartDeploy, Does, IInv, Types, RequestOK
<1>2. request'[h] = None /\ \A g \in Handlers \ {h} : request'[g] = request[g]
  BY <1>1, RequestFacts
<1>3. CASE deploy[b] # None
  <2>1. deploy' = deploy /\ missed' = [missed EXCEPT ![b] = IF @ = "nothing" THEN "refused" ELSE @]
    BY <1>3 DEF StartDeploy
  <2>2. a # b /\ missed[a] = "nothing"
    BY <2>1 DEF IInv, Types, HistoryOK
  <2>3. Followed(a)
    BY <2>2 DEF FollowInv
  <2>4. \A g \in Handlers : request[g] # None /\ request[g].app = a => request'[g] = request[g]
    BY <1>2, <2>2
  <2> HIDE DEF b, e
  <2> QED BY <1>1, <2>1, <2>3, <2>4, Bystander, RowUnchanged, GrantUnchanged DEF Followed
<1>4. CASE deploy[b] = None
  <2>1. /\ deploy' = [deploy EXCEPT ![b] = NewDeploy(b, e)]
        /\ IF e.kind = "workflow_run" /\ ~(e.repo = Url[b] /\ IsHead(e.repo, e.commit))
           THEN Excuse({b}) ELSE UNCHANGED missed
    BY <1>4 DEF StartDeploy
  <2>2. /\ missed[a] = "nothing"
        /\ a = b /\ e.kind = "workflow_run" => e.repo = Url[a] /\ e.commit = head[Url[a]]
    BY <2>1 DEF Excuse, IsHead
  <2>3. Followed(a)
    BY <2>2 DEF FollowInv
  <2>4. deploy'[b] = NewDeploy(b, e) /\ \A x \in Apps \ {b} : deploy'[x] = deploy[x]
    BY <1>1, <2>1 DEF IInv, Types, DeployOK
  <2>5. CASE a # b
    <3>1. \A g \in Handlers : request[g] # None /\ request[g].app = a => request'[g] = request[g]
      BY <1>2, <2>5
    <3> HIDE DEF b, e
    <3> QED BY <1>1, <2>3, <2>4, <2>5, <3>1, Bystander, RowUnchanged, GrantUnchanged DEF Followed
  <2>6. CASE a = b
    <3>1. row'[a] = row[a] /\ (Sole(a)' => Sole(a)) /\ InstallationsOf(Url[a])' # {}
      BY <1>1, <2>3, RowUnchanged, GrantUnchanged DEF Followed
    <3>2. Due(a)' => Due(a)
      BY <1>1, <3>1 DEF Due, Newest
    <3> DEFINE d == NewDeploy(a, e)
    <3>3. /\ deploy'[a] = d /\ deploy[a] = None
          /\ d.repo = e.repo /\ d.commit = e.commit /\ d.pull = (e.kind = "workflow_run")
          /\ d.step = "queued" /\ d \in Deploy /\ d # None
      <4>1. d \in Deploy
        BY <1>1 DEF NewDeploy, IInv, Types, RowOK
      <4> QED BY <1>4, <2>4, <2>6, <4>1, NoneIsNothing DEF NewDeploy
    <3>4. Announced(a) => Announced(a)'
      BY <1>1 DEF Announced, Carries, Newest
    <3>5. ASSUME AtHead(a)
          PROVE  (AtHead(a) /\ Harmless(Url[a], Newest(a), deploy[a]))'
      <4> HIDE DEF b, e, d
      <4> QED BY <1>1, <2>2, <2>6, <3>3, <3>5 DEF AtHead, Harmless, Newest
    <3>6. ASSUME Due(a), Carries(Url[a], Newest(a), row[a].mode, e)
          PROVE  Brings(Url[a], Newest(a), published, deploy[a])'
      <4>1. e.repo = Url[a] /\ e.commit = head[Url[a]]
        BY <3>6 DEF Carries, Newest
      <4>2. e.kind = "workflow_run" => <<Url[a], head[Url[a]]>> \in published
        BY <3>6 DEF Carries, Newest, Due
      <4> HIDE DEF b, e, d
      <4> QED BY <1>1, <3>3, <4>1, <4>2 DEF Brings, Newest
    <3>7. ASSUME Due(a), Requested(a)
          PROVE  Requested(a)' \/ Brings(Url[a], Newest(a), published, deploy[a])'
      <4>1. PICK g \in Handlers :
              /\ request[g] # None /\ request[g].does = "deploy" /\ request[g].app = a
              /\ Carries(Url[a], Newest(a), row[a].mode, request[g].event)
        BY <3>7 DEF Requested
      <4>2. CASE g = h
        BY <3>6, <3>7, <4>1, <4>2
      <4>3. CASE g # h
        <5>1. request'[g] = request[g]
          BY <1>2, <4>3
        <5> HIDE DEF b, e, d, Row, Deploy, Request, Event
        <5> QED BY <1>1, <4>1, <5>1 DEF Requested, Carries, Newest
      <4> QED BY <4>2, <4>3
    <3>8. ~Brings(Url[a], Newest(a), published, deploy[a])
      BY <3>3 DEF Brings
    <3>9. Due(a) /\ Underway(a) => Underway(a)'
      BY <3>4, <3>5, <3>7, <3>8 DEF Underway
    <3> QED BY <1>1, <2>3, <3>1, <3>2, <3>9 DEF Followed
  <2> QED BY <2>5, <2>6
<1> QED BY <1>3, <1>4

\* What happens to the deploy of a alone.
LEMMA OwnDeploy ==
  ASSUME NEW a \in Apps, Followed(a),
         UNCHANGED <<row, request, deployed, head, published, grant, events>>,
         Brings(Url[a], Newest(a), published, deploy[a]) =>
           Brings(Url[a], Newest(a), published, deploy[a])',
         Harmless(Url[a], Newest(a), deploy[a]) => Harmless(Url[a], Newest(a), deploy[a])'
  PROVE  Followed(a)'
<1> HIDE DEF Row, Deploy, Request, Event
<1>1. row'[a] = row[a] /\ (Sole(a)' => Sole(a)) /\ InstallationsOf(Url[a])' # {}
  BY RowUnchanged, GrantUnchanged DEF Followed
<1>2. Due(a)' => Due(a)
  BY DEF Due, Newest
<1>3. Announced(a) => Announced(a)'
  BY DEF Announced, Carries, Newest
<1>4. Requested(a) => Requested(a)'
  BY DEF Requested, Carries, Newest
<1>5. AtHead(a) => AtHead(a)'
  BY DEF AtHead
<1>6. Underway(a) => Underway(a)'
  BY <1>3, <1>4, <1>5 DEF Underway
<1> QED BY <1>1, <1>2, <1>6 DEF Followed

\* The deploy of another application changes nothing of a but what it is excused.
LEMMA OtherDeploy ==
  ASSUME IInv, NEW b \in Apps, NEW a \in Apps \ {b}, NEW d, deploy' = [deploy EXCEPT ![b] = d],
         UNCHANGED <<row, request, deployed, head, published, grant, events>>, Followed(a)
  PROVE  Followed(a)'
<1>1. deploy'[a] = deploy[a]
  BY DEF IInv, Types, DeployOK
<1> QED BY <1>1, Bystander, RowUnchanged, GrantUnchanged DEF Followed

LEMMA TriggerFollow ==
  ASSUME IInv, FollowInv, NEW b \in Apps, Trigger(b), NEW a \in Apps, missed'[a] = "nothing"
  PROVE  Followed(a)'
<1> DEFINE d == [copy |-> row[b], repo |-> Url[b], commit |-> None, pull |-> FALSE,
                 by |-> "manual", step |-> "queued"]
<1>1. /\ UNCHANGED <<row, request, deployed, head, published, grant, events, missed>>
      /\ deploy' = [deploy EXCEPT ![b] = d] /\ deploy[b] = None
  BY DEF Trigger
<1>2. Followed(a)
  BY <1>1 DEF FollowInv
<1>3. d.pull = FALSE /\ d.step = "queued"
  OBVIOUS
<1> HIDE DEF d
<1>4. CASE a = b
  <2>1. deploy'[a] = d
    BY <1>1, <1>4 DEF IInv, Types, DeployOK
  <2>2. Harmless(Url[a], Newest(a), deploy[a])'
    BY <1>3, <2>1 DEF Harmless
  <2>3. ~Brings(Url[a], Newest(a), published, deploy[a])
    BY <1>1, <1>4 DEF Brings
  <2> QED BY <1>1, <1>2, <2>2, <2>3, OwnDeploy
<1>5. CASE a # b
  BY <1>1, <1>2, <1>5, OtherDeploy
<1> QED BY <1>4, <1>5

\* Resolving, building and pulling: the commit that comes of it is the newest, if that was
\* what the deploy was for.
LEMMA WorkFollow ==
  ASSUME IInv, FollowInv, NEW b \in Apps, ResolveCommit(b) \/ Build(b) \/ Pull(b),
         NEW a \in Apps, missed'[a] = "nothing"
  PROVE  Followed(a)'
<1>1. /\ UNCHANGED <<row, request, deployed, head, published, grant, events, missed>>
      /\ deploy[b] # None
  BY DEF ResolveCommit, Build, Pull, Queued
<1>2. Followed(a)
  BY <1>1 DEF FollowInv
<1>3. deploy[b] \in Deploy
  BY <1>1, DeployFacts
<1>4. PICK d : /\ deploy' = [deploy EXCEPT ![b] = d] /\ d \in Deploy
               /\ d.repo = deploy[b].repo /\ d.pull = deploy[b].pull
               /\ \/ ResolveCommit(b) /\ d.commit = head[Url[b]] /\ d.step = "queued"
                  \/ Build(b) /\ d.commit = deploy[b].commit
                  \/ Pull(b) /\ d.commit = deploy[b].commit
  <2>1. CASE ResolveCommit(b)
    <3> DEFINE d == [deploy[b] EXCEPT !.commit = head[Url[b]]]
    <3>1. head[Url[b]] \in Commits
      BY DEF IInv, Types, GitHubOK
    <3>2. /\ d \in Deploy /\ d.repo = deploy[b].repo /\ d.pull = deploy[b].pull
          /\ d.commit = head[Url[b]] /\ d.step = deploy[b].step
      BY <1>3, <3>1
    <3>3. deploy' = [deploy EXCEPT ![b] = d] /\ deploy[b].step = "queued"
      BY <2>1 DEF ResolveCommit, Queued
    <3> HIDE DEF d
    <3> QED BY <2>1, <3>2, <3>3
  <2>2. CASE Build(b) \/ Pull(b)
    <3> DEFINE d == [deploy[b] EXCEPT !.step = "imaged"]
    <3>1. d \in Deploy /\ d.repo = deploy[b].repo /\ d.pull = deploy[b].pull
          /\ d.commit = deploy[b].commit
      BY <1>3
    <3>2. deploy' = [deploy EXCEPT ![b] = d]
      BY <2>2 DEF Build, Pull
    <3> HIDE DEF d
    <3> QED BY <2>2, <3>1, <3>2
  <2> QED BY <2>1, <2>2
<1>5. CASE a # b
  BY <1>1, <1>2, <1>4, <1>5, OtherDeploy
<1>6. CASE a = b
  <2>1. deploy'[a] = d /\ d # None
    BY <1>4, <1>6, NoneIsNothing DEF IInv, Types, DeployOK
  <2>2. /\ ResolveCommit(a) => deploy[a].commit = None
        /\ Build(a) => /\ ~deploy[a].pull /\ deploy[a].repo = Url[a]
                       /\ deploy[a].commit = head[Url[a]]
        /\ Pull(a) => deploy[a].pull
    BY DEF ResolveCommit, Build, Pull, IsHead
  <2>3. head[Url[a]] # None
    BY NoneIsNothing DEF IInv, Types, GitHubOK
  <2> HIDE DEF Row, Deploy, Request, Event
  <2>4. Brings(Url[a], Newest(a), published, deploy[a]) =>
          Brings(Url[a], Newest(a), published, deploy[a])'
    BY <1>1, <1>4, <1>6, <2>1, <2>2, <2>3 DEF Brings, Newest
  <2>5. Harmless(Url[a], Newest(a), deploy[a]) => Harmless(Url[a], Newest(a), deploy[a])'
    BY <1>1, <1>4, <1>6, <2>1, <2>2, <2>3 DEF Harmless, Newest
  <2> QED BY <1>1, <1>2, <2>4, <2>5, OwnDeploy
<1> QED BY <1>5, <1>6

\* A deploy that fails was to bring something else, or excuses.
LEMMA DeployFailsFollow ==
  ASSUME IInv, FollowInv, NEW b \in Apps, DeployFails(b), NEW a \in Apps, missed'[a] = "nothing"
  PROVE  Followed(a)'
<1>1. /\ UNCHANGED <<row, request, deployed, head, published, grant, events>>
      /\ deploy' = [deploy EXCEPT ![b] = None] /\ deploy[b] # None
  BY DEF DeployFails
<1>2. missed[a] = "nothing"
  BY DEF DeployFails, Excuse
<1>3. Followed(a)
  BY <1>2 DEF FollowInv
<1>4. CASE a # b
  BY <1>1, <1>3, <1>4, OtherDeploy
<1>5. CASE a = b
  <2>1. IF deploy[a].pull THEN <<deploy[a].repo, deploy[a].commit>> \notin published
        ELSE deploy[a].commit # None /\ (deploy[a].repo # Url[a] \/ ~IsHead(Url[a], deploy[a].commit))
    BY <1>5 DEF DeployFails, Excuse
  <2>2. ~Brings(Url[a], Newest(a), published, deploy[a])
    BY <2>1 DEF Brings, Newest, IsHead
  <2>3. deploy'[a] = None
    BY <1>1, <1>5 DEF IInv, Types, DeployOK
  <2>4. Harmless(Url[a], Newest(a), deploy[a])'
    BY <2>3 DEF Harmless
  <2> QED BY <1>1, <1>3, <2>2, <2>4, OwnDeploy
<1> QED BY <1>4, <1>5

\* A deploy that ends has brought the newest commit, or something else is still under way.
LEMMA FinishFollow ==
  ASSUME IInv, FollowInv, NEW b \in Apps, Finish(b), NEW a \in Apps, missed'[a] = "nothing"
  PROVE  Followed(a)'
<1> DEFINE d == deploy[b]
           new == [repo |-> d.repo, commit |-> d.commit]
<1>1. /\ UNCHANGED <<request, head, published, grant, events>>
      /\ d # None /\ d.step = "imaged" /\ d.copy \in Row /\ d.commit \in Commits
      /\ deployed' = [deployed EXCEPT ![b] = new] /\ SetRow(b, d.copy)
      /\ deploy' = [deploy EXCEPT ![b] = None]
  BY DeployFacts DEF Finish, IInv, ImagedOK
<1>2. missed[a] = "nothing" /\ row'[a] = row[a] /\ (Sole(a)' => Sole(a))
  BY <1>1, RowKept
<1>3. Followed(a) /\ InstallationsOf(Url[a])' # {}
  BY <1>1, <1>2, GrantUnchanged DEF FollowInv, Followed
<1>4. CASE a # b
  <2>1. deploy'[a] = deploy[a] /\ deployed'[a] = deployed[a]
    BY <1>1, <1>4 DEF IInv, Types, DeployOK, DeployedOK
  <2> HIDE DEF d, new
  <2> QED BY <1>1, <1>2, <1>3, <2>1, Bystander
<1>5. CASE a = b
  <2>1. deploy'[a] = None /\ deployed'[a] = new
    BY <1>1, <1>5 DEF IInv, Types, DeployOK, DeployedOK
  <2>2. Due(a)' => Due(a)
    BY <1>1, <1>2 DEF Due, Newest
  <2>3. Harmless(Url[a], Newest(a), deploy[a])'
    BY <2>1 DEF Harmless
  <2> HIDE DEF Row, Deploy, Request, Event
  <2>4. Announced(a) => Announced(a)'
    BY <1>1, <1>2 DEF Announced, Carries, Newest
  <2>5. Requested(a) => Requested(a)'
    BY <1>1, <1>2 DEF Requested, Carries, Newest
  <2>6. ASSUME \/ Brings(Url[a], Newest(a), published, deploy[a])
               \/ Harmless(Url[a], Newest(a), deploy[a])
        PROVE  AtHead(a)'
    <3>1. d.commit # None
      BY <1>1, NoneIsNothing
    <3>2. d.repo = Url[a] /\ d.commit = head[Url[a]]
      BY <1>1, <1>5, <2>6, <3>1 DEF Brings, Harmless, Newest
    <3> QED BY <1>1, <2>1, <3>2 DEF AtHead
  <2>7. Underway(a) => Underway(a)'
    BY <2>3, <2>4, <2>5, <2>6 DEF Underway
  <2> QED BY <1>2, <1>3, <2>2, <2>7 DEF Followed
<1> QED BY <1>4, <1>5

\* Connecting, disconnecting and updating: whatever changes a connection excuses.
LEMMA RowFollow ==
  ASSUME IInv, FollowInv, NEW b \in Apps, NEW c \in Row, SetRow(b, c),
         UNCHANGED <<deploy, deployed, head, published, grant, events>>,
         \A h \in Handlers : request[h] # None /\ request[h].does = "deploy" => request'[h] = request[h],
         NEW a \in Apps, missed'[a] = "nothing"
  PROVE  Followed(a)'
<1>1. missed[a] = "nothing" /\ row'[a] = row[a] /\ (Sole(a)' => Sole(a))
  BY RowKept
<1>2. Followed(a) /\ InstallationsOf(Url[a])' # {}
  BY <1>1, GrantUnchanged DEF FollowInv, Followed
<1> QED BY <1>1, <1>2, Bystander

LEMMA ServeFollow ==
  ASSUME IInv, FollowInv, PublishedInv, NEW h \in Handlers, Serve(h),
         NEW a \in Apps, missed'[a] = "nothing"
  PROVE  Followed(a)'
<1>1. CASE \E e \in events : Webhook(h, e)
  BY <1>1, WebhookFollow
<1>2. CASE StartDeploy(h)
  BY <1>2, StartDeployFollow
<1>3. CASE HandleCallback(h) \/ ReadForUpdate(h)
  <2>1. /\ UNCHANGED <<row, deploy, deployed, head, published, grant, events, missed>>
        /\ request[h] = None /\ \E q : Continue(h, q)
    BY <1>3 DEF HandleCallback, ReadForUpdate, Idle
  <2>2. \A g \in Handlers : request[g] # None => request'[g] = request[g]
    BY <2>1, RequestFacts
  <2>3. Followed(a)
    BY <2>1 DEF FollowInv
  <2> QED BY <2>1, <2>2, <2>3, Bystander, RowUnchanged, GrantUnchanged DEF Followed
<1>4. CASE SaveConnection(h) \/ WriteUpdate(h)
  <2>1. /\ UNCHANGED <<deploy, deployed, head, published, grant, events>>
        /\ request[h] # None /\ request[h].does # "deploy"
        /\ SetRow(request[h].app, request[h].copy)
        /\ End(h) \/ \E q : Continue(h, q)
    BY <1>4 DEF SaveConnection, WriteUpdate, Does
  <2>2. request[h].app \in Apps /\ request[h].copy \in Row
    BY <2>1, CopyFacts
  <2>3. \A g \in Handlers : request[g] # None /\ request[g].does = "deploy" => request'[g] = request[g]
    BY <2>1, RequestFacts
  <2> QED BY <2>1, <2>2, <2>3, RowFollow
<1>5. CASE SetupWorkflow(h)
  <2>1. /\ UNCHANGED <<row, deploy, deployed, grant, published>> /\ End(h)
        /\ request[h] # None /\ request[h].does = "workflow" /\ NewCommit(request[h].copy.repo)
        /\ request[h].copy.repo \in grant[request[h].copy.inst]
    BY <1>5 DEF SetupWorkflow, Does
  <2>2. request[h].copy.repo \in Repos
    BY <2>1, CopyFacts DEF Sound, Whole
  <2>3. \A g \in Handlers : request[g] # None /\ request[g].does = "deploy" => request'[g] = request[g]
    BY <2>1, RequestFacts
  <2> QED BY <2>1, <2>2, <2>3, NewCommitFollow
<1>6. CASE RequestFails(h)
  <2>1. /\ UNCHANGED <<row, deploy, deployed, head, published, grant, events>>
        /\ request[h] # None /\ End(h)
        /\ IF request[h].does = "deploy" THEN Excuse({request[h].app}) ELSE UNCHANGED missed
    BY <1>6 DEF RequestFails, Idle, Does
  <2>2. missed[a] = "nothing" /\ (request[h].does = "deploy" => a # request[h].app)
    BY <2>1 DEF Excuse
  <2>3. Followed(a)
    BY <2>2 DEF FollowInv
  <2>4. \A g \in Handlers :
          request[g] # None /\ request[g].does = "deploy" /\ request[g].app = a =>
            request'[g] = request[g]
    BY <2>1, <2>2, RequestFacts
  <2> QED BY <2>1, <2>3, <2>4, Bystander, RowUnchanged, GrantUnchanged DEF Followed
<1> QED BY <1>1, <1>2, <1>3, <1>4, <1>5, <1>6 DEF Serve

LEMMA GitHubFollow ==
  ASSUME IInv, FollowInv, PublishedInv, GitHub, NEW a \in Apps, missed'[a] = "nothing"
  PROVE  Followed(a)'
<1>1. ASSUME NEW r \in Repos, Push(r) PROVE Followed(a)'
  <2>1. NewCommit(r) /\ UNCHANGED <<row, deploy, deployed, grant, published, request>>
    BY <1>1 DEF Push
  <2> QED BY <2>1, NewCommitFollow
<1>2. ASSUME NEW r \in Repos, OtherWorkflow(r) PROVE Followed(a)'
  <2>1. /\ UNCHANGED <<row, request, deploy, deployed, head, published, grant, missed>>
        /\ events \subseteq events'
    BY <1>2 DEF OtherWorkflow, Send
  <2>2. Followed(a)
    BY <2>1 DEF FollowInv
  <2> QED BY <2>1, <2>2, Bystander, RowUnchanged, GrantUnchanged DEF Followed
<1> QED BY <1>1, <1>2, DeployWorkflowFollow, InstallFollow, LoseFollow DEF GitHub

LEMMA FollowStep ==
  ASSUME IInv, FollowInv, PublishedInv, [Next]_vars
  PROVE  FollowInv'
<1> SUFFICES ASSUME NEW a \in Apps, missed'[a] = "nothing"
             PROVE  Followed(a)'
  BY DEF FollowInv
<1>1. CASE KeyArrives \/ WindowPasses \/ GetClient \/ UNCHANGED vars
  BY <1>1, ClientFollow
<1>2. CASE GitHub
  BY <1>2, GitHubFollow
<1>3. ASSUME NEW h \in Handlers, Serve(h) PROVE Followed(a)'
  BY <1>3, ServeFollow
<1>4. ASSUME NEW b \in Apps, Execute(b) \/ Trigger(b) PROVE Followed(a)'
  BY <1>4, WorkFollow, DeployFailsFollow, FinishFollow, TriggerFollow DEF Execute
<1>5. ASSUME NEW b \in Apps, Disconnect(b) PROVE Followed(a)'
  <2>1. /\ SetRow(b, Connected(b, None, None))
        /\ UNCHANGED <<request, deploy, deployed, head, published, grant, events>>
    BY <1>5 DEF Disconnect
  <2>2. Connected(b, None, None) \in Row
    BY ConnectedFacts
  <2> QED BY <2>1, <2>2, RowFollow
<1> QED BY <1>1, <1>2, <1>3, <1>4, <1>5 DEF Next

\* Only commits there are get published.
LEMMA PublishedStep ==
  ASSUME IInv, PublishedInv, [Next]_vars
  PROVE  PublishedInv'
<1>1. CASE UNCHANGED <<head, published>>
  BY <1>1 DEF PublishedInv
<1>2. ASSUME NEW r \in Repos, NewCommit(r), UNCHANGED published PROVE PublishedInv'
  <2>1. \A q \in Repos : head[q] <= head'[q] /\ head[q] \in Nat /\ head'[q] \in Nat
    BY <1>2, NewCommitFacts, CommitFacts DEF IInv, Types, GitHubOK
  <2>2. Commits \subseteq Nat
    BY CommitFacts
  <2>3. ASSUME NEW q \in Repos, NEW c \in Commits, <<q, c>> \in published'
        PROVE  c <= head'[q]
    <3>1. c <= head[q]
      BY <1>2, <2>3 DEF PublishedInv
    <3> QED BY <2>1, <2>2, <3>1
  <2> QED BY <2>3 DEF PublishedInv
<1>3. ASSUME NEW r \in Repos, NEW c \in Commits, DeployWorkflow(r, c) PROVE PublishedInv'
  <2>1. published' = published \cup {<<r, c>>} /\ head' = head /\ c <= head[r]
    BY <1>3 DEF DeployWorkflow
  <2> QED BY <2>1 DEF PublishedInv
<1>4. ASSUME NEW h \in Handlers, SetupWorkflow(h) PROVE PublishedInv'
  <2>1. /\ request[h] # None /\ request[h].does = "workflow" /\ NewCommit(request[h].copy.repo)
        /\ request[h].copy.repo \in grant[request[h].copy.inst] /\ UNCHANGED published
    BY <1>4 DEF SetupWorkflow, Does
  <2>2. request[h].copy.repo \in Repos
    BY <2>1, CopyFacts DEF Sound, Whole
  <2> QED BY <1>2, <2>1, <2>2
<1>5. \/ UNCHANGED <<head, published>>
      \/ \E r \in Repos : NewCommit(r) /\ UNCHANGED published
      \/ \E r \in Repos, c \in Commits : DeployWorkflow(r, c)
      \/ \E h \in Handlers : SetupWorkflow(h)
  BY DEF Next, vars, KeyArrives, WindowPasses, GetClient, GitHub, Push, OtherWorkflow,
         Install, Uninstall, Lose, Serve, Webhook, StartDeploy,
         HandleCallback, SaveConnection, ReadForUpdate, WriteUpdate,
         RequestFails, Execute, ResolveCommit, Build, Pull, DeployFails, Finish, Trigger, Disconnect
<1> QED BY <1>1, <1>2, <1>3, <1>4, <1>5

LEMMA FollowInductive == Spec => [](FollowInv /\ PublishedInv)
<1>1. Init => FollowInv /\ PublishedInv
  BY DEF Init, FollowInv, PublishedInv
<1>2. IInv /\ FollowInv /\ PublishedInv /\ [Next]_vars => FollowInv' /\ PublishedInv'
  BY FollowStep, PublishedStep
<1> QED BY <1>1, <1>2, Inductive, PTL DEF Spec

\* When everything under way has ended, an application that alone is connected to its repository
\* runs the newest commit, unless the history says why not: in whatever order webhooks, requests
\* and deploys of any number of applications and installations come (internal/server/server.go,
\* the webhook's events push and workflow_run, and Engine.Deploy).
THEOREM ArrivesAtHeadAlways == Spec => []ArrivesAtHead
<1>1. ASSUME IInv, FollowInv, NEW a \in Apps, Working(a), Quiet(a), missed[a] = "nothing"
      PROVE  AtHead(a)
  <2>1. Followed(a) /\ Sole(a) /\ Due(a)
    BY <1>1 DEF FollowInv, Working, Sole, Due, Newest
  <2>2. deploy[a] = None /\ \A h \in Handlers : request[h] # None => request[h].app # a
    BY <1>1 DEF Quiet, Pending, Idle
  <2>3. ~Announced(a)
    BY <1>1 DEF Quiet, Announced, Carries
  <2>4. ~Requested(a) /\ ~Brings(Url[a], Newest(a), published, deploy[a])
    BY <2>2 DEF Requested, Brings
  <2> QED BY <2>1, <2>3, <2>4 DEF Followed, Underway
<1>2. IInv /\ FollowInv => ArrivesAtHead
  BY <1>1 DEF ArrivesAtHead
<1> QED BY <1>2, Inductive, FollowInductive, PTL

=============================================================================
