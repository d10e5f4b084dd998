------------------------------ MODULE Builder ------------------------------
(***************************************************************************)
(* The builds Talos makes itself (internal/builder/builder.go): a commit   *)
(* of the repository is cloned into a directory named after application    *)
(* and commit, gets a Dockerfile if it has none, and is built into an      *)
(* image named after repository and commit.  Builds run in the goroutines  *)
(* of deploys, and remove their directory when they end.                   *)
(*                                                                         *)
(* All applications here are connected to one repository with one branch,  *)
(* whose commits are numbered.                                             *)
(***************************************************************************)
EXTENDS ProjectDetection

CONSTANTS
  Apps,        \* applications that are built from the repository
  Workers,     \* goroutines of deploys
  LastCommit,  \* bound on the commits
  Scenarios,   \* the histories and settings that are examined
  Crashes,     \* bound on the crashes
  None         \* no directory, no image, no build

Commits == 1..LastCommit

\* project_type and internal_port of an application.
Setting == [type : {"", "static", "node", "go", "java"}, port : Nat]

ASSUME BuilderAssumption ==
  /\ LastCommit \in Nat \ {0} /\ Crashes \in Nat
  /\ \A s \in Scenarios :
       s.history \in [Commits -> Project] /\ s.setting \in [Apps -> Setting]

VARIABLES
  scenario,  \* the projects that are committed, and the settings of the applications
  head,      \* the commit the branch is at
  dir,       \* the directories under builds/
  left,      \* the directories a crash left
  image,     \* the image that was built last
  pc,        \* the step each worker is at
  job,       \* its local variables
  crashes    \* how often the process has been killed

vars == <<scenario, head, dir, left, image, pc, job, crashes>>

-----------------------------------------------------------------------------
\* An application and the first seven digits of a commit.
Keys == Apps \X Commits

\* What a Dockerfile is: the one that was committed, one that was generated, or one
\* generated from what a removal had left of a project.
Dockerfile == {[by |-> "repository"], [by |-> "remains"]}
                \cup [by : {"talos"}, recipe : Recipe]

Dir == [files : {"empty", "whole", "part"}, commit : Commits \cup {None},
        dockerfile : Dockerfile \cup {None}]

\* name: the commit in its name.  shared: another build used the directory at the same
\* time.
Image == [name : Commits, commit : Commits, whole : BOOLEAN, dockerfile : Dockerfile, app : Apps,
          shared : BOOLEAN]

Job == [key : Keys, shared : BOOLEAN]

ASSUME NoneIsNothing == None \notin Commits \cup Dir \cup Dockerfile \cup Image \cup Job

Steps == {"idle", "clone", "checkout", "detect", "build", "remove", "removing"}

TypeOK ==
  /\ scenario \in Scenarios
  /\ head \in Commits
  /\ dir \in [Keys -> Dir \cup {None}]
  /\ left \in SUBSET Keys
  /\ image \in Image \cup {None}
  /\ pc \in [Workers -> Steps]
  /\ job \in [Workers -> Job \cup {None}]
  /\ crashes \in 0..Crashes
  /\ \A w \in Workers : pc[w] = "idle" <=> job[w] = None

Init ==
  /\ scenario \in Scenarios
  /\ head = 1
  /\ dir = [k \in Keys |-> None] /\ left = {}
  /\ image = None
  /\ pc = [w \in Workers |-> "idle"] /\ job = [w \in Workers |-> None]
  /\ crashes = 0

At(w, step) == pc[w] = step
Goto(w, step) == pc' = [pc EXCEPT ![w] = step]

Key(w) == job[w].key
App(w) == Key(w)[1]
Commit(w) == Key(w)[2]
Directory(w) == dir[Key(w)]

\* Workers between MkdirAll and the end of RemoveAll.
Using(k) == {w \in Workers : pc[w] # "idle" /\ Key(w) = k}

Put(w, d) == dir' = [dir EXCEPT ![Key(w)] = d]
Unchanged == UNCHANGED <<scenario, head, image, crashes>>

-----------------------------------------------------------------------------
Push ==
  /\ head < LastCommit
  /\ head' = head + 1
  /\ UNCHANGED <<scenario, dir, left, image, pc, job, crashes>>

\* A webhook names a commit that was the head when it was pushed, a request of a user
\* is resolved to the head.  MkdirAll takes a directory that is there.
Request(w) ==
  /\ At(w, "idle")
  /\ \E a \in Apps, c \in 1..head :
       LET k == <<a, c>>
           others == Using(k)
       IN  /\ dir' = [dir EXCEPT ![k] =
                        IF @ = None
                        THEN [files |-> "empty", commit |-> None, dockerfile |-> None]
                        ELSE @]
           /\ job' = [v \in Workers |->
                        CASE v = w -> [key |-> k, shared |-> others # {}]
                          [] v \in others -> [job[v] EXCEPT !.shared = TRUE]
                          [] OTHER -> job[v]]
  /\ Goto(w, "clone")
  /\ UNCHANGED left /\ Unchanged

\* git clone insists on an empty directory; a clone of depth one has no commit but the
\* head of the branch.
Clone(w) ==
  /\ At(w, "clone")
  /\ Directory(w) # None => Directory(w).files = "empty"
  /\ Put(w, [files |-> "whole", commit |-> head,
             dockerfile |-> IF Has(scenario.history[head], "Dockerfile")
                            THEN [by |-> "repository"] ELSE None])
  /\ Goto(w, "checkout")
  /\ UNCHANGED <<left, job>> /\ Unchanged

\* Faulty: an error is returned before the removal of the directory is deferred.
CloneFails_LeavesDirectory(w) ==
  /\ At(w, "clone")
  /\ Goto(w, "idle") /\ job' = [job EXCEPT ![w] = None]
  /\ UNCHANGED <<dir, left>> /\ Unchanged

\* The directory is not empty, or git fails.
CloneFails(w) ==
  /\ At(w, "clone")
  /\ Goto(w, "remove")
  /\ UNCHANGED <<dir, left, job>> /\ Unchanged

\* Faulty: leaves the directory as it was cloned.
Checkout_AtHead(w) ==
  /\ At(w, "checkout") /\ Directory(w) # None
  /\ Goto(w, "detect")
  /\ UNCHANGED <<dir, left, job>> /\ Unchanged

\* If the branch has moved on, the commit is not there.
Checkout(w) ==
  /\ At(w, "checkout") /\ Directory(w) # None
  /\ Directory(w).commit = Commit(w)
  /\ Goto(w, "detect")
  /\ UNCHANGED <<dir, left, job>> /\ Unchanged

CheckoutFails(w) ==
  /\ At(w, "checkout")
  /\ Directory(w) # None => Directory(w).commit # Commit(w) \/ Directory(w).files # "whole"
  /\ Goto(w, "remove")
  /\ UNCHANGED <<dir, left, job>> /\ Unchanged

-----------------------------------------------------------------------------
PlanOf(w) == DetectAs(scenario.history[Commit(w)], scenario.setting[App(w)].type)

\* A Dockerfile that is there is used.
KeepDockerfile(w) ==
  /\ At(w, "detect")
  /\ Directory(w) # None /\ Directory(w).dockerfile # None
  /\ Goto(w, "build")
  /\ UNCHANGED <<dir, left, job>> /\ Unchanged

WriteDockerfile(w) ==
  LET d == Directory(w)
      plan == PlanOf(w)
      recipe == GenerateDockerfile([plan EXCEPT !.port =
                                      EffectivePlanPort(@, scenario.setting[App(w)].port)])
  IN  /\ At(w, "detect")
      /\ d # None /\ d.dockerfile = None
      /\ IF d.files = "whole"
         THEN /\ plan # NoPlan
              /\ Put(w, [d EXCEPT !.dockerfile = [by |-> "talos", recipe |-> recipe]])
         ELSE Put(w, [d EXCEPT !.dockerfile = [by |-> "remains"]])
      /\ Goto(w, "build")
      /\ UNCHANGED <<left, job>> /\ Unchanged

\* No provider takes the project, the one that was chosen fails, or the directory is
\* being removed by another build.
DetectionFails(w) ==
  /\ At(w, "detect")
  /\ Directory(w) # None =>
       /\ Directory(w).dockerfile = None
       /\ PlanOf(w) = NoPlan \/ Directory(w).files # "whole"
  /\ Goto(w, "remove")
  /\ UNCHANGED <<dir, left, job>> /\ Unchanged

\* docker build -t takes what is in the directory, and moves the name to the image.
DockerBuild(w) ==
  LET d == Directory(w)
  IN  /\ At(w, "build")
      /\ d # None /\ d.dockerfile # None /\ d.commit # None
      /\ image' = [name |-> Commit(w), commit |-> d.commit, whole |-> d.files = "whole",
                   dockerfile |-> d.dockerfile, app |-> App(w), shared |-> job[w].shared]
      /\ Goto(w, "remove")
      /\ UNCHANGED <<scenario, head, dir, left, job, crashes>>

DockerBuildFails(w) ==
  /\ At(w, "build")
  /\ Goto(w, "remove")
  /\ UNCHANGED <<dir, left, job>> /\ Unchanged

\* The deferred RemoveAll removes one file after the other.
RemoveSome(w) ==
  /\ At(w, "remove")
  /\ IF Directory(w) = None \/ Directory(w).files = "empty" THEN UNCHANGED dir
     ELSE \E f \in {Directory(w).dockerfile, None} :
            Put(w, [Directory(w) EXCEPT !.files = "part", !.dockerfile = f])
  /\ Goto(w, "removing")
  /\ UNCHANGED <<left, job>> /\ Unchanged

RemoveRest(w) ==
  /\ At(w, "removing")
  /\ Put(w, None) /\ left' = left \ {Key(w)}
  /\ Goto(w, "idle") /\ job' = [job EXCEPT ![w] = None]
  /\ Unchanged

\* Nothing removes the directories of builds that were under way.
Crash ==
  /\ crashes < Crashes
  /\ crashes' = crashes + 1
  /\ pc' = [w \in Workers |-> "idle"] /\ job' = [w \in Workers |-> None]
  /\ left' = {k \in Keys : dir[k] # None}
  /\ UNCHANGED <<scenario, head, dir, image>>

CloneRepo(w) ==
  Clone(w) \/ CloneFails(w) \/ Checkout(w) \/ CheckoutFails(w)
BuildImage(w) ==
  \/ KeepDockerfile(w) \/ WriteDockerfile(w) \/ DetectionFails(w)
  \/ DockerBuild(w) \/ DockerBuildFails(w)
CloneAndBuild(w) ==
  \/ Request(w) \/ CloneRepo(w) \/ BuildImage(w)
  \/ RemoveSome(w) \/ RemoveRest(w)

Next == Push \/ Crash \/ \E w \in Workers : CloneAndBuild(w)

Spec == Init /\ [][Next]_vars

-----------------------------------------------------------------------------
\* An image named after a commit is made of that commit, of all its files, and of its
\* Dockerfile if it has one, however builds overlap and crash, unless another build
\* used the directory at the same time.
ImagesAreOfTheirCommit ==
  image # None /\ ~image.shared =>
    /\ image.commit = image.name /\ image.whole
    /\ image.dockerfile.by = "repository" <=> Has(scenario.history[image.name], "Dockerfile")

\* A directory is there only while a build uses it; the one a crash leaves fails the
\* next build of that commit, but no other.
OnlyCrashesLeaveDirectories ==
  /\ \A k \in Keys : dir[k] # None => Using(k) # {} \/ k \in left
  /\ \A w \in Workers :
       At(w, "clone") /\ ~job[w].shared /\ Directory(w).files # "empty" => Key(w) \in left

-----------------------------------------------------------------------------
\* The tool each lock file belongs to.
ToolsOf(p) ==
  {"npm"} \cup (IF Has(p, "yarn.lock") THEN {"yarn"} ELSE {})
          \cup (IF Has(p, "pnpm-lock.yaml") THEN {"pnpm"} ELSE {})
          \cup (IF IsBun(p) THEN {"bun"} ELSE {})

\* The tool an install command belongs to.
InstallTool(command) ==
  CASE command \in {"npm ci", "npm install"} -> "npm"
    [] command = "yarn install --frozen-lockfile" -> "yarn"
    [] command = "pnpm install --frozen-lockfile" -> "pnpm"
    [] command = "bun install --frozen-lockfile" -> "bun"
    [] OTHER -> command

\* The lock file an install command is to keep to.
LockOf(command) ==
  CASE command = "npm ci" -> "package-lock.json"
    [] command = "yarn install --frozen-lockfile" -> "yarn.lock"
    [] command = "pnpm install --frozen-lockfile" -> "pnpm-lock.yaml"
    [] command = "bun install --frozen-lockfile" -> "bun.lockb"
    [] OTHER -> ""

\* The installs of every stage run where the lock file they are to keep to has been copied.
SeesLocks(r, p) ==
  \A command \in {r.install, r.second} :
    LockOf(command) # "" => LockOf(command) \in CopiedFirst(r.template) \cap p.files

\* The Node projects that get such a Dockerfile: Bun's with bun.lockb, and npm's with
\* package-lock.json or nothing to build.
Installs(p) ==
  IF IsBun(p) THEN Has(p, "bun.lockb")
  ELSE ToolsOf(p) = {"npm"} /\ (Has(p, "package-lock.json") \/ "build" \notin p.scripts)

\* The sentinel files of the templates, and what must not be beside them when nobody chose
\* the type.
Sentinels(template) ==
  CASE template = "static" -> {"index.html"}
    [] template \in {"bun", "node", "nodeBuild"} -> {"package.json"}
    [] template = "go" -> {"go.mod"}
    [] template = "maven" -> {"pom.xml"}
    [] OTHER -> {"build.gradle", "build.gradle.kts"}

TypeOf(template) ==
  CASE template \in {"bun", "node", "nodeBuild"} -> "node"
    [] template \in {"maven", "gradle"} -> "java"
    [] OTHER -> template

Fits(r, p, s) ==
  /\ IF s.type = ""
     THEN /\ p.files \cap Sentinels(r.template) # {}
          /\ \A t \in {"nodeBuild", "go", "maven", "gradle"} :
               p.files \cap Sentinels(t) # {} =>
                 \/ TypeOf(t) = TypeOf(r.template)
                 \/ TypeOf(r.template) = "node"
                 \/ TypeOf(r.template) = "go" /\ TypeOf(t) = "java"
     ELSE TypeOf(r.template) = s.type
  /\ s.port > 0 => r.port = s.port
  /\ TypeOf(r.template) = "node" =>
       /\ InstallTool(r.install) \in ToolsOf(p)
       /\ r.build \in {"", InstallTool(r.install)}
       /\ (r.build # "") <=> ("build" \in p.scripts)
       /\ (r.template = "bun") <=> (InstallTool(r.install) = "bun")
       /\ (r.runtime = "bun") <=> (r.template = "bun")
       /\ InstallTool(r.install) = "npm" => ToolsOf(p) = {"npm"}
       /\ SeesLocks(r, p) <=> Installs(p)
  /\ r.template = "go" /\ r.target # 0 =>
       \E d \in p.mains : d.place = r.target /\ d.depth <= 3
  /\ TypeOf(r.template) = "java" =>
       /\ (r.template = "maven") <=> Has(p, "pom.xml")
       /\ r.build = (IF r.template = "maven" THEN "mvn" ELSE "gradle")

Generated(w) ==
  /\ At(w, "build") /\ Directory(w) # None
  /\ Directory(w).dockerfile # None /\ Directory(w).dockerfile.by = "talos"

\* The Dockerfile that is generated fits the project: the type that was chosen or the one
\* its files call for; a first stage that installs and builds with one package manager,
\* the one whose lock file is there, on the runtime made for it; a main package that
\* exists; the port that is set (detect.go, dockerfile.go).  The last stage of a Node
\* project with a build installs with npm ci, whatever the package manager, so the
\* installs of all stages see their lock file for the projects of Installs, and for no
\* others: InstallsSeeTheirLock.
RecipesFit ==
  \A w \in Workers :
    Generated(w) /\ ~job[w].shared =>
      Fits(Directory(w).dockerfile.recipe, scenario.history[Commit(w)], scenario.setting[App(w)])

\* docs/architecture/components.md:127 lists npm, Yarn, pnpm and Bun among what is detected
\* and installed with.  An install command that is to keep to a lock file runs after that
\* file has been copied into the image.  Refuted by install_without_lock.cfg.
InstallsSeeTheirLock ==
  \A w \in Workers :
    Generated(w) /\ ~job[w].shared =>
      SeesLocks(Directory(w).dockerfile.recipe, scenario.history[Commit(w)])

=============================================================================
