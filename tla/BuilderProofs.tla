---------------------------- MODULE BuilderProofs ----------------------------
(***************************************************************************)
(* Proofs about Builder, for any applications, workers, commits, projects  *)
(* and settings: an image is made of the commit it is named after, only a  *)
(* crash leaves a directory, and a Dockerfile that is generated fits the   *)
(* project and the setting of the application.                             *)
(***************************************************************************)
EXTENDS Builder, WellFoundedInduction, TLAPS

-----------------------------------------------------------------------------
(***************************************************************************)
(* What detection returns, for every project and setting.                  *)
(***************************************************************************)

\* A set of numbers has a least element: the first main package exists.
LEMMA NatMin ==
  ASSUME NEW T, T \subseteq Nat, T # {}
  PROVE \E x \in T : \A y \in T : x <= y
<1> DEFINE R == {p \in Nat \X Nat : p[1] < p[2]}
<1>1. IsWellFoundedOn(R, Nat)
  BY ONLY NatLessThanWellFounded DEF OpToRel
<1>2. \E x \in T : \A y \in T : ~ (<<y, x>> \in R)
  <2> HIDE DEF R
  <2> QED BY <1>1, WFMin
<1>3. ASSUME NEW x \in Nat, NEW y \in Nat, ~ (<<y, x>> \in R) PROVE x <= y
  <2>1. ~ (<<y, x>>[1] < <<y, x>>[2])
    BY <1>3
  <2> QED BY <2>1, SMT
<1> HIDE DEF R
<1>4. PICK x \in T : \A y \in T : ~ (<<y, x>> \in R)
  BY <1>2
<1>5. \A y \in T : x <= y
  BY <1>3, <1>4
<1> QED BY <1>5

\* A plan, blank or made.
AnyPlan ==
  [provider : {"", "static", "node", "go", "java"},
   runtime : {"", "nginx", "bun", "node", "golang", "temurin"},
   version : Nat, install : InstallCommands \cup {""}, build : BuildTools \cup {""},
   start : StartCommands \cup Names \cup {""}, port : Nat, target : Nat]

\* A plan a provider made.
MadePlan == {r \in AnyPlan : r.provider # "" /\ r.runtime # "" /\ r.port # 0}

LEMMA BlankPlan == Plan \in AnyPlan
BY DEF Plan, AnyPlan

\* The first directory of a set is one of the set.
LEMMA FirstIsOne ==
  ASSUME NEW D, D \subseteq GoDir, D # {}
  PROVE  FirstOf(D) \in Nat
<1> DEFINE T == {d.place : d \in D}
<1>1. T \subseteq Nat /\ T # {}
  BY DEF GoDir
<1>2. PICK x \in T : \A y \in T : x <= y
  <2> HIDE DEF T
  <2> QED BY <1>1, NatMin
<1>3. \E d \in D : \A e \in D : d.place <= e.place
  BY <1>2
<1>4. (CHOOSE d \in D : \A e \in D : d.place <= e.place) \in D
  BY <1>3
<1> QED BY <1>4 DEF FirstOf, GoDir

\* go build is told a main package that exists, or all of them.
LEMMA TargetIsNumber ==
  ASSUME NEW p \in Project
  PROVE  GoTarget(p) \in Nat
<1> DEFINE cmds == {d \in MainDirs(p) : d.cmd}
           named == {d \in cmds : ModuleName(p) # "" /\ d.base = ModuleName(p)}
           root == {d \in MainDirs(p) : d.depth = 0}
<1>1. MainDirs(p) \subseteq GoDir
  BY DEF MainDirs, Project
<1>2. /\ cmds \subseteq GoDir /\ named \subseteq GoDir /\ root \subseteq GoDir
  BY <1>1
<1>3. /\ MainDirs(p) # {} => FirstOf(MainDirs(p)) \in Nat
      /\ named # {} => FirstOf(named) \in Nat
      /\ cmds # {} => FirstOf(cmds) \in Nat
      /\ root # {} => FirstOf(root) \in Nat
  <2> HIDE DEF cmds, named, root
  <2> QED BY <1>1, <1>2, FirstIsOne
<1>4. GoTarget(p) = CASE MainDirs(p) = {} -> 0
        [] named # {} -> FirstOf(named)
        [] named = {} /\ cmds # {} -> FirstOf(cmds)
        [] cmds = {} /\ root # {} -> FirstOf(root)
        [] OTHER -> FirstOf(MainDirs(p))
  BY DEF GoTarget
<1> HIDE DEF cmds, named, root
<1> QED BY <1>3, <1>4

\* What starts a Node project is a command, and its port is set.
LEMMA NodeStartTyped ==
  ASSUME NEW p \in Project
  PROVE  NodeStart(p)[1] \in StartCommands \cup {""} /\ NodeStart(p)[2] \in Nat \ {0}
<1>1. p.startPort \in Nat
  BY DEF Project
<1> QED BY <1>1 DEF NodeStart, NodeStartMain, StartCommands

\* A provider makes a whole plan or fails, whatever the project.
LEMMA PlanOrNone ==
  ASSUME NEW p \in Project, NEW type
  PROVE  DetectAs(p, type) = NoPlan \/ DetectAs(p, type) \in MadePlan
<1>1. StaticPlan(p) \in MadePlan
  <2> DEFINE q == [Plan EXCEPT !.provider = "static", !.runtime = "nginx", !.port = 80]
  <2>1. q \in AnyPlan
    BY BlankPlan DEF AnyPlan
  <2>2. q.provider = "static" /\ q.runtime = "nginx" /\ q.port = 80
    BY BlankPlan DEF AnyPlan
  <2>3. q.port # 0
    BY <2>2
  <2>4. StaticPlan(p) = q
    BY DEF StaticPlan
  <2> HIDE DEF q
  <2> QED BY <2>1, <2>2, <2>3, <2>4 DEF MadePlan
<1>2. NodePlan(p) = NoPlan \/ NodePlan(p) \in MadePlan
  <2>1. NodeInstall(p) \in InstallCommands /\ NodePackageManager(p) \in BuildTools
    BY DEF NodeInstall, NodePackageManager, InstallCommands, BuildTools
  <2> DEFINE build == IF "build" \in p.scripts THEN NodePackageManager(p) ELSE ""
             runtime == IF IsBun(p) THEN "bun" ELSE "node"
             install == NodeInstall(p)
             start == NodeStart(p)[1]
             port == NodeStart(p)[2]
             q == [Plan EXCEPT !.provider = "node", !.runtime = runtime, !.install = install,
                               !.build = build, !.start = start, !.port = port]
  <2>2. /\ build \in BuildTools \cup {""} /\ runtime \in {"bun", "node"}
        /\ install \in InstallCommands \cup {""}
        /\ start \in StartCommands \cup Names \cup {""} /\ port \in Nat \ {0}
    BY <2>1, NodeStartTyped
  <2>3. ~(~Has(p, "package.json") \/ ~p.parses) => NodePlan(p) = q
    BY DEF NodePlan
  <2> HIDE DEF build, runtime, install, start, port
  <2>4. q \in AnyPlan
    BY <2>2, BlankPlan DEF AnyPlan
  <2>5. q.provider = "node" /\ q.runtime = runtime /\ q.port = port
    BY BlankPlan DEF AnyPlan
  <2>6. q \in MadePlan
    BY <2>2, <2>4, <2>5 DEF MadePlan
  <2> QED BY <2>3, <2>6 DEF NodePlan
<1>3. GoPlan(p) \in MadePlan
  <2> DEFINE target == GoTarget(p)
             start == IF ModuleName(p) # "" THEN ModuleName(p) ELSE "server"
             port == 8080
             q == [Plan EXCEPT !.provider = "go", !.runtime = "golang", !.port = port,
                               !.target = target, !.start = start]
  <2>1. start \in StartCommands \cup Names \cup {""}
    BY DEF Project, StartCommands, ModuleName
  <2>2. target \in Nat /\ port \in Nat \ {0}
    BY TargetIsNumber
  <2>3. GoPlan(p) = q
    BY DEF GoPlan
  <2> HIDE DEF target, start, port
  <2>4. q \in AnyPlan
    BY <2>1, <2>2, BlankPlan DEF AnyPlan
  <2>5. q.provider = "go" /\ q.runtime = "golang" /\ q.port = port
    BY BlankPlan DEF AnyPlan
  <2> HIDE DEF q
  <2> QED BY <2>2, <2>3, <2>4, <2>5 DEF MadePlan
<1>4. JavaPlan(p) \in MadePlan
  <2> DEFINE maven == Has(p, "pom.xml")
             file == CASE maven -> "pom.xml"
                       [] ~maven /\ Has(p, "build.gradle.kts") -> "build.gradle.kts"
                       [] OTHER -> "build.gradle"
             version == JavaVersion(p, file)
             install == IF maven THEN "mvn dependency:go-offline -B"
                                 ELSE "gradle dependencies || true"
             build == IF maven THEN "mvn" ELSE "gradle"
             port == 8080
             q == [Plan EXCEPT !.provider = "java", !.runtime = "temurin", !.port = port,
                               !.version = version, !.install = install, !.build = build,
                               !.start = "app.jar"]
  <2>1. file \in {"pom.xml", "build.gradle", "build.gradle.kts"}
    OBVIOUS
  <2>2. version \in Nat
    <3> HIDE DEF file
    <3> QED BY <2>1 DEF JavaVersion, Project
  <2>3. /\ install \in InstallCommands /\ build \in BuildTools /\ "app.jar" \in StartCommands
        /\ port \in Nat \ {0}
    BY DEF InstallCommands, BuildTools, StartCommands
  <2>4. JavaPlan(p) = q
    BY DEF JavaPlan
  <2> HIDE DEF version, install, build, port
  <2>5. q \in AnyPlan
    BY <2>2, <2>3, BlankPlan DEF AnyPlan
  <2>6. q.provider = "java" /\ q.runtime = "temurin" /\ q.port = port
    BY BlankPlan DEF AnyPlan
  <2> HIDE DEF q
  <2> QED BY <2>3, <2>4, <2>5, <2>6 DEF MadePlan
<1>5. Detect(p) = NoPlan \/ Detect(p) \in MadePlan
  BY <1>1, <1>2, <1>3, <1>4 DEF Detect
<1> QED BY <1>1, <1>2, <1>3, <1>4, <1>5 DEF DetectAs

\* Every plan fits a template and gives a Dockerfile.
LEMMA PlanGivesRecipe ==
  ASSUME NEW plan \in MadePlan, NEW port \in Nat
  PROVE  GenerateDockerfile([plan EXCEPT !.port = EffectivePlanPort(@, port)]) \in Recipe
<1> DEFINE effective == EffectivePlanPort(plan.port, port)
           q == [plan EXCEPT !.port = effective]
<1>1. plan \in AnyPlan /\ plan.provider # "" /\ plan.runtime # "" /\ plan.port # 0
  BY DEF MadePlan
<1>2. effective \in Nat \ {0}
  <2>1. plan.port \in Nat \ {0}
    BY <1>1 DEF AnyPlan
  <2> QED BY <2>1 DEF EffectivePlanPort
<1>3. [plan EXCEPT !.port = EffectivePlanPort(@, port)] = q
  OBVIOUS
<1> HIDE DEF effective
<1>4. q \in AnyPlan
  BY <1>1, <1>2 DEF AnyPlan
<1>5. q.provider = plan.provider /\ q.runtime = plan.runtime /\ q.port = effective
  BY <1>1 DEF AnyPlan
<1>6. ASSUME NEW r \in AnyPlan, r.provider # "", r.runtime # "", r.port # 0
      PROVE  GenerateDockerfile(r) \in Recipe
  <2> DEFINE template == Template(r)
             install == IF Template(r) \in {"static", "go"} THEN "" ELSE r.install
             second == IF Template(r) = "nodeBuild" /\ r.runtime = "node" THEN "npm ci" ELSE ""
             cmd == IF r.provider = "static" THEN "" ELSE CmdToJSON(r.start)
  <2>1. template \in Templates
    BY <1>6 DEF Template, Templates, AnyPlan
  <2>2. /\ install \in InstallCommands \cup {""} /\ second \in {"", "npm ci"}
        /\ cmd \in StartCommands \cup Names \cup {"sh", ""}
    BY DEF AnyPlan, CmdToJSON
  <2>3. /\ r.runtime \in {"nginx", "bun", "node", "golang", "temurin"} /\ r.version \in Nat
        /\ r.build \in BuildTools \cup {""} /\ r.port \in Nat \ {0} /\ r.target \in Nat
    BY <1>6 DEF AnyPlan
  <2>4. GenerateDockerfile(r) =
          [template |-> template, runtime |-> r.runtime, version |-> r.version,
           install |-> install, second |-> second, build |-> r.build, cmd |-> cmd, port |-> r.port,
           target |-> r.target]
    BY DEF GenerateDockerfile
  <2> HIDE DEF template, install, second, cmd
  <2>5. [template |-> template, runtime |-> r.runtime, version |-> r.version,
         install |-> install, second |-> second, build |-> r.build, cmd |-> cmd, port |-> r.port,
         target |-> r.target] \in Recipe
    BY <2>1, <2>2, <2>3 DEF Recipe
  <2> QED BY <2>4, <2>5
<1> HIDE DEF q
<1>7. q.provider # "" /\ q.runtime # "" /\ q.port # 0
  BY <1>1, <1>2, <1>5
<1>8. GenerateDockerfile(q) \in Recipe
  BY <1>4, <1>6, <1>7
<1> QED BY <1>3, <1>8

-----------------------------------------------------------------------------
(***************************************************************************)
(* The Dockerfile fits the project it is generated for.                    *)
(***************************************************************************)
Final(plan, port) == GenerateDockerfile([plan EXCEPT !.port = EffectivePlanPort(@, port)])

LEMMA FinalFields ==
  ASSUME NEW plan \in AnyPlan, NEW port
  PROVE  LET r == Final(plan, port)
         IN  /\ r.template = Template(plan) /\ r.runtime = plan.runtime
             /\ r.build = plan.build /\ r.target = plan.target
             /\ r.template \notin {"static", "go"} => r.install = plan.install
             /\ r.second = (IF r.template = "nodeBuild" /\ r.runtime = "node" THEN "npm ci" ELSE "")
             /\ port > 0 => r.port = port
<1> DEFINE q == [plan EXCEPT !.port = EffectivePlanPort(plan.port, port)]
<1>1. /\ q.provider = plan.provider /\ q.runtime = plan.runtime /\ q.build = plan.build
      /\ q.install = plan.install /\ q.target = plan.target
      /\ q.port = EffectivePlanPort(plan.port, port)
  BY DEF AnyPlan
<1>2. Final(plan, port) = GenerateDockerfile(q)
  BY DEF Final
<1> HIDE DEF q
<1>3. Template(q) = Template(plan)
  BY <1>1 DEF Template
<1>4. /\ GenerateDockerfile(q).template = Template(q) /\ GenerateDockerfile(q).runtime = q.runtime
      /\ GenerateDockerfile(q).build = q.build /\ GenerateDockerfile(q).target = q.target
      /\ GenerateDockerfile(q).port = q.port
      /\ Template(q) \notin {"static", "go"} => GenerateDockerfile(q).install = q.install
      /\ GenerateDockerfile(q).second =
           (IF Template(q) = "nodeBuild" /\ q.runtime = "node" THEN "npm ci" ELSE "")
  BY DEF GenerateDockerfile
<1>5. port > 0 => EffectivePlanPort(plan.port, port) = port
  BY DEF EffectivePlanPort
<1> QED BY <1>1, <1>2, <1>3, <1>4, <1>5

\* The first directory of a set is one of the set.
LEMMA FirstExists ==
  ASSUME NEW D, D \subseteq GoDir, D # {}
  PROVE  \E d \in D : d.place = FirstOf(D)
<1> DEFINE T == {d.place : d \in D}
<1>1. T \subseteq Nat /\ T # {}
  BY DEF GoDir
<1>2. PICK x \in T : \A y \in T : x <= y
  <2> HIDE DEF T
  <2> QED BY <1>1, NatMin
<1>3. \E d \in D : \A e \in D : d.place <= e.place
  BY <1>2
<1>4. (CHOOSE d \in D : \A e \in D : d.place <= e.place) \in D
  BY <1>3
<1> QED BY <1>4 DEF FirstOf

\* go build is told the place of a main package that lies at most three deep, or all.
LEMMA TargetExists ==
  ASSUME NEW p \in Project, GoTarget(p) # 0
  PROVE  \E d \in p.mains : d.place = GoTarget(p) /\ d.depth <= 3
<1> DEFINE cmds == {d \in MainDirs(p) : d.cmd}
           named == {d \in cmds : ModuleName(p) # "" /\ d.base = ModuleName(p)}
           root == {d \in MainDirs(p) : d.depth = 0}
<1>1. MainDirs(p) \subseteq GoDir /\ \A d \in MainDirs(p) : d \in p.mains /\ d.depth <= 3
  BY DEF MainDirs, Project
<1>2. /\ cmds \subseteq MainDirs(p) /\ named \subseteq MainDirs(p) /\ root \subseteq MainDirs(p)
  OBVIOUS
<1>3. GoTarget(p) = CASE MainDirs(p) = {} -> 0
        [] named # {} -> FirstOf(named)
        [] named = {} /\ cmds # {} -> FirstOf(cmds)
        [] cmds = {} /\ root # {} -> FirstOf(root)
        [] OTHER -> FirstOf(MainDirs(p))
  BY DEF GoTarget
<1> HIDE DEF cmds, named, root
<1>4. PICK D \in SUBSET MainDirs(p) : D # {} /\ GoTarget(p) = FirstOf(D)
  BY <1>2, <1>3
<1>5. D \subseteq GoDir
  BY <1>1
<1>6. PICK d \in D : d.place = FirstOf(D)
  BY <1>4, <1>5, FirstExists
<1> QED BY <1>1, <1>4, <1>6

\* What each provider puts into its plan.
LEMMA PlanFields ==
  ASSUME NEW p \in Project
  PROVE  /\ StaticPlan(p).provider = "static"
         /\ Has(p, "package.json") /\ p.parses =>
              /\ NodePlan(p).provider = "node" /\ NodePlan(p).install = NodeInstall(p)
              /\ NodePlan(p).runtime = (IF IsBun(p) THEN "bun" ELSE "node")
              /\ NodePlan(p).build = IF "build" \in p.scripts THEN NodePackageManager(p) ELSE ""
         /\ ~(Has(p, "package.json") /\ p.parses) => NodePlan(p) = NoPlan
         /\ GoPlan(p).provider = "go" /\ GoPlan(p).target = GoTarget(p)
         /\ JavaPlan(p).provider = "java"
         /\ JavaPlan(p).install = (IF Has(p, "pom.xml") THEN "mvn dependency:go-offline -B"
                                   ELSE "gradle dependencies || true")
         /\ JavaPlan(p).build = IF Has(p, "pom.xml") THEN "mvn" ELSE "gradle"
<1>1. StaticPlan(p).provider = "static"
  BY DEF StaticPlan, Plan
<1>2. Has(p, "package.json") /\ p.parses =>
        /\ NodePlan(p).provider = "node" /\ NodePlan(p).install = NodeInstall(p)
        /\ NodePlan(p).runtime = (IF IsBun(p) THEN "bun" ELSE "node")
        /\ NodePlan(p).build = IF "build" \in p.scripts THEN NodePackageManager(p) ELSE ""
  BY DEF NodePlan, Plan
<1>3. GoPlan(p).provider = "go" /\ GoPlan(p).target = GoTarget(p)
  BY DEF GoPlan, Plan
<1>4. /\ JavaPlan(p).provider = "java"
      /\ JavaPlan(p).install = (IF Has(p, "pom.xml") THEN "mvn dependency:go-offline -B"
                                ELSE "gradle dependencies || true")
      /\ JavaPlan(p).build = IF Has(p, "pom.xml") THEN "mvn" ELSE "gradle"
  BY DEF JavaPlan, Plan
<1> QED BY <1>1, <1>2, <1>3, <1>4 DEF NodePlan

\* What Fits asks of a recipe for the sake of its provider.
FitsTools(r, p) ==
  /\ TypeOf(r.template) = "node" =>
       /\ InstallTool(r.install) \in ToolsOf(p)
       /\ r.build \in {"", InstallTool(r.install)}
       /\ (r.build # "") <=> ("build" \in p.scripts)
       /\ (r.template = "bun") <=> (InstallTool(r.install) = "bun")
       /\ (r.runtime = "bun") <=> (r.template = "bun")
       /\ InstallTool(r.install) = "npm" => ToolsOf(p) = {"npm"}
       /\ SeesLocks(r, p) <=> Installs(p)
  /\ r.template = "go" /\ r.target # 0 =>
       \E d \in p.mains : d.place = r.target /\ d.depth <= 3
  /\ TypeOf(r.template) = "java" =>
       /\ (r.template = "maven") <=> Has(p, "pom.xml")
       /\ r.build = (IF r.template = "maven" THEN "mvn" ELSE "gradle")

\* Node: one package manager installs and builds in the first stage, the one whose lock
\* file is there; the installs of both stages see their lock file for some projects only.
LEMMA NodeFits ==
  ASSUME NEW p \in Project, NEW port, NodePlan(p) # NoPlan, NodePlan(p) \in AnyPlan
  PROVE  LET r == Final(NodePlan(p), port)
         IN  /\ r.template \in {"bun", "node", "nodeBuild"}
             /\ TypeOf(r.template) = "node" /\ FitsTools(r, p)
<1> DEFINE plan == NodePlan(p)
           r == Final(plan, port)
<1>1. /\ plan.provider = "node" /\ plan.install = NodeInstall(p)
      /\ plan.runtime = (IF IsBun(p) THEN "bun" ELSE "node")
      /\ plan.build = IF "build" \in p.scripts THEN NodePackageManager(p) ELSE ""
  BY PlanFields
<1>2. /\ Template(plan) \in {"bun", "node", "nodeBuild"}
      /\ (Template(plan) = "bun") <=> (plan.runtime = "bun")
      /\ (Template(plan) = "nodeBuild") <=> (plan.runtime = "node" /\ plan.build # "")
  BY <1>1 DEF Template
<1>3. /\ r.template = Template(plan) /\ r.runtime = plan.runtime
      /\ r.build = plan.build /\ r.install = plan.install
      /\ r.second = (IF r.template = "nodeBuild" /\ r.runtime = "node" THEN "npm ci" ELSE "")
  <2> HIDE DEF plan
  <2>1. plan \in AnyPlan
    BY DEF plan
  <2>2. LET q == Final(plan, port)
        IN  /\ q.template = Template(plan) /\ q.runtime = plan.runtime /\ q.build = plan.build
            /\ q.template \notin {"static", "go"} => q.install = plan.install
            /\ q.second = (IF q.template = "nodeBuild" /\ q.runtime = "node" THEN "npm ci" ELSE "")
    BY <2>1, FinalFields
  <2> QED BY <1>2, <2>2
<1> HIDE DEF plan, r
<1>4. /\ InstallTool(NodeInstall(p)) = NodePackageManager(p)
      /\ NodePackageManager(p) \in ToolsOf(p) /\ NodePackageManager(p) # ""
      /\ NodePackageManager(p) = "bun" <=> IsBun(p)
      /\ NodePackageManager(p) = "npm" => ToolsOf(p) = {"npm"}
  <2>1. CASE IsBun(p)
    BY <2>1 DEF InstallTool, NodeInstall, NodePackageManager, ToolsOf
  <2>2. CASE ~IsBun(p) /\ Has(p, "pnpm-lock.yaml")
    <3>1. NodeInstall(p) = "pnpm install --frozen-lockfile" /\ NodePackageManager(p) = "pnpm"
      BY <2>2 DEF NodeInstall, NodePackageManager, LockFiles, Has
    <3>2. InstallTool("pnpm install --frozen-lockfile") = "pnpm"
      BY DEF InstallTool
    <3>3. "pnpm" \in ToolsOf(p)
      BY <2>2 DEF ToolsOf
    <3> QED BY <2>2, <3>1, <3>2, <3>3
  <2>3. CASE ~IsBun(p) /\ ~Has(p, "pnpm-lock.yaml") /\ Has(p, "yarn.lock")
    <3>1. NodeInstall(p) = "yarn install --frozen-lockfile" /\ NodePackageManager(p) = "yarn"
      BY <2>3 DEF NodeInstall, NodePackageManager, LockFiles, Has
    <3>2. InstallTool("yarn install --frozen-lockfile") = "yarn"
      BY DEF InstallTool
    <3>3. "yarn" \in ToolsOf(p)
      BY <2>3 DEF ToolsOf
    <3> QED BY <2>3, <3>1, <3>2, <3>3
  <2>4. CASE ~IsBun(p) /\ ~Has(p, "pnpm-lock.yaml") /\ ~Has(p, "yarn.lock")
    BY <2>4 DEF InstallTool, NodeInstall, NodePackageManager, ToolsOf
  <2> QED BY <2>1, <2>2, <2>3, <2>4
<1>5. TypeOf(r.template) = "node" /\ r.template # "go"
  BY <1>2, <1>3 DEF TypeOf
<1>6. (r.template = "bun") <=> IsBun(p)
  BY <1>1, <1>2, <1>3
<1>7. SeesLocks(r, p) <=> Installs(p)
  <2>1. r.template = IF IsBun(p) THEN "bun"
                     ELSE IF "build" \in p.scripts THEN "nodeBuild" ELSE "node"
    BY <1>1, <1>2, <1>3, <1>4
  <2>2. r.install = NodeInstall(p) /\ r.second = IF r.template = "nodeBuild" THEN "npm ci" ELSE ""
    BY <1>1, <1>2, <1>3
  <2>3. CASE IsBun(p)
    <3>1. r.template = "bun" /\ r.install = "bun install --frozen-lockfile" /\ r.second = ""
      BY <2>1, <2>2, <2>3 DEF NodeInstall
    <3> QED BY <2>3, <3>1 DEF SeesLocks, LockOf, CopiedFirst, Installs, Has
  <2>4. CASE ~IsBun(p)
    <3>1. CopiedFirst(r.template) = {"package.json", "package-lock.json"}
      BY <2>1, <2>4 DEF CopiedFirst
    <3>2. r.second = IF "build" \in p.scripts THEN "npm ci" ELSE ""
      BY <2>1, <2>2, <2>4
    <3>3. LockOf("npm ci") = "package-lock.json" /\ LockOf("npm install") = "" /\ LockOf("") = ""
      BY DEF LockOf
    <3>4. CASE Has(p, "pnpm-lock.yaml") \/ Has(p, "yarn.lock")
      <4>1. LockOf(r.install) \in {"pnpm-lock.yaml", "yarn.lock"}
        <5>1. NodeInstall(p) \in {"pnpm install --frozen-lockfile", "yarn install --frozen-lockfile"}
          BY <2>4, <3>4 DEF NodeInstall, LockFiles, Has
        <5> QED BY <2>2, <5>1 DEF LockOf
      <4>2. ~SeesLocks(r, p)
        BY <3>1, <4>1 DEF SeesLocks
      <4>3. ToolsOf(p) # {"npm"}
        BY <3>4 DEF ToolsOf
      <4> QED BY <2>4, <4>2, <4>3 DEF Installs
    <3>5. CASE ~Has(p, "pnpm-lock.yaml") /\ ~Has(p, "yarn.lock")
      <4>1. r.install = IF Has(p, "package-lock.json") THEN "npm ci" ELSE "npm install"
        <5>1. p.files \cap LockFiles =
                IF Has(p, "package-lock.json") THEN {"package-lock.json"} ELSE {}
          BY <2>4, <3>5 DEF IsBun, Has, LockFiles
        <5> QED BY <2>2, <2>4, <3>5, <5>1 DEF NodeInstall
      <4>2. ToolsOf(p) = {"npm"}
        BY <2>4, <3>5 DEF ToolsOf
      <4>3. SeesLocks(r, p) <=> (Has(p, "package-lock.json") \/ "build" \notin p.scripts)
        BY <3>1, <3>2, <3>3, <4>1 DEF SeesLocks, Has
      <4> QED BY <2>4, <4>2, <4>3 DEF Installs
    <3> QED BY <3>4, <3>5
  <2> QED BY <2>3, <2>4
<1>8. FitsTools(r, p)
  BY <1>1, <1>3, <1>4, <1>5, <1>6, <1>7 DEF FitsTools
<1> QED BY <1>2, <1>3, <1>5, <1>8 DEF plan, r

LEMMA OtherFits ==
  ASSUME NEW p \in Project, NEW port
  PROVE  /\ StaticPlan(p) \in AnyPlan =>
              LET r == Final(StaticPlan(p), port) IN r.template = "static" /\ FitsTools(r, p)
         /\ GoPlan(p) \in AnyPlan =>
              LET r == Final(GoPlan(p), port) IN r.template = "go" /\ FitsTools(r, p)
         /\ JavaPlan(p) \in AnyPlan =>
              LET r == Final(JavaPlan(p), port)
              IN  /\ r.template = (IF Has(p, "pom.xml") THEN "maven" ELSE "gradle")
                  /\ FitsTools(r, p)
<1>1. ASSUME StaticPlan(p) \in AnyPlan
      PROVE  LET r == Final(StaticPlan(p), port) IN r.template = "static" /\ FitsTools(r, p)
  <2>1. Template(StaticPlan(p)) = "static"
    BY PlanFields DEF Template
  <2>2. Final(StaticPlan(p), port).template = "static"
    BY <1>1, <2>1, FinalFields
  <2> QED BY <2>2 DEF FitsTools, TypeOf
<1>2. ASSUME GoPlan(p) \in AnyPlan
      PROVE  LET r == Final(GoPlan(p), port) IN r.template = "go" /\ FitsTools(r, p)
  <2>1. Template(GoPlan(p)) = "go"
    BY PlanFields DEF Template
  <2>2. Final(GoPlan(p), port).template = "go" /\ Final(GoPlan(p), port).target = GoTarget(p)
    BY <1>2, <2>1, FinalFields, PlanFields
  <2> QED BY <2>2, TargetExists DEF FitsTools, TypeOf
<1>3. ASSUME JavaPlan(p) \in AnyPlan
      PROVE  LET r == Final(JavaPlan(p), port)
             IN  /\ r.template = (IF Has(p, "pom.xml") THEN "maven" ELSE "gradle")
                 /\ FitsTools(r, p)
  <2>1. Template(JavaPlan(p)) = IF Has(p, "pom.xml") THEN "maven" ELSE "gradle"
    BY PlanFields DEF Template
  <2>2. /\ Final(JavaPlan(p), port).template = IF Has(p, "pom.xml") THEN "maven" ELSE "gradle"
    BY <1>3, <2>1, FinalFields
  <2>3. Final(JavaPlan(p), port).build = IF Has(p, "pom.xml") THEN "mvn" ELSE "gradle"
    BY <1>3, FinalFields, PlanFields
  <2> DEFINE q == Final(JavaPlan(p), port)
  <2> HIDE DEF q
  <2>4. /\ q.template = (IF Has(p, "pom.xml") THEN "maven" ELSE "gradle")
        /\ q.build = IF Has(p, "pom.xml") THEN "mvn" ELSE "gradle"
    BY <2>2, <2>3 DEF q
  <2>5. FitsTools(q, p)
    BY <2>4 DEF FitsTools, TypeOf
  <2> QED BY <2>4, <2>5 DEF q
<1> QED BY <1>1, <1>2, <1>3

\* Whatever the project and the setting: the Dockerfile that is generated fits both.
LEMMA RecipeFits ==
  ASSUME NEW p \in Project, NEW s \in Setting, DetectAs(p, s.type) # NoPlan
  PROVE  Fits(Final(DetectAs(p, s.type), s.port), p, s)
<1> DEFINE plan == DetectAs(p, s.type)
           r == Final(plan, s.port)
<1>1. s.type \in {"", "static", "node", "go", "java"} /\ s.port \in Nat
  BY DEF Setting
<1>2. plan \in AnyPlan
  BY PlanOrNone DEF MadePlan
<1>3. s.port > 0 => r.port = s.port
  <2> HIDE DEF plan
  <2> QED BY <1>2, FinalFields
<1> DEFINE Chosen(q, type) ==
             IF type = ""
             THEN /\ p.files \cap Sentinels(q.template) # {}
                  /\ \A t \in {"nodeBuild", "go", "maven", "gradle"} :
                       p.files \cap Sentinels(t) # {} =>
                         \/ TypeOf(t) = TypeOf(q.template)
                         \/ TypeOf(q.template) = "node"
                         \/ TypeOf(q.template) = "go" /\ TypeOf(t) = "java"
             ELSE TypeOf(q.template) = type
<1>4. ASSUME FitsTools(r, p), Chosen(r, s.type)
      PROVE  Fits(r, p, s)
  <2> HIDE DEF r
  <2> QED BY <1>3, <1>4 DEF Fits, FitsTools
<1> HIDE DEF Chosen
<1>5. CASE plan = StaticPlan(p) /\ (s.type = "static" \/ (s.type = "" /\ DetectStatic(p)))
  <2>1. r.template = "static" /\ FitsTools(r, p)
    BY <1>2, <1>5, OtherFits
  <2>2. TypeOf(r.template) = "static"
    BY <2>1 DEF TypeOf
  <2>3. s.type = "" =>
          /\ p.files \cap Sentinels(r.template) # {}
          /\ \A t \in {"nodeBuild", "go", "maven", "gradle"} : p.files \cap Sentinels(t) = {}
    BY <1>5, <2>1 DEF DetectStatic, Sentinels, BuildFiles, Has
  <2> HIDE DEF r
  <2>4. s.type \in {"", "static"}
    BY <1>5
  <2>5. Chosen(r, s.type)
    BY <2>2, <2>3, <2>4 DEF Chosen
  <2> QED BY <1>4, <2>1, <2>5 DEF r
<1>6. CASE plan = NodePlan(p) /\ (s.type = "node" \/ s.type = "")
  <2>1. TypeOf(r.template) = "node" /\ FitsTools(r, p)
    BY <1>2, <1>6, NodeFits
  <2>2. Has(p, "package.json")
    BY <1>6, PlanFields
  <2>3. p.files \cap Sentinels(r.template) # {}
    <3>1. r.template \in {"bun", "node", "nodeBuild"}
      BY <1>2, <1>6, NodeFits
    <3> HIDE DEF r
    <3> QED BY <2>2, <3>1 DEF Sentinels, Has
  <2> HIDE DEF r
  <2>4. s.type \in {"", "node"}
    BY <1>6
  <2>5. Chosen(r, s.type)
    BY <2>1, <2>3, <2>4 DEF Chosen
  <2> QED BY <1>4, <2>1, <2>5 DEF r
<1>7. CASE /\ plan = GoPlan(p)
           /\ s.type = "go" \/ (s.type = "" /\ ~Has(p, "package.json") /\ Has(p, "go.mod"))
  <2>1. r.template = "go" /\ FitsTools(r, p)
    BY <1>2, <1>7, OtherFits
  <2>2. TypeOf(r.template) = "go"
    BY <2>1 DEF TypeOf
  <2>3. s.type = "" =>
          /\ p.files \cap Sentinels(r.template) # {}
          /\ p.files \cap Sentinels("nodeBuild") = {}
    BY <1>7, <2>1 DEF Sentinels, Has
  <2>4. TypeOf("go") = "go" /\ TypeOf("maven") = "java" /\ TypeOf("gradle") = "java"
    BY DEF TypeOf
  <2> HIDE DEF r
  <2>5. s.type \in {"", "go"}
    BY <1>7
  <2>6. Chosen(r, s.type)
    BY <2>2, <2>3, <2>4, <2>5 DEF Chosen
  <2> QED BY <1>4, <2>1, <2>6 DEF r
<1>8. CASE /\ plan = JavaPlan(p)
           /\ \/ s.type = "java"
              \/ s.type = "" /\ p.files \cap {"package.json", "go.mod"} = {} /\ DetectJava(p)
  <2>1. r.template = (IF Has(p, "pom.xml") THEN "maven" ELSE "gradle") /\ FitsTools(r, p)
    <3> DEFINE q == Final(JavaPlan(p), s.port)
    <3>1. JavaPlan(p) \in AnyPlan
      BY <1>2, <1>8
    <3>2. q.template = (IF Has(p, "pom.xml") THEN "maven" ELSE "gradle") /\ FitsTools(q, p)
      BY <3>1, OtherFits
    <3>3. r = q
      BY <1>8
    <3> HIDE DEF q, r
    <3> QED BY <3>2, <3>3
  <2> HIDE DEF r
  <2>2. TypeOf(r.template) = "java"
    BY <2>1 DEF TypeOf
  <2>3. s.type = "" =>
          /\ p.files \cap Sentinels(r.template) # {}
          /\ p.files \cap Sentinels("nodeBuild") = {} /\ p.files \cap Sentinels("go") = {}
    BY <1>8, <2>1 DEF Sentinels, Has, DetectJava
  <2>4. TypeOf("maven") = "java" /\ TypeOf("gradle") = "java"
    BY DEF TypeOf
  <2>5. s.type \in {"", "java"}
    BY <1>8
  <2>6. Chosen(r, s.type)
    BY <2>2, <2>3, <2>4, <2>5 DEF Chosen
  <2> QED BY <1>4, <2>1, <2>6 DEF r
<1>9. \/ plan = StaticPlan(p) /\ (s.type = "static" \/ (s.type = "" /\ DetectStatic(p)))
      \/ plan = NodePlan(p) /\ (s.type = "node" \/ s.type = "")
      \/ /\ plan = GoPlan(p)
         /\ s.type = "go" \/ (s.type = "" /\ ~Has(p, "package.json") /\ Has(p, "go.mod"))
      \/ /\ plan = JavaPlan(p)
         /\ \/ s.type = "java"
            \/ s.type = "" /\ p.files \cap {"package.json", "go.mod"} = {} /\ DetectJava(p)
  <2>1. CASE s.type = ""
    <3>1. plan = Detect(p) /\ plan # NoPlan
      BY <2>1 DEF DetectAs
    <3>2. CASE DetectStatic(p)
      BY <2>1, <3>1, <3>2 DEF Detect
    <3>3. CASE ~DetectStatic(p) /\ Has(p, "package.json")
      BY <2>1, <3>1, <3>3 DEF Detect
    <3>4. CASE ~DetectStatic(p) /\ ~Has(p, "package.json") /\ Has(p, "go.mod")
      BY <2>1, <3>1, <3>4 DEF Detect
    <3>5. CASE ~DetectStatic(p) /\ ~Has(p, "package.json") /\ ~Has(p, "go.mod")
      <4>1. p.files \cap {"package.json", "go.mod"} = {}
        BY <3>5 DEF Has
      <4>2. DetectJava(p) /\ plan = JavaPlan(p)
        BY <3>1, <3>5, <4>1 DEF Detect
      <4> QED BY <2>1, <4>1, <4>2
    <3> QED BY <3>2, <3>3, <3>4, <3>5
  <2>2. CASE s.type = "static"
    BY <2>2 DEF DetectAs
  <2>3. CASE s.type = "node"
    BY <2>3 DEF DetectAs
  <2>4. CASE s.type = "go"
    BY <2>4 DEF DetectAs
  <2>5. CASE s.type = "java"
    BY <2>5 DEF DetectAs
  <2> QED BY <1>1, <2>1, <2>2, <2>3, <2>4, <2>5
<1> QED BY <1>5, <1>6, <1>7, <1>8, <1>9

-----------------------------------------------------------------------------
(***************************************************************************)
(* The directories.                                                        *)
(***************************************************************************)

DirOK == dir \in [Keys -> Dir \cup {None}] /\ left \in SUBSET Keys
JobOK ==
  /\ pc \in [Workers -> Steps]
  /\ job \in [Workers -> Job \cup {None}]
  /\ \A w \in Workers : pc[w] = "idle" <=> job[w] = None
RestOK ==
  /\ scenario \in Scenarios /\ head \in Commits /\ crashes \in 0..Crashes
  /\ image \in Image \cup {None}

\* Builds at work on one commit of one application know of each other.
Exclusive ==
  \A v, w \in Workers :
    v # w /\ pc[v] # "idle" /\ pc[w] # "idle" /\ Key(v) = Key(w) => job[w].shared

\* A directory is in use, or a crash left it.
LeftInv ==
  \A k \in Keys :
    dir[k] # None => k \in left \/ \E w \in Workers : pc[w] # "idle" /\ Key(w) = k

\* The whole of a commit, with the Dockerfile it came with or none.
Cloned(d) ==
  /\ d # None /\ d.files = "whole" /\ d.commit # None
  /\ d.dockerfile = None <=> ~Has(scenario.history[d.commit], "Dockerfile")
  /\ d.dockerfile # None => d.dockerfile.by = "repository"

\* What a build that has its directory to itself finds there.
FoundBy(w, d) ==
  /\ At(w, "clone") => d # None /\ (d.files # "empty" => Key(w) \in left)
  /\ At(w, "checkout") => Cloned(d)
  /\ At(w, "detect") => Cloned(d) /\ d.commit = Commit(w)
  /\ At(w, "build") =>
       /\ d # None /\ d.files = "whole" /\ d.commit = Commit(w)
       /\ d.dockerfile.by = "repository" <=> Has(scenario.history[Commit(w)], "Dockerfile")

AloneInv ==
  \A w \in Workers : pc[w] # "idle" /\ ~job[w].shared => FoundBy(w, Directory(w))

Types == DirOK /\ JobOK /\ RestOK
IInv == Types /\ Exclusive /\ LeftInv /\ AloneInv /\ ImagesAreOfTheirCommit

\* The invariant is the one TLC checks, and says what the properties say.
LEMMA Implied == IInv => TypeOK /\ OnlyCrashesLeaveDirectories
<1> SUFFICES ASSUME IInv PROVE TypeOK /\ OnlyCrashesLeaveDirectories
  OBVIOUS
<1>1. TypeOK
  BY DEF IInv, Types, DirOK, JobOK, RestOK, TypeOK
<1>2. \A k \in Keys : dir[k] # None => Using(k) # {} \/ k \in left
  BY DEF IInv, LeftInv, Using
<1>3. ASSUME NEW w \in Workers, At(w, "clone"), ~job[w].shared, Directory(w).files # "empty"
      PROVE  Key(w) \in left
  BY <1>3 DEF IInv, AloneInv, FoundBy, At
<1> QED BY <1>1, <1>2, <1>3 DEF OnlyCrashesLeaveDirectories

LEMMA InitInv == Init => IInv
<1> SUFFICES ASSUME Init PROVE IInv
  OBVIOUS
<1>1. Types
  BY BuilderAssumption DEF Init, Types, DirOK, JobOK, RestOK, Commits, Steps
<1> QED BY <1>1 DEF Init, IInv, Exclusive, LeftInv, AloneInv, ImagesAreOfTheirCommit

\* Worker at work has a commit, and another that is alone has another directory.
LEMMA AtWork ==
  ASSUME Types, NEW w \in Workers, pc[w] # "idle"
  PROVE  /\ job[w] \in Job /\ job[w] # None /\ Key(w) \in Keys
         /\ App(w) \in Apps /\ Commit(w) \in Commits
         /\ Directory(w) \in Dir \cup {None}
<1>1. job[w] \in Job /\ job[w] # None
  BY DEF Types, JobOK
<1>2. Key(w) \in Keys
  BY <1>1 DEF Job, Key
<1> QED BY <1>1, <1>2 DEF Types, DirOK, Keys, App, Commit, Directory

LEMMA Elsewhere ==
  ASSUME IInv, NEW w \in Workers, pc[w] # "idle",
         NEW v \in Workers \ {w}, pc[v] # "idle", ~job[v].shared
  PROVE  Key(v) # Key(w) /\ Key(v) \in Keys
BY AtWork DEF IInv, Exclusive

\* A step of a build touches its own directory, and leaves the invariant to be shown for
\* this build alone.
LEMMA OwnStep ==
  ASSUME IInv, NEW w \in Workers, pc[w] # "idle",
         NEW step \in Steps \ {"idle"}, Goto(w, step), job' = job, left' = left,
         NEW d \in Dir \cup {None}, Put(w, d),
         scenario' = scenario, head' = head, crashes' = crashes,
         ~job[w].shared => FoundBy(w, d)'
  PROVE  DirOK' /\ JobOK' /\ Exclusive' /\ LeftInv' /\ AloneInv'
<1> USE DEF Goto, Put
<1>1. Types /\ Key(w) \in Keys
  BY AtWork DEF IInv
<1>2. /\ \A v \in Workers : pc'[v] = IF v = w THEN step ELSE pc[v]
      /\ \A k \in Keys : dir'[k] = IF k = Key(w) THEN d ELSE dir[k]
      /\ \A v \in Workers : Key(v)' = Key(v)
  BY <1>1 DEF Types, JobOK, DirOK, Key
<1>3. DirOK'
  BY <1>1 DEF Types, DirOK
<1>4. JobOK'
  BY <1>1, <1>2 DEF Types, JobOK
<1>5. Exclusive'
  BY <1>2 DEF IInv, Exclusive
<1>6. LeftInv'
  BY <1>2 DEF IInv, LeftInv
<1>7. ASSUME NEW v \in Workers, pc'[v] # "idle", ~job'[v].shared
      PROVE  FoundBy(v, Directory(v))'
  <2>1. CASE v = w
    <3>1. Directory(w)' = d
      BY <1>1, <1>2 DEF Directory
    <3> QED BY <1>7, <2>1, <3>1 DEF FoundBy
  <2>2. CASE v # w
    <3>1. pc[v] # "idle" /\ ~job[v].shared /\ pc'[v] = pc[v]
      BY <1>2, <1>7, <2>2
    <3>2. Key(v) # Key(w) /\ Key(v) \in Keys
      BY <2>2, <3>1, Elsewhere
    <3>3. Directory(v)' = Directory(v)
      BY <1>2, <3>2 DEF Directory
    <3>4. FoundBy(v, Directory(v))
      BY <3>1 DEF IInv, AloneInv
    <3> QED BY <1>2, <3>1, <3>3, <3>4 DEF FoundBy, At, Cloned, Commit
  <2> QED BY <2>1, <2>2
<1> QED BY <1>3, <1>4, <1>5, <1>6, <1>7 DEF AloneInv

\* git clone, checkout, and what follows a failure.
LEMMA CloneStep ==
  ASSUME IInv, NEW w \in Workers, CloneRepo(w)
  PROVE  IInv'
<1>1. pc[w] # "idle"
  BY DEF CloneRepo, Clone, CloneFails, Checkout, CheckoutFails, At
<1>2. Types /\ Directory(w) \in Dir \cup {None} /\ Key(w) \in Keys /\ Commit(w) \in Commits
  BY <1>1, AtWork DEF IInv
<1>3. UNCHANGED <<scenario, head, image, crashes, left, job>>
  BY DEF CloneRepo, Clone, CloneFails, Checkout, CheckoutFails, Unchanged
<1>4. \E step \in Steps \ {"idle"}, d \in Dir \cup {None} :
        Goto(w, step) /\ Put(w, d) /\ (~job[w].shared => FoundBy(w, d)')
  <2>1. CASE Clone(w)
    <3>1. PICK d : d = [files |-> "whole", commit |-> head,
                        dockerfile |-> IF Has(scenario.history[head], "Dockerfile")
                                       THEN [by |-> "repository"] ELSE None]
      OBVIOUS
    <3>2. [by |-> "repository"] \in Dockerfile
      BY DEF Dockerfile
    <3>3. head \in Commits /\ None \notin Commits /\ None \notin Dir /\ None \notin Dockerfile
      BY <1>2, NoneIsNothing DEF Types, RestOK
    <3>4. d \in Dir
      BY <3>1, <3>2, <3>3 DEF Dir
    <3>5. Cloned(d)
      BY <3>1, <3>2, <3>3, <3>4 DEF Cloned
    <3>6. Goto(w, "checkout") /\ Put(w, d)
      BY <2>1, <3>1 DEF Clone
    <3>7. At(w, "checkout")' /\ scenario' = scenario
      BY <1>2, <1>3, <3>6 DEF Goto, At, Types, JobOK
    <3>8. FoundBy(w, d)'
      BY <3>5, <3>7 DEF FoundBy, At, Cloned
    <3> QED BY <3>4, <3>6, <3>8 DEF Steps
  <2>2. CASE Checkout(w)
    <3>1. PICK d : d = Directory(w)
      OBVIOUS
    <3>2. Goto(w, "detect") /\ Put(w, d)
      BY <1>2, <2>2, <3>1 DEF Checkout, Put, Directory, Types, DirOK
    <3>3. ~job[w].shared => Cloned(d) /\ d.commit = Commit(w)
      BY <1>1, <2>2, <3>1 DEF Checkout, IInv, AloneInv, FoundBy, At
    <3>4. At(w, "detect")' /\ scenario' = scenario /\ Commit(w)' = Commit(w)
      BY <1>2, <1>3, <3>2 DEF Goto, At, Types, JobOK, Commit, Key
    <3>5. ~job[w].shared => FoundBy(w, d)'
      BY <3>3, <3>4 DEF FoundBy, At, Cloned
    <3> QED BY <1>2, <3>1, <3>2, <3>5 DEF Steps
  <2>3. CASE CloneFails(w) \/ CheckoutFails(w)
    <3>1. PICK d : d = Directory(w)
      OBVIOUS
    <3>2. Goto(w, "remove") /\ Put(w, d)
      BY <1>2, <2>3, <3>1 DEF CloneFails, CheckoutFails, Put, Directory, Types, DirOK
    <3>3. At(w, "remove")'
      BY <1>2, <3>2 DEF Goto, At, Types, JobOK
    <3>4. FoundBy(w, d)'
      BY <3>3 DEF FoundBy, At
    <3> QED BY <1>2, <3>1, <3>2, <3>4 DEF Steps
  <2> QED BY <2>1, <2>2, <2>3 DEF CloneRepo
<1>5. DirOK' /\ JobOK' /\ Exclusive' /\ LeftInv' /\ AloneInv'
  BY <1>1, <1>3, <1>4, OwnStep
<1>6. RestOK' /\ ImagesAreOfTheirCommit'
  BY <1>2, <1>3 DEF Types, RestOK, IInv, ImagesAreOfTheirCommit
<1> QED BY <1>5, <1>6 DEF IInv, Types

\* Detection, the Dockerfile and docker build.
LEMMA BuildStep ==
  ASSUME IInv, NEW w \in Workers, BuildImage(w)
  PROVE  IInv'
<1> USE DEF BuildImage
<1>1. pc[w] # "idle"
  BY DEF KeepDockerfile, WriteDockerfile, DetectionFails, DockerBuild, DockerBuildFails, At
<1>2. /\ Types /\ Directory(w) \in Dir \cup {None} /\ Key(w) \in Keys
      /\ Commit(w) \in Commits /\ App(w) \in Apps /\ job[w] \in Job
  BY <1>1, AtWork DEF IInv
<1>3. UNCHANGED <<scenario, head, crashes, left, job>>
  BY DEF KeepDockerfile, WriteDockerfile, DetectionFails, DockerBuild, DockerBuildFails, Unchanged
<1>4. DockerBuild(w) \/ image' = image
  BY DEF KeepDockerfile, WriteDockerfile, DetectionFails, DockerBuildFails, Unchanged
<1>5. \E step \in Steps \ {"idle"}, d \in Dir \cup {None} :
        Goto(w, step) /\ Put(w, d) /\ (~job[w].shared => FoundBy(w, d)')
  <2>1. CASE KeepDockerfile(w)
    <3>1. PICK d : d = Directory(w)
      OBVIOUS
    <3>2. Goto(w, "build") /\ Put(w, d) /\ d # None /\ d.dockerfile # None
      BY <1>2, <2>1, <3>1 DEF KeepDockerfile, Put, Directory, Types, DirOK
    <3>3. ~job[w].shared => Cloned(d) /\ d.commit = Commit(w)
      BY <1>1, <2>1, <3>1 DEF KeepDockerfile, IInv, AloneInv, FoundBy, At
    <3>4. At(w, "build")' /\ scenario' = scenario /\ Commit(w)' = Commit(w)
      BY <1>2, <1>3, <3>2 DEF Goto, At, Types, JobOK, Commit, Key
    <3>5. ~job[w].shared => FoundBy(w, d)'
      BY <3>2, <3>3, <3>4 DEF FoundBy, At, Cloned
    <3> QED BY <1>2, <3>1, <3>2, <3>5 DEF Steps
  <2>2. CASE WriteDockerfile(w)
    <3>1. PICK recipe : recipe = GenerateDockerfile([PlanOf(w) EXCEPT !.port =
                          EffectivePlanPort(@, scenario.setting[App(w)].port)])
      OBVIOUS
    <3>2. PICK d : d = IF Directory(w).files = "whole"
                       THEN [Directory(w) EXCEPT
                               !.dockerfile = [by |-> "talos", recipe |-> recipe]]
                       ELSE [Directory(w) EXCEPT !.dockerfile = [by |-> "remains"]]
      OBVIOUS
    <3>3. /\ Goto(w, "build") /\ Put(w, d) /\ Directory(w) # None
          /\ Directory(w).dockerfile = None
          /\ Directory(w).files = "whole" => PlanOf(w) # NoPlan
      BY <2>2, <3>1, <3>2 DEF WriteDockerfile
    <3>4. scenario.history[Commit(w)] \in Project /\ scenario.setting[App(w)].port \in Nat
      BY <1>2, BuilderAssumption DEF Types, RestOK, Setting
    <3>5. Directory(w).files = "whole" => recipe \in Recipe
      <4>1. PlanOf(w) = NoPlan \/ PlanOf(w) \in MadePlan
        BY <3>4, PlanOrNone DEF PlanOf
      <4> QED BY <3>1, <3>3, <3>4, <4>1, PlanGivesRecipe
    <3>6. /\ [by |-> "remains"] \in Dockerfile
          /\ Directory(w).files = "whole" => [by |-> "talos", recipe |-> recipe] \in Dockerfile
      BY <3>5 DEF Dockerfile
    <3>7. ASSUME NEW f \in Dockerfile
          PROVE  LET c == [Directory(w) EXCEPT !.dockerfile = f]
                 IN  /\ c \in Dir /\ c.files = Directory(w).files
                     /\ c.commit = Directory(w).commit /\ c.dockerfile = f
      BY <1>2, <3>3 DEF Dir
    <3>8. d \in Dir /\ d # None
      BY <3>2, <3>6, <3>7, NoneIsNothing
    <3>9. ~job[w].shared => Cloned(Directory(w)) /\ Directory(w).commit = Commit(w)
      BY <1>1, <2>2 DEF WriteDockerfile, IInv, AloneInv, FoundBy, At
    <3>10. ~job[w].shared =>
             /\ d.files = "whole" /\ d.commit = Commit(w) /\ d.dockerfile.by # "repository"
             /\ ~Has(scenario.history[Commit(w)], "Dockerfile")
      BY <3>2, <3>3, <3>6, <3>7, <3>9 DEF Cloned
    <3>11. At(w, "build")' /\ scenario' = scenario /\ Commit(w)' = Commit(w)
      BY <1>2, <1>3, <3>3 DEF Goto, At, Types, JobOK, Commit, Key
    <3>12. ~job[w].shared => FoundBy(w, d)'
      BY <3>8, <3>10, <3>11 DEF FoundBy, At
    <3> QED BY <3>3, <3>8, <3>12 DEF Steps
  <2>3. CASE DetectionFails(w) \/ DockerBuild(w) \/ DockerBuildFails(w)
    <3>1. PICK d : d = Directory(w)
      OBVIOUS
    <3>2. Goto(w, "remove") /\ Put(w, d)
      BY <1>2, <2>3, <3>1
         DEF DetectionFails, DockerBuild, DockerBuildFails, Put, Directory, Types, DirOK
    <3>3. At(w, "remove")'
      BY <1>2, <3>2 DEF Goto, At, Types, JobOK
    <3>4. FoundBy(w, d)'
      BY <3>3 DEF FoundBy, At
    <3> QED BY <1>2, <3>1, <3>2, <3>4 DEF Steps
  <2> QED BY <2>1, <2>2, <2>3
<1>6. DirOK' /\ JobOK' /\ Exclusive' /\ LeftInv' /\ AloneInv'
  BY <1>1, <1>3, <1>5, OwnStep
<1>7. RestOK' /\ ImagesAreOfTheirCommit'
  <2>1. CASE DockerBuild(w)
    <3> DEFINE d == Directory(w)
               i == [name |-> Commit(w), commit |-> d.commit, whole |-> d.files = "whole",
                     dockerfile |-> d.dockerfile, app |-> App(w), shared |-> job[w].shared]
    <3>1. image' = i /\ d \in Dir /\ d.dockerfile # None /\ d.commit # None
      BY <1>2, <2>1 DEF DockerBuild
    <3>2. d.commit \in Commits /\ d.dockerfile \in Dockerfile /\ job[w].shared \in BOOLEAN
      BY <1>2, <3>1 DEF Dir, Job
    <3>3. i \in Image
      <4> HIDE DEF d
      <4> QED BY <1>2, <3>2 DEF Image
    <3>4. ~job[w].shared =>
            /\ d.files = "whole" /\ d.commit = Commit(w)
            /\ d.dockerfile.by = "repository" <=> Has(scenario.history[Commit(w)], "Dockerfile")
      BY <1>1, <2>1 DEF DockerBuild, IInv, AloneInv, FoundBy, At
    <3>5. RestOK'
      BY <1>2, <1>3, <3>1, <3>3 DEF Types, RestOK
    <3> HIDE DEF d
    <3>6. ImagesAreOfTheirCommit'
      BY <1>3, <3>1, <3>4 DEF ImagesAreOfTheirCommit
    <3> QED BY <3>5, <3>6
  <2>2. CASE image' = image
    BY <1>2, <1>3, <2>2 DEF Types, RestOK, IInv, ImagesAreOfTheirCommit
  <2> QED BY <1>4, <2>1, <2>2
<1> QED BY <1>6, <1>7 DEF IInv, Types

\* The removal of the directory, one file after the other.
LEMMA RemoveStep ==
  ASSUME IInv, NEW w \in Workers, RemoveSome(w)
  PROVE  IInv'
<1>1. pc[w] # "idle" /\ Goto(w, "removing")
  BY DEF RemoveSome, At
<1>2. Types /\ Directory(w) \in Dir \cup {None} /\ Key(w) \in Keys
  BY <1>1, AtWork DEF IInv
<1>3. UNCHANGED <<scenario, head, image, crashes, left, job>>
  BY DEF RemoveSome, Unchanged
<1>4. \E d \in Dir \cup {None} : Put(w, d)
  <2>1. CASE Directory(w) = None \/ Directory(w).files = "empty"
    BY <1>2, <2>1 DEF RemoveSome, Put, Directory, Types, DirOK
  <2>2. CASE ~(Directory(w) = None \/ Directory(w).files = "empty")
    <3>1. PICK f \in {Directory(w).dockerfile, None} :
            Put(w, [Directory(w) EXCEPT !.files = "part", !.dockerfile = f])
      BY <2>2 DEF RemoveSome
    <3>2. Directory(w) \in Dir /\ f \in Dockerfile \cup {None}
      BY <1>2, <2>2 DEF Dir
    <3>3. [Directory(w) EXCEPT !.files = "part", !.dockerfile = f] \in Dir
      BY <3>2 DEF Dir
    <3> QED BY <3>1, <3>3
  <2> QED BY <2>1, <2>2
<1>5. \A d : FoundBy(w, d)'
  BY <1>1, <1>2 DEF Goto, FoundBy, At, Types, JobOK
<1>6. DirOK' /\ JobOK' /\ Exclusive' /\ LeftInv' /\ AloneInv'
  BY <1>1, <1>3, <1>4, <1>5, OwnStep DEF Steps
<1>7. RestOK' /\ ImagesAreOfTheirCommit'
  BY <1>2, <1>3 DEF Types, RestOK, IInv, ImagesAreOfTheirCommit
<1> QED BY <1>6, <1>7 DEF IInv, Types

\* A build begins: in a new directory, beside another build, or in what a crash left.
LEMMA RequestStep ==
  ASSUME IInv, NEW w \in Workers, Request(w)
  PROVE  IInv'
<1>1. Types /\ pc[w] = "idle" /\ UNCHANGED <<left, scenario, head, image, crashes>>
  BY DEF Request, At, Unchanged, IInv
<1>2. PICK a \in Apps, c \in 1..head :
        LET k == <<a, c>>
            others == Using(k)
        IN  /\ dir' = [dir EXCEPT ![k] =
                         IF @ = None
                         THEN [files |-> "empty", commit |-> None, dockerfile |-> None]
                         ELSE @]
            /\ job' = [v \in Workers |->
                         CASE v = w -> [key |-> k, shared |-> others # {}]
                           [] v \in others -> [job[v] EXCEPT !.shared = TRUE]
                           [] OTHER -> job[v]]
  BY DEF Request
<1> DEFINE k == <<a, c>>
           others == Using(k)
           blank == [files |-> "empty", commit |-> None, dockerfile |-> None]
<1>3. k \in Keys
  BY <1>1, BuilderAssumption DEF Types, RestOK, Commits, Keys
<1>4. blank \in Dir
  BY DEF Dir
<1>5. blank # None /\ None \notin Job
  BY <1>4, NoneIsNothing
<1>6. /\ dir' = [dir EXCEPT ![k] = IF dir[k] = None THEN blank ELSE dir[k]]
      /\ job' = [v \in Workers |->
                   CASE v = w -> [key |-> k, shared |-> others # {}]
                     [] v \in others -> [job[v] EXCEPT !.shared = TRUE]
                     [] OTHER -> job[v]]
  BY <1>2
<1>7. pc' = [pc EXCEPT ![w] = "clone"]
  BY DEF Request, Goto
<1>8. others = {v \in Workers : pc[v] # "idle" /\ Key(v) = k}
  BY DEF Using
<1> HIDE DEF k, blank, others
<1>9. \A q \in Keys : dir'[q] = IF q = k /\ dir[k] = None THEN blank ELSE dir[q]
  BY <1>1, <1>3, <1>6 DEF Types, DirOK
<1>10. /\ Key(w)' = k /\ job'[w].shared = (others # {}) /\ job'[w] \in Job
       /\ pc'[w] = "clone"
  <2>1. job'[w] = [key |-> k, shared |-> others # {}]
    BY <1>1, <1>6, <1>8
  <2>2. pc'[w] = "clone"
    BY <1>1, <1>7 DEF Types, JobOK
  <2> QED BY <1>3, <2>1, <2>2 DEF Key, Job
<1>11. ASSUME NEW v \in Workers, v # w
       PROVE  /\ pc'[v] = pc[v] /\ (pc[v] # "idle" => Key(v)' = Key(v))
              /\ job'[v] \in Job \cup {None} /\ (job'[v] = None <=> pc[v] = "idle")
              /\ v \in others => job'[v].shared
              /\ v \notin others => job'[v] = job[v]
  <2>1. pc'[v] = pc[v]
    BY <1>1, <1>7, <1>11 DEF Types, JobOK
  <2>2. CASE v \in others
    <3>1. job'[v] = [job[v] EXCEPT !.shared = TRUE] /\ pc[v] # "idle"
      BY <1>6, <1>8, <1>11, <2>2
    <3>2. job[v] \in Job
      BY <1>1, <3>1, AtWork
    <3>3. job'[v] \in Job /\ job'[v].key = job[v].key /\ job'[v].shared
      BY <3>1, <3>2 DEF Job
    <3> QED BY <1>5, <2>1, <2>2, <3>1, <3>3 DEF Key
  <2>3. CASE v \notin others
    <3>1. job'[v] = job[v]
      BY <1>6, <1>11, <2>3
    <3> QED BY <1>1, <2>1, <2>3, <3>1 DEF Types, JobOK, Key
  <2> QED BY <2>2, <2>3
<1>12. Types'
  <2>1. DirOK'
    BY <1>1, <1>3, <1>4, <1>6 DEF Types, DirOK
  <2>2. job' \in [Workers -> Job \cup {None}]
    BY <1>6, <1>10, <1>11
  <2>3. \A v \in Workers : pc'[v] = "idle" <=> job'[v] = None
    BY <1>5, <1>10, <1>11
  <2>4. JobOK'
    BY <1>1, <1>7, <2>2, <2>3 DEF Types, JobOK, Steps
  <2> QED BY <1>1, <2>1, <2>4 DEF Types, RestOK
<1>13. Exclusive'
  <2>1. ASSUME NEW u \in Workers, NEW v \in Workers, u # v, pc'[u] # "idle", pc'[v] # "idle",
               Key(u)' = Key(v)'
        PROVE  job'[v].shared
    <3>1. CASE v = w
      BY <1>8, <1>10, <1>11, <2>1, <3>1
    <3>2. CASE u = w
      BY <1>8, <1>10, <1>11, <2>1, <3>2
    <3>3. CASE u # w /\ v # w
      <4>1. job[v].shared
        BY <1>11, <2>1, <3>3 DEF IInv, Exclusive
      <4> QED BY <1>11, <3>3, <4>1
    <3> QED BY <3>1, <3>2, <3>3
  <2> QED BY <2>1 DEF Exclusive
<1>14. LeftInv'
  <2>1. ASSUME NEW q \in Keys, dir'[q] # None
        PROVE  q \in left \/ \E v \in Workers : pc'[v] # "idle" /\ Key(v)' = q
    <3>1. CASE q = k
      BY <1>10, <3>1
    <3>2. CASE q # k
      <4>1. dir[q] # None
        BY <1>9, <2>1, <3>2
      <4>2. q \in left \/ \E v \in Workers : pc[v] # "idle" /\ Key(v) = q
        BY <4>1 DEF IInv, LeftInv
      <4> QED BY <1>1, <1>11, <4>2
    <3> QED BY <3>1, <3>2
  <2> QED BY <1>1, <2>1 DEF LeftInv
<1>15. AloneInv'
  <2>1. ASSUME NEW v \in Workers, pc'[v] # "idle", ~job'[v].shared
        PROVE  FoundBy(v, Directory(v))'
    <3>1. CASE v = w
      <4>1. others = {}
        BY <1>10, <2>1, <3>1
      <4>2. Directory(v)' = IF dir[k] = None THEN blank ELSE dir[k]
        BY <1>3, <1>9, <1>10, <3>1 DEF Directory
      <4>3. blank.files = "empty"
        BY DEF blank
      <4>4. dir[k] # None => k \in left
        BY <1>3, <1>8, <4>1 DEF IInv, LeftInv
      <4> QED BY <1>1, <1>5, <1>10, <3>1, <4>2, <4>3, <4>4 DEF FoundBy, At
    <3>2. CASE v # w
      <4>1. pc[v] # "idle" /\ pc'[v] = pc[v] /\ v \notin others /\ job'[v] = job[v]
        BY <1>11, <2>1, <3>2
      <4>2. Key(v) # k /\ Key(v)' = Key(v) /\ Key(v) \in Keys
        BY <1>1, <1>8, <4>1, AtWork DEF Key
      <4>3. Directory(v)' = Directory(v)
        BY <1>9, <4>2 DEF Directory
      <4>4. FoundBy(v, Directory(v))
        BY <2>1, <4>1 DEF IInv, AloneInv
      <4> QED BY <1>1, <4>1, <4>2, <4>3, <4>4 DEF FoundBy, At, Cloned, Commit
    <3> QED BY <3>1, <3>2
  <2> QED BY <2>1 DEF AloneInv
<1> QED BY <1>1, <1>12, <1>13, <1>14, <1>15 DEF IInv, ImagesAreOfTheirCommit

\* A build ends, and its directory is gone.
LEMMA EndStep ==
  ASSUME IInv, NEW w \in Workers, RemoveRest(w)
  PROVE  IInv'
<1>1. pc[w] # "idle" /\ UNCHANGED <<scenario, head, image, crashes>>
  BY DEF RemoveRest, At, Unchanged
<1>2. Types /\ Key(w) \in Keys
  BY <1>1, AtWork DEF IInv
<1>3. /\ dir' = [dir EXCEPT ![Key(w)] = None] /\ left' = left \ {Key(w)}
      /\ pc' = [pc EXCEPT ![w] = "idle"] /\ job' = [job EXCEPT ![w] = None]
  BY DEF RemoveRest, Put, Goto
<1>4. Types'
  BY <1>1, <1>2, <1>3 DEF Types, DirOK, JobOK, RestOK, Steps
<1>5. ASSUME NEW v \in Workers, pc'[v] # "idle"
      PROVE  v # w /\ pc'[v] = pc[v] /\ job'[v] = job[v] /\ Key(v)' = Key(v)
  BY <1>2, <1>3, <1>5 DEF Types, JobOK, Key
<1>6. ASSUME NEW v \in Workers, v # w
      PROVE  pc'[v] = pc[v] /\ job'[v] = job[v] /\ Key(v)' = Key(v)
  BY <1>2, <1>3, <1>6 DEF Types, JobOK, Key
<1>7. Exclusive'
  BY <1>5 DEF IInv, Exclusive
<1>8. LeftInv'
  <2>1. ASSUME NEW q \in Keys, dir'[q] # None
        PROVE  q \in left' \/ \E v \in Workers : pc'[v] # "idle" /\ Key(v)' = q
    <3>1. q # Key(w) /\ dir[q] # None
      BY <1>2, <1>3, <2>1 DEF Types, DirOK
    <3>2. q \in left \/ \E v \in Workers : pc[v] # "idle" /\ Key(v) = q
      BY <3>1 DEF IInv, LeftInv
    <3> QED BY <1>3, <1>6, <3>1, <3>2
  <2> QED BY <2>1 DEF LeftInv
<1>9. ASSUME NEW v \in Workers, pc'[v] # "idle", ~job'[v].shared
      PROVE  FoundBy(v, Directory(v))'
  <2>1. v # w /\ pc[v] # "idle" /\ ~job[v].shared
    BY <1>5, <1>9
  <2>2. Key(v) # Key(w) /\ Key(v) \in Keys
    BY <1>1, <2>1, Elsewhere
  <2>3. Directory(v)' = Directory(v) /\ (Key(v) \in left => Key(v) \in left')
    BY <1>2, <1>3, <1>5, <1>9, <2>2 DEF Directory, Types, DirOK
  <2>4. FoundBy(v, Directory(v))
    BY <2>1 DEF IInv, AloneInv
  <2> QED BY <1>1, <1>5, <1>9, <2>3, <2>4 DEF FoundBy, At, Cloned, Commit
<1> QED BY <1>1, <1>4, <1>7, <1>8, <1>9 DEF IInv, AloneInv, ImagesAreOfTheirCommit

\* The process is killed, or somebody pushes.
LEMMA RestStep ==
  ASSUME IInv, Push \/ Crash \/ UNCHANGED vars
  PROVE  IInv'
<1>1. CASE Push
  <2>1. /\ head' \in Commits
        /\ UNCHANGED <<scenario, dir, left, image, pc, job, crashes>>
    BY <1>1, BuilderAssumption DEF Push, Commits, IInv, Types, RestOK
  <2> QED BY <2>1 DEF IInv, Types, DirOK, JobOK, RestOK, Exclusive, LeftInv, AloneInv, FoundBy,
                     Cloned, Key, Commit, Directory, At, ImagesAreOfTheirCommit
<1>2. CASE Crash
  <2>1. /\ crashes' \in 0..Crashes /\ left' = {k \in Keys : dir[k] # None}
        /\ pc' = [w \in Workers |-> "idle"] /\ job' = [w \in Workers |-> None]
        /\ UNCHANGED <<scenario, head, dir, image>>
    BY <1>2, BuilderAssumption DEF Crash, IInv, Types, RestOK
  <2>2. Types'
    BY <2>1 DEF IInv, Types, DirOK, JobOK, RestOK, Steps
  <2>3. Exclusive' /\ LeftInv' /\ AloneInv' /\ ImagesAreOfTheirCommit'
    BY <2>1 DEF IInv, Exclusive, LeftInv, AloneInv, ImagesAreOfTheirCommit
  <2> QED BY <2>2, <2>3 DEF IInv
<1>3. CASE UNCHANGED vars
  BY <1>3 DEF vars, IInv, Types, DirOK, JobOK, RestOK, Exclusive, LeftInv, AloneInv, FoundBy,
              Cloned, Key, Commit, Directory, At, ImagesAreOfTheirCommit
<1> QED BY <1>1, <1>2, <1>3

\* Of a build that has its directory to itself, a step of the others changes neither the
\* step it is at nor what it works on.
LEMMA Untouched ==
  ASSUME IInv, NEW v \in Workers, CloneAndBuild(v),
         NEW w \in Workers \ {v}, pc'[w] # "idle", ~job'[w].shared
  PROVE  /\ pc'[w] = pc[w] /\ job'[w] = job[w] /\ Directory(w)' = Directory(w)
         /\ scenario' = scenario
<1>1. Types
  BY DEF IInv
<1>2. scenario' = scenario
  BY DEF CloneAndBuild, Request, CloneRepo, Clone, CloneFails, Checkout, CheckoutFails, BuildImage,
         KeepDockerfile, WriteDockerfile, DetectionFails, DockerBuild, DockerBuildFails,
         RemoveSome, RemoveRest, Unchanged
<1>3. \E step \in Steps : pc' = [pc EXCEPT ![v] = step]
  BY DEF CloneAndBuild, Request, CloneRepo, Clone, CloneFails, Checkout, CheckoutFails, BuildImage,
         KeepDockerfile, WriteDockerfile, DetectionFails, DockerBuild, DockerBuildFails,
         RemoveSome, RemoveRest, Goto, Steps
<1>4. pc'[w] = pc[w] /\ pc[w] # "idle"
  BY <1>1, <1>3 DEF Types, JobOK
<1>5. CASE Request(v)
  <2>1. PICK a \in Apps, c \in 1..head :
          LET k == <<a, c>>
              others == Using(k)
          IN  /\ dir' = [dir EXCEPT ![k] =
                           IF @ = None
                           THEN [files |-> "empty", commit |-> None, dockerfile |-> None]
                           ELSE @]
              /\ job' = [u \in Workers |->
                           CASE u = v -> [key |-> k, shared |-> others # {}]
                             [] u \in others -> [job[u] EXCEPT !.shared = TRUE]
                             [] OTHER -> job[u]]
    BY <1>5 DEF Request
  <2> DEFINE k == <<a, c>>
             others == Using(k)
  <2>2. /\ \A q \in Keys : q # k => dir'[q] = dir[q]
        /\ job'[w] = IF w \in others THEN [job[w] EXCEPT !.shared = TRUE] ELSE job[w]
    BY <1>1, <2>1 DEF Types, DirOK
  <2>3. job[w] \in Job /\ Key(w) \in Keys
    BY <1>1, <1>4, AtWork
  <2>4. [job[w] EXCEPT !.shared = TRUE].shared
    BY <2>3 DEF Job
  <2>5. w \in others <=> Key(w) = k
    BY <1>4 DEF Using
  <2> HIDE DEF k, others
  <2>6. w \notin others /\ job'[w] = job[w]
    BY <2>2, <2>4
  <2>7. dir'[Key(w)] = dir[Key(w)] /\ Key(w)' = Key(w)
    BY <2>2, <2>3, <2>5, <2>6 DEF Key
  <2> QED BY <1>2, <1>4, <2>6, <2>7 DEF Directory
<1>6. CASE ~Request(v)
  <2>1. /\ pc[v] # "idle"
        /\ dir' = dir \/ \E d : Put(v, d)
        /\ job' = job \/ job' = [job EXCEPT ![v] = None]
    BY <1>6 DEF CloneAndBuild, CloneRepo, Clone, CloneFails, Checkout, CheckoutFails, BuildImage,
                KeepDockerfile, WriteDockerfile, DetectionFails, DockerBuild, DockerBuildFails,
                RemoveSome, RemoveRest, At
  <2>2. job'[w] = job[w] /\ Key(w)' = Key(w)
    BY <1>1, <2>1 DEF Types, JobOK, Key
  <2>3. Key(w) # Key(v) /\ Key(w) \in Keys
    BY <1>4, <2>1, <2>2, Elsewhere
  <2>4. dir'[Key(w)] = dir[Key(w)]
    BY <1>1, <2>1, <2>3 DEF Put, Types, DirOK
  <2> QED BY <1>2, <1>4, <2>2, <2>4 DEF Directory
<1> QED BY <1>5, <1>6

\* The build that comes to its Dockerfile: one that is kept was committed, and one that is
\* written fits.
LEMMA ArrivalFits ==
  ASSUME IInv, NEW w \in Workers, CloneAndBuild(w), Generated(w)', ~job'[w].shared
  PROVE  Fits(Directory(w).dockerfile.recipe, scenario.history[Commit(w)],
              scenario.setting[App(w)])'
<1>1. Types
  BY DEF IInv
<1>2. KeepDockerfile(w) \/ WriteDockerfile(w)
  <2>1. pc'[w] = "build"
    BY DEF Generated, At
  <2> QED BY <1>1, <2>1
          DEF CloneAndBuild, Request, CloneRepo, Clone, CloneFails, Checkout, CheckoutFails,
              BuildImage, KeepDockerfile, WriteDockerfile, DetectionFails, DockerBuild,
              DockerBuildFails, RemoveSome, RemoveRest, Goto, Types, JobOK
<1>3. pc[w] = "detect" /\ job' = job /\ scenario' = scenario
  BY <1>2 DEF KeepDockerfile, WriteDockerfile, At, Unchanged
<1>4. /\ Directory(w) \in Dir \cup {None} /\ Key(w) \in Keys
      /\ Commit(w) \in Commits /\ App(w) \in Apps
  BY <1>1, <1>3, AtWork
<1>5. Cloned(Directory(w)) /\ Directory(w).commit = Commit(w)
  BY <1>3 DEF IInv, AloneInv, FoundBy, At
<1>6. CASE KeepDockerfile(w)
  <2>1. dir' = dir /\ Directory(w).dockerfile # None
    BY <1>6 DEF KeepDockerfile
  <2>2. Directory(w)'.dockerfile.by = "repository"
    BY <1>3, <1>5, <2>1 DEF Cloned, Directory, Key
  <2> QED BY <2>2 DEF Generated
<1>7. CASE WriteDockerfile(w)
  <2> DEFINE p == scenario.history[Commit(w)]
             s == scenario.setting[App(w)]
             recipe == Final(DetectAs(p, s.type), s.port)
             file == [by |-> "talos", recipe |-> recipe]
  <2>1. PlanOf(w) # NoPlan /\ Put(w, [Directory(w) EXCEPT !.dockerfile = file])
    BY <1>5, <1>7 DEF WriteDockerfile, Cloned, PlanOf, Final
  <2>2. p \in Project /\ s \in Setting
    BY <1>1, <1>4, BuilderAssumption DEF Types, RestOK
  <2>3. Fits(recipe, p, s)
    <3>1. DetectAs(p, s.type) # NoPlan
      BY <2>1 DEF PlanOf
    <3> HIDE DEF p, s
    <3> QED BY <2>2, <3>1, RecipeFits
  <2>4. /\ Key(w)' = Key(w)
        /\ scenario.history[Commit(w)]' = p /\ scenario.setting[App(w)]' = s
    BY <1>3 DEF Key, Commit, App
  <2> HIDE DEF p, s, recipe
  <2>5. Directory(w)' = [Directory(w) EXCEPT !.dockerfile = file]
    BY <1>1, <1>4, <2>1, <2>4 DEF Put, Directory, Types, DirOK
  <2>6. Directory(w)'.dockerfile.recipe = recipe
    BY <1>4, <1>5, <2>5 DEF Dir, Cloned
  <2> QED BY <2>3, <2>4, <2>6
<1> QED BY <1>2, <1>6, <1>7

\* A step keeps the Dockerfiles that fit.
LEMMA FitsStep ==
  ASSUME IInv, RecipesFit, [Next]_vars
  PROVE  RecipesFit'
<1> SUFFICES ASSUME NEW w \in Workers, Generated(w)', ~job'[w].shared
             PROVE  Fits(Directory(w).dockerfile.recipe, scenario.history[Commit(w)],
                         scenario.setting[App(w)])'
  BY DEF RecipesFit
<1>1. pc'[w] = "build"
  BY DEF Generated, At
<1>2. CASE CloneAndBuild(w)
  BY <1>2, ArrivalFits
<1>3. ASSUME pc'[w] = pc[w], job'[w] = job[w], Directory(w)' = Directory(w), scenario' = scenario
      PROVE  Fits(Directory(w).dockerfile.recipe, scenario.history[Commit(w)],
                  scenario.setting[App(w)])'
  <2>1. Generated(w) /\ ~job[w].shared
    BY <1>3 DEF Generated, At
  <2>2. Fits(Directory(w).dockerfile.recipe, scenario.history[Commit(w)],
             scenario.setting[App(w)])
    BY <2>1 DEF RecipesFit
  <2> QED BY <1>3, <2>2 DEF Commit, App, Key
<1>4. ASSUME NEW v \in Workers \ {w}, CloneAndBuild(v)
      PROVE  Fits(Directory(w).dockerfile.recipe, scenario.history[Commit(w)],
                  scenario.setting[App(w)])'
  BY <1>1, <1>3, <1>4, Untouched
<1>5. CASE Push \/ UNCHANGED vars
  BY <1>3, <1>5 DEF Push, vars, Directory, Key
<1>6. CASE Crash
  BY <1>1, <1>6 DEF Crash
<1> QED BY <1>2, <1>4, <1>5, <1>6 DEF Next

\* The invariant: builds that share no directory find in theirs what they put there.
THEOREM BuildsInductive == Spec => []IInv
<1>1. IInv /\ [Next]_vars => IInv'
  BY CloneStep, BuildStep, RemoveStep, RequestStep, EndStep, RestStep
     DEF Next, CloneAndBuild
<1> QED BY <1>1, InitInv, PTL DEF Spec

\* Every variable keeps its type: in particular every project, and every setting, gives a
\* Dockerfile from one of the templates, with a port, or an error.
THEOREM BuilderTyped == Spec => []TypeOK
BY BuildsInductive, Implied, PTL

\* An image named after a commit is made of that commit, of all its files and of its own
\* Dockerfile if it has one, unless another build used the directory at the same time.
THEOREM ImagesAreOfTheirCommitAlways == Spec => []ImagesAreOfTheirCommit
<1>1. IInv => ImagesAreOfTheirCommit
  BY DEF IInv
<1> QED BY <1>1, BuildsInductive, PTL

\* A directory without a build is one that a crash left.
THEOREM OnlyCrashesLeaveDirectoriesAlways == Spec => []OnlyCrashesLeaveDirectories
BY BuildsInductive, Implied, PTL

\* Whatever is committed and set: a Dockerfile that is generated fits the project and the
\* setting it is generated for - its type, its package manager and lock file, its main
\* package, its port - for every build that has its directory to itself.
THEOREM RecipesAlwaysFit == Spec => []RecipesFit
<1>1. Init => RecipesFit
  BY DEF Init, RecipesFit, Generated, At
<1>2. IInv /\ RecipesFit /\ [Next]_vars => RecipesFit'
  BY FitsStep
<1> QED BY <1>1, <1>2, BuildsInductive, PTL DEF Spec

=============================================================================
