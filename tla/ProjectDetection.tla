-------------------------- MODULE ProjectDetection --------------------------
(***************************************************************************)
(* How a project without a Dockerfile is built (internal/builder/detect):  *)
(* which provider takes it, the plan it makes, and the Dockerfile that is  *)
(* generated from the plan.  A project is a record of what the providers   *)
(* look at, and commands are records of what matters about them.           *)
(***************************************************************************)
EXTENDS Naturals, FiniteSets

CONSTANT Names  \* the last segments of directories' and modules' names

\* The files of the root that are asked for.
BuildFiles == {"package.json", "go.mod", "pom.xml", "build.gradle", "build.gradle.kts"}
LockFiles == {"bun.lockb", "bunfig.toml", "pnpm-lock.yaml", "yarn.lock", "package-lock.json"}
RootFiles == BuildFiles \cup LockFiles \cup {"Dockerfile", "index.html"}

\* A directory with a Go file of package main: at which place filepath.Walk and
\* sort.Strings put it, how deep it lies, whether it is vendored or hidden, whether its
\* path begins with cmd, and its last name.
GoDir == [place : Nat \ {0}, depth : Nat, skipped : BOOLEAN, cmd : BOOLEAN, base : Names]

\* parses, scripts, startPort, deps and main describe package.json (deps: "server" is any
\* of the five server frameworks), module is the last segment of the module's path, and
\* java gives the version that a build file names, 0 for none.
Project == [files : SUBSET RootFiles, parses : BOOLEAN, scripts : SUBSET {"build", "start"},
            startPort : Nat, main : BOOLEAN,
            deps : SUBSET {"next", "nuxt", "@angular/core", "vite", "server"},
            module : Names \cup {""}, mains : SUBSET GoDir,
            java : [{"pom.xml", "build.gradle", "build.gradle.kts"} -> Nat]]

Has(p, file) == file \in p.files

\* A plan before its provider fills it in.  version: of Java.  target: the place of the
\* directory go build is told to build, 0 for ./...
Plan == [provider |-> "", runtime |-> "", version |-> 0, install |-> "", build |-> "",
         start |-> "", port |-> 0, target |-> 0]

\* What a provider returns that fails.
NoPlan == [Plan EXCEPT !.provider = "none"]

-----------------------------------------------------------------------------
(***************************************************************************)
(* The providers.                                                          *)
(***************************************************************************)

DetectStatic(p) == Has(p, "index.html") /\ p.files \cap BuildFiles = {}

StaticPlan(p) == [Plan EXCEPT !.provider = "static", !.runtime = "nginx", !.port = 80]

IsBun(p) == Has(p, "bun.lockb") \/ Has(p, "bunfig.toml")

\* Faulty: asks for Yarn's lock file before pnpm's.
NodePackageManager_YarnFirst(p) ==
  CASE IsBun(p) -> "bun"
    [] ~IsBun(p) /\ Has(p, "yarn.lock") -> "yarn"
    [] ~IsBun(p) /\ ~Has(p, "yarn.lock") /\ Has(p, "pnpm-lock.yaml") -> "pnpm"
    [] OTHER -> "npm"

NodePackageManager(p) ==
  CASE IsBun(p) -> "bun"
    [] ~IsBun(p) /\ Has(p, "pnpm-lock.yaml") -> "pnpm"
    [] ~IsBun(p) /\ ~Has(p, "pnpm-lock.yaml") /\ Has(p, "yarn.lock") -> "yarn"
    [] OTHER -> "npm"

\* Decided a second time, from the same files; all but "npm install" are to keep to a
\* lock file.
NodeInstall(p) ==
  CASE IsBun(p) -> "bun install --frozen-lockfile"
    [] ~IsBun(p) /\ Has(p, "pnpm-lock.yaml") -> "pnpm install --frozen-lockfile"
    [] ~IsBun(p) /\ ~Has(p, "pnpm-lock.yaml") /\ Has(p, "yarn.lock")
         -> "yarn install --frozen-lockfile"
    [] ~IsBun(p) /\ p.files \cap LockFiles = {"package-lock.json"} -> "npm ci"
    [] OTHER -> "npm install"

\* nodeStartMain, and the last resort of detectStartCommand.
NodeStartMain(p) == IF p.main THEN "node main" ELSE "node index.js"

\* What starts it, and the port: a script "start", a framework, a server, main.
NodeStart(p) ==
  CASE "start" \in p.scripts ->
         <<"scripts.start", IF p.startPort > 0 THEN p.startPort ELSE 3000>>
    [] "start" \notin p.scripts /\ "next" \in p.deps -> <<"next", 3000>>
    [] "start" \notin p.scripts /\ p.deps \cap {"next", "nuxt"} = {"nuxt"} -> <<"nuxt", 3000>>
    [] "start" \notin p.scripts /\ p.deps \cap {"next", "nuxt", "@angular/core"} = {"@angular/core"}
         -> <<"ng", 4200>>
    [] "start" \notin p.scripts /\ p.deps = {"vite"} -> <<"", 80>>
    [] OTHER -> <<NodeStartMain(p), 3000>>

NodePlan(p) ==
  IF ~Has(p, "package.json") \/ ~p.parses THEN NoPlan
  ELSE [Plan EXCEPT !.provider = "node",
                    !.runtime = IF IsBun(p) THEN "bun" ELSE "node",
                    !.install = NodeInstall(p),
                    !.build = IF "build" \in p.scripts THEN NodePackageManager(p) ELSE "",
                    !.start = NodeStart(p)[1],
                    !.port = NodeStart(p)[2]]

\* findMainPackages: at most three directories deep, neither vendored nor hidden.
MainDirs(p) == {d \in p.mains : d.depth <= 3 /\ ~d.skipped}

FirstOf(D) == (CHOOSE d \in D : \A e \in D : d.place <= e.place).place

\* There is none without a go.mod.
ModuleName(p) == IF Has(p, "go.mod") THEN p.module ELSE ""

\* cmd/<name of the module>, the first of cmd, the root, the first there is.
GoTarget(p) ==
  LET cmds == {d \in MainDirs(p) : d.cmd}
      named == {d \in cmds : ModuleName(p) # "" /\ d.base = ModuleName(p)}
      root == {d \in MainDirs(p) : d.depth = 0}
  IN  CASE MainDirs(p) = {} -> 0
        [] named # {} -> FirstOf(named)
        [] named = {} /\ cmds # {} -> FirstOf(cmds)
        [] cmds = {} /\ root # {} -> FirstOf(root)
        [] OTHER -> FirstOf(MainDirs(p))

\* It does not fail without a go.mod.
GoPlan(p) ==
  [Plan EXCEPT !.provider = "go", !.runtime = "golang", !.port = 8080,
               !.target = GoTarget(p),
               !.start = IF ModuleName(p) # "" THEN ModuleName(p) ELSE "server"]

DetectJava(p) == Has(p, "pom.xml") \/ Has(p, "build.gradle") \/ Has(p, "build.gradle.kts")

JavaVersion(p, file) == IF Has(p, file) /\ p.java[file] # 0 THEN p.java[file] ELSE 21

\* Gradle when there is no pom.xml, whether or not there is a build.gradle.
JavaPlan(p) ==
  LET maven == Has(p, "pom.xml")
      file == CASE maven -> "pom.xml"
                [] ~maven /\ Has(p, "build.gradle.kts") -> "build.gradle.kts"
                [] OTHER -> "build.gradle"
  IN  [Plan EXCEPT !.provider = "java", !.runtime = "temurin", !.port = 8080,
               !.version = JavaVersion(p, file),
                   !.install = IF maven THEN "mvn dependency:go-offline -B"
                                        ELSE "gradle dependencies || true",
                   !.build = IF maven THEN "mvn" ELSE "gradle",
                   !.start = "app.jar"]

-----------------------------------------------------------------------------
(***************************************************************************)
(* Choosing a provider, and generating a Dockerfile.                       *)
(***************************************************************************)

\* Static, Node, Go, Java: the first that detects the project makes the plan.
Detect(p) ==
  CASE DetectStatic(p) -> StaticPlan(p)
    [] ~DetectStatic(p) /\ Has(p, "package.json") -> NodePlan(p)
    [] ~Has(p, "package.json") /\ Has(p, "go.mod") -> GoPlan(p)
    [] p.files \cap {"package.json", "go.mod"} = {} /\ DetectJava(p) -> JavaPlan(p)
    [] OTHER -> NoPlan

\* A project type that is set skips detection.
DetectAs(p, type) ==
  CASE type = "" -> Detect(p)
    [] type = "static" -> StaticPlan(p)
    [] type = "node" -> NodePlan(p)
    [] type = "go" -> GoPlan(p)
    [] type = "java" -> JavaPlan(p)
    [] OTHER -> NoPlan

\* Faulty: takes the port of the application, set or not.
EffectivePlanPort_Configured(detected, configured) == configured

EffectivePlanPort(detected, configured) == IF configured > 0 THEN configured ELSE detected

Templates == {"static", "bun", "nodeBuild", "node", "go", "maven", "gradle"}

\* Which template a plan is put into: Maven's is recognised by its install command.
Template(plan) ==
  CASE plan.provider = "node" /\ plan.runtime = "bun" -> "bun"
    [] plan.provider = "node" /\ plan.runtime # "bun" ->
         IF plan.build # "" THEN "nodeBuild" ELSE "node"
    [] plan.provider = "java" ->
         IF plan.install = "mvn dependency:go-offline -B" THEN "maven" ELSE "gradle"
    [] OTHER -> plan.provider

\* The files a template copies before it runs the install command.
CopiedFirst(template) ==
  CASE template \in {"node", "nodeBuild"} -> {"package.json", "package-lock.json"}
    [] template = "bun" -> {"bun.lockb", "package.json"}
    [] template = "go" -> {"go.mod", "go.sum"}
    [] template = "maven" -> {"pom.xml"}
    [] template = "gradle" -> {"build.gradle", "build.gradle.kts"}
    [] OTHER -> {}

\* A start command that is empty becomes a shell.
CmdToJSON(cmd) == IF cmd = "" THEN "sh" ELSE cmd

InstallCommands ==
  {"bun install --frozen-lockfile", "pnpm install --frozen-lockfile",
   "yarn install --frozen-lockfile", "npm ci", "npm install",
   "mvn dependency:go-offline -B", "gradle dependencies || true"}
BuildTools == {"bun", "pnpm", "yarn", "npm", "mvn", "gradle"}
StartCommands ==
  {"scripts.start", "next", "nuxt", "ng", "node main", "node index.js", "server", "app.jar"}

\* The Dockerfile, by what of it depends on the plan.  install: of the stage that builds;
\* second: of the stage that is kept, where that installs once more.
Recipe == [template : Templates, runtime : {"nginx", "bun", "node", "golang", "temurin"},
           version : Nat, install : InstallCommands \cup {""}, second : {"", "npm ci"},
           build : BuildTools \cup {""},
           cmd : StartCommands \cup Names \cup {"sh", ""}, port : Nat \ {0}, target : Nat]

\* The second stage of nodeBuild runs npm ci, whatever the package manager.
GenerateDockerfile(plan) ==
  [template |-> Template(plan), runtime |-> plan.runtime, version |-> plan.version,
   install |-> IF Template(plan) \in {"static", "go"} THEN "" ELSE plan.install,
   second |-> IF Template(plan) = "nodeBuild" /\ plan.runtime = "node" THEN "npm ci" ELSE "",
   build |-> plan.build,
   cmd |-> IF plan.provider = "static" THEN "" ELSE CmdToJSON(plan.start),
   port |-> plan.port, target |-> plan.target]

=============================================================================
