----------------------------- MODULE MCBuilder -----------------------------
(***************************************************************************)
(* One application, two builds at a time, two commits: the first is any of *)
(* some sixty projects, the second has a Dockerfile.                     *)
(***************************************************************************)
EXTENDS Builder, TLC

CONSTANTS a1, w1, w2

MCApps == {a1}

Nothing == [files |-> {}, parses |-> TRUE, scripts |-> {}, startPort |-> 0, main |-> FALSE,
            deps |-> {}, module |-> "api", mains |-> {},
            java |-> [f \in {"pom.xml", "build.gradle", "build.gradle.kts"} |-> 0]]

\* Which providers meet in one project.
Roots == {[Nothing EXCEPT !.files = F] :
            F \in SUBSET {"index.html", "package.json", "go.mod", "pom.xml"}
                    \cup {{"Dockerfile"}, {"Dockerfile", "package.json"}}}

\* Package managers and scripts.
Nodes == {[Nothing EXCEPT !.files = F \cup {"package.json"}, !.scripts = {"build"}] :
            F \in SUBSET (LockFiles \ {"bunfig.toml"}) \cup {{"bunfig.toml"}}}
  \cup {[Nothing EXCEPT !.files = F \cup {"package.json"}] :
           F \in {{"package-lock.json"}, {"yarn.lock"}, {"bun.lockb"}}}

\* What starts a Node project.
Starts == {[Nothing EXCEPT !.files = {"package.json"}, !.deps = D] :
             D \in {{"vite"}, {"vite", "server"}, {"next", "@angular/core"}, {"nuxt"}}}
  \cup {[Nothing EXCEPT !.files = {"package.json"}, !.scripts = {"start"}, !.startPort = n,
                        !.parses = b] : n \in {0, 5000}, b \in BOOLEAN}

MainPackage(place, depth, skipped, cmd, base) ==
  [place |-> place, depth |-> depth, skipped |-> skipped, cmd |-> cmd, base |-> base]

\* Main packages of Go modules, and versions of Java.
Compiled ==
  {[Nothing EXCEPT !.files = {"go.mod"}, !.mains = D] :
     D \in {{MainPackage(1, 2, FALSE, TRUE, "admin"), MainPackage(2, 2, FALSE, TRUE, "api"),
             MainPackage(3, 0, FALSE, FALSE, "api")},
            {MainPackage(1, 4, FALSE, FALSE, "deep"), MainPackage(2, 1, TRUE, FALSE, "vendor")},
            {MainPackage(1, 4, FALSE, FALSE, "deep"), MainPackage(2, 3, FALSE, FALSE, "server")}}}
  \cup {[Nothing EXCEPT !.files = F, !.java = [f \in DOMAIN @ |-> IF f = "pom.xml" THEN 17 ELSE 0]] :
          F \in {{"build.gradle.kts"}, {"pom.xml", "build.gradle"}, {"build.gradle"}}}

Scenario(p, type, port) ==
  [history |-> <<p, [Nothing EXCEPT !.files = {"Dockerfile"}]>>,
   setting |-> [a \in MCApps |-> [type |-> type, port |-> port]]]

MCScenarios ==
  {Scenario(p, "", 0) : p \in Roots \cup Nodes \cup Starts \cup Compiled}
  \cup {Scenario([Nothing EXCEPT !.files = F], t, 3000) :
          F \in {{"index.html", "go.mod"}, {"package.json", "pom.xml"}},
          t \in {"", "static", "node", "go", "java"}}

Symmetry == Permutations(Workers)

=============================================================================
