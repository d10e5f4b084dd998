------------------------- MODULE DeployEngineProofs -------------------------
(***************************************************************************)
(* Proofs about DeployEngine, for any sets of applications, deploys and    *)
(* handlers and any combination of the options.                            *)
(***************************************************************************)
EXTENDS DeployEngine, TLAPS

-----------------------------------------------------------------------------
(***************************************************************************)
(* What StopAndRemove and UpdateDeploy leave alone.                        *)
(***************************************************************************)

\* StopAndRemove touches no container but the one it is given, and starts none.
LEMMA AfterStopFrame ==
  ASSUME TypeOK, NEW c \in Deploys \cup {None}, container' \in AfterStop(c)
  PROVE  /\ container' \in [Deploys -> {"absent", "stopped", "running"}]
         /\ \A x \in Deploys : x # c => container'[x] = container[x]
         /\ \A x \in Deploys : container'[x] = "running" => container[x] = "running"
<1>1. CASE container' = container
  BY <1>1 DEF TypeOK
<1>2. CASE /\ c # None
           /\ \E s \in {"absent", "stopped", container[c]} :
                container' = [container EXCEPT ![c] = s]
  BY <1>2 DEF TypeOK
<1>3. QED
  BY <1>1, <1>2 DEF AfterStop

\* UpdateDeploy changes nothing but the status of one row.
LEMMA SetStatusFrame ==
  ASSUME TypeOK, NEW d \in Deploys, NEW s \in Statuses \ {"absent"}, SetStatus(d, s)
  PROVE  /\ row' \in [Deploys -> DeployRow]
         /\ \A x \in Deploys : /\ row'[x].app = row[x].app
                               /\ x # d => row'[x].status = row[x].status
         /\ row'[d].status \in {s, row[d].status}
<1>1. row \in [Deploys -> DeployRow]
  BY DEF TypeOK
<1>2. CASE row' = [row EXCEPT ![d].status = s]
  BY <1>1, <1>2 DEF DeployRow
<1>3. CASE row' = row
  BY <1>1, <1>3
<1>4. QED
  BY <1>2, <1>3 DEF SetStatus

-----------------------------------------------------------------------------
(***************************************************************************)
(* Type correctness.                                                       *)
(***************************************************************************)
LEMMA InitTypeOK == Init => TypeOK
<1> SUFFICES ASSUME Init PROVE TypeOK
  OBVIOUS
<1>1. app \in [Apps -> AppRow]
  <2>1. Modes \subseteq {"domain", "port"} /\ 0 .. MaxPort \subseteq Nat
    BY EngineAssumption
  <2>2. ASSUME NEW r \in [mode : Modes, port : 0 .. MaxPort, live : {None}]
        PROVE  r \in AppRow
    BY <2>1 DEF AppRow
  <2>3. QED
    BY <2>2 DEF Init
<1>2. row \in [Deploys -> DeployRow]
  BY DEF Init, NoRow, DeployRow, Statuses
<1>3. snap \in [Deploys -> AppRow]
  BY DEF Init, NoSnap, AppRow
<1>4. pc \in [Deploys -> Steps]
  BY DEF Init, Steps
<1>5. QED
  BY <1>1, <1>2, <1>3, <1>4 DEF Init, TypeOK

LEMMA HandlerTypeOK ==
  ASSUME TypeOK, NEW h \in Handlers, HandlerStep(h)
  PROVE  TypeOK'
<1>0. req[h] # None => req[h] \in Request
  BY DEF TypeOK
<1>1. CASE Receive(h)
  <2>1. PICK a \in Apps, o \in Ops, i \in Images \cup {None}, m \in Modes :
          /\ i = None => o # "deploy" \/ a \in TalosBuilt
          /\ o # "deploy" => i = None
          /\ o # "update" => m = app[a].mode
          /\ req' = [req EXCEPT ![h] = [op |-> o, app |-> a, row |-> app[a], image |-> i,
                                        mode |-> m, of |-> None, stage |-> "check"]]
    BY <1>1 DEF Receive
  <2>2. req' \in [Handlers -> Request \cup {None}]
    BY <2>1, EngineAssumption DEF Request, TypeOK
  <2>3. QED
    BY <1>1, <2>2 DEF Receive, jobVars, TypeOK
<1>2. CASE CheckInProgress(h)
  <2>1. \/ req' = [req EXCEPT ![h] = None]
        \/ req' = [req EXCEPT ![h].stage = "write"]
    BY <1>2 DEF CheckInProgress
  <2>2. req' \in [Handlers -> Request \cup {None}]
    BY <1>0, <1>2, <2>1 DEF CheckInProgress, Request, TypeOK
  <2>3. QED
    BY <1>2, <2>2 DEF CheckInProgress, jobVars, TypeOK
<1>3. CASE FindSuccessful(h)
  <2>1. req[h] \in Request
    BY <1>0, <1>3 DEF FindSuccessful
  <2>2. \/ req' = [req EXCEPT ![h] = None]
        \/ \E d \in Deploys : req' = [req EXCEPT ![h].of = d, ![h].image = row[d].image,
                                                 ![h].stage = "write"]
    BY <1>3 DEF FindSuccessful, Newest, RowsOf
  <2>3. req' \in [Handlers -> Request \cup {None}]
    <3>1. ASSUME NEW d \in Deploys
          PROVE  [req[h] EXCEPT !.of = d, !.image = row[d].image, !.stage = "write"] \in Request
      BY <2>1 DEF Request, DeployRow, TypeOK
    <3>2. QED
      BY <2>2, <3>1 DEF TypeOK
  <2>4. QED
    BY <1>3, <2>3 DEF FindSuccessful, jobVars, TypeOK
<1>4. CASE CreateDeploy(h)
  <2>1. req[h] \in Request
    BY <1>0, <1>4 DEF CreateDeploy
  <2>0. (IF CoarseClock THEN {clock, clock + 1} ELSE {clock + 1}) \subseteq Nat
    BY DEF TypeOK
  <2>2. PICK d \in Deploys, s \in IF CoarseClock THEN {clock, clock + 1} ELSE {clock + 1} :
          /\ row[d].status = "absent"
          /\ row' = [row EXCEPT ![d] = [status |-> "pending", app |-> req[h].app,
                                        image |-> req[h].image, stamp |-> s,
                                        of |-> req[h].of]]
          /\ clock' = s
          /\ pc' = [pc EXCEPT ![d] = "queued"]
          /\ snap' = [snap EXCEPT ![d] = req[h].row]
          /\ img' = [img EXCEPT ![d] = req[h].image]
    BY <1>4 DEF CreateDeploy
  <2>3. row' \in [Deploys -> DeployRow]
    BY <2>0, <2>1, <2>2 DEF Request, DeployRow, Statuses, TypeOK
  <2>4. pc' \in [Deploys -> Steps]
    BY <2>2 DEF Steps, TypeOK
  <2>5. snap' \in [Deploys -> AppRow] /\ img' \in [Deploys -> Images \cup Built \cup {None}]
    BY <2>1, <2>2 DEF Request, TypeOK
  <2>6. req' \in [Handlers -> Request \cup {None}]
    BY <1>4 DEF CreateDeploy, TypeOK
  <2>7. QED
    BY <1>4, <2>0, <2>2, <2>3, <2>4, <2>5, <2>6 DEF CreateDeploy, TypeOK
<1>5. CASE AssignPort(h)
  <2>1. req[h] \in Request
    BY <1>0, <1>5 DEF AssignPort
  <2>2. PICK p \in 0 .. MaxPort :
          req' = [req EXCEPT ![h].row = [mode |-> req[h].mode, port |-> p,
                                         live |-> req[h].row.live],
                             ![h].stage = "write"]
    BY <1>5 DEF AssignPort
  <2>3. req' \in [Handlers -> Request \cup {None}]
    <3>1. [mode |-> req[h].mode, port |-> p, live |-> req[h].row.live] \in AppRow
      BY <2>1, EngineAssumption DEF Request, AppRow
    <3>2. QED
      BY <2>1, <2>2, <3>1 DEF Request, TypeOK
  <2>4. QED
    BY <1>5, <2>3 DEF AssignPort, jobVars, TypeOK
<1>6. CASE UpdateSettings(h)
  <2>1. app' \in [Apps -> AppRow]
    BY <1>0, <1>6 DEF UpdateSettings, Request, TypeOK
  <2>2. QED
    BY <1>6, <2>1 DEF UpdateSettings, jobVars, TypeOK
<1>7. CASE Abort(h)
  BY <1>7 DEF Abort, jobVars, TypeOK
<1>8. QED
  BY <1>1, <1>2, <1>3, <1>4, <1>5, <1>6, <1>7 DEF HandlerStep

\* Actions of a deploy's goroutine that change pc and at most one other variable.
LEMMA ExecuteTypeOK ==
  ASSUME TypeOK, NEW d \in Deploys, Execute(d)
  PROVE  TypeOK'
<1>1. /\ snap[d].live \in Deploys \cup {None}
      /\ row \in [Deploys -> DeployRow]
      /\ pc \in [Deploys -> Steps]
  BY DEF TypeOK, AppRow
<1>2. ASSUME NEW s \in Steps, Goto(d, s)
      PROVE  pc' \in [Deploys -> Steps]
  BY <1>1, <1>2 DEF Goto
<1>3. {"prepare", "cutover", "launch", "health", "route", "write", "stopOld", "finish",
       "save", "done", "failing", "rolling", "failed"} \subseteq Steps
  BY DEF Steps, Promoted, Ended
<1>4. CASE Build(d)
  BY <1>4 DEF Build, TypeOK
<1>5. CASE BuildFails(d)
  BY <1>2, <1>3, <1>5 DEF BuildFails, TypeOK
<1>6. CASE Begin(d)
  <2>1. row' \in [Deploys -> DeployRow]
    BY <1>6, SetStatusFrame DEF Begin, Statuses
  <2>2. QED
    BY <1>2, <1>3, <1>6, <2>1 DEF Begin, TypeOK
<1>7. CASE Prepare(d)
  <2>1. Goto(d, "cutover") \/ Goto(d, "launch")
    BY <1>7 DEF Prepare
  <2>2. QED
    BY <1>2, <1>3, <1>7, <2>1 DEF Prepare, TypeOK
<1>8. CASE PrepareFails(d)
  BY <1>2, <1>3, <1>8 DEF PrepareFails, TypeOK
<1>9. CASE StopLiveFirst(d)
  <2>1. container' \in [Deploys -> {"absent", "stopped", "running"}]
    BY <1>1, <1>9, AfterStopFrame DEF StopLiveFirst
  <2>2. QED
    BY <1>2, <1>3, <1>9, <2>1 DEF StopLiveFirst, TypeOK
<1>10. CASE Launch(d)
  BY <1>2, <1>3, <1>10 DEF Launch, TypeOK
<1>11. CASE LaunchFails(d)
  <2>1. container' \in [Deploys -> {"absent", "stopped", "running"}]
    BY <1>11 DEF LaunchFails, TypeOK
  <2>2. QED
    BY <1>2, <1>3, <1>11, <2>1 DEF LaunchFails, TypeOK
<1>12. CASE HealthPasses(d)
  <2>1. Goto(d, "finish") \/ Goto(d, "route")
    BY <1>12 DEF HealthPasses
  <2>2. QED
    BY <1>2, <1>3, <1>12, <2>1 DEF HealthPasses, TypeOK
<1>13. CASE HealthFails(d)
  <2>1. container' \in [Deploys -> {"absent", "stopped", "running"}]
    BY <1>13, AfterStopFrame DEF HealthFails
  <2>2. QED
    BY <1>2, <1>3, <1>13, <2>1 DEF HealthFails, TypeOK
<1>14. CASE AutoRollback(d)
  <2>1. row' \in [Deploys -> DeployRow]
    BY <1>14, SetStatusFrame DEF AutoRollback, Statuses
  <2>2. QED
    BY <1>2, <1>3, <1>14, <2>1 DEF AutoRollback, TypeOK
<1>15. CASE CreateRouteFile(d)
  <2>1. route' \in [Apps -> Deploys \cup {None, Broken}]
    BY <1>15 DEF CreateRouteFile, TypeOK
  <2>2. QED
    BY <1>2, <1>3, <1>15, <2>1 DEF CreateRouteFile, TypeOK
<1>16. CASE WriteRoute(d)
  <2>1. route' \in [Apps -> Deploys \cup {None, Broken}]
    BY ZenonT(60), <1>16 DEF WriteRoute, TypeOK
  <2>2. QED
    BY <1>2, <1>3, <1>16, <2>1 DEF WriteRoute, TypeOK
<1>17. CASE RouteFails(d)
  <2>1. container' \in [Deploys -> {"absent", "stopped", "running"}]
    BY <1>17, AfterStopFrame DEF RouteFails
  <2>2. QED
    BY <1>2, <1>3, <1>17, <2>1 DEF RouteFails, TypeOK
<1>18. CASE StopOld(d)
  <2>1. container' \in [Deploys -> {"absent", "stopped", "running"}]
    BY <1>1, <1>18, AfterStopFrame DEF StopOld
  <2>2. QED
    BY <1>2, <1>3, <1>18, <2>1 DEF StopOld, TypeOK
<1>19. CASE Finalize(d)
  <2>1. row' \in [Deploys -> DeployRow]
    BY <1>19, SetStatusFrame DEF Finalize, Statuses
  <2>2. QED
    BY <1>2, <1>3, <1>19, <2>1 DEF Finalize, TypeOK
<1>20. CASE SaveApp(d)
  <2>1. [snap[d] EXCEPT !.live = d] \in AppRow
    BY DEF TypeOK, AppRow
  <2>2. app' \in [Apps -> AppRow]
    BY <1>20, <2>1 DEF SaveApp, TypeOK
  <2>3. QED
    BY <1>2, <1>3, <1>20, <2>2 DEF SaveApp, TypeOK
<1>21. CASE FailDeploy(d)
  <2>1. row' \in [Deploys -> DeployRow]
    BY <1>21, SetStatusFrame DEF FailDeploy, Statuses
  <2>2. QED
    BY <1>2, <1>3, <1>21, <2>1 DEF FailDeploy, TypeOK
<1>22. QED
  BY <1>4, <1>5, <1>6, <1>7, <1>8, <1>9, <1>10, <1>11, <1>12, <1>13, <1>14, <1>15,
     <1>16, <1>17, <1>18, <1>19, <1>20, <1>21 DEF Execute

\* A crash ends goroutines and requests and changes nothing that lasts.
LEMMA CrashTypeOK == TypeOK /\ Crash => TypeOK'
BY DEF TypeOK, Crash

LEMMA NextTypeOK == TypeOK /\ [Next]_vars => TypeOK'
<1>1. ASSUME TypeOK, UNCHANGED vars PROVE TypeOK'
  BY <1>1 DEF TypeOK, vars
<1>2. QED
  BY <1>1, HandlerTypeOK, ExecuteTypeOK, CrashTypeOK DEF Next

\* Every variable keeps its type: in particular the engine writes no status the
\* domain does not have (domain/deploy.go), and a row, a request or a goroutine
\* that names a deploy names one that exists.
THEOREM TypeCorrect == Spec => []TypeOK
BY InitTypeOK, NextTypeOK, PTL DEF Spec

-----------------------------------------------------------------------------
(***************************************************************************)
(* What one step of a deploy's goroutine may do, whichever action it is.   *)
(***************************************************************************)

\* Where the goroutine may go next.
StepTaken(d) ==
  \/ pc[d] = "queued" /\ pc'[d] \in {"queued", "prepare", "failing"}
  \/ pc[d] = "prepare" /\ pc'[d] \in {"launch", "failing"}
  \/ pc[d] = "prepare" /\ pc'[d] = "cutover" /\ Exclusive(d)
  \/ pc[d] = "cutover" /\ pc'[d] = "launch"
  \/ pc[d] = "launch" /\ pc'[d] = "failing"
  \/ pc[d] = "launch" /\ pc'[d] = "health" /\ container'[d] = "running"
  \/ pc[d] = "health" /\ pc'[d] \in {"route", "finish", "rolling"}
  \/ pc[d] = "rolling" /\ pc'[d] = "failed"
  \/ pc[d] = "route" /\ pc'[d] \in {"write", "failing"}
  \/ pc[d] = "write" /\ pc'[d] \in {"stopOld", "failing"}
  \/ pc[d] = "stopOld" /\ pc'[d] = "finish"
  \/ pc[d] = "finish" /\ pc'[d] = "save"
  \/ pc[d] = "save" /\ pc'[d] = "done"
  \/ pc[d] = "failing" /\ pc'[d] = "failed"

\* Which container it may stop: its own, when it gives up, or the live one.
MayStop(d, c) ==
  \/ c = d /\ pc[d] \in {"launch", "health", "route", "write"}
           /\ pc'[d] \in {"failing", "rolling"}
  \/ c = snap[d].live /\ pc[d] \in {"cutover", "stopOld"}

\* What it may do to the route file of an application.
RouteStep(d, a) ==
  \/ route'[a] = route[a] /\ (a = row[d].app => pc'[d] # "stopOld")
  \/ route'[a] = Broken
  \/ route'[a] = d /\ a = row[d].app /\ pc[d] = "write" /\ pc'[d] = "stopOld"

ExecuteStep(d) ==
  /\ StepTaken(d)
  /\ \A x \in Deploys : x # d => pc'[x] = pc[x]
  /\ snap' = snap
  /\ \A x \in Deploys : /\ row'[x].app = row[x].app
                        /\ row'[x].status = "absent" <=> row[x].status = "absent"
  /\ \A c \in Deploys : container[c] = "running" /\ container'[c] # "running" => MayStop(d, c)
  /\ \A a \in Apps : RouteStep(d, a)

LEMMA ExecuteFrame ==
  ASSUME TypeOK, Started, NEW d \in Deploys, Execute(d)
  PROVE  ExecuteStep(d)
<1>0. /\ snap[d].live \in Deploys \cup {None}
      /\ pc \in [Deploys -> Steps]
      /\ route \in [Apps -> Deploys \cup {None, Broken}]
      /\ container \in [Deploys -> {"absent", "stopped", "running"}]
  BY DEF TypeOK, AppRow
<1>1. ASSUME NEW s, Goto(d, s)
      PROVE  pc'[d] = s /\ \A x \in Deploys : x # d => pc'[x] = pc[x]
  BY <1>0, <1>1 DEF Goto
<1>2. ASSUME row' = row
      PROVE  \A x \in Deploys : /\ row'[x].app = row[x].app
                                /\ row'[x].status = "absent" <=> row[x].status = "absent"
  BY <1>2
<1>3. ASSUME NEW s \in Statuses \ {"absent"}, SetStatus(d, s), pc[d] # "none"
      PROVE  \A x \in Deploys : /\ row'[x].app = row[x].app
                                /\ row'[x].status = "absent" <=> row[x].status = "absent"
  BY <1>3, SetStatusFrame DEF Started
<1>4. ASSUME route' = route, pc'[d] # "stopOld"
      PROVE  \A a \in Apps : RouteStep(d, a)
  BY <1>4 DEF RouteStep
<1>5. ASSUME container' = container
      PROVE  \A c \in Deploys : container[c] = "running" /\ container'[c] # "running" => MayStop(d, c)
  BY <1>5
<1>6. {"running", "success", "failed", "auto_rollback"} \subseteq Statuses \ {"absent"}
  BY DEF Statuses
<1>7. CASE Build(d)
  <2>1. StepTaken(d) /\ pc' = pc
    BY <1>7 DEF Build, At, StepTaken
  <2>2. QED
    BY <1>2, <1>4, <1>5, <1>7, <2>1 DEF Build, At, ExecuteStep
<1>8. CASE BuildFails(d) \/ PrepareFails(d)
  <2>1. StepTaken(d) /\ pc'[d] # "stopOld"
    BY <1>1, <1>8 DEF BuildFails, PrepareFails, At, StepTaken
  <2>2. QED
    BY <1>1, <1>2, <1>4, <1>5, <1>8, <2>1 DEF BuildFails, PrepareFails, ExecuteStep
<1>9. CASE Begin(d)
  <2>1. StepTaken(d) /\ pc'[d] # "stopOld" /\ pc[d] # "none"
    BY <1>1, <1>9 DEF Begin, At, StepTaken
  <2>2. QED
    BY <1>1, <1>3, <1>4, <1>5, <1>6, <1>9, <2>1 DEF Begin, ExecuteStep
<1>10. CASE Prepare(d)
  <2>1. StepTaken(d) /\ pc'[d] # "stopOld"
    <3>1. CASE Exclusive(d)
      BY <1>1, <1>10, <3>1 DEF Prepare, At, StepTaken
    <3>2. CASE ~Exclusive(d)
      BY <1>1, <1>10, <3>2 DEF Prepare, At, StepTaken
    <3>3. QED
      BY <3>1, <3>2
  <2>2. \A x \in Deploys : x # d => pc'[x] = pc[x]
    BY <1>1, <1>10 DEF Prepare
  <2>3. QED
    BY <1>2, <1>4, <1>5, <1>10, <2>1, <2>2 DEF Prepare, ExecuteStep
<1>11. CASE StopLiveFirst(d)
  <2>1. StepTaken(d) /\ pc'[d] # "stopOld"
    BY <1>1, <1>11 DEF StopLiveFirst, At, StepTaken
  <2>2. \A c \in Deploys : container[c] = "running" /\ container'[c] # "running" => MayStop(d, c)
    BY <1>0, <1>11, AfterStopFrame DEF StopLiveFirst, At, MayStop
  <2>3. QED
    BY <1>1, <1>2, <1>4, <1>11, <2>1, <2>2 DEF StopLiveFirst, ExecuteStep
<1>12. CASE Launch(d)
  <2>1. container'[d] = "running" /\ \A x \in Deploys : x # d => container'[x] = container[x]
    BY <1>0, <1>12 DEF Launch
  <2>2. StepTaken(d) /\ pc'[d] # "stopOld"
    BY <1>1, <1>12, <2>1 DEF Launch, At, StepTaken
  <2>3. QED
    BY <1>1, <1>2, <1>4, <1>12, <2>1, <2>2 DEF Launch, ExecuteStep
<1>13. CASE LaunchFails(d)
  <2>1. \A x \in Deploys : x # d => container'[x] = container[x]
    BY <1>0, <1>13 DEF LaunchFails
  <2>2. StepTaken(d) /\ pc'[d] = "failing" /\ pc[d] = "launch"
    BY <1>1, <1>13 DEF LaunchFails, At, StepTaken
  <2>3. QED
    BY <1>1, <1>2, <1>4, <1>13, <2>1, <2>2 DEF LaunchFails, ExecuteStep, MayStop
<1>14. CASE HealthPasses(d)
  <2>1. StepTaken(d) /\ pc'[d] # "stopOld"
    <3>1. CASE Exclusive(d)
      BY <1>1, <1>14, <3>1 DEF HealthPasses, At, StepTaken
    <3>2. CASE ~Exclusive(d)
      BY <1>1, <1>14, <3>2 DEF HealthPasses, At, StepTaken
    <3>3. QED
      BY <3>1, <3>2
  <2>2. \A x \in Deploys : x # d => pc'[x] = pc[x]
    BY <1>1, <1>14 DEF HealthPasses
  <2>3. QED
    BY <1>2, <1>4, <1>5, <1>14, <2>1, <2>2 DEF HealthPasses, ExecuteStep
<1>15. CASE HealthFails(d) \/ RouteFails(d)
  <2>1. /\ container' \in AfterStop(d)
        /\ pc[d] \in {"health", "route", "write"}
        /\ pc'[d] \in {"failing", "rolling"}
        /\ StepTaken(d)
    BY <1>1, <1>15 DEF HealthFails, RouteFails, At, StepTaken
  <2>2. \A c \in Deploys : container[c] = "running" /\ container'[c] # "running" => MayStop(d, c)
    BY <2>1, AfterStopFrame DEF MayStop
  <2>3. QED
    BY <1>1, <1>2, <1>4, <1>15, <2>1, <2>2 DEF HealthFails, RouteFails, ExecuteStep
<1>16. CASE AutoRollback(d)
  <2>1. StepTaken(d) /\ pc'[d] # "stopOld" /\ pc[d] # "none"
    BY <1>1, <1>16 DEF AutoRollback, At, StepTaken
  <2>2. QED
    BY <1>1, <1>3, <1>4, <1>5, <1>6, <1>16, <2>1 DEF AutoRollback, ExecuteStep
<1>17. CASE CreateRouteFile(d)
  <2>1. StepTaken(d) /\ pc'[d] = "write"
    BY <1>1, <1>17 DEF CreateRouteFile, At, StepTaken
  <2>2. \A a \in Apps : RouteStep(d, a)
    BY <1>0, <1>17, <2>1 DEF CreateRouteFile, RouteStep
  <2>3. QED
    BY <1>1, <1>2, <1>5, <1>17, <2>1, <2>2 DEF CreateRouteFile, ExecuteStep
<1>18. CASE WriteRoute(d)
  <2>1. StepTaken(d) /\ pc'[d] = "stopOld" /\ pc[d] = "write"
    BY <1>1, <1>18 DEF WriteRoute, At, StepTaken
  <2>2. \A a \in Apps : RouteStep(d, a)
    BY <1>0, <1>18, <2>1 DEF WriteRoute, RouteStep
  <2>3. QED
    BY <1>1, <1>2, <1>5, <1>18, <2>1, <2>2 DEF WriteRoute, ExecuteStep
<1>19. CASE StopOld(d)
  <2>1. StepTaken(d) /\ pc'[d] = "finish"
    BY <1>1, <1>19 DEF StopOld, At, StepTaken
  <2>2. \A c \in Deploys : container[c] = "running" /\ container'[c] # "running" => MayStop(d, c)
    BY <1>0, <1>19, AfterStopFrame DEF StopOld, At, MayStop
  <2>3. QED
    BY <1>1, <1>2, <1>4, <1>19, <2>1, <2>2 DEF StopOld, ExecuteStep
<1>20. CASE Finalize(d)
  <2>1. StepTaken(d) /\ pc'[d] # "stopOld" /\ pc[d] # "none"
    BY <1>1, <1>20 DEF Finalize, At, StepTaken
  <2>2. QED
    BY <1>1, <1>3, <1>4, <1>5, <1>6, <1>20, <2>1 DEF Finalize, ExecuteStep
<1>21. CASE SaveApp(d)
  <2>1. StepTaken(d) /\ pc'[d] # "stopOld"
    BY <1>1, <1>21 DEF SaveApp, At, StepTaken
  <2>2. QED
    BY <1>1, <1>2, <1>4, <1>5, <1>21, <2>1 DEF SaveApp, ExecuteStep
<1>22. CASE FailDeploy(d)
  <2>1. StepTaken(d) /\ pc'[d] # "stopOld" /\ pc[d] # "none"
    BY <1>1, <1>22 DEF FailDeploy, At, StepTaken
  <2>2. QED
    BY <1>1, <1>3, <1>4, <1>5, <1>6, <1>22, <2>1 DEF FailDeploy, ExecuteStep
<1>23. QED
  BY <1>7, <1>8, <1>9, <1>10, <1>11, <1>12, <1>13, <1>14, <1>15, <1>16, <1>17, <1>18,
     <1>19, <1>20, <1>21, <1>22 DEF Execute

-----------------------------------------------------------------------------
(***************************************************************************)
(* What CreateDeploy does, and what no other request does.                 *)
(***************************************************************************)
CreateStep(h, d) ==
  /\ pc[d] = "none" /\ pc'[d] = "queued"
  /\ row'[d].app = req[h].app /\ row'[d].status = "pending"
  /\ snap'[d] = req[h].row
  /\ \A x \in Deploys : x # d => pc'[x] = pc[x] /\ row'[x] = row[x] /\ snap'[x] = snap[x]
  /\ UNCHANGED <<app, container, route>>

LEMMA CreateFrame ==
  ASSUME TypeOK, Started, NEW h \in Handlers, CreateDeploy(h)
  PROVE  \E d \in Deploys : CreateStep(h, d)
<1>1. PICK d \in Deploys, s \in IF CoarseClock THEN {clock, clock + 1} ELSE {clock + 1} :
        /\ row[d].status = "absent"
        /\ row' = [row EXCEPT ![d] = [status |-> "pending", app |-> req[h].app,
                                      image |-> req[h].image, stamp |-> s,
                                      of |-> req[h].of]]
        /\ clock' = s
        /\ pc' = [pc EXCEPT ![d] = "queued"]
        /\ snap' = [snap EXCEPT ![d] = req[h].row]
        /\ img' = [img EXCEPT ![d] = req[h].image]
  BY DEF CreateDeploy
<1>2. pc[d] = "none"
  BY <1>1 DEF Started
<1>3. \A x \in Deploys : x # d => pc'[x] = pc[x] /\ row'[x] = row[x] /\ snap'[x] = snap[x]
  BY <1>1 DEF TypeOK
<1>4. row'[d].app = req[h].app /\ row'[d].status = "pending"
  BY <1>1 DEF TypeOK
<1>5. pc'[d] = "queued" /\ snap'[d] = req[h].row
  BY <1>1 DEF TypeOK
<1>6. UNCHANGED <<app, container, route>>
  BY DEF CreateDeploy
<1>7. QED
  BY <1>2, <1>3, <1>4, <1>5, <1>6 DEF CreateStep

LEMMA OtherRequestsFrame ==
  ASSUME NEW h \in Handlers, HandlerStep(h), ~CreateDeploy(h)
  PROVE  UNCHANGED <<row, pc, snap, container, route>>
BY DEF HandlerStep, Receive, CheckInProgress, FindSuccessful, AssignPort, UpdateSettings,
       Abort, jobVars

-----------------------------------------------------------------------------
(***************************************************************************)
(* The inductive invariant.  What a row, a request or a goroutine says of  *)
(* a deploy that is over stays true, which is why a copy of an             *)
(* application's row may be as old as it likes.                            *)
(***************************************************************************)
Lasting ==
  \A d \in Deploys :
    /\ pc[d] # "none" => /\ pc'[d] # "none"
                         /\ snap'[d] = snap[d]
                         /\ row'[d].app = row[d].app
    /\ pc[d] \in Promoted => pc'[d] \in Promoted
    /\ pc[d] = "done" => pc'[d] = "done"

LEMMA StepIsLasting ==
  ASSUME TypeOK, Started, [Next]_vars
  PROVE  Lasting
<1>1. ASSUME UNCHANGED <<row, pc, snap>> PROVE Lasting
  BY <1>1 DEF Lasting
<1>2. ASSUME NEW h \in Handlers, HandlerStep(h) PROVE Lasting
  <2>1. CASE CreateDeploy(h)
    BY <2>1, CreateFrame DEF CreateStep, Lasting, Promoted
  <2>2. CASE ~CreateDeploy(h)
    BY <1>1, <1>2, <2>2, OtherRequestsFrame
  <2>3. QED
    BY <2>1, <2>2
<1>3. ASSUME NEW d \in Deploys, Execute(d) PROVE Lasting
  <2>1. ExecuteStep(d)
    BY <1>3, ExecuteFrame
  <2>2. QED
    BY <2>1 DEF ExecuteStep, StepTaken, Lasting, Promoted
<1>4. CASE Crash
  BY <1>1, <1>4 DEF Crash
<1>5. CASE UNCHANGED vars
  BY <1>1, <1>5 DEF vars
<1>6. QED
  BY <1>2, <1>3, <1>4, <1>5 DEF Next

LEMMA SettledLasts ==
  ASSUME TypeOK, Lasting, NEW r \in AppRow, NEW a \in Apps, Settled(r, a)
  PROVE  r.live # None => pc'[r.live] = "done" /\ row'[r.live].app = a
BY DEF Lasting, Settled, AppRow

LEMMA InitIInv == Init => IInv
<1> SUFFICES ASSUME Init PROVE IInv
  OBVIOUS
<1>1. TypeOK
  BY InitTypeOK
<1>2. \A a \in Apps : app[a].live = None
  BY DEF Init
<1>3. Started /\ Up /\ CutoverIsExclusive
  BY DEF Init, Started, Up, CutoverIsExclusive, NoRow
<1>4. LiveSettled
  BY <1>2 DEF Init, LiveSettled, Settled, NoSnap
<1>5. Routed /\ OldUnrouted /\ RouteServed
  BY EngineAssumption DEF Init, Routed, OldUnrouted, RouteServed
<1>6. QED
  BY <1>1, <1>3, <1>4, <1>5 DEF IInv

\* A request is answered by changing its own application's row or by handing
\* the row it read to a new deploy; a crash forgets it.
LEMMA StartedStep ==
  ASSUME TypeOK, Started, [Next]_vars
  PROVE  Started'
<1>1. ASSUME UNCHANGED <<row, pc>> PROVE Started'
  BY <1>1 DEF Started
<1>2. ASSUME NEW h \in Handlers, HandlerStep(h) PROVE Started'
  <2>1. CASE CreateDeploy(h)
    <3>1. req[h].app \in Apps
      BY <2>1 DEF CreateDeploy, TypeOK, Request
    <3>2. QED
      BY <2>1, <3>1, CreateFrame DEF CreateStep, Started
  <2>2. CASE ~CreateDeploy(h)
    BY <1>1, <1>2, <2>2, OtherRequestsFrame
  <2>3. QED
    BY <2>1, <2>2
<1>3. ASSUME NEW d \in Deploys, Execute(d) PROVE Started'
  <2>1. ExecuteStep(d)
    BY <1>3, ExecuteFrame
  <2>2. pc[d] # "none" /\ pc'[d] # "none"
    BY <2>1 DEF ExecuteStep, StepTaken
  <2>3. QED
    BY <2>1, <2>2 DEF ExecuteStep, Started
<1>4. CASE Crash
  BY <1>1, <1>4 DEF Crash
<1>5. CASE UNCHANGED vars
  BY <1>1, <1>5 DEF vars
<1>6. QED
  BY <1>2, <1>3, <1>4, <1>5 DEF Next

\* A row that is copied stays true, and the one row that is not a copy, that of
\* SaveApp, names the deploy whose last step it is.
LEMMA LiveSettledStep ==
  ASSUME TypeOK, Started, LiveSettled, [Next]_vars
  PROVE  LiveSettled'
<1> DEFINE Kept(r, a) == r.live # None => pc'[r.live] = "done" /\ row'[r.live].app = a
<1>1. Lasting
  BY StepIsLasting
<1>2. /\ \A a \in Apps : Kept(app[a], a)
      /\ \A h \in Handlers : req[h] # None => Kept(req[h].row, req[h].app)
      /\ \A d \in Deploys : pc[d] # "none" => Kept(snap[d], row[d].app)
  <2>1. \A a \in Apps : Kept(app[a], a)
    BY <1>1, SettledLasts DEF TypeOK, LiveSettled
  <2>2. ASSUME NEW h \in Handlers, req[h] # None PROVE Kept(req[h].row, req[h].app)
    BY <1>1, <2>2, SettledLasts DEF TypeOK, LiveSettled, Request
  <2>3. ASSUME NEW d \in Deploys, pc[d] # "none" PROVE Kept(snap[d], row[d].app)
    BY <1>1, <2>3, SettledLasts DEF TypeOK, LiveSettled, Started
  <2>4. QED
    BY <2>1, <2>2, <2>3
<1>3. TypeOK' /\ Started'
  BY NextTypeOK, StartedStep
<1>4. \A a \in Apps : Kept(app'[a], a)
  <2>1. ASSUME NEW h \in Handlers, UpdateSettings(h)
        PROVE  \A a \in Apps : Kept(app'[a], a)
    BY <1>2, <2>1 DEF UpdateSettings, TypeOK
  <2>2. ASSUME NEW d \in Deploys, SaveApp(d)
        PROVE  \A a \in Apps : Kept(app'[a], a)
    <3>1. pc'[d] = "done" /\ row' = row
      BY <2>2 DEF SaveApp, Goto, TypeOK
    <3>2. \A a \in Apps : app'[a] = app[a] \/ (app'[a].live = d /\ a = row[d].app)
      BY <2>2 DEF SaveApp, TypeOK, AppRow
    <3>3. QED
      BY <1>2, <3>1, <3>2
  <2>3. CASE app' = app
    BY <1>2, <2>3
  <2>4. app' = app \/ (\E h \in Handlers : UpdateSettings(h)) \/ (\E d \in Deploys : SaveApp(d))
    BY DEF Next, HandlerStep, Execute, Crash, vars, jobVars, Receive, CheckInProgress,
           FindSuccessful, CreateDeploy, AssignPort, Abort, Build, BuildFails, Begin, Prepare,
           PrepareFails, StopLiveFirst, Launch, LaunchFails, HealthPasses, HealthFails,
           AutoRollback, CreateRouteFile, WriteRoute, RouteFails, StopOld, Finalize, FailDeploy
  <2>5. QED
    BY <2>1, <2>2, <2>3, <2>4
<1>5. \A h \in Handlers : req'[h] # None => Kept(req'[h].row, req'[h].app)
  <2>1. ASSUME NEW h \in Handlers, HandlerStep(h)
        PROVE  \A g \in Handlers : g # h => req'[g] = req[g]
    BY <2>1 DEF HandlerStep, Receive, CheckInProgress, FindSuccessful, CreateDeploy,
                AssignPort, UpdateSettings, Abort, TypeOK
  <2>2. ASSUME NEW h \in Handlers, HandlerStep(h), req'[h] # None
        PROVE  Kept(req'[h].row, req'[h].app)
    <3>1. CASE Receive(h)
      <4>1. \E a \in Apps : req'[h].row = app[a] /\ req'[h].app = a
        BY <3>1 DEF Receive, TypeOK
      <4>2. QED
        BY <1>2, <4>1
    <3>2. CASE CheckInProgress(h) \/ FindSuccessful(h)
      <4>1. req[h] \in Request
        BY <3>2 DEF CheckInProgress, FindSuccessful, TypeOK
      <4>2. \/ req' = [req EXCEPT ![h] = None]
            \/ req' = [req EXCEPT ![h].stage = "write"]
            \/ \E d \in Deploys : req' = [req EXCEPT ![h].of = d, ![h].image = row[d].image,
                                                     ![h].stage = "write"]
        <5>1. CASE CheckInProgress(h)
          BY <5>1 DEF CheckInProgress
        <5>2. CASE FindSuccessful(h)
          BY <5>2 DEF FindSuccessful, Newest, RowsOf
        <5>3. QED
          BY <3>2, <5>1, <5>2
      <4>3. req'[h].row = req[h].row /\ req'[h].app = req[h].app
        <5>1. /\ DOMAIN req = Handlers
              /\ DOMAIN req[h] = {"op", "app", "row", "image", "mode", "of", "stage"}
          BY <4>1 DEF TypeOK, Request
        <5>2. CASE req' = [req EXCEPT ![h] = None]
          BY <2>2, <5>1, <5>2
        <5>3. CASE req' = [req EXCEPT ![h].stage = "write"]
          BY <5>1, <5>3
        <5>4. ASSUME NEW d \in Deploys,
                     req' = [req EXCEPT ![h].of = d, ![h].image = row[d].image,
                                        ![h].stage = "write"]
              PROVE  req'[h].row = req[h].row /\ req'[h].app = req[h].app
          BY <5>1, <5>4
        <5>5. QED
          BY <4>2, <5>2, <5>3, <5>4
      <4>4. req[h] # None
        BY <3>2 DEF CheckInProgress, FindSuccessful
      <4>5. QED
        BY <1>2, <4>3, <4>4
    <3>3. CASE AssignPort(h)
      <4>1. req[h] \in Request /\ req[h] # None
        BY <3>3 DEF AssignPort, TypeOK
      <4>2. req'[h].row.live = req[h].row.live /\ req'[h].app = req[h].app
        BY <3>3, <4>1 DEF AssignPort, TypeOK, Request
      <4>3. QED
        BY <1>2, <4>1, <4>2
    <3>4. CASE CreateDeploy(h) \/ UpdateSettings(h) \/ Abort(h)
      BY <2>2, <3>4 DEF CreateDeploy, UpdateSettings, Abort, TypeOK
    <3>5. QED
      BY <2>2, <3>1, <3>2, <3>3, <3>4 DEF HandlerStep
  <2>3. ASSUME NEW h \in Handlers, HandlerStep(h)
        PROVE  \A g \in Handlers : req'[g] # None => Kept(req'[g].row, req'[g].app)
    BY <1>2, <2>1, <2>2, <2>3
  <2>4. CASE req' = req
    BY <1>2, <2>4
  <2>5. CASE Crash
    BY <2>5 DEF Crash
  <2>6. \A d \in Deploys : Execute(d) => req' = req
    BY DEF Execute, Build, BuildFails, Begin, Prepare, PrepareFails, StopLiveFirst, Launch,
           LaunchFails, HealthPasses, HealthFails, AutoRollback, CreateRouteFile, WriteRoute,
           RouteFails, StopOld, Finalize, SaveApp, FailDeploy
  <2>7. QED
    BY <2>3, <2>4, <2>5, <2>6 DEF Next, vars
<1>6. \A d \in Deploys : IF pc'[d] = "none" THEN snap'[d].live = None
                                            ELSE Kept(snap'[d], row'[d].app)
  <2>1. ASSUME NEW d \in Deploys, pc[d] # "none" PROVE pc'[d] # "none" /\ Kept(snap'[d], row'[d].app)
    BY <1>1, <1>2, <2>1 DEF Lasting
  <2>2. ASSUME NEW d \in Deploys, pc[d] = "none", pc'[d] = pc[d], snap'[d] = snap[d]
        PROVE  snap'[d].live = None
    BY <2>2 DEF LiveSettled
  <2>3. ASSUME NEW h \in Handlers, CreateDeploy(h), NEW d \in Deploys, CreateStep(h, d)
        PROVE  Kept(snap'[d], row'[d].app)
    <3>1. req[h] # None
      BY <2>3 DEF CreateDeploy
    <3>2. QED
      BY <1>2, <2>3, <3>1 DEF CreateStep
  <2>4. CASE \E h \in Handlers : CreateDeploy(h)
    <3>1. PICK h \in Handlers, d \in Deploys : CreateDeploy(h) /\ CreateStep(h, d)
      BY <2>4, CreateFrame
    <3>2. pc'[d] = "queued" /\ \A x \in Deploys : x # d => pc'[x] = pc[x] /\ snap'[x] = snap[x]
      BY <3>1 DEF CreateStep
    <3>3. QED
      BY <2>1, <2>2, <2>3, <3>1, <3>2
  <2>5. CASE UNCHANGED <<pc, snap>>
    BY <2>1, <2>2, <2>5
  <2>6. ASSUME NEW d \in Deploys, Execute(d)
        PROVE  \A x \in Deploys : pc[x] = "none" => pc'[x] = "none" /\ snap'[x] = snap[x]
    <3>1. ExecuteStep(d)
      BY <2>6, ExecuteFrame
    <3>2. QED
      BY <3>1 DEF ExecuteStep, StepTaken
  <2>7. (\E h \in Handlers : CreateDeploy(h)) \/ UNCHANGED <<pc, snap>> \/ \E d \in Deploys : Execute(d)
    BY OtherRequestsFrame DEF Next, Crash, vars
  <2>8. QED
    BY <2>1, <2>2, <2>4, <2>5, <2>6, <2>7
<1>7. QED
  BY <1>4, <1>5, <1>6 DEF LiveSettled, Settled

\* The one container a goroutine stops besides its own is that of a deploy that
\* is over.
LEMMA LiveIsNotAtWork ==
  ASSUME LiveSettled, NEW d \in Deploys, NEW c \in Deploys, c = snap[d].live,
         None \notin Deploys
  PROVE  pc[c] = "done" /\ pc[d] # "none" /\ row[c].app = row[d].app
BY DEF LiveSettled, Settled

LEMMA UpStep ==
  ASSUME TypeOK, Started, LiveSettled, Up, [Next]_vars
  PROVE  Up'
<1>1. ASSUME UNCHANGED <<pc, container>> PROVE Up'
  BY <1>1 DEF Up
<1>2. ASSUME NEW h \in Handlers, HandlerStep(h) PROVE Up'
  <2>1. CASE CreateDeploy(h)
    BY <2>1, CreateFrame DEF CreateStep, Up
  <2>2. CASE ~CreateDeploy(h)
    BY <1>1, <1>2, <2>2, OtherRequestsFrame
  <2>3. QED
    BY <2>1, <2>2
<1>3. ASSUME NEW d \in Deploys, Execute(d) PROVE Up'
  <2>1. ExecuteStep(d)
    BY <1>3, ExecuteFrame
  <2>2. ASSUME NEW c \in Deploys,
               pc'[c] \in {"health", "route", "write", "stopOld", "finish", "save"}
        PROVE  container'[c] = "running"
    <3>1. CASE c = d
      BY <2>1, <2>2, <3>1, LiveIsNotAtWork, EngineAssumption
      DEF ExecuteStep, StepTaken, MayStop, Up
    <3>2. CASE c # d
      BY <2>1, <2>2, <3>2, LiveIsNotAtWork, EngineAssumption DEF ExecuteStep, MayStop, Up
    <3>3. QED
      BY <3>1, <3>2
  <2>3. QED
    BY <2>2 DEF Up
<1>4. CASE Crash
  BY <1>1, <1>4 DEF Crash
<1>5. CASE UNCHANGED vars
  BY <1>1, <1>5 DEF vars
<1>6. QED
  BY <1>2, <1>3, <1>4, <1>5 DEF Next

\* Only WriteRoute names a deploy in a route file, and what it names is a deploy
\* that is promoted from then on.
LEMMA RoutedStep ==
  ASSUME TypeOK, Started, Routed, [Next]_vars
  PROVE  Routed'
<1>1. Lasting
  BY StepIsLasting
<1>2. ASSUME route' = route PROVE Routed'
  BY <1>1, <1>2 DEF Lasting, Routed, Promoted
<1>3. ASSUME NEW d \in Deploys, Execute(d) PROVE Routed'
  <2>1. ExecuteStep(d)
    BY <1>3, ExecuteFrame
  <2>2. ASSUME NEW a \in Apps, route'[a] \in Deploys
        PROVE  pc'[route'[a]] \in Promoted /\ row'[route'[a]].app = a
    <3>1. CASE route'[a] = route[a]
      BY <1>1, <2>2, <3>1 DEF Lasting, Routed, Promoted
    <3>2. CASE route'[a] # route[a]
      BY <2>1, <2>2, <3>2, EngineAssumption DEF ExecuteStep, RouteStep, Promoted
    <3>3. QED
      BY <3>1, <3>2
  <2>3. QED
    BY <2>2 DEF Routed
<1>4. route' = route \/ \E d \in Deploys : Execute(d)
  BY OtherRequestsFrame DEF Next, CreateDeploy, Crash, vars
<1>5. QED
  BY <1>2, <1>3, <1>4

\* The live container belongs to a deploy of the same application, so the route
\* that WriteRoute replaces is the only one that can name it.
LEMMA OldUnroutedStep ==
  ASSUME TypeOK, Started, LiveSettled, Routed, OldUnrouted, [Next]_vars
  PROVE  OldUnrouted'
<1>1. ASSUME UNCHANGED <<pc, snap, route>> PROVE OldUnrouted'
  BY <1>1 DEF OldUnrouted
<1>2. ASSUME NEW h \in Handlers, HandlerStep(h) PROVE OldUnrouted'
  <2>1. CASE CreateDeploy(h)
    BY <2>1, CreateFrame DEF CreateStep, OldUnrouted
  <2>2. CASE ~CreateDeploy(h)
    BY <1>1, <1>2, <2>2, OtherRequestsFrame
  <2>3. QED
    BY <2>1, <2>2
<1>3. ASSUME NEW d \in Deploys, Execute(d) PROVE OldUnrouted'
  <2>1. ExecuteStep(d)
    BY <1>3, ExecuteFrame
  <2>2. ASSUME NEW e \in Deploys, pc'[e] = "stopOld", snap'[e].live # None, NEW a \in Apps
        PROVE  route'[a] # snap'[e].live
    <3> DEFINE c == snap[e].live
    <3>1. snap' = snap /\ c \in Deploys
      BY <2>1, <2>2 DEF ExecuteStep, TypeOK, AppRow
    <3>2. CASE e # d
      <4>1. pc[e] = "stopOld"
        BY <2>1, <2>2, <3>2 DEF ExecuteStep
      <4>2. route[a] # c /\ pc[c] = "done"
        BY <2>2, <3>1, <4>1, LiveIsNotAtWork, EngineAssumption DEF OldUnrouted
      <4>3. QED
        BY <2>1, <3>1, <4>2, EngineAssumption DEF ExecuteStep, RouteStep
    <3>3. CASE e = d
      <4>1. pc[d] = "write"
        BY <2>1, <2>2, <3>3 DEF ExecuteStep, StepTaken
      <4>2. pc[c] = "done" /\ row[c].app = row[d].app
        BY <3>1, <3>3, LiveIsNotAtWork, EngineAssumption
      <4>3. route[a] = c => a = row[d].app
        BY <3>1, <4>2 DEF Routed
      <4>4. route'[a] # c
        BY <2>1, <2>2, <3>1, <3>3, <4>1, <4>2, <4>3, EngineAssumption DEF ExecuteStep, RouteStep
      <4>5. QED
        BY <3>1, <4>4
    <3>4. QED
      BY <3>2, <3>3
  <2>3. QED
    BY <2>2 DEF OldUnrouted
<1>4. CASE Crash
  BY <1>1, <1>4 DEF Crash
<1>5. CASE UNCHANGED vars
  BY <1>1, <1>5 DEF vars
<1>6. QED
  BY <1>2, <1>3, <1>4, <1>5 DEF Next

LEMMA CutoverStep ==
  ASSUME TypeOK, Started, CutoverIsExclusive, [Next]_vars
  PROVE  CutoverIsExclusive'
<1>1. ASSUME UNCHANGED <<pc, snap>> PROVE CutoverIsExclusive'
  BY <1>1 DEF CutoverIsExclusive, Exclusive
<1>2. ASSUME NEW h \in Handlers, HandlerStep(h) PROVE CutoverIsExclusive'
  <2>1. CASE CreateDeploy(h)
    BY <2>1, CreateFrame DEF CreateStep, CutoverIsExclusive, Exclusive
  <2>2. CASE ~CreateDeploy(h)
    BY <1>1, <1>2, <2>2, OtherRequestsFrame
  <2>3. QED
    BY <2>1, <2>2
<1>3. ASSUME NEW d \in Deploys, Execute(d) PROVE CutoverIsExclusive'
  <2>1. ExecuteStep(d)
    BY <1>3, ExecuteFrame
  <2>2. QED
    BY <2>1 DEF ExecuteStep, StepTaken, CutoverIsExclusive, Exclusive
<1>4. CASE Crash
  BY <1>1, <1>4 DEF Crash
<1>5. CASE UNCHANGED vars
  BY <1>1, <1>5 DEF vars
<1>6. QED
  BY <1>2, <1>3, <1>4, <1>5 DEF Next

LEMMA RouteServedStep ==
  ASSUME IInv, [Next]_vars
  PROVE  RouteServed'
<1>0. /\ TypeOK /\ Started /\ LiveSettled /\ Up /\ Routed /\ OldUnrouted
      /\ CutoverIsExclusive /\ RouteServed
  BY DEF IInv
<1>1. Lasting
  BY <1>0, StepIsLasting
<1>2. ASSUME NEW e \in Deploys, pc[e] # "none", Exclusive(e)
      PROVE  pc'[e] # "none" /\ Exclusive(e)' /\ snap'[e].live = snap[e].live
  BY <1>1, <1>2 DEF Lasting, Exclusive
<1>3. ASSUME UNCHANGED <<route, container>> PROVE RouteServed'
  <2>1. ASSUME NEW a \in Apps, route'[a] \in Deploys, container'[route'[a]] # "running"
        PROVE  \E e \in Deploys : pc'[e] # "none" /\ Exclusive(e)' /\ snap'[e].live = route'[a]
    <3>1. PICK e \in Deploys : pc[e] # "none" /\ Exclusive(e) /\ snap[e].live = route[a]
      BY <1>0, <1>3, <2>1 DEF RouteServed
    <3>2. QED
      BY <1>2, <1>3, <3>1
  <2>2. QED
    BY <2>1 DEF RouteServed
<1>4. ASSUME NEW d \in Deploys, Execute(d) PROVE RouteServed'
  <2>1. ExecuteStep(d)
    BY <1>0, <1>4, ExecuteFrame
  <2>2. ASSUME NEW a \in Apps, route'[a] \in Deploys, container'[route'[a]] # "running"
        PROVE  \E e \in Deploys : pc'[e] # "none" /\ Exclusive(e)' /\ snap'[e].live = route'[a]
    <3>1. CASE route'[a] # route[a]
      \* WriteRoute: the container it names is up.
      <4>1. route'[a] = d /\ pc'[d] = "stopOld"
        BY <2>1, <2>2, <3>1, EngineAssumption DEF ExecuteStep, RouteStep
      <4>2. Up'
        BY <1>0, UpStep
      <4>3. QED
        BY <2>2, <4>1, <4>2 DEF Up
    <3>2. CASE route'[a] = route[a] /\ container[route[a]] # "running"
      <4>1. PICK e \in Deploys : pc[e] # "none" /\ Exclusive(e) /\ snap[e].live = route[a]
        BY <1>0, <2>2, <3>2 DEF RouteServed
      <4>2. QED
        BY <1>2, <3>2, <4>1
    <3>3. CASE route'[a] = route[a] /\ container[route[a]] = "running"
      \* The step stops it: not as its own container, whose deploy would not be
      \* promoted, and not after the switch, so in an exclusive cutover.
      <4>1. MayStop(d, route[a]) /\ pc[route[a]] \in Promoted
        BY <1>0, <2>1, <2>2, <3>3 DEF ExecuteStep, Routed
      <4>2. route[a] = snap[d].live /\ pc[d] \in {"cutover", "stopOld"}
        BY <4>1 DEF MayStop, Promoted
      <4>3. pc[d] # "stopOld"
        BY <1>0, <2>2, <3>3, <4>2, EngineAssumption DEF OldUnrouted
      <4>4. Exclusive(d)
        BY <1>0, <4>2, <4>3 DEF CutoverIsExclusive
      <4>5. QED
        BY <1>2, <3>3, <4>2, <4>4
    <3>4. QED
      BY <3>1, <3>2, <3>3
  <2>3. QED
    BY <2>2 DEF RouteServed
<1>5. ASSUME NEW h \in Handlers, HandlerStep(h) PROVE UNCHANGED <<route, container>>
  BY <1>5, OtherRequestsFrame DEF CreateDeploy
<1>6. QED
  BY <1>3, <1>4, <1>5 DEF Next, Crash, vars

THEOREM Inductive == Spec => []IInv
<1>1. IInv /\ [Next]_vars => IInv'
  <2> SUFFICES ASSUME IInv, [Next]_vars PROVE IInv'
    OBVIOUS
  <2>1. /\ TypeOK /\ Started /\ LiveSettled /\ Up /\ Routed /\ OldUnrouted
        /\ CutoverIsExclusive
    BY DEF IInv
  <2>2. TypeOK' /\ Started' /\ LiveSettled'
    BY <2>1, NextTypeOK, StartedStep, LiveSettledStep
  <2>3. Up' /\ Routed' /\ OldUnrouted' /\ CutoverIsExclusive'
    BY <2>1, UpStep, RoutedStep, OldUnroutedStep, CutoverStep
  <2>4. QED
    BY <2>2, <2>3, RouteServedStep DEF IInv
<1>2. QED
  BY InitIInv, <1>1, PTL DEF Spec

\* The container a route file names is running, or an exclusive cutover was told
\* to stop it first (engine.go, execute: UpdateRoute, then StopAndRemove).
THEOREM TrafficIsServed == Spec => []RouteServed
<1>1. IInv => RouteServed
  BY DEF IInv
<1>2. QED
  BY Inductive, <1>1, PTL

\* The live container of every row was started by a deploy that is over, so no
\* goroutine will remove it as its own staging container (engine.go, execute:
\* UpdateApp comes last).
THEOREM LiveIsOver == Spec => []LiveIsFinished
<1>1. IInv => LiveIsFinished
  BY DEF IInv, LiveSettled, Settled, LiveIsFinished
<1>2. QED
  BY Inductive, <1>1, PTL

-----------------------------------------------------------------------------
(***************************************************************************)
(* Who may stop a container, step by step.                                 *)
(***************************************************************************)
StoppedBySuccessor ==
  \A c \in Deploys :
    container[c] = "running" /\ container'[c] # "running" /\ pc[c] \in Promoted =>
      \E e \in Deploys :
        /\ snap[e].live = c
        /\ \/ pc[e] = "cutover" /\ Exclusive(e)
           \/ pc[e] = "stopOld" /\ container[e] = "running"

LEMMA StopStep ==
  ASSUME IInv, [Next]_vars
  PROVE  StoppedBySuccessor
<1>0. TypeOK /\ Started /\ Up /\ CutoverIsExclusive
  BY DEF IInv
<1>1. CASE container' = container
  BY <1>1 DEF StoppedBySuccessor
<1>2. ASSUME NEW d \in Deploys, Execute(d) PROVE StoppedBySuccessor
  <2>1. ExecuteStep(d)
    BY <1>0, <1>2, ExecuteFrame
  <2>2. ASSUME NEW c \in Deploys, container[c] = "running", container'[c] # "running",
               pc[c] \in Promoted
        PROVE  \E e \in Deploys :
                 /\ snap[e].live = c
                 /\ \/ pc[e] = "cutover" /\ Exclusive(e)
                    \/ pc[e] = "stopOld" /\ container[e] = "running"
    <3>1. snap[d].live = c /\ pc[d] \in {"cutover", "stopOld"}
      BY <2>1, <2>2 DEF ExecuteStep, MayStop, Promoted
    <3>2. pc[d] = "cutover" => Exclusive(d)
      BY <1>0 DEF CutoverIsExclusive
    <3>3. pc[d] = "stopOld" => container[d] = "running"
      BY <1>0 DEF Up
    <3>4. QED
      BY <3>1, <3>2, <3>3
  <2>3. QED
    BY <2>2 DEF StoppedBySuccessor
<1>3. container' = container \/ \E d \in Deploys : Execute(d)
  BY OtherRequestsFrame DEF Next, CreateDeploy, Crash, vars
<1>4. QED
  BY <1>1, <1>2, <1>3

\* A container that traffic was switched to is stopped only by a deploy that found
\* it live, in an exclusive cutover or with its own container running.
THEOREM OnlySuccessorsStop == Spec => SuccessorStops
<1>1. IInv /\ [Next]_vars => [StoppedBySuccessor]_vars
  BY StopStep
<1>2. Spec => [][StoppedBySuccessor]_vars
  BY Inductive, <1>1, PTL DEF Spec
<1>3. QED
  BY <1>2 DEF SuccessorStops, StoppedBySuccessor

-----------------------------------------------------------------------------
(***************************************************************************)
(* With the managed proxy and no application in port mode there is no      *)
(* exclusive cutover, and the promise of the README holds.                 *)
(***************************************************************************)
BlueGreenOnly == Modes = {"domain"} /\ External = FALSE

AllDomain ==
  /\ \A a \in Apps : app[a].mode = "domain"
  /\ \A h \in Handlers : req[h] # None => req[h].mode = "domain" /\ req[h].row.mode = "domain"
  /\ \A d \in Deploys : snap[d].mode = "domain"

LEMMA AllDomainStep ==
  ASSUME BlueGreenOnly, TypeOK, AllDomain, [Next]_vars
  PROVE  AllDomain'
<1>1. ASSUME NEW h \in Handlers, HandlerStep(h) PROVE AllDomain'
  <2>1. CASE Receive(h)
    <3>1. PICK a \in Apps, o \in Ops, i \in Images \cup {None}, m \in Modes :
            /\ i = None => o # "deploy" \/ a \in TalosBuilt
            /\ o # "deploy" => i = None
            /\ o # "update" => m = app[a].mode
            /\ req' = [req EXCEPT ![h] = [op |-> o, app |-> a, row |-> app[a], image |-> i,
                                          mode |-> m, of |-> None, stage |-> "check"]]
      BY <2>1 DEF Receive
    <3>2. m = "domain"
      BY <3>1 DEF BlueGreenOnly
    <3>3. QED
      BY <2>1, <3>1, <3>2 DEF Receive, AllDomain, TypeOK, jobVars
  <2>2. CASE CheckInProgress(h)
    <3>1. req[h] \in Request /\ req[h] # None
      BY <2>2 DEF CheckInProgress, TypeOK
    <3>2. req' = [req EXCEPT ![h] = None] \/ req' = [req EXCEPT ![h].stage = "write"]
      BY <2>2 DEF CheckInProgress
    <3>3. QED
      BY <2>2, <3>1, <3>2 DEF CheckInProgress, AllDomain, TypeOK, Request, jobVars
  <2>3. CASE FindSuccessful(h)
    <3>1. req[h] \in Request /\ req[h] # None
      BY <2>3 DEF FindSuccessful, TypeOK
    <3>2. \/ req' = [req EXCEPT ![h] = None]
          \/ \E d \in Deploys : req' = [req EXCEPT ![h].of = d, ![h].image = row[d].image,
                                                   ![h].stage = "write"]
      BY <2>3 DEF FindSuccessful, Newest, RowsOf
    <3>3. req'[h] # None => req'[h].mode = "domain" /\ req'[h].row.mode = "domain"
      <4>1. /\ DOMAIN req = Handlers
            /\ DOMAIN req[h] = {"op", "app", "row", "image", "mode", "of", "stage"}
        BY <3>1 DEF TypeOK, Request
      <4>2. req[h].mode = "domain" /\ req[h].row.mode = "domain"
        BY <3>1 DEF AllDomain
      <4>3. CASE req' = [req EXCEPT ![h] = None]
        BY <4>1, <4>3
      <4>4. ASSUME NEW d \in Deploys,
                   req' = [req EXCEPT ![h].of = d, ![h].image = row[d].image, ![h].stage = "write"]
            PROVE  req'[h].mode = "domain" /\ req'[h].row.mode = "domain"
        BY <4>1, <4>2, <4>4
      <4>5. QED
        BY <3>2, <4>3, <4>4
    <3>4. \A g \in Handlers : g # h => req'[g] = req[g]
      BY <2>3 DEF FindSuccessful, TypeOK
    <3>5. QED
      BY <2>3, <3>3, <3>4 DEF FindSuccessful, AllDomain, jobVars
  <2>4. CASE CreateDeploy(h)
    <3>1. req[h] # None
      BY <2>4 DEF CreateDeploy
    <3>2. PICK d \in Deploys : snap' = [snap EXCEPT ![d] = req[h].row]
      BY <2>4 DEF CreateDeploy
    <3>3. QED
      BY <2>4, <3>1, <3>2 DEF CreateDeploy, AllDomain, TypeOK
  <2>5. CASE AssignPort(h)
    <3>1. req[h] \in Request /\ req[h] # None
      BY <2>5 DEF AssignPort, TypeOK
    <3>2. /\ \A g \in Handlers : g # h => req'[g] = req[g]
          /\ req'[h].mode = req[h].mode /\ req'[h].row.mode = req[h].mode
      BY <2>5, <3>1 DEF AssignPort, TypeOK, Request
    <3>3. QED
      BY <2>5, <3>1, <3>2 DEF AssignPort, AllDomain, jobVars
  <2>6. CASE UpdateSettings(h)
    BY <2>6 DEF UpdateSettings, AllDomain, TypeOK, jobVars
  <2>7. CASE Abort(h)
    BY <2>7 DEF Abort, AllDomain, TypeOK, jobVars
  <2>8. QED
    BY <1>1, <2>1, <2>2, <2>3, <2>4, <2>5, <2>6, <2>7 DEF HandlerStep
<1>2. ASSUME NEW d \in Deploys, Execute(d) PROVE AllDomain'
  <2>1. CASE SaveApp(d)
    <3>1. \A a \in Apps : app'[a] = app[a] \/ app'[a].mode = snap[d].mode
      BY <2>1 DEF SaveApp, TypeOK, AppRow
    <3>2. QED
      BY <2>1, <3>1 DEF SaveApp, AllDomain
  <2>2. CASE ~SaveApp(d)
    <3>1. UNCHANGED <<app, req, snap>>
      BY <1>2, <2>2 DEF Execute, Build, BuildFails, Begin, Prepare, PrepareFails, StopLiveFirst,
         Launch, LaunchFails, HealthPasses, HealthFails, AutoRollback, CreateRouteFile,
         WriteRoute, RouteFails, StopOld, Finalize, FailDeploy
    <3>2. QED
      BY <3>1 DEF AllDomain
  <2>3. QED
    BY <2>1, <2>2
<1>3. CASE Crash
  BY <1>3 DEF Crash, AllDomain
<1>4. CASE UNCHANGED vars
  BY <1>4 DEF vars, AllDomain
<1>5. QED
  BY <1>1, <1>2, <1>3, <1>4 DEF Next

\* README.md: "the old container is never stopped until the new one is proven
\* healthy".
THEOREM DomainsKeepRunning ==
  ASSUME BlueGreenOnly
  PROVE  Spec => ZeroDowntime
<1> DEFINE Kept ==
      \A c \in Deploys :
        container[c] = "running" /\ container'[c] # "running" =>
          \/ pc[c] \notin Promoted
          \/ \E e \in Deploys : /\ snap[e].live = c
                                /\ pc[e] \in Promoted
                                /\ container[e] = "running"
<1>1. Init => AllDomain
  BY DEF BlueGreenOnly, Init, AllDomain, NoSnap
<1>2. IInv /\ AllDomain /\ [Next]_vars => AllDomain'
  BY AllDomainStep DEF IInv
<1>3. IInv /\ AllDomain /\ [Next]_vars => [Kept]_vars
  <2> SUFFICES ASSUME IInv, AllDomain, [Next]_vars PROVE Kept
    OBVIOUS
  <2>1. \A e \in Deploys : ~Exclusive(e)
    BY DEF BlueGreenOnly, AllDomain, Exclusive
  <2>2. QED
    BY <2>1, StopStep DEF StoppedBySuccessor, Promoted
<1>4. Spec => [][Kept]_vars
  BY Inductive, <1>1, <1>2, <1>3, PTL DEF Spec
<1>5. QED
  BY <1>4 DEF ZeroDowntime

-----------------------------------------------------------------------------
(***************************************************************************)
(* DeployEngine implements BlueGreen: whatever fails, whatever is lost and *)
(* wherever the process is stopped.  Then what the rows of deploys say     *)
(* when nothing is lost, which image a rollback runs, and when deploys of  *)
(* an application exclude one another.                                     *)
(***************************************************************************)
\* What the row of a deploy may say at each step of its goroutine.  An UPDATE that was lost
\* leaves the status one or two steps behind.
Phases ==
  \A d \in Deploys :
    /\ pc[d] = "none" => row[d].status = "absent"
    /\ pc[d] = "queued" => row[d].status = "pending"
    /\ pc[d] \in {"prepare", "cutover", "launch", "health", "route", "write",
                  "failing", "rolling", "stopOld", "finish"} => row[d].status \in InProgress

\* The two ways in which an engine step maps to the abstract engine.
StatusKept == \A x \in Deploys : row'[x].status = row[x].status
SwitchedKept == \A x \in Deploys : pc'[x] \in Promoted <=> pc[x] \in Promoted
OnlyStatus(d, s) ==
  row'[d].status = s /\ \A x \in Deploys \ {d} : row'[x].status = row[x].status

LEMMA Stutters == StatusKept /\ SwitchedKept => UNCHANGED BG!vars
BY DEF StatusKept, SwitchedKept, BG!vars

LEMMA Moves ==
  ASSUME NEW d \in Deploys, NEW from, NEW s, row[d].status \in from, OnlyStatus(d, s), SwitchedKept
  PROVE  /\ BG!Move(d, from, s)
         /\ {x \in Deploys : pc[x] \in Promoted}' = {x \in Deploys : pc[x] \in Promoted}
<1>1. [x \in Deploys |-> row'[x].status] = [[x \in Deploys |-> row[x].status] EXCEPT ![d] = s]
  BY DEF OnlyStatus
<1> QED BY <1>1 DEF BG!Move, SwitchedKept

-----------------------------------------------------------------------------
\* What an update of the status does to the row of a deploy.
LEMMA StatusFacts ==
  ASSUME TypeOK, NEW d \in Deploys, NEW s \in Statuses, SetStatus(d, s)
  PROVE  StatusKept \/ OnlyStatus(d, s)
BY DEF SetStatus, StatusKept, OnlyStatus, TypeOK, DeployRow

LEMMA GotoFacts ==
  ASSUME TypeOK, NEW d \in Deploys, NEW s, Goto(d, s)
  PROVE  pc'[d] = s /\ \A x \in Deploys \ {d} : pc'[x] = pc[x]
BY DEF Goto, TypeOK

\* A step of a goroutine that does not touch the table and does not switch traffic.
LEMMA QuietStep ==
  ASSUME TypeOK, Phases, NEW d \in Deploys, row' = row,
         \A x \in Deploys \ {d} : pc'[x] = pc[x],
         \/ pc'[d] = pc[d]
         \/ /\ pc[d] \in {"queued", "prepare", "cutover", "launch", "health", "route", "write"}
            /\ pc'[d] \in {"prepare", "cutover", "launch", "health", "route", "write",
                           "failing", "rolling"}
         \/ pc[d] = "stopOld" /\ pc'[d] = "finish"
         \/ pc[d] = "save" /\ pc'[d] = "done"
  PROVE  Phases' /\ UNCHANGED BG!vars
<1>1. Phases'
  BY DEF Phases, InProgress
<1>2. StatusKept /\ SwitchedKept
  BY DEF StatusKept, SwitchedKept, Promoted
<1> QED BY <1>1, <1>2, Stutters

\* The step with which traffic is given to the container.
LEMMA SwitchStep ==
  ASSUME TypeOK, Phases, NEW d \in Deploys, row' = row,
         \A x \in Deploys \ {d} : pc'[x] = pc[x],
         pc[d] \in {"health", "write"}, pc'[d] \in {"stopOld", "finish"}
  PROVE  Phases' /\ BG!Next
<1>1. Phases'
  BY DEF Phases
<1>2. row[d].status \in {"pending", "running"}
  BY DEF Phases, InProgress
<1>3. BG!Switch(d)
  <2>1. {x \in Deploys : pc'[x] \in Promoted} = {x \in Deploys : pc[x] \in Promoted} \cup {d}
    BY DEF Promoted
  <2> QED BY <1>2, <2>1 DEF BG!Switch
<1> QED BY <1>1, <1>3 DEF BG!Next

\* The step with which a status is written, if the UPDATE is not lost.
LEMMA StatusStep ==
  ASSUME TypeOK, Phases, NEW d \in Deploys, NEW s \in Statuses, SetStatus(d, s),
         \A x \in Deploys \ {d} : pc'[x] = pc[x],
         \/ pc[d] = "queued" /\ pc'[d] = "prepare" /\ s = "running"
         \/ pc[d] = "finish" /\ pc'[d] = "save" /\ s = "success"
         \/ pc[d] = "rolling" /\ pc'[d] = "failed" /\ s = "auto_rollback"
         \/ pc[d] = "failing" /\ pc'[d] = "failed" /\ s = "failed"
  PROVE  Phases' /\ [BG!Next]_BG!vars
<1>1. StatusKept \/ OnlyStatus(d, s)
  BY StatusFacts
<1>2. Phases'
  BY <1>1 DEF Phases, StatusKept, OnlyStatus, InProgress
<1>3. SwitchedKept
  BY DEF SwitchedKept, Promoted
<1>4. CASE StatusKept
  BY <1>2, <1>3, <1>4, Stutters
<1>5. CASE OnlyStatus(d, s)
  <2>1. CASE pc[d] = "queued"
    <3>1. row[d].status \in {"pending"} /\ s = "running"
      BY <2>1 DEF Phases
    <3>2. BG!Begin(d)
      BY <1>3, <1>5, <3>1, Moves DEF BG!Begin
    <3> QED BY <1>2, <3>2 DEF BG!Next
  <2>2. CASE pc[d] = "finish"
    <3>1. BG!Succeed(d)
      BY <1>3, <1>5, <2>2, Moves DEF Phases, Promoted, InProgress, BG!Succeed
    <3> QED BY <1>2, <3>1 DEF BG!Next
  <2>3. CASE pc[d] \in {"rolling", "failing"}
    <3>1. s \in {"failed", "auto_rollback"} /\ row[d].status \in {"pending", "running"}
      BY <2>3 DEF Phases, InProgress
    <3>2. d \notin {x \in Deploys : pc[x] \in Promoted}
      BY <2>3 DEF Promoted
    <3>3. BG!Fail(d)
      BY <1>3, <1>5, <3>1, <3>2, Moves DEF BG!Fail
    <3> QED BY <1>2, <3>3 DEF BG!Next
  <2> QED BY <2>1, <2>2, <2>3
<1> QED BY <1>1, <1>4, <1>5

LEMMA ExecuteBG ==
  ASSUME TypeOK, Phases, NEW d \in Deploys, Execute(d)
  PROVE  Phases' /\ [BG!Next]_BG!vars
<1>1. CASE Build(d)
  BY <1>1, QuietStep DEF Build
<1>2. CASE BuildFails(d)
  BY <1>2, QuietStep, GotoFacts DEF BuildFails, At
<1>3. CASE Begin(d)
  BY <1>3, StatusStep, GotoFacts DEF Begin, At, Statuses
<1>4. CASE Prepare(d)
  BY <1>4, QuietStep, GotoFacts DEF Prepare, At
<1>5. CASE PrepareFails(d)
  BY <1>5, QuietStep, GotoFacts DEF PrepareFails, At
<1>6. CASE StopLiveFirst(d)
  BY <1>6, QuietStep, GotoFacts DEF StopLiveFirst, At
<1>7. CASE Launch(d)
  BY <1>7, QuietStep, GotoFacts DEF Launch, At
<1>8. CASE LaunchFails(d)
  BY <1>8, QuietStep, GotoFacts DEF LaunchFails, At
<1>9. CASE HealthPasses(d)
  <2>1. CASE Goto(d, "finish")
    BY <1>9, <2>1, SwitchStep, GotoFacts DEF HealthPasses, At
  <2>2. CASE Goto(d, "route")
    BY <1>9, <2>2, QuietStep, GotoFacts DEF HealthPasses, At
  <2> QED BY <1>9, <2>1, <2>2 DEF HealthPasses
<1>10. CASE HealthFails(d)
  BY <1>10, QuietStep, GotoFacts DEF HealthFails, At
<1>11. CASE AutoRollback(d)
  BY <1>11, StatusStep, GotoFacts DEF AutoRollback, At, Statuses
<1>12. CASE CreateRouteFile(d)
  BY <1>12, QuietStep, GotoFacts DEF CreateRouteFile, At
<1>13. CASE WriteRoute(d)
  BY <1>13, SwitchStep, GotoFacts DEF WriteRoute, At
<1>14. CASE RouteFails(d)
  BY <1>14, QuietStep, GotoFacts DEF RouteFails, At
<1>15. CASE StopOld(d)
  BY <1>15, QuietStep, GotoFacts DEF StopOld, At
<1>16. CASE Finalize(d)
  BY <1>16, StatusStep, GotoFacts DEF Finalize, At, Statuses
<1>17. CASE SaveApp(d)
  BY <1>17, QuietStep, GotoFacts DEF SaveApp, At
<1>18. CASE FailDeploy(d)
  BY <1>18, StatusStep, GotoFacts DEF FailDeploy, At, Statuses
<1> QED
  BY <1>1, <1>2, <1>3, <1>4, <1>5, <1>6, <1>7, <1>8, <1>9, <1>10, <1>11, <1>12, <1>13,
     <1>14, <1>15, <1>16, <1>17, <1>18 DEF Execute

LEMMA HandlerBG ==
  ASSUME TypeOK, Started, Phases, NEW h \in Handlers, HandlerStep(h)
  PROVE  Phases' /\ [BG!Next]_BG!vars
<1>1. CASE CreateDeploy(h)
  <2>1. PICK d \in Deploys, s \in IF CoarseClock THEN {clock, clock + 1} ELSE {clock + 1} :
          /\ row[d].status = "absent"
          /\ row' = [row EXCEPT ![d] = [status |-> "pending", app |-> req[h].app,
                                        image |-> req[h].image, stamp |-> s, of |-> req[h].of]]
          /\ pc' = [pc EXCEPT ![d] = "queued"]
    BY <1>1 DEF CreateDeploy
  <2>2. OnlyStatus(d, "pending")
    BY <2>1 DEF OnlyStatus, TypeOK
  <2>3. pc'[d] = "queued" /\ pc[d] = "none" /\ \A x \in Deploys \ {d} : pc'[x] = pc[x]
    BY <2>1 DEF TypeOK, Started
  <2>4. Phases'
    BY <2>2, <2>3 DEF Phases, OnlyStatus
  <2>5. SwitchedKept
    BY <2>3 DEF SwitchedKept, Promoted
  <2>6. BG!Accept(d)
    BY <2>1, <2>2, <2>5, Moves DEF BG!Accept
  <2> QED BY <2>4, <2>6 DEF BG!Next
<1>2. CASE ~CreateDeploy(h)
  <2>1. UNCHANGED <<row, pc>>
    BY <1>2 DEF HandlerStep, Receive, CheckInProgress, FindSuccessful, AssignPort, UpdateSettings,
                Abort, jobVars
  <2>2. Phases' /\ StatusKept /\ SwitchedKept
    BY <2>1 DEF Phases, StatusKept, SwitchedKept
  <2> QED BY <2>2, Stutters
<1> QED BY <1>1, <1>2

\* Every deploy keeps the promises of BlueGreen (internal/deploy/engine.go, execute, failDeploy and
\* Rollback): it succeeds only after traffic was switched to its container, is not reported as
\* failed afterwards, and its status never goes back.
THEOREM EngineImplementsBlueGreen == Spec => ImplementsBlueGreen
<1>1. Init => Phases /\ BG!Init
  BY DEF Init, Phases, BG!Init, NoRow, Promoted
<1>2. TypeOK /\ Started /\ Phases /\ [Next]_vars => Phases' /\ [BG!Next]_BG!vars
  <2> SUFFICES ASSUME TypeOK, Started, Phases, [Next]_vars PROVE Phases' /\ [BG!Next]_BG!vars
    OBVIOUS
  <2>1. CASE Crash \/ UNCHANGED vars
    <3>1. UNCHANGED <<row, pc>>
      BY <2>1 DEF Crash, vars
    <3>2. Phases' /\ StatusKept /\ SwitchedKept
      BY <3>1 DEF Phases, StatusKept, SwitchedKept
    <3> QED BY <3>2, Stutters
  <2> QED BY <2>1, HandlerBG, ExecuteBG DEF Next
<1>3. IInv => TypeOK /\ Started
  BY DEF IInv
<1> QED BY <1>1, <1>2, <1>3, Inductive, PTL DEF Spec, ImplementsBlueGreen, BG!Spec

-----------------------------------------------------------------------------
(***************************************************************************)
(* Rows and goroutines.                                                    *)
(***************************************************************************)
\* Once the final status is written the goroutine writes no other.
StatusAwaited ==
  \A d \in Deploys : row[d].status \in InProgress => pc[d] \notin {"none", "save", "done", "failed"}

\* When no UPDATE is lost, the status is written.
LEMMA StatusWritten ==
  ASSUME "db" \notin Faults, TypeOK, NEW d \in Deploys, NEW s \in Statuses, SetStatus(d, s)
  PROVE  OnlyStatus(d, s)
BY DEF SetStatus, OnlyStatus, TypeOK, DeployRow

LEMMA AwaitedExecute ==
  ASSUME "db" \notin Faults, TypeOK, Phases, StatusAwaited, NEW d \in Deploys, Execute(d)
  PROVE  StatusAwaited'
<1>2. ASSUME NEW s \in Steps \ {"none", "save", "done", "failed"}, Goto(d, s), row' = row
      PROVE  StatusAwaited'
  BY <1>2, GotoFacts DEF StatusAwaited
<1>3. ASSUME NEW s \in Terminal, NEW t \in {"save", "failed"}, SetStatus(d, s), Goto(d, t)
      PROVE  StatusAwaited'
  <2>1. s \in Statuses /\ s \notin InProgress
    BY DEF Terminal, Statuses, InProgress
  <2> QED BY <1>3, <2>1, GotoFacts, StatusWritten DEF StatusAwaited, OnlyStatus
<1>4. CASE Build(d)
  BY <1>4 DEF Build, StatusAwaited
<1>5. CASE Begin(d)
  BY <1>5, GotoFacts, StatusWritten DEF Begin, StatusAwaited, OnlyStatus, Statuses
<1>6. CASE SaveApp(d)
  <2>1. pc'[d] = "done" /\ pc[d] = "save" /\ row' = row /\ \A x \in Deploys \ {d} : pc'[x] = pc[x]
    BY <1>6, GotoFacts DEF SaveApp, At
  <2> QED BY <2>1 DEF StatusAwaited
<1>7. CASE Finalize(d)
  BY <1>3, <1>7 DEF Finalize, Terminal
<1>8. CASE FailDeploy(d)
  BY <1>3, <1>8 DEF FailDeploy, Terminal
<1>9. CASE AutoRollback(d)
  BY <1>3, <1>9 DEF AutoRollback, Terminal
<1>10. CASE \/ BuildFails(d) \/ Prepare(d) \/ PrepareFails(d) \/ StopLiveFirst(d) \/ Launch(d)
            \/ LaunchFails(d) \/ HealthPasses(d) \/ HealthFails(d) \/ CreateRouteFile(d)
            \/ WriteRoute(d) \/ RouteFails(d) \/ StopOld(d)
  <2>1. row' = row /\ \E s \in {"failing", "cutover", "launch", "health", "finish", "route",
                               "rolling", "write", "stopOld"} : Goto(d, s)
    BY <1>10 DEF BuildFails, Prepare, PrepareFails, StopLiveFirst, Launch, LaunchFails, HealthPasses,
                 HealthFails, CreateRouteFile, WriteRoute, RouteFails, StopOld
  <2>2. {"failing", "cutover", "launch", "health", "finish", "route", "rolling", "write", "stopOld"}
           \subseteq Steps \ {"none", "save", "done", "failed"}
    BY DEF Steps, Promoted, Ended
  <2> QED BY <1>2, <2>1, <2>2
<1> QED BY <1>4, <1>5, <1>6, <1>7, <1>8, <1>9, <1>10 DEF Execute

LEMMA AwaitedHandler ==
  ASSUME TypeOK, StatusAwaited, NEW h \in Handlers, HandlerStep(h)
  PROVE  StatusAwaited'
<1>1. CASE CreateDeploy(h)
  <2>1. PICK d \in Deploys : pc' = [pc EXCEPT ![d] = "queued"] /\ \E r : row' = [row EXCEPT ![d] = r]
    BY <1>1 DEF CreateDeploy
  <2>2. /\ pc'[d] = "queued"
        /\ \A x \in Deploys \ {d} : pc'[x] = pc[x] /\ row'[x] = row[x]
    BY <2>1 DEF TypeOK
  <2> QED BY <1>1, <2>2 DEF StatusAwaited, CreateDeploy
<1>2. CASE ~CreateDeploy(h)
  <2>1. UNCHANGED <<row, pc>>
    BY <1>2 DEF HandlerStep, Receive, CheckInProgress, FindSuccessful, AssignPort, UpdateSettings,
                Abort, jobVars
  <2> QED BY <2>1 DEF StatusAwaited
<1> QED BY <1>1, <1>2

LEMMA AwaitedStep ==
  ASSUME "db" \notin Faults, TypeOK, Phases, StatusAwaited, [Next]_vars
  PROVE  StatusAwaited'
<1>1. CASE Crash \/ UNCHANGED vars
  BY <1>1 DEF Crash, vars, StatusAwaited
<1> QED BY <1>1, AwaitedExecute, AwaitedHandler DEF Next

LEMMA InitAwaited == Init => Phases /\ StatusAwaited
BY DEF Init, Phases, StatusAwaited, NoRow, InProgress

LEMMA PhasesStep == TypeOK /\ Started /\ Phases /\ [Next]_vars => Phases'
<1>1. CASE Crash \/ UNCHANGED vars
  BY <1>1 DEF Crash, vars, Phases
<1> QED BY <1>1, HandlerBG, ExecuteBG DEF Next

\* A goroutine that has run to its end has left a final status behind it, whatever failed on the
\* way and whenever the process was restarted, if no UPDATE was lost (engine.go, executeQueued and
\* execute: every path ends in UpdateDeploy).
THEOREM EndedHasFinalStatus ==
  ASSUME "db" \notin Faults
  PROVE  Spec => [](\A d \in Deploys : pc[d] \in Ended => row[d].status \in Terminal)
<1>1. TypeOK /\ Started /\ Phases /\ StatusAwaited /\ [Next]_vars => StatusAwaited'
  BY AwaitedStep
<1>2. IInv => TypeOK /\ Started
  BY DEF IInv
<1>3. TypeOK /\ Started /\ StatusAwaited
        => \A d \in Deploys : pc[d] \in Ended => row[d].status \in Terminal
  BY DEF TypeOK, DeployRow, Statuses, Started, StatusAwaited, Ended, InProgress, Terminal
<1> QED BY InitAwaited, PhasesStep, <1>1, <1>2, <1>3, Inductive, PTL DEF Spec

\* While the process runs and no UPDATE is lost, a deploy whose row says that it is in progress has
\* a goroutine that is going to write its final status (engine.go, execute and failDeploy).
THEOREM InProgressIsBackedAlways ==
  ASSUME MaxCrashes = 0, "db" \notin Faults
  PROVE  Spec => []InProgressIsBacked
<1> DEFINE NoneKilled == dead = {}
<1>1. Init => NoneKilled
  BY DEF Init
<1>2. TypeOK /\ NoneKilled /\ [Next]_vars => NoneKilled'
  <2>1. TypeOK => ~Crash
    BY DEF Crash, TypeOK
  <2>2. ASSUME NEW h \in Handlers, HandlerStep(h) PROVE dead' = dead
    BY <2>2 DEF HandlerStep, Receive, CheckInProgress, FindSuccessful, CreateDeploy, AssignPort,
                UpdateSettings, Abort, jobVars
  <2>3. ASSUME NEW d \in Deploys, Execute(d) PROVE dead' = dead
    BY <2>3 DEF Execute, Build, BuildFails, Begin, Prepare, PrepareFails, StopLiveFirst, Launch,
                LaunchFails, HealthPasses, HealthFails, AutoRollback, CreateRouteFile, WriteRoute,
                RouteFails, StopOld, Finalize, SaveApp, FailDeploy
  <2> QED BY <2>1, <2>2, <2>3 DEF Next, vars
<1>3. TypeOK /\ Phases /\ StatusAwaited /\ [Next]_vars => StatusAwaited'
  BY AwaitedStep
<1>4. IInv => TypeOK /\ Started
  BY DEF IInv
<1>5. NoneKilled /\ StatusAwaited => InProgressIsBacked
  BY DEF StatusAwaited, InProgressIsBacked, Ended
<1> HIDE DEF NoneKilled
<1> QED BY InitAwaited, PhasesStep, <1>1, <1>2, <1>3, <1>4, <1>5, Inductive, PTL DEF Spec

-----------------------------------------------------------------------------
(***************************************************************************)
(* How far the goroutine of a deploy has still to go.                      *)
(***************************************************************************)
ToEnd(s) ==
  CASE s = "queued" -> 10
    [] s = "prepare" -> 9
    [] s = "cutover" -> 8
    [] s = "launch" -> 7
    [] s = "health" -> 6
    [] s = "route" -> 5
    [] s = "write" -> 4
    [] s = "stopOld" -> 3
    [] s = "finish" -> 2
    [] s \in {"save", "failing", "rolling"} -> 1
    [] OTHER -> 0

\* A build is one step more, before the deploy begins.
StepsLeft(d) == ToEnd(pc[d]) + IF pc[d] = "queued" /\ NeedsBuild(d) THEN 1 ELSE 0

StepsCounted ==
  \A d \in Deploys :
    /\ StepsLeft(d) \in 0 .. 11
    /\ Execute(d) => StepsLeft(d)' < StepsLeft(d)
    /\ pc[d] # "none" /\ ~Execute(d) => StepsLeft(d)' = StepsLeft(d)

\* What a deploy repeats, the application it is for and, once it has begun, its image reference are
\* no longer changed, so NeedsBuild says the same for as long as it matters.
LEMMA SameBuild ==
  ASSUME NEW d \in Deploys, row'[d].of = row[d].of, row'[d].app = row[d].app, img'[d] = img[d]
  PROVE  NeedsBuild(d)' <=> NeedsBuild(d)
BY DEF NeedsBuild

LEMMA ExecuteRepeats ==
  ASSUME TypeOK, NEW d \in Deploys, Execute(d)
  PROVE  \A x \in Deploys : row'[x].of = row[x].of /\ row'[x].app = row[x].app
<1>1. ASSUME NEW s, SetStatus(d, s)
      PROVE  \A x \in Deploys : row'[x].of = row[x].of /\ row'[x].app = row[x].app
  BY <1>1 DEF SetStatus, TypeOK, DeployRow
<1>2. row' = row \/ \E s : SetStatus(d, s)
  BY DEF Execute, Build, BuildFails, Begin, Prepare, PrepareFails, StopLiveFirst, Launch,
         LaunchFails, HealthPasses, HealthFails, AutoRollback, CreateRouteFile, WriteRoute,
         RouteFails, StopOld, Finalize, SaveApp, FailDeploy
<1> QED BY <1>1, <1>2

\* A step of a goroutine takes its own deploy nearer to the end ...
LEMMA OwnStepCounted ==
  ASSUME TypeOK, Started, NEW d \in Deploys, Execute(d)
  PROVE  StepsLeft(d)' < StepsLeft(d)
<1>1. CASE Build(d)
  <2>1. /\ pc' = pc /\ pc[d] = "queued" /\ NeedsBuild(d)
        /\ img'[d] \in Built /\ None \notin Built
    BY <1>1, EngineAssumption DEF Build, At, TypeOK
  <2>2. ~NeedsBuild(d)'
    BY <2>1 DEF NeedsBuild
  <2> QED BY <2>1, <2>2 DEF StepsLeft, ToEnd
<1>2. CASE ~Build(d)
  <2>1. StepTaken(d)
    BY ExecuteFrame DEF ExecuteStep
  <2>2. pc'[d] # "queued"
    <3>1. ASSUME NEW s, Goto(d, s) PROVE pc'[d] = s
      BY <3>1, GotoFacts
    <3>2. \E s \in {"failing", "prepare", "cutover", "launch", "health", "finish", "route",
                    "rolling", "failed", "write", "stopOld", "save", "done"} : Goto(d, s)
      BY <1>2 DEF Execute, BuildFails, Begin, Prepare, PrepareFails, StopLiveFirst, Launch,
                  LaunchFails, HealthPasses, HealthFails, AutoRollback, CreateRouteFile, WriteRoute,
                  RouteFails, StopOld, Finalize, SaveApp, FailDeploy
    <3> QED BY <3>1, <3>2
  <2>3. StepsLeft(d)' = ToEnd(pc'[d]) /\ StepsLeft(d) >= ToEnd(pc[d])
    BY <2>2 DEF StepsLeft, ToEnd
  <2>4. ToEnd(pc'[d]) < ToEnd(pc[d])
    BY <2>1, <2>2 DEF StepTaken, ToEnd
  <2> QED BY <2>3, <2>4 DEF StepsLeft, ToEnd
<1> QED BY <1>1, <1>2

\* ... and nothing that others do changes how far it has to go.
LEMMA OtherStepsCounted ==
  ASSUME TypeOK, Started, [Next]_vars, NEW d \in Deploys, pc[d] # "none", ~Execute(d)
  PROVE  StepsLeft(d)' = StepsLeft(d)
<1>0. SUFFICES /\ pc'[d] = pc[d] /\ img'[d] = img[d]
               /\ row'[d].of = row[d].of /\ row'[d].app = row[d].app
  BY SameBuild DEF StepsLeft
<1>1. CASE Crash \/ UNCHANGED vars
  BY <1>1 DEF Crash, vars
<1>2. ASSUME NEW e \in Deploys, Execute(e)
      PROVE  /\ pc'[d] = pc[d] /\ img'[d] = img[d]
             /\ row'[d].of = row[d].of /\ row'[d].app = row[d].app
  <2>1. e # d
    BY <1>2
  <2>2. pc'[d] = pc[d]
    BY <1>2, <2>1, ExecuteFrame DEF ExecuteStep
  <2>3. img'[d] = img[d]
    BY <1>2, <2>1 DEF Execute, Build, BuildFails, Begin, Prepare, PrepareFails, StopLiveFirst,
                      Launch, LaunchFails, HealthPasses, HealthFails, AutoRollback, CreateRouteFile,
                      WriteRoute, RouteFails, StopOld, Finalize, SaveApp, FailDeploy, TypeOK
  <2> QED BY <1>2, <2>2, <2>3, ExecuteRepeats
<1>3. ASSUME NEW h \in Handlers, HandlerStep(h)
      PROVE  /\ pc'[d] = pc[d] /\ img'[d] = img[d]
             /\ row'[d].of = row[d].of /\ row'[d].app = row[d].app
  <2>1. CASE CreateDeploy(h)
    <3>1. PICK e \in Deploys : /\ row[e].status = "absent"
                               /\ \E r : row' = [row EXCEPT ![e] = r]
                               /\ pc' = [pc EXCEPT ![e] = "queued"]
                               /\ \E i : img' = [img EXCEPT ![e] = i]
      BY <2>1 DEF CreateDeploy
    <3>2. e # d
      BY <3>1 DEF Started
    <3> QED BY <3>1, <3>2 DEF TypeOK
  <2>2. CASE ~CreateDeploy(h)
    BY <1>3, <2>2 DEF HandlerStep, Receive, CheckInProgress, FindSuccessful, AssignPort,
                      UpdateSettings, Abort, jobVars
  <2> QED BY <2>1, <2>2
<1> QED BY <1>1, <1>2, <1>3 DEF Next

\* The goroutine of a deploy ends after at most eleven steps: each takes it nearer to its end, and
\* no request, other deploy or restart sends it back (engine.go, executeQueued and execute: no loop
\* but the bounded ones inside a step).  With EndedHasFinalStatus this is what DeployEnds needs
\* beside fairness.
THEOREM DeployNearsItsEnd == Spec => [][StepsCounted]_vars
<1>1. IInv /\ [Next]_vars => StepsCounted
  <2> SUFFICES ASSUME IInv, [Next]_vars, NEW d \in Deploys
               PROVE  /\ StepsLeft(d) \in 0 .. 11
                      /\ Execute(d) => StepsLeft(d)' < StepsLeft(d)
                      /\ pc[d] # "none" /\ ~Execute(d) => StepsLeft(d)' = StepsLeft(d)
    BY DEF StepsCounted
  <2>1. TypeOK /\ Started
    BY DEF IInv
  <2>2. StepsLeft(d) \in 0 .. 11
    BY DEF StepsLeft, ToEnd
  <2> QED BY <2>1, <2>2, OwnStepCounted, OtherStepsCounted
<1> QED BY <1>1, Inductive, PTL DEF Spec

-----------------------------------------------------------------------------
(***************************************************************************)
(* Images.                                                                 *)
(***************************************************************************)
\* Where a deploy has not yet stopped or started a container.
Untouched == {"queued", "prepare", "failing", "failed"}

\* A deploy has the image of its row, or one that was built for it and is not in the row; a
\* rollback has what the row of the deploy it repeats says, and has pulled it before it goes on.
SameImages ==
  /\ \A d \in Deploys : row[d].status = "absent" => container[d] = "absent"
  /\ \A d \in Deploys : row[d].status # "absent" =>
       \/ img[d] = row[d].image
       \/ row[d].image = None /\ img[d] \in Built
  /\ \A d \in Deploys : row[d].of # None =>
       /\ row[d].status # "absent" /\ img[d] = row[d].image
       /\ row[row[d].of].status # "absent" /\ row[d].image = row[row[d].of].image
  /\ \A d \in Deploys : row[d].of # None =>
       \/ pc[d] \in Untouched /\ container[d] = "absent"
       \/ img[d] \in Images
  /\ \A h \in Handlers : req[h] # None /\ req[h].of # None =>
       row[req[h].of].status # "absent" /\ req[h].image = row[req[h].of].image

\* A container comes into being by a step of its own deploy, at its launch.
LEMMA AbsentStays ==
  ASSUME TypeOK, NEW d \in Deploys, Execute(d), NEW x \in Deploys, container[x] = "absent",
         x # d \/ pc[d] # "launch"
  PROVE  container'[x] = "absent"
<1>1. ASSUME NEW c, container' \in AfterStop(c) PROVE container'[x] = "absent"
  BY <1>1 DEF AfterStop, TypeOK
<1>2. CASE StopLiveFirst(d) \/ HealthFails(d) \/ RouteFails(d) \/ StopOld(d)
  BY <1>1, <1>2 DEF StopLiveFirst, HealthFails, RouteFails, StopOld
<1>3. CASE Launch(d) \/ LaunchFails(d)
  BY <1>3 DEF Launch, LaunchFails, At, TypeOK
<1>4. CASE ~(StopLiveFirst(d) \/ HealthFails(d) \/ RouteFails(d) \/ StopOld(d) \/ Launch(d)
               \/ LaunchFails(d))
  BY <1>4 DEF Execute, Build, BuildFails, Begin, Prepare, PrepareFails, HealthPasses, AutoRollback,
              CreateRouteFile, WriteRoute, Finalize, SaveApp, FailDeploy
<1> QED BY <1>2, <1>3, <1>4

\* A rollback goes on from Prepare with an image from the registry or not at all.
LEMMA RollbackPulls ==
  ASSUME TypeOK, Started, SameImages, NEW d \in Deploys, Execute(d), row[d].of # None
  PROVE  (pc'[d] \in Untouched /\ container'[d] = "absent") \/ img[d] \in Images
<1> SUFFICES ASSUME pc[d] \in Untouched, container[d] = "absent", img[d] \notin Images
             PROVE  pc'[d] \in Untouched /\ container'[d] = "absent"
  BY DEF SameImages
<1>1. container'[d] = "absent"
  BY AbsentStays DEF Untouched
<1>2. StepTaken(d)
  BY ExecuteFrame DEF ExecuteStep
<1>3. ~Prepare(d)
  <2>1. img[d] = row[d].image /\ row[d].image \in Images \cup {None}
    BY DEF SameImages, TypeOK, DeployRow
  <2> QED BY <2>1, EngineAssumption DEF Prepare, SkipsPull
<1>4. CASE pc[d] = "prepare"
  <2>1. PrepareFails(d)
    BY <1>3, <1>4 DEF Execute, Build, BuildFails, Begin, StopLiveFirst, Launch, LaunchFails,
                      HealthPasses, HealthFails, AutoRollback, CreateRouteFile, WriteRoute,
                      RouteFails, StopOld, Finalize, SaveApp, FailDeploy, At
  <2> QED BY <1>1, <2>1, GotoFacts DEF PrepareFails, Untouched
<1>5. CASE pc[d] # "prepare"
  BY <1>1, <1>2, <1>5 DEF StepTaken, Untouched
<1> QED BY <1>4, <1>5

LEMMA ImagesExecute ==
  ASSUME TypeOK, Started, SameImages, NEW d \in Deploys, Execute(d)
  PROVE  SameImages'
<1>1. /\ req' = req
      /\ row' = row \/ (\E s \in Statuses \ {"absent"} : row' = [row EXCEPT ![d].status = s])
  BY DEF Execute, Build, BuildFails, Begin, Prepare, PrepareFails, StopLiveFirst, Launch,
         LaunchFails, HealthPasses, HealthFails, AutoRollback, CreateRouteFile, WriteRoute,
         RouteFails, StopOld, Finalize, SaveApp, FailDeploy, SetStatus, Statuses
<1>2. pc[d] # "none"
  BY DEF Execute, Build, BuildFails, Begin, Prepare, PrepareFails, StopLiveFirst, Launch,
         LaunchFails, HealthPasses, HealthFails, AutoRollback, CreateRouteFile, WriteRoute,
         RouteFails, StopOld, Finalize, SaveApp, FailDeploy, At
<1>3. \A x \in Deploys : /\ row'[x].image = row[x].image /\ row'[x].of = row[x].of
                         /\ row'[x].status = "absent" <=> row[x].status = "absent"
  BY <1>1, <1>2 DEF TypeOK, DeployRow, Started
<1>4. /\ \A x \in Deploys : row[x].of \in Deploys \cup {None}
      /\ \A h \in Handlers : req[h] # None => req[h].of \in Deploys \cup {None}
  BY DEF TypeOK, DeployRow, Request
<1>5. /\ \A x \in Deploys : row[x].of # None => img'[x] = img[x]
      /\ \A x \in Deploys : \/ img'[x] = img[x]
                            \/ x = d /\ img[x] = None /\ img'[x] \in Built
  <2>1. CASE Build(d)
    BY <2>1 DEF Build, NeedsBuild, TypeOK
  <2>2. CASE ~Build(d)
    BY <2>2 DEF Execute, BuildFails, Begin, Prepare, PrepareFails, StopLiveFirst, Launch,
                LaunchFails, HealthPasses, HealthFails, AutoRollback, CreateRouteFile, WriteRoute,
                RouteFails, StopOld, Finalize, SaveApp, FailDeploy
  <2> QED BY <2>1, <2>2
<1>6. ASSUME NEW x \in Deploys, row'[x].status = "absent" PROVE container'[x] = "absent"
  <2>1. x # d /\ container[x] = "absent"
    BY <1>2, <1>3, <1>6 DEF SameImages, Started
  <2> QED BY <2>1, AbsentStays
<1>7. ASSUME NEW x \in Deploys, row'[x].status # "absent"
      PROVE  img'[x] = row'[x].image \/ (row'[x].image = None /\ img'[x] \in Built)
  <2>1. img[x] = row[x].image \/ (row[x].image = None /\ img[x] \in Built)
    BY <1>3, <1>7 DEF SameImages
  <2> QED BY <1>3, <1>5, <2>1, EngineAssumption
<1>8. ASSUME NEW x \in Deploys, row'[x].of # None
      PROVE  (pc'[x] \in Untouched /\ container'[x] = "absent") \/ img'[x] \in Images
  <2>1. row[x].of # None /\ img'[x] = img[x]
    BY <1>3, <1>5, <1>8
  <2>2. CASE x = d
    BY <2>1, <2>2, RollbackPulls
  <2>3. CASE x # d
    <3>1. pc'[x] = pc[x]
      BY <2>3, ExecuteFrame DEF ExecuteStep
    <3> QED BY <2>1, <2>3, <3>1, AbsentStays DEF SameImages
  <2> QED BY <2>2, <2>3
<1>9. ASSUME NEW x \in Deploys, row'[x].of # None
      PROVE  /\ row'[x].status # "absent" /\ img'[x] = row'[x].image
             /\ row'[row'[x].of].status # "absent" /\ row'[x].image = row'[row'[x].of].image
  BY <1>3, <1>4, <1>5, <1>9 DEF SameImages
<1>10. ASSUME NEW h \in Handlers, req'[h] # None, req'[h].of # None
       PROVE  row'[req'[h].of].status # "absent" /\ req'[h].image = row'[req'[h].of].image
  BY <1>1, <1>3, <1>4, <1>10 DEF SameImages
<1> QED BY <1>6, <1>7, <1>8, <1>9, <1>10 DEF SameImages

LEMMA ImagesHandler ==
  ASSUME TypeOK, Started, SameImages, NEW h \in Handlers, HandlerStep(h)
  PROVE  SameImages'
<1>0. /\ \A x \in Deploys : row[x].of \in Deploys \cup {None}
      /\ \A g \in Handlers : req[g] # None => req[g] \in Request /\ req[g].of \in Deploys \cup {None}
  BY DEF TypeOK, DeployRow, Request
<1>1. CASE CreateDeploy(h)
  <2>1. req[h] # None
    BY <1>1 DEF CreateDeploy
  <2> DEFINE r(s) == [status |-> "pending", app |-> req[h].app, image |-> req[h].image,
                      stamp |-> s, of |-> req[h].of]
  <2>2. PICK d \in Deploys, s \in IF CoarseClock THEN {clock, clock + 1} ELSE {clock + 1} :
          /\ row[d].status = "absent" /\ row' = [row EXCEPT ![d] = r(s)]
          /\ img' = [img EXCEPT ![d] = req[h].image]
          /\ pc' = [pc EXCEPT ![d] = "queued"]
    BY <1>1 DEF CreateDeploy
  <2>3. /\ row'[d].status = "pending" /\ row'[d].image = req[h].image /\ row'[d].of = req[h].of
        /\ img'[d] = req[h].image /\ pc'[d] = "queued" /\ container' = container
        /\ \A x \in Deploys \ {d} : row'[x] = row[x] /\ img'[x] = img[x] /\ pc'[x] = pc[x]
    BY <1>1, <2>2 DEF TypeOK, CreateDeploy
  <2>4. req'[h] = None /\ \A g \in Handlers \ {h} : req'[g] = req[g]
    BY <1>1 DEF CreateDeploy, TypeOK
  <2>5. ASSUME NEW x \in Deploys, row'[x].status # "absent"
        PROVE  img'[x] = row'[x].image \/ (row'[x].image = None /\ img'[x] \in Built)
    BY <2>3, <2>5 DEF SameImages
  <2>8. ASSUME NEW x \in Deploys, row'[x].status = "absent" PROVE container'[x] = "absent"
    BY <2>3, <2>8 DEF SameImages
  <2>9. ASSUME NEW x \in Deploys, row'[x].of # None
        PROVE  (pc'[x] \in Untouched /\ container'[x] = "absent") \/ img'[x] \in Images
    BY <2>2, <2>3, <2>9 DEF SameImages, Untouched
  <2>6. ASSUME NEW x \in Deploys, row'[x].of # None
        PROVE  /\ row'[x].status # "absent" /\ img'[x] = row'[x].image
               /\ row'[row'[x].of].status # "absent" /\ row'[x].image = row'[row'[x].of].image
    <3>1. CASE x = d
      <4>1. req[h].of \in Deploys \ {d} /\ req[h].image = row[req[h].of].image
            /\ row[req[h].of].status # "absent"
        BY <1>0, <2>1, <2>2, <2>3, <2>6, <3>1 DEF SameImages
      <4> QED BY <2>3, <3>1, <4>1
    <3>2. CASE x # d
      <4>1. row[x].of \in Deploys \ {d} /\ row[x].image = row[row[x].of].image
            /\ row[row[x].of].status # "absent" /\ row[x].status # "absent"
            /\ img[x] = row[x].image
        BY <1>0, <2>2, <2>3, <2>6, <3>2 DEF SameImages
      <4> QED BY <2>3, <3>2, <4>1
    <3> QED BY <3>1, <3>2
  <2>7. ASSUME NEW g \in Handlers, req'[g] # None, req'[g].of # None
        PROVE  row'[req'[g].of].status # "absent" /\ req'[g].image = row'[req'[g].of].image
    <3>1. req'[g] = req[g]
      BY <2>4, <2>7
    <3>2. req[g].of \in Deploys \ {d} /\ row[req[g].of].status # "absent"
          /\ req[g].image = row[req[g].of].image
      BY <1>0, <2>2, <2>7, <3>1 DEF SameImages
    <3> QED BY <2>3, <3>1, <3>2
  <2> QED BY <2>5, <2>6, <2>7, <2>8, <2>9 DEF SameImages
<1>2. CASE ~CreateDeploy(h)
  <2>1. UNCHANGED <<row, img, pc, container>>
    BY <1>2 DEF HandlerStep, Receive, CheckInProgress, FindSuccessful, AssignPort, UpdateSettings,
                Abort, jobVars
  <2>2. \A g \in Handlers \ {h} : req'[g] = req[g]
    BY <1>2 DEF HandlerStep, Receive, CheckInProgress, FindSuccessful, AssignPort, UpdateSettings,
                Abort, TypeOK
  <2>3. ASSUME req'[h] # None, req'[h].of # None
        PROVE  row[req'[h].of].status # "absent" /\ req'[h].image = row[req'[h].of].image
    <3>1. CASE Receive(h)
      <4>1. req'[h].of = None
        BY <3>1 DEF Receive, TypeOK
      <4> QED BY <2>3, <4>1
    <3>2. CASE FindSuccessful(h)
      <4>1. PICK d \in RowsOf(req[h].app, {"success"}) :
              req' = [req EXCEPT ![h].of = d, ![h].image = row[d].image, ![h].stage = "write"]
        BY <2>3, <3>2 DEF FindSuccessful, Newest, TypeOK
      <4>2. req'[h].of = d /\ req'[h].image = row[d].image
        BY <1>0, <3>2, <4>1 DEF FindSuccessful, TypeOK, Request
      <4>3. d \in Deploys /\ row[d].status = "success"
        BY <4>1 DEF RowsOf
      <4> QED BY <4>2, <4>3
    <3>3. CASE ~Receive(h) /\ ~FindSuccessful(h)
      <4>1. req[h] # None /\ req'[h].of = req[h].of /\ req'[h].image = req[h].image
        <5>1. CASE CheckInProgress(h)
          <6>1. req[h] # None /\ req[h] \in Request /\ req' = [req EXCEPT ![h].stage = "write"]
            BY <1>0, <2>3, <5>1 DEF CheckInProgress, TypeOK
          <6>2. req'[h] = [req[h] EXCEPT !.stage = "write"]
            BY <6>1 DEF TypeOK
          <6> QED BY <6>1, <6>2 DEF Request
        <5>2. CASE AssignPort(h)
          <6>1. PICK p : req' = [req EXCEPT ![h].row = p, ![h].stage = "write"]
            BY <5>2 DEF AssignPort
          <6>2. req[h] # None /\ req[h] \in Request
            BY <1>0, <5>2 DEF AssignPort
          <6>3. req'[h] = [req[h] EXCEPT !.row = p, !.stage = "write"]
            BY <6>1 DEF TypeOK
          <6> QED BY <6>2, <6>3, EngineAssumption DEF Request
        <5>3. CASE UpdateSettings(h) \/ Abort(h)
          BY <2>3, <5>3 DEF UpdateSettings, Abort, TypeOK
        <5> QED BY <1>2, <3>3, <5>1, <5>2, <5>3 DEF HandlerStep
      <4> QED BY <2>3, <4>1 DEF SameImages
    <3> QED BY <3>1, <3>2, <3>3
  <2> QED BY <2>1, <2>2, <2>3 DEF SameImages
<1> QED BY <1>1, <1>2

\* A rollback runs the image of the deploy it repeats or ends before it has stopped or started a
\* container, whichever applications Talos builds itself (engine.go, Rollback and execute).
THEOREM RollbackRunsSameImageAlways == Spec => []RollbackRunsSameImage
<1>1. Init => SameImages
  BY DEF Init, SameImages, NoRow
<1>2. TypeOK /\ Started /\ SameImages /\ [Next]_vars => SameImages'
  <2> SUFFICES ASSUME TypeOK, Started, SameImages, [Next]_vars PROVE SameImages'
    OBVIOUS
  <2>1. CASE Crash
    BY <2>1 DEF Crash, SameImages
  <2>2. CASE UNCHANGED vars
    BY <2>2 DEF vars, SameImages
  <2> QED BY <2>1, <2>2, ImagesHandler, ImagesExecute DEF Next
<1>3. IInv => TypeOK /\ Started
  BY DEF IInv
<1>4. TypeOK /\ SameImages => RollbackRunsSameImage
  <2> SUFFICES ASSUME TypeOK, SameImages, NEW d \in Deploys, row[d].of # None,
                      img[d] # img[row[d].of]
               PROVE  pc[d] \in Untouched /\ container[d] = "absent"
    BY DEF RollbackRunsSameImage, Untouched
  <2>1. img[d] \in Images => img[row[d].of] = img[d]
    BY EngineAssumption DEF TypeOK, DeployRow, SameImages
  <2> QED BY <2>1 DEF SameImages
<1> QED BY <1>1, <1>2, <1>3, <1>4, Inductive, PTL DEF Spec

-----------------------------------------------------------------------------
(***************************************************************************)
(* One deploy at a time.                                                   *)
(***************************************************************************)
\* A deploy that is in progress is the newest of its application, and a request for a deploy that
\* has passed the check has none beside it.
Exclusion ==
  /\ \A d \in Deploys : IF row[d].status = "absent" THEN row[d].app = None
                        ELSE row[d].stamp <= clock
  /\ \A d, e \in Deploys : /\ row[d].status \in InProgress
                           /\ row[e].status # "absent"
                           /\ row[e].app = row[d].app
                           => row[e].stamp <= row[d].stamp
  /\ \A h \in Handlers : req[h] # None /\ req[h].op = "deploy" /\ req[h].stage = "write" =>
       \A d \in Deploys : row[d].app = req[h].app => row[d].status \notin InProgress

\* If no two deploys of an application are of one second, the one in progress is alone.
LEMMA ProgressAlone ==
  ASSUME TypeOK, Exclusion, Apart, NEW d \in Deploys, NEW e \in Deploys,
         row[d].status \in InProgress, row[e].status \in InProgress, row[d].app = row[e].app
  PROVE  d = e
<1>1. row[d].stamp \in Nat /\ row[e].stamp \in Nat
  BY DEF TypeOK, DeployRow
<1>2. row[d].status # "absent" /\ row[e].status # "absent"
  BY DEF InProgress
<1>3. row[d].stamp <= row[e].stamp /\ row[e].stamp <= row[d].stamp
  BY <1>2 DEF Exclusion
<1> QED BY <1>1, <1>2, <1>3 DEF Apart

LEMMA NewestExecute ==
  ASSUME TypeOK, Phases, Exclusion, NEW d \in Deploys, Execute(d)
  PROVE  Exclusion'
<1>1. UNCHANGED <<clock, req>>
  BY DEF Execute, Build, BuildFails, Begin, Prepare, PrepareFails, StopLiveFirst, Launch,
         LaunchFails, HealthPasses, HealthFails, AutoRollback, CreateRouteFile, WriteRoute,
         RouteFails, StopOld, Finalize, SaveApp, FailDeploy
<1>2. \/ row' = row
      \/ \E s \in Terminal \cup {"running"} :
           row' = [row EXCEPT ![d].status = s] /\ row[d].status \in InProgress
  BY DEF Execute, Build, BuildFails, Begin, Prepare, PrepareFails, StopLiveFirst, Launch,
         LaunchFails, HealthPasses, HealthFails, AutoRollback, CreateRouteFile, WriteRoute,
         RouteFails, StopOld, Finalize, SaveApp, FailDeploy, SetStatus, At, Phases, Terminal,
         InProgress
<1>3. \A x \in Deploys : /\ row'[x].app = row[x].app /\ row'[x].stamp = row[x].stamp
                         /\ row'[x].status = "absent" <=> row[x].status = "absent"
                         /\ row'[x].status \in InProgress => row[x].status \in InProgress
  BY <1>2 DEF TypeOK, DeployRow, Terminal, InProgress
<1> QED BY <1>1, <1>3 DEF Exclusion

LEMMA NewestHandler ==
  ASSUME TypeOK, Exclusion, Apart, NEW h \in Handlers, HandlerStep(h)
  PROVE  Exclusion'
<1>0. /\ clock \in Nat /\ \A d \in Deploys : row[d].stamp \in Nat
      /\ req[h] # None => req[h] \in Request /\ req[h].app \in Apps /\ req[h].app # None
  BY EngineAssumption DEF TypeOK, DeployRow, Request
<1>1. CASE CreateDeploy(h)
  <2>1. /\ req[h] # None /\ req[h].op \in {"deploy", "rollback"} /\ req[h].stage = "write"
        /\ req' = [req EXCEPT ![h] = None]
    BY <1>1 DEF CreateDeploy
  <2> DEFINE r(s) == [status |-> "pending", app |-> req[h].app, image |-> req[h].image,
                      stamp |-> s, of |-> req[h].of]
  <2>2. PICK d \in Deploys, s \in IF CoarseClock THEN {clock, clock + 1} ELSE {clock + 1} :
          row' = [row EXCEPT ![d] = r(s)] /\ clock' = s
    BY <1>1 DEF CreateDeploy
  <2>3. /\ row'[d].status = "pending" /\ row'[d].app = req[h].app /\ row'[d].stamp = s
        /\ \A x \in Deploys \ {d} : row'[x] = row[x]
    BY <2>2 DEF TypeOK
  <2>4. \A x \in Deploys : row[x].app = req[h].app => row[x].status \notin InProgress
    <3>1. CASE req[h].op = "deploy"
      BY <2>1, <3>1 DEF Exclusion
    <3>2. CASE req[h].op = "rollback"
      BY <2>1, <3>2 DEF Apart, RowsOf
    <3> QED BY <2>1, <3>1, <3>2
  <2>5. s \in Nat /\ clock <= s /\ \A x \in Deploys : row[x].status # "absent" => row[x].stamp <= s
    BY <1>0, <2>2 DEF Exclusion
  <2>6. ASSUME NEW x \in Deploys
        PROVE  IF row'[x].status = "absent" THEN row'[x].app = None ELSE row'[x].stamp <= clock'
    BY <1>0, <2>2, <2>3, <2>5, <2>6 DEF Exclusion
  <2>7. ASSUME NEW x \in Deploys, NEW y \in Deploys,
               row'[x].status \in InProgress, row'[y].status # "absent", row'[y].app = row'[x].app
        PROVE  row'[y].stamp <= row'[x].stamp
    <3>1. CASE x = d
      BY <2>3, <2>5, <2>7, <3>1
    <3>2. CASE x # d
      <4>1. y # d
        BY <2>3, <2>4, <2>7, <3>2
      <4> QED BY <2>3, <2>7, <3>2, <4>1 DEF Exclusion
    <3> QED BY <3>1, <3>2
  <2>8. ASSUME NEW g \in Handlers, req'[g] # None, req'[g].op = "deploy", req'[g].stage = "write",
               NEW x \in Deploys, row'[x].app = req'[g].app
        PROVE  row'[x].status \notin InProgress
    <3>1. g # h /\ req'[g] = req[g]
      BY <2>1, <2>8 DEF TypeOK
    <3>2. req[g].app # req[h].app
      BY <1>0, <2>1, <2>8, <3>1 DEF Apart, Asks
    <3> QED BY <2>3, <2>8, <3>1, <3>2 DEF Exclusion
  <2> QED BY <2>6, <2>7, <2>8 DEF Exclusion
<1>2. CASE ~CreateDeploy(h)
  <2>1. UNCHANGED <<row, clock>>
    BY <1>2 DEF HandlerStep, Receive, CheckInProgress, FindSuccessful, AssignPort, UpdateSettings, Abort
  <2>9. \A g \in Handlers \ {h} : req'[g] = req[g]
    BY <1>2 DEF HandlerStep, Receive, CheckInProgress, FindSuccessful, AssignPort, UpdateSettings,
                Abort, TypeOK
  <2>2. SUFFICES ASSUME req'[h] # None, req'[h].op = "deploy", req'[h].stage = "write"
                 PROVE  \A d \in Deploys : row[d].app = req'[h].app => row[d].status \notin InProgress
    BY <2>1, <2>9 DEF Exclusion
  <2>3. CASE Receive(h)
    BY <2>2, <2>3 DEF Receive, TypeOK
  <2>4. CASE CheckInProgress(h)
    <3> DEFINE latest == Newest(RowsOf(req[h].app, Statuses))
    <3>1. req[h] # None /\ req[h] \in Request /\ req[h].op = "deploy"
          /\ req' = [req EXCEPT ![h].stage = "write"]
          /\ (latest = {} \/ \E d \in latest : row[d].status \notin InProgress)
      BY <1>0, <2>2, <2>4 DEF CheckInProgress, TypeOK
    <3>2. req'[h].app = req[h].app
      <4>1. req'[h] = [req[h] EXCEPT !.stage = "write"]
        BY <3>1 DEF TypeOK
      <4> QED BY <3>1, <4>1 DEF Request
    <3>3. ASSUME NEW d \in Deploys, row[d].app = req[h].app, row[d].status \in InProgress
          PROVE  FALSE
      <4>1. ASSUME NEW e \in Deploys, row[e].app = req[h].app, e # d
            PROVE  row[e].stamp < row[d].stamp
        <5>1. row[e].status # "absent"
          BY <1>0, <3>1, <4>1 DEF Exclusion
        <5>2. row[e].stamp <= row[d].stamp
          BY <3>3, <4>1, <5>1 DEF Exclusion
        <5>3. row[e].stamp # row[d].stamp
          BY <3>3, <4>1, <5>1 DEF Apart
        <5> QED BY <1>0, <5>2, <5>3
      <4>2. d \in RowsOf(req[h].app, Statuses)
        BY <3>3 DEF RowsOf, InProgress, Statuses
      <4>3. d \in latest
        BY <1>0, <4>1, <4>2 DEF Newest, RowsOf
      <4>4. \A e \in latest : e = d
        BY <1>0, <4>1, <4>2 DEF Newest, RowsOf
      <4> QED BY <3>1, <3>3, <4>3, <4>4
    <3> QED BY <3>2, <3>3
  <2>5. CASE AssignPort(h)
    <3>1. PICK p : req' = [req EXCEPT ![h].row = p, ![h].stage = "write"]
      BY <2>5 DEF AssignPort
    <3>2. req[h] # None /\ req[h] \in Request /\ req[h].op = "update"
      BY <1>0, <2>5 DEF AssignPort
    <3>3. req'[h] = [req[h] EXCEPT !.row = p, !.stage = "write"]
      BY <3>1 DEF TypeOK
    <3> QED BY <2>2, <3>2, <3>3 DEF Request
  <2>6. CASE FindSuccessful(h)
    <3>1. req[h] # None /\ req[h] \in Request /\ req[h].op = "rollback"
      BY <1>0, <2>6 DEF FindSuccessful
    <3>2. PICK d : req' = [req EXCEPT ![h].of = d, ![h].image = row[d].image, ![h].stage = "write"]
      BY <2>2, <2>6 DEF FindSuccessful, TypeOK
    <3>3. req'[h] = [req[h] EXCEPT !.of = d, !.image = row[d].image, !.stage = "write"]
      BY <3>2 DEF TypeOK
    <3> QED BY <2>2, <3>1, <3>3 DEF Request
  <2>7. CASE UpdateSettings(h) \/ Abort(h)
    BY <2>2, <2>7 DEF UpdateSettings, Abort, TypeOK
  <2> QED BY <1>2, <2>3, <2>4, <2>5, <2>6, <2>7 DEF HandlerStep
<1> QED BY <1>1, <1>2

\* Deploys of one application exclude one another as long as requests for it come apart, for any
\* number of handlers, any requests and any clock, through crashes and lost updates too (engine.go,
\* Deploy): what the check does not see is exactly what Apart leaves out.
THEOREM DeploysExcludeAlways == Spec => DeploysExclude
<1>1. Init => Phases /\ Exclusion
  BY DEF Init, Phases, Exclusion, NoRow, InProgress
<1>2. TypeOK /\ Started /\ Phases /\ Exclusion /\ Apart /\ [Next]_vars => Exclusion'
  <2> SUFFICES ASSUME TypeOK, Started, Phases, Exclusion, Apart, [Next]_vars
               PROVE  Exclusion'
    OBVIOUS
  <2>1. CASE Crash
    BY <2>1 DEF Crash, Exclusion
  <2>2. CASE UNCHANGED vars
    BY <2>2 DEF vars, Exclusion
  <2> QED BY <2>1, <2>2, NewestExecute, NewestHandler DEF Next
<1>3. IInv => TypeOK /\ Started
  BY DEF IInv
<1>4. TypeOK /\ Exclusion /\ Apart => OneDeployPerApp
  BY ProgressAlone DEF OneDeployPerApp
<1> QED BY <1>1, <1>2, <1>3, <1>4, PhasesStep, Inductive, PTL DEF Spec, DeploysExclude

=============================================================================
