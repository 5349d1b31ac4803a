--------------------------- MODULE Executor_proofs ---------------------------
(* Proofs about Executor for any sets of apps, processes and images.         *)
EXTENDS Executor, TLAPS

-----------------------------------------------------------------------------
(* Type correctness.                                                         *)

\* The initial state is well typed.
LEMMA InitTypeOK == Init => TypeOK
<1> SUFFICES ASSUME Init PROVE TypeOK
  OBVIOUS
<1>1. req \in Request
  BY DEF Init, Request, Modes
<1>2. Procs!TypeOK
  BY DEF Init, Procs!Init, Procs!TypeOK, Procs!Orders
<1>3. container \in [Apps -> Container \cup {Absent}]
  BY DEF Init
<1>4. QED BY <1>1, <1>2, <1>3 DEF Init, TypeOK

\* The state of a container that exists may change, and that keeps the type.
LEMMA ContainerType ==
  ASSUME container \in [Apps -> Container \cup {Absent}], NEW a \in Apps, Exists(a),
         NEW s \in {"created", "running", "exited"}
  PROVE  [container EXCEPT ![a].st = s] \in [Apps -> Container \cup {Absent}]
<1>1. container[a] \in Container
  BY DEF Exists, Absent
<1>2. [container[a] EXCEPT !.st = s] \in Container
  BY <1>1 DEF Container
<1>3. QED BY <1>2

\* Stopping a container keeps its type.
LEMMA HaltedType ==
  ASSUME NEW c \in Container \cup {Absent}
  PROVE  Halted(c) \in Container \cup {Absent}
<1>1. CASE c \in Container
  <2>1. [c EXCEPT !.st = "exited", !.halted = TRUE] \in Container
    BY <1>1 DEF Container
  <2>2. QED BY <1>1, <2>1 DEF Halted
<1>2. CASE c = Absent
  BY <1>2 DEF Halted, Absent
<1>3. QED BY <1>1, <1>2

\* Answers and jumps keep the type of the request.
LEMMA RequestType ==
  ASSUME req \in Request, NEW pc, NEW ok \in BOOLEAN,
         pc \in {"idle", "docker", "list", "replace", "create", "start",
                 "process", "waiting", "reply"}
  PROVE  /\ Goto(pc) => req' \in Request
         /\ Reply(ok) => req' \in Request
         /\ Refused => req' \in Request
         /\ req' = [req EXCEPT !.pc = pc, !.refused = TRUE] => req' \in Request
  BY DEF Goto, Reply, Refused, Request

\* Every step of the process manager's specification keeps its type.
LEMMA SupervisionType ==
  ASSUME Procs!TypeOK, NEW a \in Apps
  PROVE  /\ Procs!OrderDown(a) => Procs!TypeOK'
         /\ Procs!Forget({a}) => Procs!TypeOK'
         /\ UNCHANGED processVars => Procs!TypeOK'
         /\ \A p \in Pids : Procs!Launch(a, p) => Procs!TypeOK'
         /\ \A p \in Pids : Procs!Relaunch(a, p) \/ Procs!Exit(a, p) => Procs!TypeOK'
  BY DEF Procs!TypeOK, Procs!Orders, Procs!OrderDown, Procs!Forget, Procs!Launch,
         Procs!Relaunch, Procs!Exit, processVars

\* Every step of the handlers, of the daemon and of the supervisor keeps the
\* types (executor.go, docker.go).
LEMMA NextTypeOK == TypeOK /\ ContainerOfStep /\ [Next]_vars => TypeOK'
<1> SUFFICES ASSUME TypeOK, ContainerOfStep, [Next]_vars PROVE TypeOK'
  OBVIOUS
<1>0. /\ docker \in BOOLEAN /\ images \subseteq Versions /\ Procs!TypeOK /\ req \in Request
      /\ container \in [Apps -> Container \cup {Absent}] /\ req.app \in Apps
      /\ req.ver \in Versions
  BY DEF TypeOK, Request
<1>1. ASSUME NEW op \in {"deploy", "stop", "remove"}, NEW mode \in Modes, NEW a \in Apps,
             NEW v \in Versions, Receive(op, mode, a, v)
      PROVE TypeOK'
  <2>1. req' \in Request
    BY <1>0, <1>1 DEF Receive, FirstStep, Request
  <2>2. container' \in [Apps -> Container \cup {Absent}]
    BY <1>0, <1>1 DEF Receive, dockerVars
  <2>3. Procs!TypeOK'
    BY <1>0, <1>1, SupervisionType DEF Receive
  <2>4. QED BY <2>1, <2>2, <2>3, <1>0, <1>1 DEF TypeOK, Receive, dockerVars
<1>2. CASE PullImage
  <2>1. req' \in Request
    BY <1>0, <1>2, RequestType DEF PullImage
  <2>2. container' \in [Apps -> Container \cup {Absent}]
    BY <1>0, <1>2 DEF PullImage, dockerVars
  <2>3. Procs!TypeOK'
    BY <1>0, <1>2, SupervisionType DEF PullImage
  <2>4. QED BY <2>1, <2>2, <2>3, <1>0, <1>2 DEF TypeOK, PullImage, dockerVars
<1>3. CASE ListContainers
  <2>1. req' \in Request
    BY <1>0, <1>3, RequestType DEF ListContainers
  <2>2. container' \in [Apps -> Container \cup {Absent}]
    BY <1>0, <1>3 DEF ListContainers, dockerVars
  <2>3. Procs!TypeOK'
    BY <1>0, <1>3, SupervisionType DEF ListContainers
  <2>4. QED BY <2>1, <2>2, <2>3, <1>0, <1>3 DEF TypeOK, ListContainers, dockerVars
<1>4. CASE RemoveOld
  <2>1. req' \in Request
    BY <1>0, <1>4, RequestType DEF RemoveOld
  <2>2. container' \in [Apps -> Container \cup {Absent}]
    BY <1>0, <1>4 DEF RemoveOld, dockerVars
  <2>3. Procs!TypeOK'
    BY <1>0, <1>4, SupervisionType DEF RemoveOld
  <2>4. QED BY <2>1, <2>2, <2>3, <1>0, <1>4 DEF TypeOK, RemoveOld, dockerVars
<1>5. CASE CreateContainer
  <2>1. req' \in Request
    BY <1>0, <1>5, RequestType DEF CreateContainer
  <2> DEFINE new == [st |-> "created", ver |-> req.ver, halted |-> FALSE]
  <2>a. new \in Container
    BY <1>0 DEF Container
  <2>b. container' = [container EXCEPT ![req.app] = new] \/ container' = container
    BY <1>5 DEF CreateContainer
  <2>2. container' \in [Apps -> Container \cup {Absent}]
    BY <1>0, <2>a, <2>b
  <2>3. Procs!TypeOK'
    BY <1>0, <1>5, SupervisionType DEF CreateContainer
  <2>4. QED BY <2>1, <2>2, <2>3, <1>0, <1>5 DEF TypeOK, CreateContainer, dockerVars
<1>6. CASE StartContainer
  <2>1. req' \in Request
    BY <1>0, <1>6, RequestType DEF StartContainer
  <2>a. Exists(req.app)
    BY <1>6 DEF StartContainer, ContainerOfStep, Exists
  <2>b. [container EXCEPT ![req.app].st = "running"] \in [Apps -> Container \cup {Absent}]
    BY <1>0, <2>a, ContainerType
  <2>2. container' \in [Apps -> Container \cup {Absent}]
    BY <1>0, <1>6, <2>b DEF StartContainer
  <2>3. Procs!TypeOK'
    BY <1>0, <1>6, SupervisionType DEF StartContainer
  <2>4. QED BY <2>1, <2>2, <2>3, <1>0, <1>6 DEF TypeOK, StartContainer, dockerVars
<1>7. CASE DockerStop
  <2>1. req' \in Request
    BY <1>0, <1>7, RequestType DEF DockerStop
  <2>a. Halted(container[req.app]) \in Container \cup {Absent}
    BY <1>0, HaltedType
  <2>2. container' \in [Apps -> Container \cup {Absent}]
    BY <1>0, <1>7, <2>a DEF DockerStop
  <2>3. Procs!TypeOK'
    BY <1>0, <1>7, SupervisionType DEF DockerStop
  <2>4. QED BY <2>1, <2>2, <2>3, <1>0, <1>7 DEF TypeOK, DockerStop, dockerVars
<1>8. CASE DockerRemove
  <2>1. req' \in Request
    BY <1>0, <1>8, RequestType DEF DockerRemove
  <2>2. container' \in [Apps -> Container \cup {Absent}]
    BY <1>0, <1>8 DEF DockerRemove, dockerVars
  <2>3. Procs!TypeOK'
    BY <1>0, <1>8, SupervisionType DEF DockerRemove
  <2>4. QED BY <2>1, <2>2, <2>3, <1>0, <1>8 DEF TypeOK, DockerRemove, dockerVars
<1>9. CASE OrderProcessDown
  <2>1. req' \in Request
    BY <1>0, <1>9, RequestType DEF OrderProcessDown
  <2>2. container' \in [Apps -> Container \cup {Absent}]
    BY <1>0, <1>9 DEF OrderProcessDown, dockerVars
  <2>3. Procs!TypeOK'
    BY <1>0, <1>9, SupervisionType DEF OrderProcessDown
  <2>4. QED BY <2>1, <2>2, <2>3, <1>0, <1>9 DEF TypeOK, OrderProcessDown, dockerVars
<1>10. CASE StopProcess
  <2>1. req' \in Request
    BY <1>0, <1>10, RequestType DEF StopProcess, ProcessGone
  <2>2. container' \in [Apps -> Container \cup {Absent}]
    BY <1>0, <1>10 DEF StopProcess, ProcessGone, dockerVars
  <2>3. Procs!TypeOK'
    BY <1>0, <1>10, SupervisionType DEF StopProcess, ProcessGone
  <2>4. QED BY <2>1, <2>2, <2>3, <1>0, <1>10 DEF TypeOK, StopProcess, ProcessGone, dockerVars
<1>11. CASE RemoveProcess
  <2>1. req' \in Request
    BY <1>0, <1>11, RequestType DEF RemoveProcess, Forgotten
  <2>2. container' \in [Apps -> Container \cup {Absent}]
    BY <1>0, <1>11 DEF RemoveProcess, Forgotten, dockerVars
  <2>3. Procs!TypeOK'
    BY <1>0, <1>11, SupervisionType DEF RemoveProcess, Forgotten
  <2>4. QED BY <2>1, <2>2, <2>3, <1>0, <1>11 DEF TypeOK, RemoveProcess, Forgotten, dockerVars
<1>12. CASE DeployProcess
  <2>1. req' \in Request
    BY <1>0, <1>12, RequestType DEF DeployProcess, Forgotten
  <2>2. container' \in [Apps -> Container \cup {Absent}]
    BY <1>0, <1>12 DEF DeployProcess, Forgotten, dockerVars
  <2>3. Procs!TypeOK'
    BY <1>0, <1>12, SupervisionType DEF DeployProcess, Forgotten
  <2>4. QED BY <2>1, <2>2, <2>3, <1>0, <1>12 DEF TypeOK, DeployProcess, Forgotten, dockerVars
<1>13. CASE Respond
  <2>1. req' \in Request
    BY <1>0, <1>13, RequestType DEF Respond
  <2>2. container' \in [Apps -> Container \cup {Absent}]
    BY <1>0, <1>13 DEF Respond, dockerVars
  <2>3. Procs!TypeOK'
    BY <1>0, <1>13, SupervisionType DEF Respond
  <2>4. QED BY <2>1, <2>2, <2>3, <1>0, <1>13 DEF TypeOK, Respond, dockerVars
<1>14. ASSUME NEW a \in Apps, ContainerExits(a) \/ ContainerRestarts(a) PROVE TypeOK'
  <2>1. req' \in Request
    BY <1>0, <1>14, RequestType DEF ContainerExits, ContainerRestarts
  <2>a. Exists(a)
    BY <1>14 DEF ContainerExits, ContainerRestarts, Exists
  <2>b. \A s \in {"running", "exited"} :
           [container EXCEPT ![a].st = s] \in [Apps -> Container \cup {Absent}]
    BY <1>0, <2>a, ContainerType
  <2>2. container' \in [Apps -> Container \cup {Absent}]
    BY <1>14, <2>b DEF ContainerExits, ContainerRestarts
  <2>3. Procs!TypeOK'
    BY <1>0, <1>14, SupervisionType DEF ContainerExits, ContainerRestarts
  <2>4. QED BY <2>1, <2>2, <2>3, <1>0, <1>14 DEF TypeOK, ContainerExits, ContainerRestarts, dockerVars
<1>15. ASSUME NEW a \in Apps, NEW p \in Pids, ProcessExitsOrReturns(a, p) PROVE TypeOK'
  <2>1. req' \in Request
    BY <1>0, <1>15, RequestType DEF ProcessExitsOrReturns
  <2>2. container' \in [Apps -> Container \cup {Absent}]
    BY <1>0, <1>15 DEF ProcessExitsOrReturns, dockerVars
  <2>3. Procs!TypeOK'
    BY <1>0, <1>15, SupervisionType DEF ProcessExitsOrReturns
  <2>4. QED BY <2>1, <2>2, <2>3, <1>0, <1>15 DEF TypeOK, ProcessExitsOrReturns, dockerVars
<1>16. CASE AgentRestarts
  <2>1. req' \in Request
    BY <1>0, <1>16, RequestType DEF AgentRestarts
  <2>2. container' \in [Apps -> Container \cup {Absent}]
    BY <1>0, <1>16 DEF AgentRestarts, dockerVars
  <2>3. Procs!TypeOK'
    BY <1>16 DEF AgentRestarts, Procs!TypeOK, Procs!Orders
  <2>4. QED BY <2>1, <2>2, <2>3, <1>0, <1>16 DEF TypeOK, AgentRestarts, dockerVars
<1>17. CASE UNCHANGED vars
  <2>1. req' \in Request
    BY <1>0, <1>17, RequestType DEF vars, processVars
  <2>2. container' \in [Apps -> Container \cup {Absent}]
    BY <1>0, <1>17 DEF vars, processVars, dockerVars
  <2>3. Procs!TypeOK'
    BY <1>0, <1>17, SupervisionType DEF vars, processVars
  <2>4. QED BY <2>1, <2>2, <2>3, <1>0, <1>17 DEF TypeOK, vars, processVars, dockerVars
<1>18. QED
  BY <1>1, <1>2, <1>3, <1>4, <1>5, <1>6, <1>7, <1>8, <1>9, <1>10, <1>11, <1>12, <1>13, <1>14, <1>15, <1>16, <1>17 DEF Next, Deploy, vars
-----------------------------------------------------------------------------
(* The inductive invariant.                                                  *)

Parts == /\ ModeOfStep /\ ContainerOfStep /\ OrderOfStep
         /\ DeployedIsRequested /\ CommandsReachTheirMode

\* Before the first command there is nothing to establish.
LEMMA InitIInv == Init => IInv
<1> SUFFICES ASSUME Init PROVE IInv
  OBVIOUS
<1>1. req.pc = "idle"
  BY DEF Init
<1>2. QED BY <1>1, InitTypeOK DEF IInv, ModeOfStep, ContainerOfStep, OrderOfStep,
             DeployedIsRequested, CommandsReachTheirMode, Answered

\* Every step keeps what the handlers have established: the step's own handler
\* adds to it, and neither the daemon's restart policy nor the supervisor takes
\* it back (executor.go, docker.go).
LEMMA NextParts == IInv /\ [Next]_vars => Parts'
<1> SUFFICES ASSUME IInv, [Next]_vars PROVE Parts'
  OBVIOUS
<1>0. /\ req \in Request /\ container \in [Apps -> Container \cup {Absent}]
      /\ want \in [Apps -> Procs!Orders] /\ live \in [Apps -> SUBSET Pids]
      /\ req.app \in Apps /\ req.ver \in Versions
      /\ ModeOfStep /\ ContainerOfStep /\ OrderOfStep
      /\ DeployedIsRequested /\ CommandsReachTheirMode
  BY DEF IInv, TypeOK, Procs!TypeOK, Request
<1> USE DEF Parts, Request, Answered, ModeOfStep, ContainerOfStep, OrderOfStep,
            DeployedIsRequested, CommandsReachTheirMode
<1>1. ASSUME NEW op \in {"deploy", "stop", "remove"}, NEW mode \in Modes, NEW a \in Apps,
             NEW v \in Versions, Receive(op, mode, a, v)
      PROVE Parts'
  <2>1. /\ req'.op = op /\ req'.mode = mode /\ req'.app = a /\ req'.ver = v
        /\ ~req'.refused /\ ~req'.ok /\ req'.pc = FirstStep(op, mode)
        /\ docker' = docker /\ container' = container
    BY <1>1 DEF Receive, dockerVars
  <2>2. /\ req'.pc \in {"process", "docker", "reply"}
        /\ req'.pc = "reply" => op = "deploy"
        /\ req'.pc = "docker" => docker /\ (op = "deploy" => mode = "container")
        /\ req'.pc = "process" => IF op = "deploy" THEN mode = "process" ELSE ~docker
    BY <2>1 DEF FirstStep, Modes
  <2>3. QED BY <2>1, <2>2
<1>2. CASE PullImage
  BY <1>0, <1>2 DEF PullImage, processVars, Goto, Refused, Exists, NameIsFree
<1>3. CASE ListContainers
  BY <1>0, <1>3 DEF ListContainers, dockerVars, processVars, Goto, Refused, Listed, Exists, NameIsFree
<1>4. CASE RemoveOld
  <2>1. /\ docker' = docker /\ want' = want /\ live' = live
        /\ req'.op = req.op /\ req'.mode = req.mode /\ req'.app = req.app /\ req'.ver = req.ver
    BY <1>0, <1>4 DEF RemoveOld, Goto, Refused, processVars
  <2>a. /\ [container EXCEPT ![req.app] = Absent][req.app] = Absent
        /\ Absent.st = "absent"
    BY <1>0 DEF Absent
  <2>2. \/ /\ req'.pc = "create" /\ req'.refused = req.refused
           /\ container'[req.app].st = "absent"
        \/ /\ req'.pc = "reply" /\ ~req'.ok /\ req'.refused
           /\ container' = container
    BY <1>0, <1>4, <2>a DEF RemoveOld, Goto, Refused
  <2>3. QED BY <1>0, <1>4, <2>1, <2>2 DEF RemoveOld, Exists, NameIsFree
<1>5. CASE CreateContainer
  <2>1. /\ docker' = docker /\ want' = want /\ live' = live
        /\ req'.op = req.op /\ req'.mode = req.mode /\ req'.app = req.app /\ req'.ver = req.ver
    BY <1>0, <1>5 DEF CreateContainer, Goto, Refused, processVars
  <2>2. \/ /\ req'.pc = "start" /\ req'.refused = req.refused
           /\ container'[req.app] = [st |-> "created", ver |-> req.ver, halted |-> FALSE]
        \/ /\ req'.pc = "reply" /\ ~req'.ok /\ req'.refused
           /\ container' = container
    BY <1>0, <1>5 DEF CreateContainer, Goto, Refused, processVars, Absent
  <2>3. QED BY <1>0, <1>5, <2>1, <2>2 DEF CreateContainer, Exists, NameIsFree
<1>6. CASE StartContainer
  <2>1. /\ docker' = docker /\ want' = want /\ live' = live
        /\ req'.op = req.op /\ req'.mode = req.mode /\ req'.app = req.app /\ req'.ver = req.ver
    BY <1>0, <1>6 DEF StartContainer, Reply, Refused, processVars
  <2>a. container[req.app] \in Container
    BY <1>0, <1>6 DEF StartContainer, Absent
  <2>b. /\ [container EXCEPT ![req.app].st = "running"][req.app].st = "running"
        /\ [container EXCEPT ![req.app].st = "running"][req.app].ver = container[req.app].ver
    BY <1>0, <2>a DEF Container
  <2>2. \/ /\ req'.pc = "reply" /\ req'.ok /\ req'.refused = req.refused
           /\ container'[req.app].st = "running" /\ container'[req.app].ver = container[req.app].ver
        \/ /\ req'.pc = "reply" /\ ~req'.ok /\ req'.refused
           /\ container' = container
    BY <1>0, <1>6, <2>b DEF StartContainer, Reply, Refused
  <2>3. QED BY <1>0, <1>6, <2>1, <2>2 DEF StartContainer, Exists, NameIsFree
<1>7. CASE DockerStop
  <2>1. /\ docker' = docker /\ want' = want /\ live' = live
        /\ req'.op = req.op /\ req'.mode = req.mode /\ req'.app = req.app /\ req'.ver = req.ver
    BY <1>0, <1>7 DEF DockerStop, Reply, processVars
  <2>a. LET c == Halted(container[req.app])
        IN  \/ c = container[req.app] /\ c.st \in {"absent", "created"}
            \/ c.st = "exited" /\ c.halted
    <3>1. CASE container[req.app] \in Container
      BY <3>1 DEF Halted, Container
    <3>2. CASE container[req.app] = Absent
      BY <3>2 DEF Halted, Absent
    <3>3. QED BY <3>1, <3>2, <1>0
  <2>2. \/ /\ req'.pc = "reply" /\ req'.ok /\ req'.refused = req.refused
           /\ container'[req.app] = Halted(container[req.app])
        \/ /\ req'.pc = "process" /\ req'.refused
           /\ container' = container
    BY <1>0, <1>7 DEF DockerStop, Reply
  <2>3. req.pc = "docker" /\ req.op = "stop" /\ docker /\ ~req.refused
    BY <1>0, <1>7 DEF DockerStop
  <2>4. CASE req'.pc = "reply"
    <3>1. ~req'.refused /\ container'[req'.app] = Halted(container[req.app])
      BY <2>1, <2>2, <2>3, <2>4
    <3>2. QED BY <3>1, <2>1, <2>3, <2>4, <2>a DEF Exists, NameIsFree
  <2>5. CASE req'.pc = "process"
    BY <2>1, <2>2, <2>3, <2>5 DEF Exists, NameIsFree
  <2>6. QED BY <2>2, <2>4, <2>5
<1>8. CASE DockerRemove
  <2>1. /\ docker' = docker /\ want' = want /\ live' = live
        /\ req'.op = req.op /\ req'.mode = req.mode /\ req'.app = req.app /\ req'.ver = req.ver
    BY <1>0, <1>8 DEF DockerRemove, Goto, processVars
  <2>a. /\ [container EXCEPT ![req.app] = Absent][req.app] = Absent
        /\ Absent.st = "absent"
    BY <1>0 DEF Absent
  <2>2. \/ /\ req'.pc = "process" /\ req'.refused = req.refused
           /\ container'[req.app].st = "absent"
        \/ /\ req'.pc = "process" /\ req'.refused
           /\ container' = container
    BY <1>0, <1>8, <2>a DEF DockerRemove, Goto
  <2>3. QED BY <1>0, <1>8, <2>1, <2>2 DEF DockerRemove, Exists, NameIsFree
<1>9. CASE OrderProcessDown
  BY <1>0, <1>9 DEF OrderProcessDown, dockerVars, processVars, Procs!OrderDown, Goto, Exists, NameIsFree
<1>10. CASE StopProcess
  BY <1>0, <1>10 DEF StopProcess, ProcessGone, dockerVars, processVars, Reply, Exists, NameIsFree
<1>11. CASE RemoveProcess
  BY <1>0, <1>11 DEF RemoveProcess, ProcessGone, Forgotten, Procs!Forget, dockerVars, processVars, Reply, Exists, NameIsFree
<1>12. CASE DeployProcess
  BY <1>0, <1>12 DEF DeployProcess, ProcessGone, Forgotten, Procs!Forget, Procs!Launch, dockerVars, processVars, Reply, Exists, NameIsFree
<1>13. CASE Respond
  BY <1>0, <1>13 DEF Respond, dockerVars, processVars, Goto, Exists, NameIsFree
<1>14. ASSUME NEW a \in Apps, ContainerExits(a) \/ ContainerRestarts(a) PROVE Parts'
  <2>1. req' = req /\ docker' = docker /\ want' = want /\ live' = live
    BY <1>14 DEF ContainerExits, ContainerRestarts, processVars
  <2>a. container[a] \in Container
    BY <1>0, <1>14 DEF ContainerExits, ContainerRestarts, Absent
  <2>b. \A s \in {"running", "exited"} :
           /\ [container EXCEPT ![a].st = s][a].st = s
           /\ [container EXCEPT ![a].st = s][a].ver = container[a].ver
           /\ \A b \in Apps \ {a} : [container EXCEPT ![a].st = s][b] = container[b]
    BY <1>0, <2>a DEF Container
  <2>2. /\ container[a].st \in {"running", "exited"}
        /\ container[a].st = "exited" => ~container[a].halted
        /\ container'[a].st \in {"running", "exited"}
        /\ container'[a].st = "running" => container[a].st = "exited"
        /\ container'[a].ver = container[a].ver
        /\ \A b \in Apps \ {a} : container'[b] = container[b]
    BY <1>0, <1>14, <2>a, <2>b DEF ContainerExits, ContainerRestarts
  <2>3. CASE req.app = a
    BY <1>0, <2>1, <2>2, <2>3 DEF Exists, NameIsFree
  <2>4. CASE req.app # a
    <3>1. container'[req.app] = container[req.app]
      BY <1>0, <2>2, <2>4
    <3>2. QED BY <1>0, <2>1, <3>1 DEF Exists, NameIsFree
  <2>5. QED BY <2>3, <2>4
<1>15. ASSUME NEW a \in Apps, NEW p \in Pids, ProcessExitsOrReturns(a, p) PROVE Parts'
  BY <1>0, <1>15 DEF ProcessExitsOrReturns, Procs!Exit, Procs!Relaunch, dockerVars, Exists, NameIsFree
<1>16. CASE AgentRestarts
  BY <1>0, <1>16 DEF AgentRestarts, Goto, Exists, NameIsFree
<1>17. CASE UNCHANGED vars
  BY <1>0, <1>17 DEF vars, Exists, NameIsFree
<1>18. QED
  BY <1>1, <1>2, <1>3, <1>4, <1>5, <1>6, <1>7, <1>8, <1>9, <1>10, <1>11, <1>12, <1>13, <1>14, <1>15, <1>16, <1>17 DEF Next, Deploy, vars
-----------------------------------------------------------------------------
(* The theorems.                                                             *)

\* The inductive invariant holds in every behaviour.
THEOREM Invariant == Spec => []IInv
<1>1. IInv /\ [Next]_vars => IInv'
  BY NextTypeOK, NextParts DEF IInv, Parts
<1>2. QED BY <1>1, InitIInv, PTL DEF Spec

\* The state keeps its types (executor.go, docker.go).
THEOREM TypeCorrect == Spec => []TypeOK
<1>1. IInv => TypeOK
  BY DEF IInv
<1>2. QED BY <1>1, Invariant, PTL

\* A container deployment finds its name free when it comes to create it,
\* whatever earlier deployments, removals and restarts have left (docker.go:171-197).
THEOREM NeverBlocked == Spec => []NameFreeAtCreate
<1>1. IInv => NameFreeAtCreate
  BY DEF IInv, ContainerOfStep, NameFreeAtCreate
<1>2. QED BY <1>1, Invariant, PTL

\* A container deployment answered with OK left the container it was asked for.
THEOREM DeploysWhatWasAsked == Spec => []DeployedIsRequested
<1>1. IInv => DeployedIsRequested
  BY DEF IInv
<1>2. QED BY <1>1, Invariant, PTL

\* A removal reaches both modes of an app, and a stop the one that is asked.
THEOREM StopsAndRemovalsReach == Spec => []CommandsReachTheirMode
<1>1. IInv => CommandsReachTheirMode
  BY DEF IInv
<1>2. QED BY <1>1, Invariant, PTL
=============================================================================
