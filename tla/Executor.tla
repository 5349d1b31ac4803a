------------------------------ MODULE Executor ------------------------------
(***************************************************************************)
(* How GoShip Init carries out deploy, stop and remove inside a VM: the    *)
(* command handlers (init.go), the ExecutorManager that chooses between    *)
(* Docker and the process manager (executor.go), and the DockerManager     *)
(* (docker.go) with its calls to the Docker daemon.                        *)
(*                                                                         *)
(* The process manager appears as AppSupervision, the specification that   *)
(* ProcessManager.tla implements.  The daemon is external: it starts and   *)
(* ends containers by itself and may refuse any call.  One command is      *)
(* executed at a time; containers and processes change between its calls.  *)
(* A definition named for what it gets wrong (RemoveOldIfRunning, ...) is  *)
(* a faulty variant of the one that follows it.                            *)
(***************************************************************************)
EXTENDS Naturals

CONSTANTS Apps,      \* application names
          Pids,      \* process identifiers
          Versions   \* image references that deployments ask for

VARIABLES docker,     \* i.docker # nil: the daemon answered when Init started
          images,     \* image references present in the VM
          container,  \* the container named goship-<app>
          want, live, \* the process manager, as AppSupervision has it
          req         \* the command being executed

vars == <<docker, images, container, want, live, req>>

Procs == INSTANCE AppSupervision

Modes == {"container", "process"}

\* ver: the image it was created from; halted: stopped on request, so the
\* daemon's restart policy leaves it alone.
Container == [st : {"created", "running", "exited"}, ver : Versions,
              halted : BOOLEAN]
Absent == [st |-> "absent"]

\* refused: a call to the daemon failed; ok: the status of the response.
Request == [pc : {"idle", "docker", "list", "replace", "create", "start",
                  "process", "waiting", "reply"},
            op : {"deploy", "stop", "remove"}, app : Apps, mode : Modes,
            ver : Versions, refused : BOOLEAN, ok : BOOLEAN]

Init == /\ docker \in BOOLEAN
        /\ images \in SUBSET Versions
        /\ container = [a \in Apps |-> Absent]
        /\ Procs!Init
        /\ req \in [pc : {"idle"}, op : {"stop"}, app : Apps, mode : {"process"},
                    ver : Versions, refused : {FALSE}, ok : {TRUE}]

Exists(a)  == container[a].st # "absent"
FreePid(p) == \A a \in Apps : p \notin live[a]

processVars == <<want, live>>
dockerVars  == <<docker, images, container>>

Reply(ok) == req' = [req EXCEPT !.pc = "reply", !.ok = ok]
Refused   == req' = [req EXCEPT !.pc = "reply", !.ok = FALSE, !.refused = TRUE]
Goto(pc)  == req' = [req EXCEPT !.pc = pc]
-----------------------------------------------------------------------------
(* The handlers.                                                            *)

\* A container deployment needs Docker; Stop and Remove know only the name and
\* ask Docker first when there is one.
FirstStep(op, mode) ==
    IF op = "deploy"
    THEN IF mode = "process" THEN "process" ELSE IF docker THEN "docker" ELSE "reply"
    ELSE IF docker THEN "docker" ELSE "process"

Receive(op, mode, a, v) ==
    /\ req.pc = "idle"
    /\ op # "deploy" => mode = "process" /\ v = req.ver   \* fields they ignore
    /\ req' = [pc |-> FirstStep(op, mode), op |-> op, app |-> a, mode |-> mode,
               ver |-> v, refused |-> FALSE, ok |-> FALSE]
    /\ UNCHANGED <<dockerVars, processVars>>

Respond == req.pc = "reply" /\ Goto("idle") /\ UNCHANGED <<dockerVars, processVars>>
-----------------------------------------------------------------------------
(* DockerManager.Deploy, one call to the daemon per step.                   *)

\* The image is inspected, and pulled when it is not there.  Pulling may be
\* refused; errors inside the answer's stream are not looked at.
PullImage ==
    /\ req.pc = "docker" /\ req.op = "deploy"
    /\ \/ /\ Goto("list")
          /\ images' \in {images, images \cup {req.ver}}
       \/ req.ver \notin images /\ Refused /\ UNCHANGED images
    /\ UNCHANGED <<docker, container, processVars>>

\* ContainerList with All, to find a container of this name.
RunningIsListed(a) == container[a].st = "running"
Listed(a)          == Exists(a)

ListContainers ==
    /\ req.pc = "list"
    /\ Refused \/ Goto(IF Listed(req.app) THEN "replace" ELSE "create")
    /\ UNCHANGED <<dockerVars, processVars>>

\* ContainerRemove with Force ends it as well.
RemoveOld ==
    /\ req.pc = "replace"
    /\ \/ /\ Goto("create")
          /\ container' = [container EXCEPT ![req.app] = Absent]
       \/ Refused /\ UNCHANGED container
    /\ UNCHANGED <<docker, images, processVars>>

\* The daemon creates a container from an image it has, under a free name.
NameIsFree == ~Exists(req.app)

CreateContainer ==
    /\ req.pc = "create"
    /\ \/ /\ req.ver \in images /\ NameIsFree
          /\ Goto("start")
          /\ container' = [container EXCEPT ![req.app] =
                             [st |-> "created", ver |-> req.ver, halted |-> FALSE]]
       \/ Refused /\ UNCHANGED container
    /\ UNCHANGED <<docker, images, processVars>>

\* A container that does not start (its host port is taken) stays created.
StartContainerUnchecked ==
    /\ req.pc = "start"
    /\ \/ container' = [container EXCEPT ![req.app].st = "running"]
       \/ UNCHANGED container
    /\ Reply(TRUE)
    /\ UNCHANGED <<docker, images, processVars>>

StartContainer ==
    /\ req.pc = "start"
    /\ \/ Reply(TRUE) /\ container' = [container EXCEPT ![req.app].st = "running"]
       \/ Refused /\ UNCHANGED container
    /\ UNCHANGED <<docker, images, processVars>>
-----------------------------------------------------------------------------
(* Stop and Remove.                                                         *)

\* ContainerStop: SIGTERM, SIGKILL after 30 seconds, no restart that is due; a
\* container that was never started is left alone.
HaltedAsAppState(c) == IF c.st \in {"running", "exited"}
                       THEN [c EXCEPT !.st = "stopped", !.halted = TRUE] ELSE c
Halted(c) == IF c.st \in {"running", "exited"}
             THEN [c EXCEPT !.st = "exited", !.halted = TRUE] ELSE c

DockerStopReturns ==
    /\ req.pc = "docker" /\ req.op = "stop"
    /\ \/ /\ container' = [container EXCEPT ![req.app] = Halted(@)]
          /\ Reply(TRUE)
       \/ /\ UNCHANGED container
          /\ req' = [req EXCEPT !.pc = "reply", !.ok = TRUE, !.refused = TRUE]
    /\ UNCHANGED <<docker, images, processVars>>

\* Success, or no container of this name: Stop is done, and the process manager
\* is not asked.  Any other error is dropped and the process manager asked.
DockerStop ==
    /\ req.pc = "docker" /\ req.op = "stop"
    /\ \/ /\ container' = [container EXCEPT ![req.app] = Halted(@)]
          /\ Reply(TRUE)
       \/ /\ UNCHANGED container
          /\ req' = [req EXCEPT !.pc = "process", !.refused = TRUE]
    /\ UNCHANGED <<docker, images, processVars>>

\* The error of removing the container is dropped; the process manager is asked
\* in any case.
DockerRemoveReturns ==
    /\ req.pc = "docker" /\ req.op = "remove"
    /\ \/ /\ container' = [container EXCEPT ![req.app] = Absent]
          /\ Reply(TRUE)
       \/ /\ UNCHANGED container
          /\ req' = [req EXCEPT !.pc = "process", !.refused = TRUE]
    /\ UNCHANGED <<docker, images, processVars>>

DockerRemove ==
    /\ req.pc = "docker" /\ req.op = "remove"
    /\ \/ /\ container' = [container EXCEPT ![req.app] = Absent]
          /\ Goto("process")
       \/ /\ UNCHANGED container
          /\ req' = [req EXCEPT !.pc = "process", !.refused = TRUE]
    /\ UNCHANGED <<docker, images, processVars>>
-----------------------------------------------------------------------------
(* The process manager's part of Deploy, Stop and Remove.                   *)

OrderProcessDown ==
    /\ req.pc = "process"
    /\ Procs!OrderDown(req.app) \/ (want[req.app] # "run" /\ UNCHANGED processVars)
    /\ Goto("waiting")
    /\ UNCHANGED dockerVars

Forgotten == IF want[req.app] = "absent" THEN UNCHANGED processVars
             ELSE Procs!Forget({req.app})

\* Every one of them first waits until nothing of the app runs.
ProcessGone == req.pc = "waiting" /\ live[req.app] = {}

StopProcess   == /\ ProcessGone /\ req.op = "stop"
                 /\ Reply(TRUE)
                 /\ UNCHANGED <<dockerVars, processVars>>
RemoveProcess == /\ ProcessGone /\ req.op = "remove"
                 /\ Forgotten
                 /\ Reply(TRUE)
                 /\ UNCHANGED dockerVars
DeployProcess == /\ ProcessGone /\ req.op = "deploy"
                 /\ \/ Reply(FALSE) /\ Forgotten
                    \/ /\ Reply(TRUE)
                       /\ \E p \in Pids : FreePid(p) /\ Procs!Launch(req.app, p)
                 /\ UNCHANGED dockerVars
-----------------------------------------------------------------------------
(* What happens by itself.                                                  *)

ContainerExits(a) ==
    /\ container[a].st = "running"
    /\ container' = [container EXCEPT ![a].st = "exited"]
    /\ UNCHANGED <<docker, images, processVars, req>>

\* The restart policy, kept by the daemon.
ContainerRestarts(a) ==
    /\ container[a].st = "exited" /\ ~container[a].halted
    /\ container' = [container EXCEPT ![a].st = "running"]
    /\ UNCHANGED <<docker, images, processVars, req>>

ProcessExitsOrReturns(a, p) ==
    /\ Procs!Exit(a, p) \/ (FreePid(p) /\ Procs!Relaunch(a, p))
    /\ UNCHANGED <<dockerVars, req>>

\* GoShip Init shuts down and is started again.  Close ends all processes (the
\* property NothingLeftBehind of ProcessManager) and leaves containers alone;
\* the new program looks for Docker anew and knows no process.
AgentRestarts ==
    /\ docker' \in BOOLEAN
    /\ want' = [a \in Apps |-> "absent"]
    /\ live' = [a \in Apps |-> {}]
    /\ Goto("idle")
    /\ UNCHANGED <<images, container>>
-----------------------------------------------------------------------------
Deploy == PullImage \/ ListContainers \/ RemoveOld \/ CreateContainer \/ StartContainer

Next == \/ \E op \in {"deploy", "stop", "remove"}, mode \in Modes, a \in Apps,
               v \in Versions : Receive(op, mode, a, v)
        \/ Deploy \/ DockerStop \/ DockerRemove
        \/ OrderProcessDown \/ StopProcess \/ RemoveProcess \/ DeployProcess
        \/ Respond
        \/ \E a \in Apps : ContainerExits(a) \/ ContainerRestarts(a)
        \/ \E a \in Apps, p \in Pids : ProcessExitsOrReturns(a, p)
        \/ AgentRestarts

Spec == Init /\ [][Next]_vars
-----------------------------------------------------------------------------
(* Properties.                                                               *)

\* Type invariant of the executors' state as the daemon and the process manager
\* hold it (executor.go, docker.go).
TypeOK == /\ docker \in BOOLEAN
          /\ images \subseteq Versions
          /\ container \in [Apps -> Container \cup {Absent}]
          /\ Procs!TypeOK
          /\ req \in Request

Answered(op) == req.pc = "reply" /\ req.op = op

\* When a container deployment reaches ContainerCreate, the name is free: what
\* an earlier deployment left, even one that failed half-way, does not make the
\* app undeployable (docker.go: ContainerList with All before ContainerCreate).
NameFreeAtCreate == req.pc = "create" => NameIsFree

\* A deployment answered with OK left a container of the image it asked for, and
\* not the one it was to replace nor one that never started.
DeployedIsRequested ==
    Answered("deploy") /\ req.ok /\ req.mode = "container" =>
        /\ container[req.app].st \in {"running", "exited"}
        /\ container[req.app].ver = req.ver

\* A removal reaches the app in both of its modes, a stop in one: only a
\* container that the daemon refuses to remove is left by a removal; a stop ends
\* the container unless the daemon refused, and the processes if it refused or
\* was not there (executor.go: Stop, Remove).
CommandsReachTheirMode ==
    /\ Answered("remove") =>
        /\ want[req.app] = "absent" /\ live[req.app] = {}
        /\ docker /\ ~req.refused => ~Exists(req.app)
    /\ Answered("stop") =>
        /\ docker /\ ~req.refused => container[req.app].st # "running"
        /\ ~docker \/ req.refused => live[req.app] = {}

\* docs/concepts.md:77: "stop - Stops the running app inside the VM without
\* removing it."  A stop answered with OK leaves nothing of the app running.
StopStops ==
    Answered("stop") /\ req.ok => /\ container[req.app].st # "running"
                                  /\ live[req.app] = {}
-----------------------------------------------------------------------------
(* The inductive invariant behind these properties, one part per idea.       *)

\* Only a container deployment talks to the daemon after its first call, and
\* only a process deployment to the process manager.
ModeOfStep ==
    /\ req.pc \in {"list", "replace", "create", "start"} => req.op = "deploy"
    /\ req.op = "deploy" =>
        /\ req.pc \in {"docker", "list", "replace", "create", "start"} => req.mode = "container"
        /\ req.pc \in {"process", "waiting"} => req.mode = "process"

\* The name is free from the listing or the removal to the creation, and what
\* was created is started.
ContainerOfStep ==
    /\ req.pc = "create" => NameIsFree
    /\ req.pc = "start" => /\ container[req.app].st = "created"
                           /\ container[req.app].ver = req.ver

\* The process manager is asked after Docker, if at all; what it was told to
\* keep down or to forget nothing brings back before the answer.
OrderOfStep ==
    /\ req.pc = "docker" => docker /\ ~req.refused
    /\ req.pc \in {"process", "waiting"} =>
        /\ req.op = "stop" => ~docker \/ req.refused
        /\ req.op = "remove" /\ docker /\ ~req.refused => ~Exists(req.app)
    /\ req.pc = "waiting" => want[req.app] # "run"
    /\ Answered("stop") =>
        IF docker /\ ~req.refused
        THEN Exists(req.app) => \/ container[req.app].st = "created"
                                \/ /\ container[req.app].st = "exited"
                                   /\ container[req.app].halted
        ELSE want[req.app] # "run" /\ live[req.app] = {}

IInv == /\ TypeOK /\ ModeOfStep /\ ContainerOfStep /\ OrderOfStep
        /\ DeployedIsRequested /\ CommandsReachTheirMode
=============================================================================
