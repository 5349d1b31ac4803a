-------------------------- MODULE ProjectLifecycle --------------------------
(***************************************************************************)
(* The life of projects in "goship server": the project handlers of the    *)
(* API (internal/api/project_handlers.go), the state store and its file    *)
(* (internal/shared/state/local.go), the runtime that keeps one VM per     *)
(* project (internal/agent/runtime/libvirt) and libvirt itself.            *)
(*                                                                         *)
(* Handlers run concurrently.  The store and the runtime lock each of      *)
(* their methods, never a whole request: a handler is a sequence of steps, *)
(* one per call, named for the call, and reads something in one step that  *)
(* it uses in another.  The store hands out pointers: the instance that a  *)
(* handler got, the runtime's entry and the store's are one object.        *)
(*                                                                         *)
(* Projects are known by identifier; a VM, its libvirt domain and its      *)
(* directory are found by the project's NAME, which a later project may    *)
(* have again.  A project has one instance, named by the project here.     *)
(* A definition named for what it gets wrong (NeverTaken, UpdateUnchecked, *)
(* ...) is a faulty variant of the one that follows it.                    *)
(***************************************************************************)
EXTENDS Naturals, FiniteSets

CONSTANTS Ids,       \* project identifiers (uuid.New): the bound on creations
          Names,     \* project names
          Handlers,  \* goroutines serving requests: the bound on concurrency
          None,      \* no project, no disk image
          Scopes     \* the environments to consider, each a record

\* save: a write of the state file fails; torn: and may leave half a file;
\* vm: a libvirt or disk operation fails; guest: a VM boots or obeys ACPI too
\* late for the request (or its client leaves), or powers itself off;
\* crash: the server dies at any moment; restart: it is restarted while idle.
AllFaults == {"save", "torn", "vm", "guest", "crash", "restart"}

\* An environment: the names that clients use, how many requests they make at
\* one time, how many projects they create, and what may go wrong.
AllScopes == [names : SUBSET Names, clients : Nat, creations : Nat,
              faults : SUBSET AllFaults]

ASSUME ScopesAssumption == Scopes \subseteq AllScopes
ASSUME NoneAssumption == None \notin Ids \cup Names
ASSUME HandlersAssumption == IsFiniteSet(Handlers)

VARIABLES scope,         \* the environment of this behaviour
          name,          \* the name each project was created with
          proj, inst,    \* keys of state.Projects and state.Instances
          pstate,        \* Project.State of the project objects
          istate,        \* ProjectInstance.State of the instance objects
          file,          \* state.json
          rt,            \* keys of Runtime.instances
          dom, img,      \* libvirt domains and disk images, by project name
          up,            \* the server is running
          req,           \* the request each handler serves
          created, deleted  \* projects whose creation, deletion was confirmed

objects == <<pstate, istate>>
store   == <<proj, inst, file>>
vms     == <<dom, img>>
answers == <<created, deleted>>
vars    == <<scope, name, proj, inst, pstate, istate, file, rt, dom, img, up,
             req, created, deleted>>

ProjectStates  == {"pending", "running", "stopping", "stopped", "failed"}
InstanceStates == {"starting", "running", "stopping", "stopped"}

\* What a save writes: the states of everything the store holds.
Snapshot(P, I, ps, is) == [projects  |-> [i \in P |-> ps[i]],
                           instances |-> [i \in I |-> is[i]]]
Torn == [torn |-> TRUE]

NoDomain == [st |-> "none", id |-> None]
Ops == {"create", "delete", "stop", "start", "restart"}
IdleReq == [pc |-> "idle", op |-> "stop", name |-> None, id |-> None, vm |-> None]

Init == /\ scope \in Scopes
        /\ name = [i \in Ids |-> None]
        /\ proj = {} /\ inst = {}
        /\ pstate = [i \in Ids |-> "pending"]
        /\ istate = [i \in Ids |-> "starting"]
        /\ file = Snapshot({}, {}, pstate, istate)
        /\ rt = {}
        /\ dom = [n \in Names |-> NoDomain]
        /\ img = [n \in Names |-> None]
        /\ up = TRUE
        /\ req = [h \in Handlers |-> IdleReq]
        /\ created = {} /\ deleted = {}
-----------------------------------------------------------------------------
(* Saving.  Store.save rewrites the whole file in place.                    *)

SaveOk(P, I) == file' = Snapshot(P, I, pstate', istate')
SaveFails    == /\ "save" \in scope.faults
                /\ file' = file \/ ("torn" \in scope.faults /\ file' = Torn)

\* A save whose failure is logged at most: memory keeps what was done.
SaveLogged(P, I) == SaveOk(P, I) \/ SaveFails

At(h, pc)   == up /\ req[h].pc = pc
Goto(h, pc) == req' = [req EXCEPT ![h].pc = pc]
Answer(h)   == req' = [req EXCEPT ![h] = IdleReq]
Domain(h)   == dom[req[h].name]
Powered(n)  == dom[n].st \in {"running", "stopping"}

\* libvirt or the disk may fail an operation at any of its steps.
VMFails == "vm" \in scope.faults

\* The directory of a name is removed; an error of that is ignored.
RemoveDir(n) == \/ img' = [img EXCEPT ![n] = None]
                \/ VMFails /\ UNCHANGED img

\* DestroyVM ends the domain and then undefines it: it may fail in between.
DestroyFails(n) == \/ VMFails /\ Powered(n) /\ dom' = [dom EXCEPT ![n].st = "off"]
                   \/ (dom[n].st = "none" \/ VMFails) /\ UNCHANGED dom
-----------------------------------------------------------------------------
(* Receiving a request and finding what it is about.                        *)

\* uuid.New draws the identifier of a project to create.
Busy == {h \in Handlers : req[h].pc # "idle"}
Accepts(h, n) == /\ At(h, "idle") /\ n \in scope.names
                 /\ Cardinality(Busy) < scope.clients

ReceiveCreate(h, n, i) ==
    /\ Accepts(h, n) /\ name[i] = None
    /\ Cardinality({j \in Ids : name[j] # None}) < scope.creations
    /\ name' = [name EXCEPT ![i] = n]
    /\ req' = [req EXCEPT ![h] = [pc |-> "CreateProject", op |-> "create",
                                  name |-> n, id |-> i, vm |-> None]]
    /\ UNCHANGED <<scope, objects, store, rt, vms, up, answers>>

Receive(h, op, n) ==
    /\ Accepts(h, n) /\ op # "create"
    /\ req' = [req EXCEPT ![h] = [pc |-> "GetProject", op |-> op,
                                  name |-> n, id |-> None, vm |-> None]]
    /\ UNCHANGED <<scope, name, objects, store, rt, vms, up, answers>>

GetProject(h) ==
    LET found == {i \in proj : name[i] = req[h].name} IN
    /\ At(h, "GetProject")
    /\ \/ found = {} /\ Answer(h)
       \/ \E i \in found : req' = [req EXCEPT ![h].pc = "GetInstance", ![h].id = i]
    /\ UNCHANGED <<scope, name, objects, store, rt, vms, up, answers>>

\* Without an instance, delete has no VM to destroy and the others give up.
AfterGetInstance(op, found) ==
    CASE op = "delete" /\ found              -> "DestroyInstance"
      [] op = "delete" /\ ~found             -> "DeleteProject"
      [] op = "start" /\ found               -> "StartInstance"
      [] op \in {"stop", "restart"} /\ found -> "StopInstance"
      [] OTHER                               -> "idle"

GetInstance(h) ==
    /\ At(h, "GetInstance")
    /\ LET next == AfterGetInstance(req[h].op, req[h].id \in inst) IN
       IF next = "idle" THEN Answer(h) ELSE Goto(h, next)
    /\ UNCHANGED <<scope, name, objects, store, rt, vms, up, answers>>
-----------------------------------------------------------------------------
(* Creating a project.                                                      *)

NeverTaken(n) == FALSE
NameTaken(n)  == \E i \in proj : name[i] = n

\* A creation is taken back when it cannot be saved.
CreateProject(h) ==
    LET i == req[h].id IN
    /\ At(h, "CreateProject")
    /\ UNCHANGED <<scope, name, objects, inst, rt, vms, up, answers>>
    /\ \/ NameTaken(req[h].name) /\ Answer(h) /\ UNCHANGED <<proj, file>>
       \/ /\ ~NameTaken(req[h].name)
          /\ \/ /\ proj' = proj \cup {i} /\ SaveOk(proj', inst)
                /\ \/ Goto(h, "SetDomains")
                   \/ Goto(h, "CreateInstance")
             \/ SaveFails /\ Answer(h) /\ UNCHANGED proj

\* The domains of the request are saved with the project, if it gives any; an
\* error is logged.  Concurrent changes of the project's other data are left out.
SetDomains(h) ==
    LET i == req[h].id IN
    /\ At(h, "SetDomains")
    /\ UNCHANGED <<scope, name, proj, inst, objects, rt, vms, up, answers>>
    /\ IF i \in proj THEN SaveLogged(proj, inst) ELSE UNCHANGED file
    /\ Goto(h, "CreateInstance")

\* VMManager.Create makes the directory and the disk image, then defines and
\* starts the domain, which fails if there is one of this name.  It may fail
\* before it has a directory; when it fails later the directory is removed,
\* whoever made it.
CreateInstance(h) ==
    LET i == req[h].id
        n == req[h].name IN
    /\ At(h, "CreateInstance")
    /\ \/ /\ dom[n].st = "none"
          /\ dom' = [dom EXCEPT ![n] = [st |-> "running", id |-> i]]
          /\ img' = [img EXCEPT ![n] = i]
          /\ rt' = rt \cup {i}
          /\ istate' = [istate EXCEPT ![i] = "starting"]
          /\ Goto(h, "waitReady")
       \/ /\ dom[n].st # "none" \/ VMFails
          /\ RemoveDir(n)
          /\ Goto(h, "DropProject")
          /\ UNCHANGED <<dom, rt, istate>>
    /\ UNCHANGED <<scope, name, pstate, store, up, answers>>

\* waitReady (of create and of start) polls the domain and then its agent.
Ready(h) ==
    /\ At(h, "waitReady")
    /\ Powered(req[h].name)
    /\ istate' = [istate EXCEPT ![req[h].id] = "running"]
    /\ Goto(h, IF req[h].op = "create" THEN "UpdateProject" ELSE "UpdateInstance")
    /\ UNCHANGED <<scope, name, pstate, store, rt, vms, up, answers>>

\* It gives up: the domain is not there or off until the request times out, the
\* runtime has lost the instance, or the guest is too slow.
NotReady(h) ==
    /\ At(h, "waitReady")
    /\ ~Powered(req[h].name) \/ req[h].id \notin rt \/ "guest" \in scope.faults
    /\ IF req[h].op = "create" THEN Goto(h, "Cleanup") ELSE Answer(h)
    /\ UNCHANGED <<scope, name, objects, store, rt, vms, up, answers>>

\* CreateInstance cleans up without its lock: the domain of this name is ended,
\* and then the directory goes.
DestroyOnFailure(h) ==
    /\ At(h, "Cleanup")
    /\ rt' = rt \ {req[h].id}
    /\ \/ /\ Domain(h).st # "none"
          /\ dom' = [dom EXCEPT ![req[h].name] = NoDomain]
          /\ Goto(h, "RemoveDir")
       \/ /\ DestroyFails(req[h].name)
          /\ Goto(h, "DropProject")
    /\ UNCHANGED <<scope, name, objects, store, img, up, answers>>

RemoveDirOnFailure(h) ==
    /\ At(h, "RemoveDir")
    /\ RemoveDir(req[h].name)
    /\ Goto(h, "DropProject")
    /\ UNCHANGED <<scope, name, objects, store, rt, dom, up, answers>>

\* The project of a VM that could not be created is deleted again.
DropProjectByName(h) ==
    LET gone == {i \in proj : name[i] = req[h].name} IN
    /\ At(h, "DropProject")
    /\ UNCHANGED <<scope, name, objects, inst, rt, vms, up, answers>>
    /\ proj' = proj \ gone
    /\ IF gone # {} THEN SaveLogged(proj', inst) ELSE UNCHANGED file
    /\ Answer(h)

DropProject(h) ==
    /\ At(h, "DropProject")
    /\ UNCHANGED <<scope, name, objects, inst, rt, vms, up, answers>>
    /\ proj' = proj \ {req[h].id}
    /\ IF req[h].id \in proj THEN SaveLogged(proj', inst) ELSE UNCHANGED file
    /\ Answer(h)

\* SetInstance, which refuses an instance of an unknown project; the error is
\* logged and the creation confirmed in any case.
SetInstance(h) ==
    LET i == req[h].id IN
    /\ At(h, "SetInstance")
    /\ UNCHANGED <<scope, name, proj, objects, rt, vms, up, deleted>>
    /\ \/ i \in proj /\ inst' = inst \cup {i} /\ SaveLogged(proj, inst')
       \/ i \notin proj /\ UNCHANGED <<inst, file>>
    /\ created' = created \cup {i}
    /\ Answer(h)
-----------------------------------------------------------------------------
(* Deleting a project.                                                      *)

\* LoadInstance and DestroyInstance: whatever domain has the project's name is
\* ended and its directory removed.  An error is logged.
DestroyRunningOnly(h) ==
    LET n == req[h].name
        i == req[h].id IN
    /\ At(h, "DestroyInstance")
    /\ IF Powered(n)
       THEN /\ dom' = [dom EXCEPT ![n] = NoDomain]
            /\ img' = [img EXCEPT ![n] = None]
            /\ rt' = rt \ {i}
       ELSE rt' = rt \cup {i} /\ UNCHANGED vms
    /\ Goto(h, "DeleteInstance")
    /\ UNCHANGED <<scope, name, objects, store, up, answers>>

DestroyInstance(h) ==
    LET n == req[h].name
        i == req[h].id IN
    /\ At(h, "DestroyInstance")
    /\ \/ /\ dom[n].st # "none"
          /\ dom' = [dom EXCEPT ![n] = NoDomain]
          /\ RemoveDir(n)
          /\ rt' = rt \ {i}
       \/ /\ DestroyFails(n)
          /\ rt' = rt \cup {i}
          /\ UNCHANGED img
    /\ Goto(h, "DeleteInstance")
    /\ UNCHANGED <<scope, name, objects, store, up, answers>>

DeleteInstanceByProject(h) ==
    /\ At(h, "DeleteInstance")
    /\ UNCHANGED <<scope, name, objects, proj, inst, rt, vms, up, answers>>
    /\ SaveLogged(proj, inst)
    /\ Goto(h, "DeleteProject")

DeleteInstance(h) ==
    /\ At(h, "DeleteInstance")
    /\ UNCHANGED <<scope, name, objects, proj, rt, vms, up, answers>>
    /\ inst' = inst \ {req[h].id}
    /\ SaveLogged(proj, inst')
    /\ Goto(h, "DeleteProject")

\* DeleteProject leaves the instances alone: it removes the key projectID from
\* a map whose keys are instance identifiers.
DeleteProject(h) ==
    LET i == req[h].id IN
    /\ At(h, "DeleteProject")
    /\ UNCHANGED <<scope, name, objects, inst, rt, vms, up, created>>
    /\ proj' = proj \ {i}
    /\ \/ i \in proj /\ SaveOk(proj', inst) /\ deleted' = deleted \cup {i}
       \/ i \in proj /\ SaveFails /\ UNCHANGED deleted
       \/ i \notin proj /\ UNCHANGED <<file, deleted>>
    /\ Answer(h)
-----------------------------------------------------------------------------
(* Stopping and starting.                                                   *)

\* LoadInstance; StopInstance finds the domain by name, keeps the handle (which
\* is bound to that VM), sends the ACPI signal and polls the handle.
StopInstance(h) ==
    LET n == req[h].name
        i == req[h].id IN
    /\ At(h, "StopInstance")
    /\ rt' = rt \cup {i}
    /\ \/ /\ Powered(n)
          /\ dom' = [dom EXCEPT ![n].st = "stopping"]
          /\ istate' = [istate EXCEPT ![i] = "stopping"]
          /\ req' = [req EXCEPT ![h].pc = "waitForShutoff", ![h].vm = dom[n].id]
       \/ /\ ~Powered(n) \/ VMFails
          /\ Answer(h) /\ UNCHANGED <<dom, istate>>
    /\ UNCHANGED <<scope, name, pstate, store, img, up, answers>>

SignalIsEnough(h) == TRUE
IsShutOff(h)      == Domain(h).st = "off" /\ Domain(h).id = req[h].vm

ShutOff(h) ==
    /\ At(h, "waitForShutoff")
    /\ IsShutOff(h)
    /\ istate' = [istate EXCEPT ![req[h].id] = "stopped"]
    /\ Goto(h, IF req[h].op = "stop" THEN "UpdateInstance" ELSE "Poll")
    /\ UNCHANGED <<scope, name, pstate, store, rt, vms, up, answers>>

\* The VM is gone, or does not shut down in time.
NotShutOff(h) ==
    /\ At(h, "waitForShutoff")
    /\ Domain(h).id # req[h].vm \/ "guest" \in scope.faults
          \/ Domain(h).st = "running"     \* off and started again by another
    /\ Answer(h)
    /\ UNCHANGED <<scope, name, objects, store, rt, vms, up, answers>>

\* Restart asks GetInstanceStatus, which writes the state it sees, until the
\* domain is off or the request times out.
StateSeenInLibvirtWords(n) == IF Powered(n) THEN "running" ELSE "shut off"
StateSeen(n) == IF Powered(n) THEN "running" ELSE "stopped"

PollWaits(h) ==
    /\ At(h, "Poll")
    /\ req[h].id \in rt /\ Powered(req[h].name)
    /\ istate' = [istate EXCEPT ![req[h].id] = StateSeen(req[h].name)]
    /\ UNCHANGED <<scope, name, pstate, store, rt, vms, up, req, answers>>

PollEnds(h) ==
    /\ At(h, "Poll")
    /\ \/ /\ req[h].id \in rt /\ ~Powered(req[h].name)
          /\ istate' = [istate EXCEPT ![req[h].id] = StateSeen(req[h].name)]
          /\ Goto(h, "StartInstance")
       \/ /\ req[h].id \notin rt \/ Powered(req[h].name)
          /\ Answer(h) /\ UNCHANGED istate
    /\ UNCHANGED <<scope, name, pstate, store, rt, vms, up, answers>>

\* LoadInstance (not again in a restart) and StartInstance.
StartInstance(h) ==
    LET n == req[h].name
        i == req[h].id IN
    /\ At(h, "StartInstance")
    /\ rt' = IF req[h].op = "start" THEN rt \cup {i} ELSE rt
    /\ \/ /\ i \in rt' /\ dom[n].st = "off"
          /\ dom' = [dom EXCEPT ![n].st = "running"]
          /\ istate' = [istate EXCEPT ![i] = "starting"]
          /\ Goto(h, "waitReady")
       \/ /\ i \notin rt' \/ dom[n].st # "off" \/ VMFails
          /\ Answer(h)
          /\ UNCHANGED <<dom, istate>>
    /\ UNCHANGED <<scope, name, pstate, store, img, up, answers>>

\* The handlers record what they did.  Both updates refuse an object that the
\* store no longer has; errors are logged.
UpdateInstance(h) ==
    LET i == req[h].id IN
    /\ At(h, "UpdateInstance")
    /\ istate' = IF req[h].op = "stop" THEN [istate EXCEPT ![i] = "stopped"] ELSE istate
    /\ UNCHANGED pstate
    /\ IF i \in inst \cap proj THEN SaveLogged(proj, inst) ELSE UNCHANGED file
    /\ Goto(h, "UpdateProject")
    /\ UNCHANGED <<scope, name, proj, inst, rt, vms, up, answers>>

UpdateUnchecked(i) == TRUE
Updatable(i)       == i \in proj

UpdateProject(h) ==
    LET i == req[h].id IN
    /\ At(h, "UpdateProject")
    /\ pstate' = [pstate EXCEPT ![i] = IF req[h].op = "stop" THEN "stopped" ELSE "running"]
    /\ UNCHANGED istate
    /\ \/ Updatable(i) /\ proj' = proj \cup {i} /\ SaveLogged(proj', inst)
       \/ ~Updatable(i) /\ UNCHANGED <<proj, file>>
    /\ IF req[h].op = "create" THEN Goto(h, "SetInstance") ELSE Answer(h)
    /\ UNCHANGED <<scope, name, inst, rt, vms, up, answers>>
-----------------------------------------------------------------------------
(* What happens by itself.                                                  *)

ShutsDown(n) == dom[n].st = "stopping"
PowersOff(n) == dom[n].st = "running" /\ "guest" \in scope.faults

GuestEnds(n) ==
    /\ ShutsDown(n) \/ PowersOff(n)
    /\ dom' = [dom EXCEPT ![n].st = "off"]
    /\ UNCHANGED <<scope, name, objects, store, rt, img, up, req, answers>>

\* The server ends; a save may be under way.  VMs stay as they are.
ServerEnds ==
    /\ up
    /\ \/ "crash" \in scope.faults
       \/ "restart" \in scope.faults /\ \A h \in Handlers : req[h].pc = "idle"
    /\ up' = FALSE
    /\ rt' = {}
    /\ req' = [h \in Handlers |-> IdleReq]
    /\ \/ UNCHANGED file
       \/ {"torn", "crash"} \subseteq scope.faults /\ file' = Torn
    /\ UNCHANGED <<scope, name, proj, inst, objects, vms, answers>>

\* NewStore refuses a file it cannot parse, or with an instance of a project it
\* does not know.
Loadable == file # Torn /\ DOMAIN file.instances \subseteq DOMAIN file.projects

ProjectStateOf(st) == IF st \in {"running", "stopping", "stopped"} THEN st
                      ELSE "pending"

\* serverReconcileState, before requests are served: instances that should be
\* running, or were on their way, get the state of their domain.  Its saves
\* count as one.
Reconciled(i, st) ==
    IF st \in {"running", "starting", "stopping"} THEN StateSeen(name[i]) ELSE st

ServerStarts ==
    /\ ~up /\ Loadable
    /\ LET P == DOMAIN file.projects
           I == DOMAIN file.instances
           new(i) == Reconciled(i, file.instances[i]) IN
       /\ proj' = P /\ inst' = I /\ rt' = I
       /\ istate' = [i \in Ids |-> IF i \in I THEN new(i) ELSE istate[i]]
       /\ pstate' = [i \in Ids |->
                       IF i \in I /\ new(i) # file.instances[i] THEN ProjectStateOf(new(i))
                       ELSE IF i \in P THEN file.projects[i] ELSE pstate[i]]
       /\ IF \E i \in I : new(i) # file.instances[i] THEN SaveLogged(P, I)
          ELSE UNCHANGED file
    /\ up' = TRUE
    /\ UNCHANGED <<scope, name, vms, req, answers>>
-----------------------------------------------------------------------------
Creating(h) == \/ CreateProject(h) \/ SetDomains(h) \/ CreateInstance(h)
               \/ DestroyOnFailure(h) \/ RemoveDirOnFailure(h) \/ DropProject(h)
               \/ SetInstance(h)
Deleting(h) == DestroyInstance(h) \/ DeleteInstance(h) \/ DeleteProject(h)
Stopping(h) == StopInstance(h) \/ ShutOff(h) \/ NotShutOff(h) \/ PollEnds(h)
Starting(h) == StartInstance(h) \/ Ready(h) \/ NotReady(h)
Updating(h) == UpdateInstance(h) \/ UpdateProject(h)

Serve(h) == \/ GetProject(h) \/ GetInstance(h)
            \/ Creating(h) \/ Deleting(h) \/ Stopping(h) \/ Starting(h) \/ Updating(h)

Next == \/ \E h \in Handlers, n \in Names :
             \/ \E i \in Ids : ReceiveCreate(h, n, i)
             \/ \E op \in Ops : Receive(h, op, n)
        \/ \E h \in Handlers : Serve(h) \/ PollWaits(h)
        \/ \E n \in Names : GuestEnds(n)
        \/ ServerEnds \/ ServerStarts

Spec == Init /\ [][Next]_vars
-----------------------------------------------------------------------------
(* Properties.                                                               *)

Request == [pc : {"idle", "GetProject", "GetInstance", "CreateProject",
                  "SetDomains", "CreateInstance", "waitReady", "Cleanup",
                  "RemoveDir", "DropProject", "SetInstance", "DestroyInstance",
                  "DeleteInstance", "DeleteProject", "StopInstance",
                  "waitForShutoff", "Poll", "StartInstance", "UpdateInstance",
                  "UpdateProject"},
            op : Ops, name : Names \cup {None}, id : Ids \cup {None},
            vm : Ids \cup {None}]

File == {Torn} \cup [projects  : UNION {[P -> ProjectStates] : P \in SUBSET Ids},
                     instances : UNION {[I -> InstanceStates] : I \in SUBSET Ids}]

\* Type invariant of the server's memory, its file, libvirt and the handlers.
TypeOK == /\ scope \in Scopes
          /\ name \in [Ids -> Names \cup {None}]
          /\ proj \subseteq Ids /\ inst \subseteq Ids /\ rt \subseteq Ids
          /\ pstate \in [Ids -> ProjectStates]
          /\ istate \in [Ids -> InstanceStates]
          /\ file \in File
          /\ dom \in [Names -> [st : {"none", "running", "stopping", "off"},
                                id : Ids \cup {None}]]
          /\ img \in [Names -> Ids \cup {None}]
          /\ up \in BOOLEAN
          /\ req \in [Handlers -> Request]
          /\ created \subseteq Ids /\ deleted \subseteq Ids

Quiet == up /\ \A h \in Handlers : req[h].pc = "idle"

\* One request at a time: what overlapping requests do to each other is another
\* question than what a sequence of requests and failures does.
OneByOne == scope.clients = 1

\* Nothing fails but that the server is restarted between requests.
Calm == scope.faults \subseteq {"restart"}

\* load refuses a file in which an instance belongs to no project
\* (local.go:114); what the server writes must satisfy it, or the server cannot
\* be started again.
InstancesAreBound ==
    file # Torn => DOMAIN file.instances \subseteq DOMAIN file.projects

\* It satisfies it as long as requests do not overlap, whatever fails and
\* wherever the server dies.
OneByOneStaysLoadable == OneByOne => InstancesAreBound

\* A project whose deletion was confirmed does not come back, neither in memory
\* nor with the file, whatever the other handlers still do with it.
DeletedStaysDeleted ==
    /\ up => deleted \cap proj = {}
    /\ file # Torn => deleted \cap DOMAIN file.projects = {}

\* A project whose creation was confirmed is in the file until its deletion is
\* confirmed, as long as saving works: a crash does not lose it.
ConfirmedIsDurable ==
    "save" \notin scope.faults /\ file # Torn =>
        created \ deleted \subseteq DOMAIN file.projects

\* docs/cli-reference.md:265: delete "Destroys the project's VM and removes the
\* project from the state store."
DeletedMeansDestroyed ==
    OneByOne /\ Calm => \A i \in deleted : dom[name[i]].id # i

\* A VM that libvirt knows has its own disk image in its directory
\* (manager.go: Create and Destroy find the directory by name).
RunningKeepsDisk ==
    OneByOne /\ Calm => \A n \in Names : dom[n].st # "none" => img[n] = dom[n].id

\* Between requests the records of the server agree with libvirt: every
\* instance has its own VM, on or off as recorded, and its project says the
\* same (project_handlers.go: the updates at the end of each handler).
RecordsMatchVMs ==
    OneByOne /\ Calm /\ Quiet => \A i \in inst :
        /\ dom[name[i]].id = i
        /\ istate[i] = "running" => Powered(name[i])
        /\ istate[i] = "stopped" => dom[name[i]].st = "off"
        /\ pstate[i] = ProjectStateOf(istate[i])
-----------------------------------------------------------------------------
(* The inductive invariant behind these properties, one part per idea.       *)

\* What a request has when it is served, and none is when the server is down.
Requests ==
    \A h \in Handlers :
        /\ ~up => req[h].pc = "idle"
        /\ req[h].pc # "idle" => req[h].name \in Names
        /\ req[h].pc = "GetProject" => req[h].op # "create"
        /\ req[h].pc \notin {"idle", "GetProject"} =>
              req[h].id \in Ids /\ name[req[h].id] = req[h].name
        /\ req[h].pc \in {"CreateProject", "SetDomains", "CreateInstance", "Cleanup",
                          "RemoveDir", "DropProject", "SetInstance"} => req[h].op = "create"

\* A creation has an identifier of its own, which is new when the project is
\* recorded, and it has not been confirmed.
Creates(h) == req[h].op = "create" /\ req[h].pc # "idle"
OwnProject ==
    /\ \A g, h \in Handlers : Creates(g) /\ Creates(h) /\ req[g].id = req[h].id => g = h
    /\ \A h \in Handlers : Creates(h) => req[h].id \notin created
    /\ \A h \in Handlers : req[h].pc = "CreateProject" => req[h].id \notin proj \cup deleted
    /\ \A i \in Ids : name[i] = None =>
          /\ i \notin proj \cup created \cup deleted
          /\ file # Torn => i \notin DOMAIN file.projects

\* What was deleted is not in memory either while the server is down.
NotBack == /\ deleted \cap proj = {}
           /\ file # Torn => deleted \cap DOMAIN file.projects = {}

\* While saving works the file has the projects of the memory, among them those
\* being created, unless they were deleted meanwhile.
Saved ==
    "save" \notin scope.faults =>
        /\ up => file # Torn /\ DOMAIN file.projects = proj
        /\ \A h \in Handlers : Creates(h) /\ req[h].pc # "CreateProject" =>
              req[h].id \in proj \cup deleted

\* One request at a time: instances are bound in memory, too, and a project
\* that is about to go, or to come, has none.
Alone == OneByOne => \A g, h \in Busy : g = h
Bound ==
    OneByOne =>
        /\ InstancesAreBound /\ inst \subseteq proj
        /\ \A h \in Handlers :
              Creates(h) \/ req[h].pc = "DeleteProject" => req[h].id \notin inst

\* Nothing failing, too: every domain is that of a project and has its disk; ...
Owned == \A n \in Names :
            IF dom[n].st = "none" THEN dom[n] = NoDomain
            ELSE dom[n].id \in proj /\ name[dom[n].id] = n /\ img[n] = dom[n].id

\* ... the records of a project nobody is at agree with its domain; ...
Settled(i) == /\ dom[name[i]].id = i
              /\ \/ istate[i] = "running" /\ dom[name[i]].st = "running"
                 \/ istate[i] = "stopped" /\ dom[name[i]].st = "off"
              /\ pstate[i] = istate[i]
Synced == proj = inst /\ file = Snapshot(proj, inst, pstate, istate)

\* ... and so do those of the one being served, as far as the request has come.
Begins(h) == \/ req[h].pc \in {"idle", "GetProject", "GetInstance", "CreateProject",
                               "DestroyInstance", "StopInstance"}
             \/ req[h].pc = "StartInstance" /\ req[h].op = "start"

PhaseOf(h) ==
    LET i == req[h].id
        pc == req[h].pc
        op == req[h].op
        d == dom[req[h].name]
        new == proj = inst \cup {i} /\ i \notin inst
        known == proj = inst /\ i \in inst
        On == d.st = "running" /\ d.id = i
        Off == d.st = "off" /\ d.id = i
    IN  /\ pc \notin {"Cleanup", "RemoveDir", "DropProject"}
        /\ Begins(h) => Synced
        /\ Begins(h) /\ pc \notin {"idle", "GetProject", "CreateProject"} => known
        /\ pc \in {"SetDomains", "CreateInstance"} => new /\ d.st = "none"
        /\ pc = "waitReady" => /\ IF op = "create" THEN new ELSE known
                               /\ On /\ i \in rt /\ op \in {"create", "start", "restart"}
        /\ pc = "UpdateInstance" => known /\ op # "create"
        /\ pc = "UpdateProject" => IF op = "create" THEN new ELSE known
        /\ pc \in {"UpdateInstance", "UpdateProject"} =>
              IF op = "stop" THEN Off /\ istate[i] = "stopped" ELSE On /\ istate[i] = "running"
        /\ pc = "SetInstance" => new /\ On /\ istate[i] = "running" /\ pstate[i] = "running"
        /\ pc = "DestroyInstance" => op = "delete"
        /\ pc = "DeleteInstance" => known /\ d.st = "none"
        /\ pc = "DeleteProject" => new /\ d.st = "none"
        /\ pc = "StopInstance" => op \in {"stop", "restart"}
        /\ pc = "waitForShutoff" => /\ known /\ d.st \in {"stopping", "off"} /\ d.id = i
                                    /\ req[h].vm = i /\ i \in rt /\ op \in {"stop", "restart"}
        /\ pc = "Poll" => known /\ Off /\ i \in rt /\ op = "restart"
        /\ pc = "StartInstance" /\ op # "start" => known /\ Off /\ i \in rt /\ op = "restart"

Undisturbed ==
    OneByOne /\ Calm =>
        /\ Owned
        /\ \A i \in inst : (\A h \in Handlers : Begins(h) \/ req[h].id # i) => Settled(i)
        /\ \A h \in Handlers : req[h].pc # "idle" => PhaseOf(h)
        /\ (\A h \in Handlers : req[h].pc = "idle") => Synced

\* The first part holds whatever happens and is inductive by itself.
Base == TypeOK /\ Requests /\ OwnProject /\ NotBack /\ Saved /\ ConfirmedIsDurable
IInv == Base /\ Alone /\ Bound /\ Undisturbed
=============================================================================
