------------------------------ MODULE Commands ------------------------------
(***************************************************************************)
(* The command line (cmd/goship/commands): processes that either talk to   *)
(* the server or, when none answers or with --direct, load the state file  *)
(* into a memory of their own, work on the one VM of a project themselves  *)
(* and rewrite the file; the vault's master key and the environment        *)
(* handlers (internal/vault, internal/api/env_handlers.go).                *)
(*                                                                         *)
(* A command is a list of calls, one step each, done on the memory of the  *)
(* process or, through the server's handlers, on that of the server.  One  *)
(* project, one environment variable.  A save succeeds (ProjectLifecycle   *)
(* has those that fail, and the handlers' own steps), images are built or  *)
(* not, definitions of apps are the value they give the variable, and apps *)
(* end with their VM.  --dry-run, domains (AppRoutes) and output are left  *)
(* out.  A definition named for what it gets wrong (SeenInLibvirtWords,    *)
(* UpdateProjectUnsaved, CheckNothing, ReadNewKey, ProjectOverrides) is a  *)
(* faulty variant of the one after it.                                     *)
(***************************************************************************)
EXTENDS Naturals, Sequences, FiniteSets

CONSTANTS Clients,   \* processes of the command line
          Apps,      \* names of apps, and services of the compose file
          Values,    \* values of the environment variable
          Keys,      \* master keys (crypto/rand)
          None,      \* no value, no key, no app
          Scopes     \* the bounds: one of these is chosen at the start

ASSUME NoneAssumption == None \notin Apps \cup Values \cup Keys

Server == "server"

ASSUME NamesAssumption == /\ Server \notin Clients
                          /\ "torn" \notin Keys \cup {None} /\ "none" \notin Values \cup {None}

VARIABLES scope,    \* worlds, ops, commands, clients, faults
          begun,    \* commands begun so far
          file,     \* state.json
          mem,      \* the stores in memory: of processes and of the server
          up,       \* a server answers /healthz
          key,      \* master.key: a key, None, or "torn" while it is written
          keys,     \* keys that were drawn
          vm,       \* the domain of the project's name, its disk and its apps
          cmd,      \* what each process is about to do
          fresh,    \* memories that hold what the file holds, but for what
                    \* their owners did since
          told,     \* what commands told their users and nothing changed since
          raced     \* two first uses of the vault overlapped

world  == <<scope, begun, up>>
store  == <<file, mem, fresh, told>>
vault  == <<key, keys, raced>>
vars   == <<scope, begun, file, mem, up, key, keys, vm, cmd, fresh, told, raced>>

\* A value of the variable, encrypted with key k unless that is None.
Plain(v) == [v |-> v, k |-> None]
Unset    == Plain(None)
NoApp    == [v |-> "none", k |-> None, mine |-> FALSE]
Ended    == [v |-> "none", k |-> None, due |-> None, how |-> "direct"]

NoInstance == [of |-> 0, st |-> "none"]
NoApps     == [a \in Apps |-> NoApp]
Empty == [p |-> 0, cpu |-> 1, disk |-> 0, env |-> Unset, inst |-> NoInstance,
          apps |-> NoApps]
NoVM  == [st |-> "none", cpu |-> 1, disk |-> 0, run |-> [a \in Apps |-> Ended]]

\* A project with a disk of the default size and its VM.
DefaultDisk == 2
MaxDisk     == 3
Running == [Empty EXCEPT !.p = 1, !.inst = [of |-> 1, st |-> "running"]]

\* A scope begins without a project, or with that one.
ASSUME ScopesAssumption == \A s \in Scopes : s.worlds \subseteq {Empty, Running}

Idle == [op |-> "idle", api |-> FALSE, todo |-> <<>>, p |-> 0, app |-> None,
         left |-> {}, val |-> None, secret |-> FALSE, key |-> None,
         clear |-> None, got |-> NoApp, cpu |-> 1, disk |-> 0, eff |-> {},
         alone |-> TRUE]

Init == /\ scope \in Scopes
        /\ begun = 0
        /\ file \in scope.worlds
        /\ mem = [w \in Clients \cup {Server} |-> file]
        /\ up \in BOOLEAN
        /\ key = None /\ keys = {} /\ raced = FALSE
        /\ vm = IF file.p = 0 THEN NoVM
                ELSE [NoVM EXCEPT !.st = "on", !.disk = DefaultDisk]
        /\ cmd = [c \in Clients |-> Idle]
        /\ fresh = IF up THEN {Server} ELSE {}
        /\ told = {}
-----------------------------------------------------------------------------
(* Commands as lists of calls.                                              *)

Create == <<"CreateProject", "CreateInstance", "UpdateProject", "SetInstance">>
Delete == <<"FindToDelete", "DestroyInstance", "DeleteInstance", "DeleteProject">>
Stop   == <<"Find", "StopInstance", "UpdateStopping", "Poll", "UpdateInstance",
            "UpdateProject">>
StopAPI == <<"Find", "StopInstance", "UpdateInstance", "UpdateProject">>
Start   == <<"Find", "StartInstance", "UpdateInstance", "UpdateProject">>
Restart == <<"Find", "StopInstance", "Poll", "StartInstance", "UpdateInstance",
             "UpdateProject">>
Edit    == <<"Find", "SetSize", "CheckOff", "Define", "ResizeDisk", "UpdateProject">>

Vault(r)  == IF r.secret THEN <<"ReadKey">> ELSE <<>>
EnvSet(r) == <<"FindProject">> \o Vault(r) \o <<"SetEnv", "UpdateProject">>
EnvDelete == <<"FindProject", "DeleteEnv">>
EnvList   == <<"FindProject", "Decrypt", "Show">>

AppCreate == <<"FindProject", "CheckApp", "SetApp">>
AppEdit   == <<"FindProject", "GetApp", "SetApp">>
AppDeploy == <<"Find", "GetApp", "Decrypt", "DeployApp">>
AppDeployAPI == <<"Find", "GetApp", "DeployApp">>

\* With another image, or a binary to upload, the definition is saved first.
AppDeployImage    == <<"FindProject", "GetApp", "SaveApp", "Find", "Build", "Decrypt",
                       "DeployApp">>
AppDeployImageAPI == <<"FindProject", "GetApp", "SaveApp", "Find", "DeployApp">>
AppStop   == <<"Find", "GetApp", "StopApp">>
AppDelete == <<"FindProject", "GetApp", "RemoveApp", "DeleteApp">>

\* Commands that only look.
ProjectList == <<"Show">>
ProjectInfo == <<"FindProject", "Show">>
ProjectLogs == <<"Find">>
AppList     == <<"FindProject", "Show">>
AppInfo     == <<"FindProject", "GetApp", "Show">>
AppLogs     == <<"FindProject", "GetApp", "Find">>
PushImage   == <<"Find", "Build">>

ComposeUp    == <<"Find", "Build", "Decrypt", "NextApp">>
ComposeUpAPI == <<"FindProject", "Build", "NextApp">>
ComposeDown  == <<"Find", "NextApp">>
ComposeDownAPI == <<"FindProject", "NextApp">>
Manifest(r)  == <<"FindOrCreate">> \o Vault(r) \o <<"SetEnv", "UpdateProject">>
Deploy(r)    == Manifest(r) \o ComposeUp
DeployAPI(r) == Manifest(r) \o ComposeUpAPI

\* What is done for each service of a compose file.  The server is told the
\* image to deploy, and saves it once more.
ForApp(r) == IF r.op = "compose down"
             THEN (IF r.api THEN <<"GetApp">> ELSE <<>>) \o <<"RemoveApp", "DeleteApp">>
             ELSE IF r.api THEN <<"CheckApp", "SetApp", "GetApp", "SaveApp", "DeployApp">>
             ELSE <<"SetApp", "DeployApp">>

Program(r) ==
    CASE r.op = "create"  -> Create
      [] r.op = "delete"  -> Delete
      [] r.op = "stop"    -> IF r.api THEN StopAPI ELSE Stop
      [] r.op = "start"   -> Start
      [] r.op = "restart" -> Restart
      [] r.op = "edit"    -> Edit
      [] r.op = "env set" -> EnvSet(r)
      [] r.op = "env delete" -> EnvDelete
      [] r.op = "env list"   -> EnvList
      [] r.op = "app create" -> AppCreate
      [] r.op = "app edit"   -> AppEdit
      [] r.op = "app deploy" -> IF r.api THEN AppDeployAPI ELSE AppDeploy
      [] r.op = "app deploy image" -> IF r.api THEN AppDeployImageAPI ELSE AppDeployImage
      [] r.op = "app stop"   -> AppStop
      [] r.op = "app delete" -> AppDelete
      [] r.op = "project list" -> ProjectList
      [] r.op = "project info" -> ProjectInfo
      [] r.op = "project logs" -> ProjectLogs
      [] r.op \in {"app list", "compose ps"} -> AppList
      [] r.op = "app info"   -> AppInfo
      [] r.op = "app logs"   -> AppLogs
      [] r.op = "push-image" -> PushImage
      [] r.op = "compose up" -> IF r.api THEN ComposeUpAPI ELSE ComposeUp
      [] r.op = "compose down" -> IF r.api THEN ComposeDownAPI ELSE ComposeDown
      [] r.op = "deploy"     -> IF r.api THEN DeployAPI(r) ELSE Deploy(r)

ForServices == {"compose up", "compose down", "deploy"}
Valued  == {"env set", "app create", "app edit"} \cup ForServices
ForOne  == {"app create", "app edit", "app deploy", "app deploy image", "app stop",
            "app delete", "app info", "app logs"}
Secrets == {"env set", "deploy"}
Ops == {"create", "delete", "stop", "start", "restart", "edit", "env set", "env delete",
        "env list", "project list", "project info", "project logs", "app list",
        "compose ps", "push-image"} \cup ForServices \cup ForOne

\* These reconcile before anything else, and end when libvirt cannot be reached.
NeedsRuntime == {"create", "delete", "stop", "start", "restart", "edit", "app deploy",
                 "app deploy image", "app stop", "app delete", "app logs",
                 "push-image"} \cup ForServices

\* These reconcile, or show what the file says when libvirt cannot be reached.
NeedsRuntimeOptional == {"project list", "project info"}
-----------------------------------------------------------------------------
(* The memory a command works on, and the file.                             *)

Where(c)  == IF cmd[c].api THEN Server ELSE c
S(c)      == mem[Where(c)]
At(c, s)  == cmd[c].todo # <<>> /\ Head(cmd[c].todo) = s
Rest(c)   == Tail(cmd[c].todo)
Goes(c)   == [cmd[c] EXCEPT !.todo = Rest(c)]
Becomes(c, r) == cmd' = [cmd EXCEPT ![c] = r]
Busy == {c \in Clients : cmd[c] # Idle}

\* Memories that a process reads.
Alive(w) == IF w = Server THEN up ELSE w \in Busy /\ ~cmd[w].api

\* What commands tell their users about.
Items == {"project", "size", "env", "power"} \cup Apps
Value(s, x) == CASE x = "project" -> s.p
                 [] x = "size"    -> <<s.cpu, s.disk>>
                 [] x = "env"     -> s.env
                 [] x = "power"   -> s.inst.st
                 [] OTHER         -> <<s.apps[x].v, s.apps[x].k>>
Except(X) == {t \in told : t[1] \notin X}

Changing(r, X) == IF r = Idle THEN r ELSE [r EXCEPT !.eff = X]

\* Store.save: the whole file, from this memory.
Saves(c, s, X, r) ==
    LET w == Where(c)
        Y == X \cup cmd[c].eff
    IN  /\ mem' = [mem EXCEPT ![w] = s] /\ file' = s
        /\ fresh' = {w}
        /\ told' = IF w \in fresh THEN Except(Y) ELSE {}
        /\ cmd' = [d \in Clients |->
                     IF d = c THEN Changing(r, Y)
                     ELSE [cmd[d] EXCEPT !.eff = IF w \in fresh THEN @ \ Y ELSE {}]]

\* Objects are changed in place before they are saved; those of the server are
\* seen by every request and saved with the next of them.
Alters(c, s, X, r) ==
    /\ mem' = [mem EXCEPT ![Where(c)] = s]
    /\ told' = IF cmd[c].api THEN Except(X) ELSE told
    /\ cmd' = [d \in Clients |->
                 IF d = c THEN Changing(r, r.eff \cup X)
                 ELSE IF cmd[c].api THEN [cmd[d] EXCEPT !.eff = @ \ X] ELSE cmd[d]]
    /\ UNCHANGED <<file, fresh>>

\* An error ends the command, or what it does for one service of several.
Fails(c) == Becomes(c, IF cmd[c].app # None /\ cmd[c].op \in ForServices
                       THEN [cmd[c] EXCEPT !.todo = <<"NextApp">>] ELSE Idle)

Outside == "outside" \in scope.faults
-----------------------------------------------------------------------------
(* A command begins and ends.                                               *)

\* load refuses a file with an instance of a project it does not have.
Loadable(s) == s.inst.of # 0 => s.inst.of = s.p

\* The command's arguments.
Given(r) ==
    /\ (r.app # None) = (r.op \in ForOne)
    /\ (r.left # {}) = (r.op \in ForServices)
    /\ r.val # None => r.op \in Valued
    /\ r.op = "env set" => r.val # None
    /\ r.secret => r.op \in Secrets /\ r.val # None
    /\ r.op # "edit" => r.cpu = 1 /\ r.disk = 0
Request(op, api, a, svc, v, s, n, d) ==
    [Idle EXCEPT !.op = op, !.api = api, !.app = a, !.left = svc, !.val = v,
                 !.secret = s, !.cpu = n, !.disk = d]
Requests ==
    {r \in {Request(op, api, a, svc, v, s, n, d) :
               op \in Ops, api \in BOOLEAN, a \in Apps \cup {None}, svc \in {{}, Apps},
               v \in Values \cup {None}, s \in BOOLEAN, n \in 1..2, d \in 0..MaxDisk} : Given(r)}

CanBegin(c) == /\ cmd[c] = Idle /\ begun < scope.commands
               /\ Cardinality(Busy) < scope.clients

\* initResources: a server that answers is used unless --direct is given.
Begin(c, r) ==
    LET q == [r EXCEPT !.todo = IF ~r.api /\ r.op \in NeedsRuntime \cup NeedsRuntimeOptional
                                THEN <<"Reconcile">> \o Program(r) ELSE Program(r),
                       !.alone = Busy = {}]
    IN  /\ IF r.api THEN up ELSE ~up \/ "direct" \in scope.faults
        /\ begun' = begun + 1
        /\ cmd' = [d \in Clients |-> IF d = c THEN q ELSE [cmd[d] EXCEPT !.alone = d \notin Busy]]
        /\ \/ r.api /\ UNCHANGED <<mem, fresh>>
           \/ /\ ~r.api /\ Loadable(file)
              /\ mem' = [mem EXCEPT ![c] = file] /\ fresh' = fresh \cup {c}
        /\ UNCHANGED <<scope, up, file, told, vault, vm>>

\* The command reports success and ends.
Confirms(c) ==
    /\ cmd[c] # Idle /\ cmd[c].todo = <<>>
    /\ told' = Except(cmd[c].eff) \cup {<<x, Value(S(c), x)>> : x \in cmd[c].eff}
    /\ Becomes(c, Idle)
    /\ UNCHANGED <<world, file, mem, fresh, vault, vm>>

\* GetInstanceStatus writes what it sees into the instance.
SeenInLibvirtWords == IF vm.st = "on" THEN "running" ELSE "shut off"
Seen == IF vm.st = "on" THEN "running" ELSE "stopped"

\* What a command that only looks shows.
Shown(c) == CASE cmd[c].op \in {"app list", "compose ps"} -> Apps
              [] cmd[c].op = "app info"     -> {cmd[c].app}
              [] cmd[c].op = "env list"     -> {"env"}
              [] cmd[c].op = "project list" -> {"project", "size", "power"}
              [] OTHER                      -> Items

\* It tells what the file holds when its memory is its own and no other has
\* saved the file since, but for what another is changing.
Show(c) ==
    LET same == {x \in Shown(c) : \A w \in fresh :
                   Alive(w) => Value(mem[w], x) = Value(file, x)} IN
    /\ At(c, "Show")
    /\ Becomes(c, IF c \in fresh /\ ~cmd[c].api THEN Changing(Goes(c), same) ELSE Goes(c))
    /\ UNCHANGED <<world, store, vault, vm>>

Drifted(s) == /\ s.inst.of # 0 /\ s.inst.st \in {"running", "starting", "stopping"}
              /\ s.inst.st # Seen

\* reconcileState saves the instance and its project.
Reconcile(c) ==
    /\ At(c, "Reconcile")
    /\ IF Drifted(S(c))
       THEN Saves(c, [S(c) EXCEPT !.inst.st = Seen], {"power"}, Goes(c))
       ELSE Becomes(c, Goes(c)) /\ UNCHANGED store
    /\ UNCHANGED <<world, vault, vm>>

\* initResources: libvirt.New fails.
CannotReconcile(c) ==
    /\ At(c, "Reconcile") /\ Outside
    /\ Becomes(c, IF cmd[c].op \in NeedsRuntimeOptional THEN Goes(c) ELSE Idle)
    /\ UNCHANGED <<world, store, vault, vm>>
-----------------------------------------------------------------------------
(* Projects and their VM.                                                   *)

HasInstance(c) == S(c).p = cmd[c].p /\ S(c).inst.of = cmd[c].p

FindProject(c) ==
    /\ At(c, "FindProject")
    /\ Becomes(c, IF S(c).p = 0 THEN Idle ELSE [Goes(c) EXCEPT !.p = S(c).p])
    /\ UNCHANGED <<world, store, vault, vm>>

FindOrCreate(c) ==
    /\ At(c, "FindOrCreate")
    /\ Becomes(c, IF S(c).p = 0 THEN [cmd[c] EXCEPT !.todo = Create \o Rest(c)]
                  ELSE [Goes(c) EXCEPT !.p = S(c).p])
    /\ UNCHANGED <<world, store, vault, vm>>

Find(c) ==
    /\ At(c, "Find")
    /\ Becomes(c, IF S(c).p = 0 \/ S(c).inst.of # S(c).p THEN Idle
                  ELSE [Goes(c) EXCEPT !.p = S(c).p])
    /\ UNCHANGED <<world, store, vault, vm>>

\* Identifiers of projects are numbers here, each drawn once.
CreateProject(c) ==
    /\ At(c, "CreateProject")
    /\ IF S(c).p # 0 THEN Becomes(c, Idle) /\ UNCHANGED store
       ELSE Saves(c, [Empty EXCEPT !.p = begun + 1, !.inst = S(c).inst], Items,
                  [Goes(c) EXCEPT !.p = begun + 1])
    /\ UNCHANGED <<world, vault, vm>>

\* A creation whose VM does not come up deletes its project again.
CreateInstance(c) ==
    /\ At(c, "CreateInstance")
    /\ \/ /\ vm.st = "none"
          /\ vm' = [NoVM EXCEPT !.st = "on", !.cpu = S(c).cpu, !.disk = DefaultDisk]
          /\ Becomes(c, Goes(c))
       \/ /\ vm.st # "none" \/ Outside
          /\ Becomes(c, [cmd[c] EXCEPT !.todo = <<"TakeBack">>])
          /\ UNCHANGED vm
    /\ UNCHANGED <<world, store, vault>>

Without(s) == [Empty EXCEPT !.inst = s.inst]

TakeBack(c) ==
    /\ At(c, "TakeBack")
    /\ IF S(c).p = cmd[c].p THEN Saves(c, Without(S(c)), Items, Idle)
       ELSE Becomes(c, Idle) /\ UNCHANGED store
    /\ UNCHANGED <<world, vault, vm>>

SetInstance(c) ==
    /\ At(c, "SetInstance")
    /\ IF S(c).p = cmd[c].p
       THEN Saves(c, [S(c) EXCEPT !.inst = [of |-> cmd[c].p, st |-> "running"]],
                  {"power"}, Goes(c))
       ELSE Becomes(c, Goes(c)) /\ UNCHANGED store
    /\ UNCHANGED <<world, vault, vm>>

\* UpdateProject saves what was changed in place.  Commands about the VM and
\* every creation go on when it fails, the others end with its error.
Creating(c) == Rest(c) # <<>> /\ Head(Rest(c)) = "SetInstance"
Tolerant(c) == cmd[c].op \in {"create", "stop", "start", "restart"} \/ Creating(c)
UpdateProjectUnsaved(c) ==
    /\ At(c, "UpdateProject")
    /\ IF S(c).p = cmd[c].p \/ Tolerant(c)
       THEN Becomes(c, Goes(c)) ELSE Becomes(c, Idle)
    /\ UNCHANGED <<world, store, vault, vm>>

UpdateProject(c) ==
    /\ At(c, "UpdateProject")
    /\ IF S(c).p = cmd[c].p THEN Saves(c, S(c), {}, Goes(c))
       ELSE /\ Becomes(c, IF Tolerant(c) THEN Goes(c) ELSE Idle)
            /\ UNCHANGED store
    /\ UNCHANGED <<world, vault, vm>>

\* Without an instance only the project is deleted.
FindToDelete(c) ==
    LET found == [Goes(c) EXCEPT !.p = S(c).p] IN
    /\ At(c, "FindToDelete")
    /\ Becomes(c, IF S(c).p = 0 THEN Idle
                  ELSE IF S(c).inst.of = S(c).p THEN found
                  ELSE [found EXCEPT !.todo = <<"DeleteProject">>])
    /\ UNCHANGED <<world, store, vault, vm>>

\* The domain is found by its name; failing to destroy it is only printed.
DestroyInstance(c) ==
    /\ At(c, "DestroyInstance")
    /\ vm' \in {NoVM} \cup IF Outside THEN {vm} ELSE {}
    /\ Becomes(c, Goes(c))
    /\ UNCHANGED <<world, store, vault>>

DeleteInstance(c) ==
    /\ At(c, "DeleteInstance")
    /\ IF S(c).inst.of = cmd[c].p
       THEN Saves(c, [S(c) EXCEPT !.inst = NoInstance], {"power"}, Goes(c))
       ELSE Saves(c, S(c), {}, Goes(c))
    /\ UNCHANGED <<world, vault, vm>>

\* The instances are left alone.
DeleteProject(c) ==
    /\ At(c, "DeleteProject")
    /\ IF S(c).p = cmd[c].p THEN Saves(c, Without(S(c)), Items, Goes(c))
       ELSE Becomes(c, Idle) /\ UNCHANGED store
    /\ UNCHANGED <<world, vault, vm>>

Powered(c, st, r) == IF HasInstance(c) THEN Alters(c, [S(c) EXCEPT !.inst.st = st], {"power"}, r)
                     ELSE Becomes(c, r) /\ UNCHANGED store
Off == [vm EXCEPT !.st = "off", !.run = [a \in Apps |-> Ended]]

\* Shutdown and the wait for it, which may take too long.
StopInstance(c) ==
    /\ At(c, "StopInstance")
    /\ \/ vm.st = "on" /\ vm' = Off /\ Powered(c, "stopped", Goes(c))
       \/ /\ vm.st = "on" /\ Outside
          /\ vm' \in {vm, Off}
          /\ Powered(c, "stopping", Idle)
       \/ vm.st # "on" /\ Becomes(c, Idle) /\ UNCHANGED <<store, vm>>
    /\ UNCHANGED <<world, vault>>

UpdateStopping(c) ==
    /\ At(c, "UpdateStopping")
    /\ IF HasInstance(c)
       THEN Saves(c, [S(c) EXCEPT !.inst.st = "stopping"], {"power"}, Goes(c))
       ELSE Becomes(c, Goes(c)) /\ UNCHANGED store
    /\ UNCHANGED <<world, vault, vm>>

\* Polled until the domain is off or time is up, which stop does not report.
Poll(c) ==
    /\ At(c, "Poll")
    /\ Powered(c, Seen, IF Seen = "stopped" THEN Goes(c) ELSE Idle)
    /\ UNCHANGED <<world, vault, vm>>

\* Create and the wait for the agent in the guest, which may take too long.
StartInstance(c) ==
    /\ At(c, "StartInstance")
    /\ \/ vm.st = "off" /\ vm' = [vm EXCEPT !.st = "on"] /\ Powered(c, "running", Goes(c))
       \/ /\ vm.st = "off" /\ Outside
          /\ vm' = [vm EXCEPT !.st = "on"]
          /\ Powered(c, "starting", Idle)
       \/ vm.st # "off" /\ Becomes(c, Idle) /\ UNCHANGED <<store, vm>>
    /\ UNCHANGED <<world, vault>>

UpdateInstance(c) ==
    /\ At(c, "UpdateInstance")
    /\ IF HasInstance(c)
       THEN Saves(c, IF cmd[c].op = "stop" THEN [S(c) EXCEPT !.inst.st = "stopped"]
                     ELSE S(c), {"power"}, Goes(c))
       ELSE Becomes(c, Goes(c)) /\ UNCHANGED store
    /\ UNCHANGED <<world, vault, vm>>
-----------------------------------------------------------------------------
(* Resizing.  The recorded disk may be 0, which stands for the default.     *)

\* The new sizes go into the project one after the other, the disk's when it is
\* given; one that would shrink ends the command with the CPUs changed.
SetSize(c) ==
    LET s == [S(c) EXCEPT !.cpu = cmd[c].cpu]
        disk == IF cmd[c].disk = 0 THEN s.disk ELSE cmd[c].disk
    IN
    /\ At(c, "SetSize")
    /\ CASE ~HasInstance(c) \/ S(c).inst.st # "stopped" -> Becomes(c, Idle) /\ UNCHANGED store
         [] OTHER ->
              IF disk < s.disk THEN Alters(c, s, {"size"}, Idle)
              ELSE Alters(c, [s EXCEPT !.disk = disk], {"size"}, Goes(c))
    /\ UNCHANGED <<world, vault, vm>>

CheckNothing(c) ==
    /\ At(c, "CheckOff")
    /\ Becomes(c, Goes(c))
    /\ UNCHANGED <<world, store, vault, vm>>

CheckOff(c) ==
    /\ At(c, "CheckOff")
    /\ Becomes(c, IF vm.st = "off" THEN Goes(c) ELSE Idle)
    /\ UNCHANGED <<world, store, vault, vm>>

\* Defining a domain that has gone makes a new one, without a disk.
Define(c) ==
    /\ At(c, "Define")
    /\ vm' = [vm EXCEPT !.cpu = S(c).cpu, !.st = IF @ = "none" THEN "off" ELSE @]
    /\ Becomes(c, Goes(c))
    /\ UNCHANGED <<world, store, vault>>

\* qemu-img refuses to shrink an image, and one that a running VM has locked
\* if it was built with locks.
ResizeDisk(c) ==
    LET size == IF S(c).disk = 0 THEN DefaultDisk ELSE S(c).disk IN
    /\ At(c, "ResizeDisk")
    /\ \/ /\ vm.disk # 0 /\ size >= vm.disk
          /\ vm' = [vm EXCEPT !.disk = size]
          /\ Becomes(c, Goes(c))
       \/ /\ vm.disk = 0 \/ size < vm.disk \/ vm.st = "on" \/ Outside
          /\ Becomes(c, Idle) /\ UNCHANGED vm
    /\ UNCHANGED <<world, store, vault>>
-----------------------------------------------------------------------------
(* The vault and the environment of the project.                            *)

\* LoadOrCreateMasterKey: an empty file is no key.
ReadNewKey(c) ==
    /\ At(c, "ReadKey")
    /\ Becomes(c, [cmd[c] EXCEPT !.todo = <<"CreateKey", "WriteKey">> \o Rest(c)])
    /\ UNCHANGED <<world, store, vault, vm>>

ReadKey(c) ==
    /\ At(c, "ReadKey")
    /\ Becomes(c, CASE key = None   -> [cmd[c] EXCEPT !.todo =
                                          <<"CreateKey", "WriteKey">> \o Rest(c)]
                    [] key = "torn" -> Idle
                    [] OTHER        -> [Goes(c) EXCEPT !.key = key])
    /\ UNCHANGED <<world, store, vault, vm>>

\* os.WriteFile truncates the file and then writes it.
CreateKey(c) ==
    /\ At(c, "CreateKey")
    /\ raced' = (raced \/ \E d \in Clients \ {c} : At(d, "CreateKey") \/ At(d, "WriteKey"))
    /\ key' = "torn"
    /\ Becomes(c, Goes(c))
    /\ UNCHANGED <<world, store, keys, vm>>

WriteKey(c, k) ==
    /\ At(c, "WriteKey") /\ k \notin keys
    /\ keys' = keys \cup {k}
    /\ key' = k
    /\ Becomes(c, [Goes(c) EXCEPT !.key = k])
    /\ UNCHANGED <<world, store, raced, vm>>

SetEnv(c) ==
    LET env == IF cmd[c].val = None THEN S(c).env
               ELSE [v |-> cmd[c].val, k |-> IF cmd[c].secret THEN cmd[c].key ELSE None]
    IN  /\ At(c, "SetEnv")
        /\ IF S(c).p = cmd[c].p THEN Alters(c, [S(c) EXCEPT !.env = env], {"env"}, Goes(c))
           ELSE Becomes(c, Goes(c)) /\ UNCHANGED store
        /\ UNCHANGED <<world, vault, vm>>

\* Without the variable the command line saves nothing.
DeleteEnv(c) ==
    /\ At(c, "DeleteEnv")
    /\ IF S(c).p # cmd[c].p \/ (~cmd[c].api /\ S(c).env = Unset)
       THEN Becomes(c, Idle) /\ UNCHANGED store
       ELSE Alters(c, [S(c) EXCEPT !.env = Unset], {"env"},
                   [cmd[c] EXCEPT !.todo = <<"UpdateProject">>])
    /\ UNCHANGED <<world, vault, vm>>

\* decryptProjectEnv opens the vault only when something is encrypted.
Decrypt(c) ==
    LET env == S(c).env IN
    /\ At(c, "Decrypt")
    /\ Becomes(c, IF env.k \in {None, cmd[c].key} THEN [Goes(c) EXCEPT !.clear = env.v]
                  ELSE IF cmd[c].key = None THEN [cmd[c] EXCEPT !.todo = <<"ReadKey">> \o @]
                  ELSE Idle)
    /\ UNCHANGED <<world, store, vault, vm>>
-----------------------------------------------------------------------------
(* Apps.                                                                    *)

App(c) == S(c).apps[cmd[c].app]

\* The project's value is the base, the app's own overrides it.
ProjectOverrides(c, e) == IF cmd[c].clear = None THEN e ELSE Plain(cmd[c].clear)
Merged(c, e) == IF e.v = None THEN Plain(cmd[c].clear) ELSE e

\* The definition is saved by the call that follows.
ToSave(c) == Rest(c) # <<>> /\ Head(Rest(c)) \in {"SaveApp", "SetApp"}

GetApp(c) ==
    /\ At(c, "GetApp")
    /\ IF S(c).p = cmd[c].p /\ App(c) # NoApp
       THEN Becomes(c, [Goes(c) EXCEPT !.got = IF ToSave(c) THEN App(c) ELSE @])
       ELSE Fails(c)
    /\ UNCHANGED <<world, store, vault, vm>>

\* Through the server, services that exist are deployed as they are.
CheckApp(c) ==
    /\ At(c, "CheckApp")
    /\ \/ S(c).p # cmd[c].p /\ Fails(c)
       \/ /\ S(c).p = cmd[c].p
          /\ Becomes(c, IF App(c) = NoApp THEN Goes(c)
                        ELSE IF cmd[c].op = "app create" THEN Idle
                        ELSE [cmd[c] EXCEPT !.todo = Tail(Rest(c))])
    /\ UNCHANGED <<world, store, vault, vm>>

\* Store.SetApp does not ask whether the project is there: what it saves for one
\* that has gone is found by nobody, and the memory is saved all the same.
PutApp(c, app) == IF S(c).p = cmd[c].p
                  THEN Saves(c, [S(c) EXCEPT !.apps[cmd[c].app] = app], {cmd[c].app}, Goes(c))
                  ELSE Saves(c, S(c), {}, Goes(c))

\* The definition GetApp found, which others change in place, if they do.
Found(c) == IF App(c) = NoApp THEN cmd[c].got ELSE App(c)

SaveApp(c) ==
    /\ At(c, "SaveApp")
    /\ PutApp(c, Found(c))
    /\ UNCHANGED <<world, vault, vm>>

\* The compose commands save the definition with the environment merged in; an
\* edit without a value leaves the one there is.
SetApp(c) ==
    LET e == IF cmd[c].api \/ cmd[c].op \notin ForServices THEN Plain(cmd[c].val)
             ELSE Merged(c, Plain(cmd[c].val))
        app == IF cmd[c].op = "app edit" /\ cmd[c].val = None THEN Found(c)
               ELSE [v |-> e.v, k |-> e.k, mine |-> cmd[c].val # None]
    IN  /\ At(c, "SetApp")
        /\ PutApp(c, app)
        /\ UNCHANGED <<world, vault, vm>>

\* The handler sends the definition as it is, the command line merges first.
DeployApp(c) ==
    LET own == [v |-> App(c).v, k |-> App(c).k]
        env == IF cmd[c].api THEN own ELSE Merged(c, own)
    IN  /\ At(c, "DeployApp")
        /\ \/ /\ HasInstance(c) /\ App(c) # NoApp /\ vm.st = "on"
              /\ vm' = [vm EXCEPT !.run[cmd[c].app] =
                          [v |-> env.v, k |-> env.k,
                           due |-> IF App(c).mine THEN App(c).v ELSE S(c).env.v,
                           how |-> IF cmd[c].api THEN "api"
                                   ELSE IF own.v # None /\ ~App(c).mine THEN "kept"
                                   ELSE "direct"]]
              /\ Becomes(c, Goes(c))
           \/ /\ ~HasInstance(c) \/ App(c) = NoApp \/ vm.st # "on" \/ Outside
              /\ Fails(c) /\ UNCHANGED vm
        /\ UNCHANGED <<world, store, vault>>

StopApp(c) ==
    /\ At(c, "StopApp")
    /\ \/ /\ vm.st = "on"
          /\ vm' = [vm EXCEPT !.run[cmd[c].app] = Ended]
          /\ Becomes(c, Goes(c))
       \/ (vm.st # "on" \/ Outside) /\ Becomes(c, Idle) /\ UNCHANGED vm
    /\ UNCHANGED <<world, store, vault>>

RemoveApp(c) ==
    /\ At(c, "RemoveApp")
    /\ \/ vm.st = "on" /\ vm' = [vm EXCEPT !.run[cmd[c].app] = Ended]
       \/ (vm.st # "on" \/ ~HasInstance(c) \/ Outside) /\ UNCHANGED vm
    /\ Becomes(c, Goes(c))
    /\ UNCHANGED <<world, store, vault>>

DeleteApp(c) ==
    /\ At(c, "DeleteApp")
    /\ PutApp(c, NoApp)
    /\ UNCHANGED <<world, vault, vm>>

\* An image is built, and pushed to the VM: the command ends when that fails.
Build(c) ==
    /\ At(c, "Build")
    /\ \/ Becomes(c, Goes(c))
       \/ Outside /\ Becomes(c, Idle)
    /\ UNCHANGED <<world, store, vault, vm>>

NextApp(c, a) ==
    /\ At(c, "NextApp") /\ a \in cmd[c].left
    /\ Becomes(c, [cmd[c] EXCEPT !.todo = ForApp(cmd[c]) \o @, !.app = a, !.left = @ \ {a}])
    /\ UNCHANGED <<world, store, vault, vm>>

LastApp(c) ==
    /\ At(c, "NextApp") /\ cmd[c].left = {}
    /\ Becomes(c, Goes(c))
    /\ UNCHANGED <<world, store, vault, vm>>
-----------------------------------------------------------------------------
(* The rest of the world.                                                   *)

\* A process of the command line is interrupted.
Killed(c) ==
    /\ "kill" \in scope.faults /\ cmd[c] # Idle /\ ~cmd[c].api
    /\ Becomes(c, Idle)
    /\ UNCHANGED <<world, store, vault, vm>>

\* The server loads the file and reconciles it (ProjectLifecycle).
ServerStarts ==
    LET s == IF Drifted(file) THEN [file EXCEPT !.inst.st = Seen] ELSE file IN
    /\ "server" \in scope.faults /\ ~up /\ Loadable(file)
    /\ up' = TRUE
    /\ mem' = [mem EXCEPT ![Server] = s]
    /\ file' = s
    /\ IF s = file THEN fresh' = fresh \cup {Server} /\ UNCHANGED <<told, cmd>>
       ELSE /\ fresh' = {Server} /\ told' = Except({"power"})
            /\ cmd' = [c \in Clients |-> [cmd[c] EXCEPT !.eff = @ \ {"power"}]]
    /\ UNCHANGED <<scope, begun, vault, vm>>

\* The commands it served end with an error.
ServerStops ==
    /\ "server" \in scope.faults /\ up
    /\ up' = FALSE
    /\ fresh' = fresh \ {Server}
    /\ cmd' = [c \in Clients |-> IF cmd[c].api THEN Idle ELSE cmd[c]]
    /\ UNCHANGED <<scope, begun, file, mem, told, vault, vm>>

PowersOff ==
    /\ Outside /\ vm.st = "on"
    /\ vm' = Off
    /\ UNCHANGED <<world, store, vault, cmd>>
-----------------------------------------------------------------------------
Project(c) == \/ Reconcile(c) \/ CannotReconcile(c) \/ Show(c) \/ FindProject(c) \/ FindOrCreate(c) \/ Find(c)
              \/ CreateProject(c) \/ CreateInstance(c) \/ TakeBack(c) \/ SetInstance(c)
              \/ UpdateProject(c) \/ FindToDelete(c) \/ DestroyInstance(c)
              \/ DeleteInstance(c)
              \/ DeleteProject(c) \/ StopInstance(c) \/ UpdateStopping(c) \/ Poll(c)
              \/ StartInstance(c) \/ UpdateInstance(c)
Resize(c) == SetSize(c) \/ CheckOff(c) \/ Define(c) \/ ResizeDisk(c)
Environment(c) == \/ ReadKey(c) \/ CreateKey(c) \/ \E k \in Keys : WriteKey(c, k)
                  \/ SetEnv(c) \/ DeleteEnv(c) \/ Decrypt(c)
Application(c) == \/ GetApp(c) \/ CheckApp(c) \/ SaveApp(c) \/ SetApp(c) \/ DeployApp(c) \/ StopApp(c)
                  \/ RemoveApp(c) \/ DeleteApp(c) \/ Build(c) \/ LastApp(c)
                  \/ \E a \in Apps : NextApp(c, a)

Next == \/ \E c \in Clients :
             \/ /\ CanBegin(c)
                /\ \E r \in Requests : r.op \in scope.ops /\ Begin(c, r)
             \/ Project(c) \/ Resize(c) \/ Environment(c) \/ Application(c)
             \/ Confirms(c) \/ Killed(c)
        \/ ServerStarts \/ ServerStops \/ PowersOff

Spec == Init /\ [][Next]_vars
-----------------------------------------------------------------------------
(* Properties.                                                               *)

EnvValues == [v : Values \cup {None}, k : Keys \cup {None}]
Store == [p : Nat, cpu : 1..2, disk : 0..MaxDisk, env : EnvValues,
          inst : [of : Nat, st : {"none", "running", "starting", "stopping", "stopped"}],
          apps : [Apps -> [v : Values \cup {None, "none"}, k : Keys \cup {None},
                           mine : BOOLEAN]]]

\* Type invariant of the file, the memories, the vault and the VM.
TypeOK == /\ file \in Store
          /\ mem \in [Clients \cup {Server} -> Store]
          /\ key \in Keys \cup {None, "torn"} /\ keys \subseteq Keys
          /\ vm.st \in {"none", "on", "off"} /\ vm.cpu \in 1..2 /\ vm.disk \in 0..MaxDisk
          /\ vm.run \in [Apps -> [v : Values \cup {None, "none"}, k : Keys \cup {None},
                                  due : Values \cup {None}, how : {"direct", "api", "kept"}]]
          /\ \A c \in Clients : cmd[c].op = "idle" <=> cmd[c] = Idle
          /\ fresh \subseteq Clients \cup {Server}

\* What a command told its user is what the file says, until another command
\* changes it or a process saves the file from a memory that is older than the
\* last save of another (root.go:202-223 looks for a server to keep from that).
ConfirmedKept == \A t \in told : Value(file, t[1]) = t[2]

\* A secret in the file can be decrypted with the master key, unless two
\* first uses of the vault overlapped (keyring.go:19-48).
SecretsReadable == ~raced /\ file.env.k # None => file.env.k = key

\* Whatever an app runs with is in the clear, and one that the command line
\* deployed by itself runs with its own value, or without one with the value its
\* project had, unless a compose command had fixed that in its definition
\* (env.go:303-321).
DeliversEnv ==
    \A a \in Apps : LET r == vm.run[a] IN
        /\ r.k = None
        /\ r # Ended /\ r.how = "direct" => r.v = r.due

\* The disk of a VM only grows, and only while the VM is off, whatever the
\* records say of it, unless two commands overlapped (runtime.go:888-916).
ResizedOff ==
    [][vm.disk # 0 /\ vm'.disk \notin {0, vm.disk} =>
         /\ vm'.disk > vm.disk
         /\ (vm.st = "off" \/ \E c \in Clients : ~cmd[c].alone)]_vars

\* An app runs with the value of its project unless its own definition has one.
\* Violated: README.md:91.
Inherited == \A a \in Apps : vm.run[a] # Ended => vm.run[a].v = vm.run[a].due
-----------------------------------------------------------------------------
(* The inductive invariant.                                                  *)

AppCalls == {"GetApp", "CheckApp", "SaveApp", "SetApp", "DeployApp", "StopApp",
             "RemoveApp", "DeleteApp"}
Calls == AppCalls \cup
         {"Reconcile", "Show", "FindProject", "FindOrCreate", "Find", "CreateProject",
          "CreateInstance", "TakeBack", "SetInstance", "UpdateProject", "FindToDelete",
          "DestroyInstance", "DeleteInstance", "DeleteProject", "StopInstance",
          "UpdateStopping", "Poll", "StartInstance", "UpdateInstance", "SetSize",
          "CheckOff", "Define", "ResizeDisk", "ReadKey", "CreateKey", "WriteKey", "SetEnv",
          "DeleteEnv", "Decrypt", "Build", "NextApp"}

\* Definitions of apps: in the clear, and with a value of their own or not.
AppDefs == {NoApp} \cup {a \in [v : Values \cup {None}, k : {None}, mine : BOOLEAN] :
                           a.mine => a.v # None}
Stores  == {s \in Store : \A a \in Apps : s.apps[a] \in AppDefs}
VMs     == [st : {"none", "on", "off"}, cpu : 1..2, disk : 0..MaxDisk,
            run : [Apps -> [v : Values \cup {None, "none"}, k : Keys \cup {None},
                            due : Values \cup {None}, how : {"direct", "api", "kept"}]]]
Command == [op : Ops \cup {"idle"}, api : BOOLEAN, todo : Seq(Calls), p : Nat,
            app : Apps \cup {None}, left : SUBSET Apps, val : Values \cup {None},
            secret : BOOLEAN, key : Keys \cup {None}, clear : Values \cup {None},
            got : AppDefs, cpu : 1..2, disk : 0..MaxDisk, eff : SUBSET Items,
            alone : BOOLEAN]

Typed == /\ scope \in Scopes /\ begun \in Nat /\ up \in BOOLEAN /\ raced \in BOOLEAN
         /\ file \in Stores /\ mem \in [Clients \cup {Server} -> Stores]
         /\ key \in Keys \cup {None, "torn"} /\ keys \subseteq Keys
         /\ cmd \in [Clients -> Command]
         /\ fresh \subseteq Clients \cup {Server}
         /\ \A t \in told : t[1] \in Items

\* Calls that change objects in place, and those that come until they are saved.
Saving   == {"UpdateStopping", "Poll", "StartInstance", "UpdateInstance", "CheckOff",
             "Define", "ResizeDisk", "UpdateProject"}
Altering == {"StopInstance", "SetSize", "SetEnv"} \cup (Saving \ {"UpdateProject"})

\* Commands that merge the value of the project in, and their calls after that.
Deploys   == {"app deploy", "app deploy image", "compose up", "deploy"}
Brings(r) == ~r.api /\ r.op \in Deploys
Bringing  == {"SetApp", "DeployApp", "NextApp"}

MayCall(r, x) == /\ r.app = None => x \notin AppCalls
                 /\ x = "DeployApp" => r.op \in Deploys
                 /\ x = "NextApp"   => r.op \in ForServices
                 /\ Brings(r) => x # "CheckApp" /\ (r.op \in ForServices => x # "GetApp")
MayFollow(r, x, y) == /\ y # "CreateKey"
                      /\ y = "WriteKey"   => x = "CreateKey"
                      /\ y = "Define"     => x = "CheckOff"
                      /\ y = "ResizeDisk" => x = "Define"
                      /\ x \in Altering   => y \in Saving
                      /\ x = "CheckApp"  => y = "SetApp"
                      /\ Brings(r) /\ y \in Bringing => x \in Bringing \cup {"Decrypt"}

\* What a command still has to do is the rest of a program.
IsRest(r, s) == /\ \A i \in 1..Len(s) : MayCall(r, s[i])
                /\ \A i \in 1..Len(s) - 1 : MayFollow(r, s[i], s[i + 1])
                /\ s # <<>> => s[Len(s)] \notin Altering \cup {"CheckApp"}
Ordered(r)   == IsRest(r, r.todo) /\ (r.op \in ForOne => r.app # None)

\* Commands that run.
Programmed == \A c \in Clients : LET r == cmd[c] IN
    /\ Ordered(r)
    /\ r.op = "idle" <=> r = Idle
    /\ r # Idle /\ r.api => up
    /\ r # Idle /\ r.alone => \A d \in Clients \ {c} : cmd[d] = Idle

\* The vault: whatever was encrypted was with the key in master.key.
Good   == {None} \cup ({key} \cap Keys)
Sealed == ~raced =>
    /\ file.env.k \in Good
    /\ \A w \in Clients \cup {Server} : mem[w].env.k \in Good
    /\ \A c \in Clients :
         /\ cmd[c].key \in Good
         /\ At(c, "CreateKey") => key = None
         /\ At(c, "WriteKey") =>
              /\ key = "torn"
              /\ \A d \in Clients \ {c} : ~At(d, "CreateKey") /\ ~At(d, "WriteKey")

\* The VM: without a domain there is no disk, and a command that resizes on its
\* own has seen that the VM is off.
Machine == /\ vm \in VMs
           /\ vm.st = "none" => vm.disk = 0
           /\ \A c \in Clients :
                cmd[c].alone /\ (At(c, "Define") \/ At(c, "ResizeDisk")) => vm.st = "off"

\* The value that is merged in is that of the project.
Merging == \A c \in Clients :
    Brings(cmd[c]) /\ (\E x \in Bringing : At(c, x)) => cmd[c].clear = mem[c].env.v

\* What is confirmed.  A command that changed an object in place is going to
\* save it, or to fail.
Pending(c) == /\ S(c).p = cmd[c].p
              /\ \E x \in Saving : At(c, x)
Same(w, x) == Value(mem[w], x) = Value(file, x)
Settled(x) == \A w \in fresh : Alive(w) =>
    Same(w, x) \/ (w # Server /\ x \in cmd[w].eff /\ Pending(w))
Honest ==
    /\ \A t \in told : Value(file, t[1]) = t[2] /\ Settled(t[1])
    /\ \A c \in Clients : \A x \in cmd[c].eff :
          Pending(c) \/ (Same(Where(c), x) /\ Settled(x))

Memories == Typed /\ Programmed /\ Sealed /\ Merging /\ Honest
IInv     == Memories /\ Machine /\ DeliversEnv
=============================================================================
