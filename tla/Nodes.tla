-------------------------------- MODULE Nodes --------------------------------
(***************************************************************************)
(* Nodes and their agents: the node handlers of the server                 *)
(* (internal/api/node_handlers.go) and the nodes of its store              *)
(* (internal/shared/state/local.go), and on each host "goship agent"       *)
(* (internal/agent/agent.go, reconciler.go) with a runtime of its own.     *)
(*                                                                         *)
(* The store locks each of its methods, never a whole request, and hands   *)
(* out pointers: a request reads the registry in one step and writes a     *)
(* node back in another.  An agent ticks at once and then at each          *)
(* interval: a heartbeat, the desired state, the reconciliation.  A tick   *)
(* that created a VM waits for it without a deadline: it ends when the VM  *)
(* is ready or the agent is told to stop.  An agent is started with the    *)
(* name of its host as node ID.                                            *)
(*                                                                         *)
(* Left out: endpoints, labels and times of nodes; saves that fail         *)
(* (ProjectLifecycle has them); more than one app in a project.  A         *)
(* definition named for what it gets wrong (NotLooked, BeatUnseen,         *)
(* CreateKeepsEntry, PullNew) is a faulty variant of the one after it.     *)
(***************************************************************************)
EXTENDS Naturals

CONSTANTS Ids,       \* node identifiers (uuid.New): the bound on registrations
          Hosts,     \* hosts, each with an agent
          Projects,  \* projects that the server may know
          Clients,   \* goroutines serving the commands about nodes
          None,      \* no node, no host, no project
          Mishaps    \* how often something outside of the program goes wrong

ASSUME NoneAssumption == None \notin Ids \cup Hosts \cup Projects
ASSUME MishapsAssumption == Mishaps \in Nat

VARIABLES nodes,     \* keys of state.Nodes
          host,      \* Hostname of the node objects
          status,    \* Status of the node objects
          want,      \* the projects of the store, and which of them have their app
          req,       \* the request each client's handler serves
          agent,     \* what each agent is about to do
          rt,        \* the keys of each agent's Runtime.instances
          vm,        \* the VM of each project on each host
          mishaps,   \* how often something went wrong so far
          removed,   \* nodes whose removal was confirmed
          raced      \* nodes added or removed while a request had read the registry

registry == <<nodes, host, status>>
local    == <<rt, vm>>
ghosts   == <<removed, raced>>
vars     == <<nodes, host, status, want, req, agent, rt, vm, mishaps, removed, raced>>

IdleReq   == [pc |-> "idle", op |-> "drain", host |-> None, node |-> None]
IdleAgent == [pc |-> "wait", node |-> None, create |-> {}, deploy |-> {}, at |-> None,
              stop |-> FALSE]
NoVM      == [st |-> "none", disk |-> FALSE, app |-> FALSE]

Init == /\ nodes = {}
        /\ host = [n \in Ids |-> None]
        /\ status = [n \in Ids |-> "online"]
        /\ want = [p \in Projects |-> "none"]
        /\ req = [c \in Clients |-> IdleReq]
        /\ agent = [h \in Hosts |-> IdleAgent]
        /\ rt = [h \in Hosts |-> {}]
        /\ vm = [h \in Hosts |-> [p \in Projects |-> NoVM]]
        /\ mishaps = 0
        /\ removed = {} /\ raced = {}
-----------------------------------------------------------------------------
(* The nodes of the store.                                                  *)

\* GetNode by hostname: of several nodes with that name, any one.
GetNode(h) == {n \in nodes : host[n] = h}

SetNode(n, st) == /\ nodes' = nodes \cup {n}
                  /\ status' = [status EXCEPT ![n] = st]

Mishap == mishaps < Mishaps /\ mishaps' = mishaps + 1

\* Requests that read the registry and have not written it yet.
Holds(c, n) == req[c].pc = "set" /\ (req[c].node = n \/ req[c].host = host[n])
Beats(h, n) == agent[h].pc = "set" /\ agent[h].node = n
-----------------------------------------------------------------------------
(* Registering, draining and removing a node.                               *)

At(c, pc, op) == req[c].pc = pc /\ req[c].op = op
Answer(c)     == req' = [req EXCEPT ![c] = IdleReq]

Request(c, op, h) ==
    /\ req[c].pc = "idle"
    /\ req' = [req EXCEPT ![c] = [pc |-> "get", op |-> op, host |-> h, node |-> None]]
    /\ UNCHANGED <<registry, want, agent, local, mishaps, ghosts>>

NotLooked(h) == FALSE
Taken(h)     == GetNode(h) # {}

\* A new identifier is drawn when the hostname is found to be free; which one of
\* those never drawn makes no difference.
RegisterList(c, n) ==
    /\ At(c, "get", "register")
    /\ host[n] = None /\ n = CHOOSE m \in Ids : host[m] = None
    /\ IF Taken(req[c].host)
       THEN Answer(c) /\ UNCHANGED host
       ELSE /\ req' = [req EXCEPT ![c].pc = "set", ![c].node = n]
            /\ host' = [host EXCEPT ![n] = req[c].host]
    /\ UNCHANGED <<nodes, status, want, agent, local, mishaps, ghosts>>

RegisterSet(c) ==
    LET n == req[c].node IN
    /\ At(c, "set", "register")
    /\ SetNode(n, "online")
    /\ raced' = IF \E d \in Clients \ {c} : Holds(d, n) THEN raced \cup {n} ELSE raced
    /\ Answer(c)
    /\ UNCHANGED <<host, want, agent, local, mishaps, removed>>

DrainGet(c) ==
    /\ At(c, "get", "drain")
    /\ \/ GetNode(req[c].host) = {} /\ Answer(c)
       \/ \E n \in GetNode(req[c].host) :
             req' = [req EXCEPT ![c].pc = "set", ![c].node = n]
    /\ UNCHANGED <<registry, want, agent, local, mishaps, ghosts>>

DrainSet(c) ==
    /\ At(c, "set", "drain")
    /\ SetNode(req[c].node, "draining")
    /\ Answer(c)
    /\ UNCHANGED <<host, want, agent, local, mishaps, ghosts>>

\* DeleteNode looks for the node and deletes it under one lock.  The status of an
\* object that is left is written by whoever sets it again, and read by nobody.
Remove(c) ==
    /\ At(c, "get", "remove")
    /\ \/ GetNode(req[c].host) = {} /\ UNCHANGED <<nodes, status, ghosts>>
       \/ \E n \in GetNode(req[c].host) :
             /\ nodes' = nodes \ {n} /\ status' = [status EXCEPT ![n] = "online"]
             /\ removed' = removed \cup {n}
             /\ raced' = IF \/ \E d \in Clients \ {c} : Holds(d, n)
                            \/ \E h \in Hosts : Beats(h, n)
                         THEN raced \cup {n} ELSE raced
    /\ Answer(c)
    /\ UNCHANGED <<host, want, agent, local, mishaps>>

\* Projects and apps come and go with the requests other modules describe.
Define(p, what) ==
    /\ want' = [want EXCEPT ![p] = what]
    /\ UNCHANGED <<registry, req, agent, local, mishaps, ghosts>>
-----------------------------------------------------------------------------
(* An agent's tick.  An error ends the call it happened in and is logged.   *)

Proceed(h, pc) == agent' = [agent EXCEPT ![h].pc = pc]

\* The heartbeat arrives, or the server cannot be reached.
BeatGet(h) ==
    /\ agent[h].pc = "wait"
    /\ \/ GetNode(h) = {} /\ Proceed(h, "pull") /\ UNCHANGED mishaps
       \/ \E n \in GetNode(h) : agent' = [agent EXCEPT ![h].pc = "set", ![h].node = n]
          /\ UNCHANGED mishaps
       \/ Mishap /\ Proceed(h, "pull")
    /\ UNCHANGED <<registry, want, req, local, ghosts>>

BeatUnseen(h) ==
    /\ agent[h].pc = "set"
    /\ SetNode(agent[h].node, "online")
    /\ agent' = [agent EXCEPT ![h].pc = "pull"]
    /\ UNCHANGED <<host, want, req, local, mishaps, ghosts>>

BeatSet(h) ==
    /\ agent[h].pc = "set"
    /\ SetNode(agent[h].node, "online")
    /\ agent' = [agent EXCEPT ![h].pc = "pull", ![h].node = None]
    /\ UNCHANGED <<host, want, req, local, mishaps, ghosts>>

\* Whatever the node's status, the desired state is everything in the store.
DesiredProjects == {p \in Projects : want[p] # "none"}
DesiredApps     == {p \in Projects : want[p] = "app"}

\* ListInstances is the runtime's memory: what this agent created itself.
CreateMissing(h) == DesiredProjects \ rt[h]

PullNew(h) ==
    /\ agent[h].pc = "pull"
    /\ \/ /\ GetNode(h) # {}
          /\ agent' = [agent EXCEPT ![h].pc = "reconcile", ![h].create = CreateMissing(h),
                                    ![h].deploy = DesiredApps \ rt[h]]
          /\ UNCHANGED mishaps
       \/ GetNode(h) = {} /\ Proceed(h, "wait") /\ UNCHANGED mishaps
       \/ Mishap /\ Proceed(h, "wait")
    /\ UNCHANGED <<registry, want, req, local, ghosts>>

Pull(h) ==
    /\ agent[h].pc = "pull"
    /\ \/ /\ GetNode(h) # {}
          /\ agent' = [agent EXCEPT ![h].pc = "reconcile", ![h].create = CreateMissing(h),
                                    ![h].deploy = DesiredApps]
          /\ UNCHANGED mishaps
       \/ GetNode(h) = {} /\ Proceed(h, "wait") /\ UNCHANGED mishaps
       \/ Mishap /\ Proceed(h, "wait")
    /\ UNCHANGED <<registry, want, req, local, ghosts>>

\* The VM is made and started, and the agent waits for it.
StartVM(h, p) ==
    /\ p \notin rt[h] /\ vm[h][p].st = "none"
    /\ agent' = [agent EXCEPT ![h].create = @ \ {p}, ![h].pc = "await", ![h].at = p]
    /\ rt' = [rt EXCEPT ![h] = @ \cup {p}]
    /\ vm' = [vm EXCEPT ![h][p] = [st |-> "on", disk |-> TRUE, app |-> FALSE]]
    /\ UNCHANGED mishaps

\* CreateInstance refuses a project it has an instance of (runtime.go:122-126).  It
\* fails when libvirt has a domain of this name, and takes the directory of that
\* name away, whoever made it (manager.go:181-185), unless it fails before that.
CreateKeepsEntry(h, p) ==
    /\ agent[h].pc = "reconcile" /\ p \in agent[h].create
    /\ \/ StartVM(h, p)
       \/ /\ agent' = [agent EXCEPT ![h].create = @ \ {p}]
          /\ rt' = [rt EXCEPT ![h] = @ \cup {p}]
          /\ \/ p \in rt[h] /\ UNCHANGED <<vm, mishaps>>
             \/ Mishap /\ UNCHANGED vm
             \/ /\ p \notin rt[h]
                /\ (vm[h][p].st # "none" /\ UNCHANGED mishaps) \/ Mishap
                /\ vm' = [vm EXCEPT ![h][p].disk = FALSE]
    /\ UNCHANGED <<registry, want, req, ghosts>>

CreateInstance(h, p) ==
    /\ agent[h].pc = "reconcile" /\ p \in agent[h].create
    /\ \/ StartVM(h, p)
       \/ /\ agent' = [agent EXCEPT ![h].create = @ \ {p}]
          /\ UNCHANGED rt
          /\ \/ p \in rt[h] /\ UNCHANGED <<vm, mishaps>>
             \/ Mishap /\ UNCHANGED vm
             \/ /\ p \notin rt[h]
                /\ (vm[h][p].st # "none" /\ UNCHANGED mishaps) \/ Mishap
                /\ vm' = [vm EXCEPT ![h][p].disk = FALSE]
    /\ UNCHANGED <<registry, want, req, ghosts>>

\* waitReady returns when the VM answers ...
Ready(h) ==
    /\ agent[h].pc = "await" /\ vm[h][agent[h].at].st = "on"
    /\ agent' = [agent EXCEPT ![h].pc = "reconcile", ![h].at = None]
    /\ UNCHANGED <<registry, want, req, local, mishaps, ghosts>>

\* ... or when the agent was told to stop, and in no other case: the instance is
\* forgotten and its VM destroyed, an error of which is dropped: the domain may
\* stay, running or not.
NotReady(h) ==
    LET p == agent[h].at IN
    /\ agent[h].pc = "await" /\ agent[h].stop
    /\ agent' = [agent EXCEPT ![h].pc = "reconcile", ![h].at = None]
    /\ rt' = [rt EXCEPT ![h] = @ \ {p}]
    /\ \/ vm' = [vm EXCEPT ![h][p] = NoVM]
       \/ \E st \in {vm[h][p].st, "off"} : vm' = [vm EXCEPT ![h][p].st = st]
    /\ UNCHANGED <<registry, want, req, mishaps, ghosts>>

\* Every app is deployed, running or not: the one that runs is replaced.
DeployApp(h, p) ==
    /\ agent[h].pc = "reconcile" /\ agent[h].create = {} /\ p \in agent[h].deploy
    /\ agent' = [agent EXCEPT ![h].deploy = @ \ {p}]
    /\ \/ /\ p \in rt[h] /\ vm[h][p].st = "on"
          /\ \/ vm' = [vm EXCEPT ![h][p].app = TRUE] /\ UNCHANGED mishaps
             \/ vm' = [vm EXCEPT ![h][p].app = FALSE] /\ Mishap
       \/ /\ p \notin rt[h] \/ vm[h][p].st # "on"
          /\ UNCHANGED <<vm, mishaps>>
    /\ UNCHANGED <<registry, want, req, rt, ghosts>>

TickEnds(h) ==
    /\ agent[h].pc = "reconcile" /\ agent[h].create = {} /\ agent[h].deploy = {}
    /\ Proceed(h, "wait")
    /\ UNCHANGED <<registry, want, req, local, mishaps, ghosts>>

\* What the agent does by itself: the VM it waits for is not in its hands.
Tick(h) == \/ BeatGet(h) \/ BeatSet(h) \/ Pull(h) \/ NotReady(h) \/ TickEnds(h)
           \/ \E p \in Projects : CreateInstance(h, p) \/ DeployApp(h, p)
-----------------------------------------------------------------------------
(* What goes wrong.                                                         *)

\* The agent is told to stop.  It looks for that when it waits for a VM, and
\* between ticks, where it ends as one that dies does.
AgentStops(h) ==
    /\ Mishap
    /\ agent[h].pc = "await" /\ ~agent[h].stop
    /\ agent' = [agent EXCEPT ![h].stop = TRUE]
    /\ UNCHANGED <<registry, want, req, local, ghosts>>

\* Closing the runtime leaves the VMs; a new agent has an empty runtime.
Restarts(h) == /\ agent' = [agent EXCEPT ![h] = IdleAgent]
               /\ rt' = [rt EXCEPT ![h] = {}]
               /\ UNCHANGED <<registry, want, req, vm, ghosts>>

AgentEnds(h) ==
    /\ agent[h].pc = "wait" /\ agent[h].stop
    /\ Restarts(h)
    /\ UNCHANGED mishaps

\* It crashes or is killed, whatever it is doing.
AgentDies(h) == Mishap /\ Restarts(h)

PowersOff(h, p) ==
    /\ Mishap
    /\ vm[h][p].st = "on"
    /\ vm' = [vm EXCEPT ![h][p].st = "off", ![h][p].app = FALSE]
    /\ UNCHANGED <<registry, want, req, agent, rt, ghosts>>

AppEnds(h, p) ==
    /\ Mishap
    /\ vm[h][p].app
    /\ vm' = [vm EXCEPT ![h][p].app = FALSE]
    /\ UNCHANGED <<registry, want, req, agent, rt, ghosts>>
-----------------------------------------------------------------------------
Serve(c) == \/ \E n \in Ids : RegisterList(c, n)
            \/ RegisterSet(c) \/ DrainGet(c) \/ DrainSet(c) \/ Remove(c)

Next == \/ \E c \in Clients :
             \/ \E op \in {"register", "drain", "remove"}, h \in Hosts : Request(c, op, h)
             \/ Serve(c)
        \/ \E p \in Projects, what \in {"none", "project", "app"} : Define(p, what)
        \/ \E h \in Hosts : \/ Tick(h) \/ Ready(h)
                           \/ AgentStops(h) \/ AgentEnds(h) \/ AgentDies(h)
        \/ \E h \in Hosts, p \in Projects : PowersOff(h, p) \/ AppEnds(h, p)

\* The ticker fires again and again, and each call an agent makes in a tick
\* returns: the HTTP client gives up after ten seconds, a command to a VM after
\* thirty, and libvirt and the tools that make a disk answer.  That a VM becomes
\* ready is not assumed, nor that an agent is never told to stop.
Spec == Init /\ [][Next]_vars /\ \A h \in Hosts : WF_vars(Tick(h))
-----------------------------------------------------------------------------
(* Properties.                                                               *)

\* Type invariant of the registry, the requests and the agents.
TypeOK == /\ nodes \subseteq Ids
          /\ host \in [Ids -> Hosts \cup {None}]
          /\ status \in [Ids -> {"online", "draining"}]
          /\ want \in [Projects -> {"none", "project", "app"}]
          /\ req \in [Clients -> [pc : {"idle", "get", "set"},
                                  op : {"register", "drain", "remove"},
                                  host : Hosts \cup {None}, node : Ids \cup {None}]]
          /\ agent \in [Hosts -> [pc : {"wait", "set", "pull", "reconcile", "await"},
                                  node : Ids \cup {None},
                                  create : SUBSET Projects, deploy : SUBSET Projects,
                                  at : Projects \cup {None}, stop : BOOLEAN]]
          /\ \A h \in Hosts : (agent[h].pc = "set") <=> (agent[h].node # None)
          /\ \A h \in Hosts : (agent[h].pc = "await") <=> (agent[h].at # None)
          /\ rt \in [Hosts -> SUBSET Projects]
          /\ vm \in [Hosts -> [Projects -> [st : {"none", "on", "off"},
                                            disk : BOOLEAN, app : BOOLEAN]]]
          /\ mishaps \in 0..Mishaps
          /\ removed \subseteq Ids /\ raced \subseteq Ids

\* Two nodes of one hostname, or a removed node in the registry, come only from
\* requests that overlapped: one had read the registry when another changed it
\* (node_handlers.go:35-60, 112-127 and 163-176 read and write in two steps).
RegistrySound ==
    /\ \A m, n \in nodes : host[m] = host[n] /\ m # n => m \in raced \/ n \in raced
    /\ removed \cap nodes \subseteq raced

\* The VM an agent created and knows exists and keeps its disk, although a
\* creation that fails removes the directory of that name, whoever made it
\* (reconciler.go:37-40: instances that exist are not created).
KnownKeepsDisk ==
    \A h \in Hosts, p \in Projects :
        p \in rt[h] => vm[h][p].st # "none" /\ vm[h][p].disk

\* A drain is undone by a heartbeat of the node's own host and by nothing else: no
\* other node's agent, no registration of its name, no other request ever sets the
\* status of a node that is draining (node_handlers.go:122-124, 173).
DrainHolds ==
    [][\A n \in nodes : status[n] = "draining" /\ n \in nodes' /\ status'[n] # "draining"
                          => Beats(host[n], n)]_vars

\* A VM the agent has lost: it was restarted since, or the VM powered off, which
\* no tick repairs.
Abandoned(h, p) == \/ p \notin rt[h] /\ vm[h][p].st # "none"
                   \/ vm[h][p].st = "off"

\* The node is registered, the app desired, and its agent neither is told to stop
\* nor has lost the VM.
Wanted(h, p) == /\ GetNode(h) # {} /\ want[p] = "app"
                /\ ~agent[h].stop /\ ~Abandoned(h, p)

\* While an app is wanted on a node it runs there again and again, whatever beats
\* and answers are lost and however often a creation or a deployment fails or the
\* app ends, provided that no VM keeps the agent waiting for ever: a VM of any
\* project that never becomes ready ends its ticks, for nothing else bounds the
\* wait (reconciler.go:17-18: "creates missing instances and deploys missing apps";
\* commands/agent.go:99 gives no deadline, runtime.go:268-273).
WantedRuns ==
    \A h \in Hosts, p \in Projects :
        <>[]Wanted(h, p) /\ []<>(agent[h].pc # "await") => []<>(vm[h][p].app)
-----------------------------------------------------------------------------
(* The inductive invariant behind these properties, one part per idea.       *)

\* A request names a host; a node that is or was in the registry has one.
Named == /\ \A c \in Clients : req[c].pc # "idle" => req[c].host \in Hosts
         /\ \A n \in nodes \cup removed \cup raced : host[n] # None

\* The node that a drain or a heartbeat has read is still registered, unless it
\* was removed meanwhile.
StillThere == /\ \A c \in Clients : At(c, "set", "drain") => req[c].node \in nodes \cup raced
              /\ \A h \in Hosts : agent[h].pc = "set" => agent[h].node \in nodes \cup raced

\* A heartbeat is about a node of the name of its agent's host.
OwnBeats == \A h \in Hosts : agent[h].pc = "set" => host[agent[h].node] = h

\* The node that a registration is about to add is its own and new, and others
\* of its name were added since it looked.
Fresh(c) == LET n == req[c].node IN
    /\ n \in Ids \ (nodes \cup removed \cup raced) /\ host[n] = req[c].host
    /\ \A d \in Clients \ {c} : At(d, "set", "register") => req[d].node # n
    /\ \A m \in nodes : host[m] = host[n] => m \in raced

NewNodes == \A c \in Clients : At(c, "set", "register") => Fresh(c)

IInv == TypeOK /\ Named /\ StillThere /\ NewNodes /\ RegistrySound /\ KnownKeepsDisk
=============================================================================
