---------------------------- MODULE Nodes_proofs ----------------------------
(* Proofs about Nodes for any nodes, hosts, projects and requests, and any   *)
(* number of mishaps.                                                        *)
EXTENDS Nodes, TLAPS

USE NoneAssumption, MishapsAssumption

-----------------------------------------------------------------------------
(* Type correctness.                                                         *)

NodeRequest == [pc : {"idle", "get", "set"}, op : {"register", "drain", "remove"},
                host : Hosts \cup {None}, node : Ids \cup {None}]

AgentState == [pc : {"wait", "set", "pull", "reconcile", "await"}, node : Ids \cup {None},
               create : SUBSET Projects, deploy : SUBSET Projects,
               at : Projects \cup {None}, stop : BOOLEAN]

\* What its step says of the node it writes and the VM it waits for.
AtWork(a) == (a.pc = "set" <=> a.node # None) /\ (a.pc = "await" <=> a.at # None)

VM == [st : {"none", "on", "off"}, disk : BOOLEAN, app : BOOLEAN]

\* What the registry and the requests to it are, and what the agents are.
RegistryType == /\ nodes \subseteq Ids
                /\ host \in [Ids -> Hosts \cup {None}]
                /\ status \in [Ids -> {"online", "draining"}]
                /\ want \in [Projects -> {"none", "project", "app"}]
                /\ req \in [Clients -> NodeRequest]
                /\ removed \subseteq Ids /\ raced \subseteq Ids

AgentType == /\ agent \in [Hosts -> AgentState]
             /\ \A h \in Hosts : AtWork(agent[h])
             /\ rt \in [Hosts -> SUBSET Projects]
             /\ vm \in [Hosts -> [Projects -> VM]]
             /\ mishaps \in 0..Mishaps

\* The type invariant says just that.
LEMMA TypesApart == TypeOK <=> RegistryType /\ AgentType
<1>1. (\A h \in Hosts : AtWork(agent[h]))
        <=> /\ \A h \in Hosts : (agent[h].pc = "set") <=> (agent[h].node # None)
            /\ \A h \in Hosts : (agent[h].pc = "await") <=> (agent[h].at # None)
  BY DEF AtWork
<1>2. QED BY <1>1 DEF TypeOK, RegistryType, AgentType, NodeRequest, AgentState, VM

\* The changes the handlers make to a request.
LEMMA RequestSet ==
  ASSUME req \in [Clients -> NodeRequest], NEW c \in Clients, NEW n \in Ids,
         req' = [req EXCEPT ![c].pc = "set", ![c].node = n]
  PROVE  /\ req' \in [Clients -> NodeRequest]
         /\ req'[c].pc = "set" /\ req'[c].node = n
         /\ req'[c].op = req[c].op /\ req'[c].host = req[c].host
         /\ \A d \in Clients \ {c} : req'[d] = req[d]
<1> DEFINE x == req[c]
           y == [[x EXCEPT !.pc = "set"] EXCEPT !.node = n]
<1>1. x \in NodeRequest
  OBVIOUS
<1>2. y \in NodeRequest /\ y.pc = "set" /\ y.node = n /\ y.op = x.op /\ y.host = x.host
  BY <1>1 DEF NodeRequest
<1>3. req' = [req EXCEPT ![c] = y]
  OBVIOUS
<1> HIDE DEF y
<1>4. QED BY <1>2, <1>3

LEMMA RequestAnswered ==
  ASSUME req \in [Clients -> NodeRequest], NEW c \in Clients, Answer(c)
  PROVE  /\ req' \in [Clients -> NodeRequest]
         /\ req'[c].pc = "idle"
         /\ \A d \in Clients \ {c} : req'[d] = req[d]
<1>1. IdleReq \in NodeRequest /\ IdleReq.pc = "idle"
  BY DEF IdleReq, NodeRequest
<1>2. QED BY <1>1 DEF Answer

\* One VM of one host changes.
LEMMA OneVM ==
  ASSUME vm \in [Hosts -> [Projects -> VM]], NEW h \in Hosts, NEW p \in Projects,
         NEW x \in VM, vm' = [vm EXCEPT ![h][p] = x]
  PROVE  /\ vm' \in [Hosts -> [Projects -> VM]]
         /\ vm'[h][p] = x
         /\ \A g \in Hosts, q \in Projects : g # h \/ q # p => vm'[g][q] = vm[g][q]
  OBVIOUS

LEMMA InitIInv == Init => IInv
<1> SUFFICES ASSUME Init PROVE IInv
  OBVIOUS
<1>1. RegistryType
  BY DEF Init, RegistryType, IdleReq, NodeRequest
<1>2. AgentType
  <2>1. IdleAgent \in AgentState /\ NoVM \in VM
    BY DEF IdleAgent, AgentState, NoVM, VM
  <2>2. QED BY <2>1 DEF Init, AgentType, IdleAgent, AtWork
<1>3. QED BY <1>1, <1>2, TypesApart
          DEF Init, IInv, Named, StillThere, NewNodes, At, IdleReq, IdleAgent, RegistrySound,
              KnownKeepsDisk
-----------------------------------------------------------------------------
(* The registry (internal/api/node_handlers.go, internal/shared/state).      *)

\* What these say of the registry and of those who read it.
Registry == RegistryType /\ Named /\ StillThere /\ NewNodes /\ RegistrySound

\* A request arrives.
LEMMA RequestStep ==
  ASSUME IInv, NEW c \in Clients, NEW op \in {"register", "drain", "remove"}, NEW h \in Hosts,
         Request(c, op, h)
  PROVE  Registry'
<1>0. Registry
  BY TypesApart DEF IInv, Registry
<1> DEFINE r == [pc |-> "get", op |-> op, host |-> h, node |-> None]
<1>1. /\ req' = [req EXCEPT ![c] = r] /\ r \in NodeRequest /\ r.pc = "get" /\ r.host = h
      /\ UNCHANGED <<nodes, host, status, want, agent, removed, raced>>
  BY DEF Request, NodeRequest, registry, ghosts
<1> HIDE DEF r
<1>2. /\ req' \in [Clients -> NodeRequest] /\ req'[c].pc = "get" /\ req'[c].host = h
      /\ \A d \in Clients \ {c} : req'[d] = req[d]
  BY <1>0, <1>1 DEF Registry, RegistryType
<1>3. RegistryType' /\ Named' /\ RegistrySound'
  BY <1>0, <1>1, <1>2 DEF Registry, RegistryType, Named, RegistrySound
<1>4. StillThere' /\ NewNodes'
  BY <1>0, <1>1, <1>2 DEF Registry, StillThere, NewNodes, Fresh, At
<1>5. QED BY <1>3, <1>4 DEF Registry

\* The handlers' steps.  A node is chosen for a name that was free, ...
LEMMA RegisterListStep ==
  ASSUME IInv, NEW c \in Clients, NEW n \in Ids, RegisterList(c, n)
  PROVE  Registry'
<1>0. Registry
  BY TypesApart DEF IInv, Registry
<1>1. /\ At(c, "get", "register") /\ host[n] = None
      /\ UNCHANGED <<nodes, status, want, agent, removed, raced>>
  BY DEF RegisterList, ghosts
<1>2. CASE Answer(c) /\ UNCHANGED host
  <2>1. /\ req' \in [Clients -> NodeRequest] /\ req'[c].pc = "idle"
        /\ \A d \in Clients \ {c} : req'[d] = req[d]
    BY <1>0, <1>2, RequestAnswered DEF Registry, RegistryType
  <2>2. RegistryType' /\ Named' /\ RegistrySound'
    BY <1>0, <1>1, <1>2, <2>1 DEF Registry, RegistryType, Named, RegistrySound
  <2>3. StillThere' /\ NewNodes'
    BY <1>0, <1>1, <1>2, <2>1 DEF Registry, StillThere, NewNodes, Fresh, At
  <2>4. QED BY <2>2, <2>3 DEF Registry
<1>3. CASE /\ ~Taken(req[c].host)
           /\ req' = [req EXCEPT ![c].pc = "set", ![c].node = n]
           /\ host' = [host EXCEPT ![n] = req[c].host]
  <2>1. /\ req' \in [Clients -> NodeRequest]
        /\ req'[c].pc = "set" /\ req'[c].node = n
        /\ req'[c].op = "register" /\ req'[c].host = req[c].host
        /\ \A d \in Clients \ {c} : req'[d] = req[d]
    BY <1>0, <1>1, <1>3, RequestSet DEF Registry, RegistryType, At
  <2>2. /\ req[c].host \in Hosts /\ host'[n] = req[c].host
        /\ host' \in [Ids -> Hosts \cup {None}]
        /\ \A m \in Ids \ {n} : host'[m] = host[m]
    BY <1>0, <1>1, <1>3 DEF Registry, RegistryType, Named, At
  <2>3. n \notin nodes \cup removed \cup raced
    BY <1>0, <1>1 DEF Registry, Named
  <2>4. \A m \in nodes : host[m] # req[c].host
    BY <1>3 DEF Taken, GetNode
  <2>5. nodes \subseteq Ids /\ removed \subseteq Ids /\ raced \subseteq Ids
    BY <1>0 DEF Registry, RegistryType
  <2>6. RegistryType'
    BY <1>0, <1>1, <2>1, <2>2 DEF Registry, RegistryType
  <2>7. Named'
    <3>1. \A d \in Clients : req'[d].pc # "idle" => req'[d].host \in Hosts
      BY <1>0, <2>1, <2>2 DEF Registry, Named
    <3>2. \A m \in nodes \cup removed \cup raced : host'[m] # None
      BY <1>0, <2>2, <2>3, <2>5 DEF Registry, Named
    <3>3. QED BY <1>1, <3>1, <3>2 DEF Named
  <2>8. RegistrySound'
    BY <1>0, <1>1, <2>2, <2>3, <2>5 DEF Registry, RegistrySound
  <2>9. StillThere'
    BY <1>0, <1>1, <2>1 DEF Registry, StillThere, At
  <2>10. ASSUME NEW d \in Clients, At(d, "set", "register")'
         PROVE  Fresh(d)'
    <3>1. CASE d = c
      <4>1. \A e \in Clients \ {c} : At(e, "set", "register")' => req'[e].node # n
        <5>1. ASSUME NEW e \in Clients \ {c}, At(e, "set", "register")'
              PROVE  req'[e].node # n
          <6>1. Fresh(e) /\ req[e].host \in Hosts
            BY <1>0, <2>1, <5>1 DEF Registry, NewNodes, Named, At
          <6>2. host[req[e].node] # None
            BY <6>1 DEF Fresh
          <6>3. QED BY <1>1, <2>1, <6>2
        <5>2. QED BY <5>1
      <4>2. \A m \in nodes : host'[m] # host'[n]
        BY <2>2, <2>3, <2>4, <2>5
      <4>3. QED BY <1>1, <2>1, <2>2, <2>3, <3>1, <4>1, <4>2 DEF Fresh
    <3>2. CASE d # c
      <4>1. Fresh(d) /\ req'[d] = req[d] /\ req[d].host \in Hosts
        BY <1>0, <2>1, <2>10, <3>2 DEF Registry, NewNodes, Named, At
      <4>2. req[d].node # n /\ req[d].node \in Ids
        BY <1>1, <4>1 DEF Fresh
      <4>3. \A e \in Clients \ {d} : At(e, "set", "register")' => req'[e].node # req[d].node
        BY <2>1, <4>1, <4>2 DEF Fresh, At
      <4>4. \A m \in nodes : host'[m] = host'[req[d].node] => m \in raced
        BY <2>2, <2>3, <2>5, <4>1, <4>2 DEF Fresh
      <4>5. QED BY <1>1, <2>2, <4>1, <4>2, <4>3, <4>4 DEF Fresh
    <3>3. QED BY <3>1, <3>2
  <2>11. QED BY <2>6, <2>7, <2>8, <2>9, <2>10 DEF Registry, NewNodes
<1>4. QED BY <1>2, <1>3 DEF RegisterList

\* ... and added, whatever has been added since: requests that have not written
\* yet see it as a race.
LEMMA RegisterSetStep ==
  ASSUME IInv, NEW c \in Clients, RegisterSet(c)
  PROVE  Registry'
<1>0. Registry
  BY TypesApart DEF IInv, Registry
<1> DEFINE n == req[c].node
<1>1. /\ At(c, "set", "register") /\ Fresh(c) /\ n \in Ids
      /\ nodes' = nodes \cup {n} /\ status' = [status EXCEPT ![n] = "online"]
      /\ raced' = (IF \E d \in Clients \ {c} : Holds(d, n) THEN raced \cup {n} ELSE raced)
      /\ UNCHANGED <<host, want, agent, removed>>
  BY <1>0 DEF RegisterSet, SetNode, Registry, NewNodes, Fresh
<1>2. /\ req' \in [Clients -> NodeRequest] /\ req'[c].pc = "idle"
      /\ \A d \in Clients \ {c} : req'[d] = req[d]
  BY <1>0, RequestAnswered DEF RegisterSet, Registry, RegistryType
<1> HIDE DEF n
<1>3. RegistryType'
  BY <1>0, <1>1, <1>2 DEF Registry, RegistryType
<1>4. host[n] = req[c].host /\ host[n] \in Hosts
  BY <1>0, <1>1 DEF Registry, Named, Fresh, At, n
<1>5. Named'
  BY <1>0, <1>1, <1>2, <1>4 DEF Registry, Named
<1>6. StillThere'
  BY <1>0, <1>1, <1>2 DEF Registry, StillThere, At
<1>7. /\ n \notin nodes \cup removed \cup raced
      /\ \A m \in nodes : host[m] = host[n] => m \in raced
      /\ \A d \in Clients \ {c} : At(d, "set", "register") => req[d].node # n
  BY <1>1 DEF Fresh, n
<1>8. RegistrySound'
  <2>1. \A l, m \in nodes' : host[l] = host[m] /\ l # m => l \in raced \/ m \in raced
    BY <1>0, <1>1, <1>7 DEF Registry, RegistrySound
  <2>2. raced \subseteq raced'
    BY <1>1
  <2>3. removed \cap nodes' \subseteq raced'
    BY <1>0, <1>1, <1>7, <2>2 DEF Registry, RegistrySound
  <2>4. QED BY <1>1, <2>1, <2>2, <2>3 DEF RegistrySound
<1>9. ASSUME NEW d \in Clients, At(d, "set", "register")'
      PROVE  Fresh(d)'
  <2>1. d # c
    BY <1>2, <1>9 DEF At
  <2>2. Fresh(d) /\ req'[d] = req[d] /\ req[d].node # n /\ req[d].pc = "set"
    BY <1>0, <1>2, <1>7, <1>9, <2>1 DEF Registry, NewNodes, At
  <2>3. host[req[d].node] = host[n] => n \in raced'
    BY <1>1, <2>1, <2>2 DEF Fresh, Holds
  <2>4. \A m \in nodes' : host[m] = host[req[d].node] => m \in raced'
    BY <1>1, <2>2, <2>3 DEF Fresh
  <2>5. req[d].node \notin nodes' \cup removed \cup raced'
    BY <1>1, <2>2 DEF Fresh
  <2>6. \A e \in Clients \ {d} : At(e, "set", "register")' => req'[e].node # req[d].node
    BY <1>2, <2>2 DEF Fresh, At
  <2>7. QED BY <1>1, <2>2, <2>4, <2>5, <2>6 DEF Fresh
<1>10. QED BY <1>3, <1>5, <1>6, <1>8, <1>9 DEF Registry, NewNodes

LEMMA DrainGetStep ==
  ASSUME IInv, NEW c \in Clients, DrainGet(c)
  PROVE  Registry'
<1>0. Registry
  BY TypesApart DEF IInv, Registry
<1>1. /\ At(c, "get", "drain")
      /\ UNCHANGED <<nodes, host, status, want, agent, removed, raced>>
  BY DEF DrainGet, registry, ghosts
<1>2. /\ req' \in [Clients -> NodeRequest]
      /\ \A d \in Clients \ {c} : req'[d] = req[d]
      /\ \/ req'[c].pc = "idle"
         \/ /\ req'[c].pc = "set" /\ req'[c].op = "drain" /\ req'[c].node \in nodes
            /\ req'[c].host = req[c].host
  <2>1. CASE Answer(c)
    BY <1>0, <2>1, RequestAnswered DEF Registry, RegistryType
  <2>2. ASSUME NEW n \in GetNode(req[c].host),
               req' = [req EXCEPT ![c].pc = "set", ![c].node = n]
        PROVE  /\ req' \in [Clients -> NodeRequest]
               /\ \A d \in Clients \ {c} : req'[d] = req[d]
               /\ req'[c].pc = "set" /\ req'[c].op = "drain" /\ req'[c].node \in nodes
               /\ req'[c].host = req[c].host
    <3>1. n \in nodes /\ n \in Ids
      BY <1>0 DEF GetNode, Registry, RegistryType
    <3>2. req \in [Clients -> NodeRequest] /\ req[c].op = "drain"
      BY <1>0, <1>1 DEF Registry, RegistryType, At
    <3>3. /\ req' \in [Clients -> NodeRequest]
          /\ req'[c].pc = "set" /\ req'[c].node = n
          /\ req'[c].op = req[c].op /\ req'[c].host = req[c].host
          /\ \A d \in Clients \ {c} : req'[d] = req[d]
      BY <2>2, <3>1, <3>2, RequestSet
    <3>4. QED BY <3>1, <3>2, <3>3
  <2>3. QED BY <2>1, <2>2 DEF DrainGet
<1>3. RegistryType' /\ RegistrySound'
  BY <1>0, <1>1, <1>2 DEF Registry, RegistryType, RegistrySound
<1>4. Named' /\ StillThere'
  BY <1>0, <1>1, <1>2 DEF Registry, Named, StillThere, At
<1>5. NewNodes'
  BY <1>0, <1>1, <1>2 DEF Registry, NewNodes, Fresh, At
<1>6. QED BY <1>3, <1>4, <1>5 DEF Registry

\* A node that is written back was read: it is not one about to be added, and if
\* it was removed meanwhile that is a race.
LEMMA WrittenBack ==
  ASSUME Registry, NEW n \in nodes \cup raced, nodes' = nodes \cup {n},
         UNCHANGED <<host, removed, raced>>
  PROVE  /\ RegistrySound'
         /\ \A c \in Clients : At(c, "set", "register") =>
               /\ req[c].node \in Ids \ (nodes' \cup removed \cup raced)
               /\ \A m \in nodes' : host[m] = host[req[c].node] => m \in raced
<1>1. RegistrySound'
  BY DEF Registry, RegistrySound
<1>2. QED BY <1>1 DEF Registry, NewNodes, Fresh

LEMMA DrainSetStep ==
  ASSUME IInv, NEW c \in Clients, DrainSet(c)
  PROVE  Registry'
<1>0. Registry
  BY TypesApart DEF IInv, Registry
<1> DEFINE n == req[c].node
<1>1. /\ n \in nodes \cup raced /\ n \in Ids
      /\ nodes' = nodes \cup {n} /\ status' = [status EXCEPT ![n] = "draining"]
      /\ UNCHANGED <<host, want, agent, removed, raced>>
  BY <1>0 DEF DrainSet, SetNode, Registry, RegistryType, StillThere, ghosts
<1>2. /\ req' \in [Clients -> NodeRequest] /\ req'[c].pc = "idle"
      /\ \A d \in Clients \ {c} : req'[d] = req[d]
  BY <1>0, RequestAnswered DEF DrainSet, Registry, RegistryType
<1> HIDE DEF n
<1>3. RegistryType' /\ Named' /\ StillThere'
  BY <1>0, <1>1, <1>2 DEF Registry, RegistryType, Named, StillThere, At
<1>4. RegistrySound' /\ NewNodes'
  BY <1>0, <1>1, <1>2, WrittenBack DEF Registry, NewNodes, Fresh, At
<1>5. QED BY <1>3, <1>4 DEF Registry

\* A removal that overlaps the request of someone who has read the node is a race.
LEMMA RemoveStep ==
  ASSUME IInv, NEW c \in Clients, Remove(c)
  PROVE  Registry'
<1>0. Registry
  BY TypesApart DEF IInv, Registry
<1>1. UNCHANGED <<host, want, agent>> /\ At(c, "get", "remove")
  BY DEF Remove
<1>2. /\ req' \in [Clients -> NodeRequest] /\ req'[c].pc = "idle"
      /\ \A d \in Clients \ {c} : req'[d] = req[d]
  BY <1>0, RequestAnswered DEF Remove, Registry, RegistryType
<1>3. CASE UNCHANGED <<nodes, status, removed, raced>>
  <2>1. RegistryType' /\ Named' /\ StillThere' /\ RegistrySound'
    BY <1>0, <1>1, <1>2, <1>3 DEF Registry, RegistryType, Named, StillThere, At, RegistrySound
  <2>2. NewNodes'
    BY <1>0, <1>1, <1>2, <1>3 DEF Registry, NewNodes, Fresh, At
  <2>3. QED BY <2>1, <2>2 DEF Registry
<1>4. ASSUME NEW n \in nodes, nodes' = nodes \ {n}, status' = [status EXCEPT ![n] = "online"],
             removed' = removed \cup {n},
             raced' = IF \/ \E d \in Clients \ {c} : Holds(d, n)
                         \/ \E h \in Hosts : Beats(h, n)
                      THEN raced \cup {n} ELSE raced
      PROVE  Registry'
  <2>1. RegistryType' /\ Named'
    BY <1>0, <1>1, <1>2, <1>4 DEF Registry, RegistryType, Named
  <2>2. RegistrySound'
    BY <1>0, <1>1, <1>4 DEF Registry, RegistrySound
  <2>3. StillThere'
    <3>1. ASSUME NEW d \in Clients, At(d, "set", "drain")'
          PROVE  req'[d].node \in nodes' \cup raced'
      <4>1. d # c /\ req'[d] = req[d] /\ At(d, "set", "drain")
        BY <1>2, <3>1 DEF At
      <4>2. req[d].node \in nodes \cup raced
        BY <1>0, <4>1 DEF Registry, StillThere
      <4>3. req[d].node = n => n \in raced'
        BY <1>4, <4>1 DEF Holds, At
      <4>4. QED BY <1>4, <4>1, <4>2, <4>3
    <3>2. ASSUME NEW h \in Hosts, agent'[h].pc = "set"
          PROVE  agent'[h].node \in nodes' \cup raced'
      <4>1. agent[h].node \in nodes \cup raced
        BY <1>0, <1>1, <3>2 DEF Registry, StillThere
      <4>2. agent[h].node = n => n \in raced'
        BY <1>1, <1>4, <3>2 DEF Beats
      <4>3. QED BY <1>1, <1>4, <4>1, <4>2
    <3>3. QED BY <3>1, <3>2 DEF StillThere
  <2>4. ASSUME NEW d \in Clients, At(d, "set", "register")'
        PROVE  Fresh(d)'
    <3>1. d # c /\ req'[d] = req[d] /\ Fresh(d)
      BY <1>0, <1>2, <2>4 DEF Registry, NewNodes, At
    <3>2. req[d].node \notin nodes' \cup removed' \cup raced'
      BY <1>4, <3>1 DEF Fresh
    <3>3. \A e \in Clients \ {d} : At(e, "set", "register")' => req'[e].node # req[d].node
      BY <1>2, <3>1 DEF Fresh, At
    <3>4. \A m \in nodes' : host[m] = host[req[d].node] => m \in raced'
      BY <1>4, <3>1 DEF Fresh
    <3>5. QED BY <1>1, <3>1, <3>2, <3>3, <3>4 DEF Fresh
  <2>5. QED BY <2>1, <2>2, <2>3, <2>4 DEF Registry, NewNodes
<1>5. QED BY <1>3, <1>4 DEF Remove, GetNode, ghosts

\* Projects come and go without the registry.
LEMMA DefineStep ==
  ASSUME IInv, NEW p \in Projects, NEW what \in {"none", "project", "app"}, Define(p, what)
  PROVE  Registry'
<1>0. Registry
  BY TypesApart DEF IInv, Registry
<1>1. /\ want' \in [Projects -> {"none", "project", "app"}]
      /\ UNCHANGED <<nodes, host, status, req, agent, removed, raced>>
  BY <1>0 DEF Define, Registry, RegistryType, registry, ghosts
<1>2. RegistryType' /\ Named' /\ StillThere' /\ RegistrySound'
  BY <1>0, <1>1 DEF Registry, RegistryType, Named, StillThere, At, RegistrySound
<1>3. NewNodes'
  BY <1>0, <1>1 DEF Registry, NewNodes, Fresh, At
<1>4. QED BY <1>2, <1>3 DEF Registry

\* Steps of an agent that write nothing leave the registry alone; one that is
\* about to write has read a node of it.
LEMMA AgentLeavesRegistry ==
  ASSUME Registry, UNCHANGED <<nodes, host, status, want, req, removed, raced>>,
         \A h \in Hosts : agent'[h].pc = "set" => agent'[h].node \in nodes \cup raced
  PROVE  Registry'
<1>1. RegistryType' /\ Named' /\ StillThere' /\ RegistrySound'
  BY DEF Registry, RegistryType, Named, StillThere, At, RegistrySound
<1>2. NewNodes'
  BY DEF Registry, NewNodes, Fresh, At
<1>3. QED BY <1>1, <1>2 DEF Registry

\* A heartbeat writes a node back.
LEMMA BeatSetRegistry ==
  ASSUME IInv, NEW h \in Hosts, BeatSet(h)
  PROVE  Registry'
<1>0. Registry /\ AgentType
  BY TypesApart DEF IInv, Registry
<1> DEFINE n == agent[h].node
<1>1. /\ n \in nodes \cup raced /\ n \in Ids
      /\ nodes' = nodes \cup {n} /\ status' = [status EXCEPT ![n] = "online"]
      /\ UNCHANGED <<host, want, req, removed, raced>>
  BY <1>0 DEF BeatSet, SetNode, Registry, RegistryType, StillThere, ghosts
<1>2. \A g \in Hosts : agent'[g].pc = "set" => agent'[g] = agent[g]
  BY <1>0 DEF BeatSet, AgentType, AgentState
<1> HIDE DEF n
<1>3. RegistryType' /\ Named' /\ StillThere'
  BY <1>0, <1>1, <1>2 DEF Registry, RegistryType, Named, StillThere, At
<1>4. RegistrySound' /\ NewNodes'
  BY <1>0, <1>1, WrittenBack DEF Registry, NewNodes, Fresh, At
<1>5. QED BY <1>3, <1>4 DEF Registry
-----------------------------------------------------------------------------
(* The agents and their VMs (internal/agent).                                *)

\* A step that changes one agent, told from what it becomes.
LEMMA OneAgent ==
  ASSUME AgentType, NEW h \in Hosts, NEW a \in AgentState, AtWork(a),
         agent' = [agent EXCEPT ![h] = a]
  PROVE  /\ agent' \in [Hosts -> AgentState]
         /\ \A g \in Hosts : AtWork(agent'[g])
         /\ agent'[h] = a
         /\ \A g \in Hosts \ {h} : agent'[g] = agent[g]
<1>1. /\ agent' \in [Hosts -> AgentState] /\ agent'[h] = a
      /\ \A g \in Hosts \ {h} : agent'[g] = agent[g]
  BY DEF AgentType
<1>2. \A g \in Hosts \ {h} : AtWork(agent'[g])
  BY <1>1 DEF AgentType
<1>3. QED BY <1>1, <1>2

\* The ways in which an agent goes on to a step that does not write a node.
Onward(h, pc, C, D) ==
    \/ agent[h].pc \in {"wait", "pull", "reconcile"} /\ Proceed(h, pc)
    \/ /\ agent[h].pc = "pull"
       /\ agent' = [agent EXCEPT ![h].pc = "reconcile", ![h].create = C, ![h].deploy = D]
    \/ agent[h].pc = "set" /\ agent' = [agent EXCEPT ![h].pc = pc, ![h].node = None]
    \/ agent[h].pc = "await" /\ agent' = [agent EXCEPT ![h].pc = "reconcile", ![h].at = None]
    \/ agent[h].pc = "await" /\ agent' = [agent EXCEPT ![h].stop = TRUE]
    \/ agent[h].pc = "reconcile" /\ agent' = [agent EXCEPT ![h].create = C]
    \/ agent[h].pc = "reconcile" /\ agent' = [agent EXCEPT ![h].deploy = D]
    \/ /\ agent[h].pc = "reconcile"
       /\ \E p \in Projects :
             agent' = [agent EXCEPT ![h].create = C, ![h].pc = "await", ![h].at = p]
    \/ agent' = [agent EXCEPT ![h] = IdleAgent]

\* What it becomes, told as one record.
LEMMA BecomesOne ==
  ASSUME AgentType, NEW h \in Hosts, NEW pc \in {"wait", "pull"},
         NEW C \in SUBSET Projects, NEW D \in SUBSET Projects, Onward(h, pc, C, D)
  PROVE  \E a \in AgentState : /\ AtWork(a) /\ a.pc # "set"
                               /\ agent' = [agent EXCEPT ![h] = a]
<1> DEFINE x == agent[h]
           Goal == \E a \in AgentState : /\ AtWork(a) /\ a.pc # "set"
                                          /\ agent' = [agent EXCEPT ![h] = a]
<1>1. x \in AgentState /\ AtWork(x) /\ agent \in [Hosts -> AgentState]
  BY DEF AgentType
<1>2. CASE x.pc \in {"wait", "pull", "reconcile"} /\ Proceed(h, pc)
  <2> DEFINE a == [x EXCEPT !.pc = pc]
  <2>1. a \in AgentState /\ AtWork(a) /\ a.pc # "set"
    BY <1>1, <1>2 DEF AgentState, AtWork
  <2>2. agent' = [agent EXCEPT ![h] = a]
    BY <1>1, <1>2 DEF Proceed
  <2>3. QED BY <2>1, <2>2
<1>3. CASE /\ x.pc = "pull"
           /\ agent' = [agent EXCEPT ![h].pc = "reconcile", ![h].create = C, ![h].deploy = D]
  <2> DEFINE a == [[[x EXCEPT !.pc = "reconcile"] EXCEPT !.create = C] EXCEPT !.deploy = D]
  <2>1. a \in AgentState /\ AtWork(a) /\ a.pc # "set"
    BY <1>1, <1>3 DEF AgentState, AtWork
  <2>2. agent' = [agent EXCEPT ![h] = a]
    BY <1>1, <1>3
  <2>3. QED BY <2>1, <2>2
<1>4. CASE x.pc = "set" /\ agent' = [agent EXCEPT ![h].pc = pc, ![h].node = None]
  <2> DEFINE a == [[x EXCEPT !.pc = pc] EXCEPT !.node = None]
  <2>1. a \in AgentState /\ AtWork(a) /\ a.pc # "set"
    BY <1>1, <1>4 DEF AgentState, AtWork
  <2>2. agent' = [agent EXCEPT ![h] = a]
    BY <1>1, <1>4
  <2>3. QED BY <2>1, <2>2
<1>5. CASE x.pc = "await" /\ agent' = [agent EXCEPT ![h].pc = "reconcile", ![h].at = None]
  <2> DEFINE a == [[x EXCEPT !.pc = "reconcile"] EXCEPT !.at = None]
  <2>1. a \in AgentState /\ AtWork(a) /\ a.pc # "set"
    BY <1>1, <1>5 DEF AgentState, AtWork
  <2>2. agent' = [agent EXCEPT ![h] = a]
    BY <1>1, <1>5
  <2>3. QED BY <2>1, <2>2
<1>6. CASE x.pc = "reconcile" /\ agent' = [agent EXCEPT ![h].create = C]
  <2> DEFINE a == [x EXCEPT !.create = C]
  <2>1. a \in AgentState /\ AtWork(a) /\ a.pc # "set"
    BY <1>1, <1>6 DEF AgentState, AtWork
  <2>2. agent' = [agent EXCEPT ![h] = a]
    BY <1>1, <1>6
  <2>3. QED BY <2>1, <2>2
<1>7. CASE x.pc = "reconcile" /\ agent' = [agent EXCEPT ![h].deploy = D]
  <2> DEFINE a == [x EXCEPT !.deploy = D]
  <2>1. a \in AgentState /\ AtWork(a) /\ a.pc # "set"
    BY <1>1, <1>7 DEF AgentState, AtWork
  <2>2. agent' = [agent EXCEPT ![h] = a]
    BY <1>1, <1>7
  <2>3. QED BY <2>1, <2>2
<1>8. ASSUME x.pc = "reconcile", NEW p \in Projects,
             agent' = [agent EXCEPT ![h].create = C, ![h].pc = "await", ![h].at = p]
      PROVE  Goal
  <2> DEFINE a == [[[x EXCEPT !.create = C] EXCEPT !.pc = "await"] EXCEPT !.at = p]
  <2>1. a \in AgentState /\ AtWork(a) /\ a.pc # "set"
    BY <1>1, <1>8 DEF AgentState, AtWork
  <2>2. agent' = [agent EXCEPT ![h] = a]
    BY <1>1, <1>8
  <2>3. QED BY <2>1, <2>2
<1>9. CASE x.pc = "await" /\ agent' = [agent EXCEPT ![h].stop = TRUE]
  <2> DEFINE a == [x EXCEPT !.stop = TRUE]
  <2>1. a \in AgentState /\ AtWork(a) /\ a.pc # "set"
    BY <1>1, <1>9 DEF AgentState, AtWork
  <2>2. agent' = [agent EXCEPT ![h] = a]
    BY <1>1, <1>9
  <2>3. QED BY <2>1, <2>2
<1>10. CASE agent' = [agent EXCEPT ![h] = IdleAgent]
  <2>1. IdleAgent \in AgentState /\ AtWork(IdleAgent) /\ IdleAgent.pc # "set"
    BY DEF IdleAgent, AgentState, AtWork
  <2>2. QED BY <1>10, <2>1
<1> HIDE DEF x
<1>11. QED BY <1>2, <1>3, <1>4, <1>5, <1>6, <1>7, <1>8, <1>9, <1>10 DEF x, Onward

LEMMA GoesOn ==
  ASSUME AgentType, NEW h \in Hosts, NEW pc \in {"wait", "pull"},
         NEW C \in SUBSET Projects, NEW D \in SUBSET Projects, Onward(h, pc, C, D)
  PROVE  /\ agent' \in [Hosts -> AgentState]
         /\ \A g \in Hosts : AtWork(agent'[g])
         /\ agent'[h].pc # "set"
         /\ \A g \in Hosts \ {h} : agent'[g] = agent[g]
<1>1. PICK a \in AgentState : /\ AtWork(a) /\ a.pc # "set"
                              /\ agent' = [agent EXCEPT ![h] = a]
  BY BecomesOne
<1>2. QED BY <1>1, OneAgent

\* The heartbeat, the desired state and the end of a wait for a VM that answers:
\* no VM changes.
LEMMA BeatStep ==
  ASSUME IInv, NEW h \in Hosts,
         BeatGet(h) \/ BeatSet(h) \/ Pull(h) \/ TickEnds(h) \/ Ready(h) \/ AgentStops(h)
  PROVE  Registry' /\ AgentType' /\ KnownKeepsDisk'
<1>0. Registry /\ AgentType /\ KnownKeepsDisk
  BY TypesApart DEF IInv, Registry
<1>1. UNCHANGED <<rt, vm>> /\ mishaps' \in 0..Mishaps
  BY <1>0 DEF BeatGet, BeatSet, Pull, TickEnds, Ready, AgentStops, Mishap, local, AgentType
<1>2. KnownKeepsDisk'
  BY <1>0, <1>1 DEF KnownKeepsDisk
<1>3. ASSUME NEW pc \in {"wait", "pull"},
             NEW C \in SUBSET Projects, NEW D \in SUBSET Projects, Onward(h, pc, C, D)
      PROVE  /\ AgentType'
             /\ \A g \in Hosts : agent'[g].pc = "set" => agent'[g] = agent[g]
  <2>1. /\ agent' \in [Hosts -> AgentState]
        /\ \A g \in Hosts : AtWork(agent'[g])
        /\ agent'[h].pc # "set"
        /\ \A g \in Hosts \ {h} : agent'[g] = agent[g]
    BY <1>0, <1>3, GoesOn
  <2>2. QED BY <1>0, <1>1, <2>1 DEF AgentType
<1>4. ASSUME NEW pc \in {"wait", "pull"},
             NEW C \in SUBSET Projects, NEW D \in SUBSET Projects, Onward(h, pc, C, D),
             UNCHANGED <<nodes, host, status, want, req, removed, raced>>
      PROVE  AgentType' /\ Registry'
  <2>1. AgentType' /\ \A g \in Hosts : agent'[g].pc = "set" => agent'[g] = agent[g]
    BY <1>3, <1>4
  <2>2. QED BY <1>0, <1>4, <2>1, AgentLeavesRegistry DEF Registry, StillThere
<1>5. {} \in SUBSET Projects /\ "wait" \in {"wait", "pull"} /\ "pull" \in {"wait", "pull"}
  OBVIOUS
<1>6. CASE BeatSet(h)
  <2>1. Onward(h, "pull", {}, {})
    BY <1>6 DEF BeatSet, Onward
  <2>2. AgentType'
    BY <1>3, <1>5, <2>1
  <2>3. QED BY <1>2, <1>6, <2>2, BeatSetRegistry
<1>7. ASSUME NEW n \in GetNode(h), agent[h].pc = "wait",
             agent' = [agent EXCEPT ![h].pc = "set", ![h].node = n],
             UNCHANGED <<nodes, host, status, want, req, removed, raced>>
      PROVE  AgentType' /\ Registry'
  <2> DEFINE x == agent[h]
             a == [[x EXCEPT !.pc = "set"] EXCEPT !.node = n]
  <2>1. n \in nodes /\ n \in Ids /\ n # None
    BY <1>0 DEF GetNode, Registry, RegistryType
  <2>2. x \in AgentState /\ AtWork(x) /\ agent \in [Hosts -> AgentState]
    BY <1>0 DEF AgentType
  <2>3. a \in AgentState /\ AtWork(a) /\ a.node = n
    BY <1>7, <2>1, <2>2 DEF AgentState, AtWork
  <2>4. agent' = [agent EXCEPT ![h] = a]
    BY <1>7, <2>2
  <2> HIDE DEF a
  <2>5. /\ agent' \in [Hosts -> AgentState]
        /\ \A g \in Hosts : AtWork(agent'[g])
        /\ agent'[h] = a
        /\ \A g \in Hosts \ {h} : agent'[g] = agent[g]
    BY <1>0, <2>3, <2>4, OneAgent
  <2>6. AgentType'
    BY <1>0, <1>1, <2>5 DEF AgentType
  <2>7. \A g \in Hosts : agent'[g].pc = "set" => agent'[g].node \in nodes \cup raced
    BY <1>0, <2>1, <2>3, <2>5 DEF Registry, StillThere
  <2>8. QED BY <1>0, <1>7, <2>6, <2>7, AgentLeavesRegistry
<1>8. CASE BeatGet(h)
  <2>1. UNCHANGED <<nodes, host, status, want, req, removed, raced>> /\ agent[h].pc = "wait"
    BY <1>8 DEF BeatGet, registry, ghosts
  <2>2. Proceed(h, "pull") => Onward(h, "pull", {}, {})
    BY <2>1 DEF Onward
  <2>3. Proceed(h, "pull") => AgentType' /\ Registry'
    BY <1>4, <1>5, <2>1, <2>2
  <2>4. QED BY <1>2, <1>7, <1>8, <2>1, <2>3 DEF BeatGet
<1>9. CASE Pull(h)
  <2>1. UNCHANGED <<nodes, host, status, want, req, removed, raced>> /\ agent[h].pc = "pull"
    BY <1>9 DEF Pull, registry, ghosts
  <2>2. CreateMissing(h) \in SUBSET Projects /\ DesiredApps \in SUBSET Projects
    BY DEF CreateMissing, DesiredProjects, DesiredApps
  <2>3. Onward(h, "wait", CreateMissing(h), DesiredApps)
    BY <1>9, <2>1 DEF Pull, Onward
  <2>4. QED BY <1>2, <1>4, <1>5, <2>1, <2>2, <2>3
<1>10. CASE TickEnds(h) \/ Ready(h) \/ AgentStops(h)
  <2>1. UNCHANGED <<nodes, host, status, want, req, removed, raced>>
    BY <1>10 DEF TickEnds, Ready, AgentStops, registry, ghosts
  <2>2. Onward(h, "wait", {}, {})
    BY <1>10 DEF TickEnds, Ready, AgentStops, Onward
  <2>3. QED BY <1>2, <1>4, <1>5, <2>1, <2>2
<1>11. QED BY <1>6, <1>8, <1>9, <1>10

\* A VM loses its disk only when the agent does not know it.
LEMMA CreateStep ==
  ASSUME IInv, NEW h \in Hosts, NEW p \in Projects, CreateInstance(h, p)
  PROVE  Registry' /\ AgentType' /\ KnownKeepsDisk'
<1>0. Registry /\ AgentType /\ KnownKeepsDisk
  BY TypesApart DEF IInv, Registry
<1>1. UNCHANGED <<nodes, host, status, want, req, removed, raced>>
  BY DEF CreateInstance, registry, ghosts
<1>2. /\ agent' \in [Hosts -> AgentState]
      /\ \A g \in Hosts : AtWork(agent'[g])
      /\ \A g \in Hosts : agent'[g].pc = "set" => agent'[g] = agent[g]
  <2> DEFINE C == agent[h].create \ {p}
  <2>1. C \in SUBSET Projects /\ {} \in SUBSET Projects /\ "wait" \in {"wait", "pull"}
    BY <1>0 DEF AgentType, AgentState
  <2>2. Onward(h, "wait", C, {})
    BY DEF CreateInstance, StartVM, Onward
  <2> HIDE DEF C
  <2>3. /\ agent' \in [Hosts -> AgentState]
        /\ \A g \in Hosts : AtWork(agent'[g])
        /\ agent'[h].pc # "set"
        /\ \A g \in Hosts \ {h} : agent'[g] = agent[g]
    BY <1>0, <2>1, <2>2, GoesOn
  <2>4. QED BY <2>3
<1>3. Registry'
  BY <1>0, <1>1, <1>2, AgentLeavesRegistry DEF Registry, StillThere
<1>4. mishaps' \in 0..Mishaps
  BY <1>0 DEF CreateInstance, StartVM, Mishap, AgentType
<1>5. /\ vm \in [Hosts -> [Projects -> VM]] /\ rt \in [Hosts -> SUBSET Projects]
      /\ vm[h][p] \in VM
  BY <1>0 DEF AgentType
<1>6. CASE UNCHANGED <<rt, vm>>
  BY <1>0, <1>2, <1>3, <1>4, <1>6 DEF AgentType, KnownKeepsDisk
<1>7. CASE /\ vm' = [vm EXCEPT ![h][p] = [st |-> "on", disk |-> TRUE, app |-> FALSE]]
           /\ rt' = [rt EXCEPT ![h] = @ \cup {p}]
  <2>1. [st |-> "on", disk |-> TRUE, app |-> FALSE] \in VM
    BY DEF VM
  <2>2. /\ vm' \in [Hosts -> [Projects -> VM]]
        /\ vm'[h][p].st = "on" /\ vm'[h][p].disk
        /\ \A g \in Hosts, q \in Projects : g # h \/ q # p => vm'[g][q] = vm[g][q]
    BY <1>5, <1>7, <2>1, OneVM
  <2>3. /\ rt' \in [Hosts -> SUBSET Projects]
        /\ \A g \in Hosts : rt'[g] \ {p} = rt[g] \ {p} /\ (g # h => rt'[g] = rt[g])
    BY <1>5, <1>7
  <2>4. KnownKeepsDisk'
    <3>1. ASSUME NEW g \in Hosts, NEW q \in Projects, q \in rt'[g]
          PROVE  vm'[g][q].st # "none" /\ vm'[g][q].disk
      <4>1. CASE g = h /\ q = p
        BY <2>2, <4>1
      <4>2. CASE g # h \/ q # p
        BY <1>0, <2>2, <2>3, <3>1, <4>2 DEF KnownKeepsDisk
      <4>3. QED BY <4>1, <4>2
    <3>2. QED BY <3>1 DEF KnownKeepsDisk
  <2>5. QED BY <1>2, <1>3, <1>4, <2>2, <2>3, <2>4 DEF AgentType
<1>8. CASE p \notin rt[h] /\ vm' = [vm EXCEPT ![h][p].disk = FALSE] /\ UNCHANGED rt
  <2> DEFINE v == [vm[h][p] EXCEPT !.disk = FALSE]
  <2>1. v \in VM
    BY <1>5 DEF VM
  <2>2. vm' = [vm EXCEPT ![h][p] = v]
    BY <1>8
  <2> HIDE DEF v
  <2>3. /\ vm' \in [Hosts -> [Projects -> VM]]
        /\ \A g \in Hosts, q \in Projects : g # h \/ q # p => vm'[g][q] = vm[g][q]
    BY <1>5, <2>1, <2>2, OneVM
  <2>4. KnownKeepsDisk'
    BY <1>0, <1>8, <2>3 DEF KnownKeepsDisk
  <2>5. QED BY <1>2, <1>3, <1>4, <1>5, <1>8, <2>3, <2>4 DEF AgentType
<1>9. QED BY <1>6, <1>7, <1>8 DEF CreateInstance, StartVM

\* A VM that is given up is forgotten, whatever is left of it.
LEMMA NotReadyStep ==
  ASSUME IInv, NEW h \in Hosts, NotReady(h)
  PROVE  Registry' /\ AgentType' /\ KnownKeepsDisk'
<1>0. Registry /\ AgentType /\ KnownKeepsDisk
  BY TypesApart DEF IInv, Registry
<1> DEFINE p == agent[h].at
<1>1. UNCHANGED <<nodes, host, status, want, req, removed, raced, mishaps>>
  BY DEF NotReady, registry, ghosts
<1>2. /\ agent' \in [Hosts -> AgentState]
      /\ \A g \in Hosts : AtWork(agent'[g])
      /\ agent'[h].pc # "set"
      /\ \A g \in Hosts \ {h} : agent'[g] = agent[g]
  <2>1. {} \in SUBSET Projects /\ "wait" \in {"wait", "pull"}
    OBVIOUS
  <2>2. Onward(h, "wait", {}, {})
    BY DEF NotReady, Onward
  <2>3. QED BY <1>0, <2>1, <2>2, GoesOn
<1>3. Registry'
  BY <1>0, <1>1, <1>2, AgentLeavesRegistry DEF Registry, StillThere
<1>4. p \in Projects /\ agent[h].pc = "await"
  <2>1. agent[h] \in AgentState /\ AtWork(agent[h]) /\ agent[h].pc = "await"
    BY <1>0 DEF AgentType, NotReady
  <2>2. QED BY <2>1 DEF AgentState, AtWork
<1>5. /\ vm \in [Hosts -> [Projects -> VM]] /\ rt \in [Hosts -> SUBSET Projects]
      /\ vm[h][p] \in VM
  BY <1>0, <1>4 DEF AgentType
<1>6. PICK v \in VM : vm' = [vm EXCEPT ![h][p] = v]
  <2>1. CASE vm' = [vm EXCEPT ![h][p] = NoVM]
    <3>1. NoVM \in VM
      BY DEF NoVM, VM
    <3>2. QED BY <2>1, <3>1
  <2>2. ASSUME NEW st \in {vm[h][p].st, "off"}, vm' = [vm EXCEPT ![h][p].st = st]
        PROVE  \E v \in VM : vm' = [vm EXCEPT ![h][p] = v]
    <3> DEFINE v == [vm[h][p] EXCEPT !.st = st]
    <3>1. v \in VM
      BY <1>5 DEF VM
    <3>2. vm' = [vm EXCEPT ![h][p] = v]
      BY <1>4, <1>5, <2>2
    <3>3. QED BY <3>1, <3>2
  <2>3. QED BY <2>1, <2>2 DEF NotReady
<1>7. rt' = [rt EXCEPT ![h] = @ \ {p}]
  BY DEF NotReady
<1> HIDE DEF p
<1>8. /\ vm' \in [Hosts -> [Projects -> VM]]
      /\ \A g \in Hosts, q \in Projects : g # h \/ q # p => vm'[g][q] = vm[g][q]
  BY <1>4, <1>5, <1>6, OneVM
<1>9. /\ rt' \in [Hosts -> SUBSET Projects] /\ p \notin rt'[h]
      /\ \A g \in Hosts : rt'[g] \subseteq rt[g]
  BY <1>5, <1>7
<1>10. KnownKeepsDisk'
  BY <1>0, <1>8, <1>9 DEF KnownKeepsDisk
<1>11. AgentType'
  BY <1>0, <1>1, <1>2, <1>8, <1>9 DEF AgentType
<1>12. QED BY <1>3, <1>10, <1>11

\* A VM that changes and keeps its disk is known as before.
LEMMA KeepsDisk ==
  ASSUME AgentType, KnownKeepsDisk, NEW h \in Hosts, NEW p \in Projects, NEW v \in VM,
         v.st = "none" <=> vm[h][p].st = "none", v.disk = vm[h][p].disk,
         vm' = [vm EXCEPT ![h][p] = v], UNCHANGED rt
  PROVE  vm' \in [Hosts -> [Projects -> VM]] /\ KnownKeepsDisk'
<1>1. vm \in [Hosts -> [Projects -> VM]]
  BY DEF AgentType
<1>2. /\ vm' \in [Hosts -> [Projects -> VM]] /\ vm'[h][p] = v
      /\ \A g \in Hosts, q \in Projects : g # h \/ q # p => vm'[g][q] = vm[g][q]
  BY <1>1, OneVM
<1>3. ASSUME NEW g \in Hosts, NEW q \in Projects, q \in rt'[g]
      PROVE  vm'[g][q].st # "none" /\ vm'[g][q].disk
  <2>1. vm[g][q].st # "none" /\ vm[g][q].disk
    BY <1>3 DEF KnownKeepsDisk
  <2>2. CASE g = h /\ q = p
    BY <1>2, <2>1, <2>2
  <2>3. CASE g # h \/ q # p
    BY <1>2, <2>1, <2>3
  <2>4. QED BY <2>2, <2>3
<1>4. QED BY <1>2, <1>3 DEF KnownKeepsDisk

LEMMA DeployStep ==
  ASSUME IInv, NEW h \in Hosts, NEW p \in Projects, DeployApp(h, p)
  PROVE  Registry' /\ AgentType' /\ KnownKeepsDisk'
<1>0. Registry /\ AgentType /\ KnownKeepsDisk
  BY TypesApart DEF IInv, Registry
<1>1. UNCHANGED <<nodes, host, status, want, req, removed, raced, rt>>
  BY DEF DeployApp, registry, ghosts
<1>2. /\ agent' \in [Hosts -> AgentState]
      /\ \A g \in Hosts : AtWork(agent'[g])
      /\ \A g \in Hosts : agent'[g].pc = "set" => agent'[g] = agent[g]
  <2> DEFINE D == agent[h].deploy \ {p}
  <2>1. D \in SUBSET Projects /\ {} \in SUBSET Projects /\ "wait" \in {"wait", "pull"}
    BY <1>0 DEF AgentType, AgentState
  <2>2. Onward(h, "wait", {}, D)
    BY DEF DeployApp, Onward
  <2> HIDE DEF D
  <2>3. /\ agent' \in [Hosts -> AgentState]
        /\ \A g \in Hosts : AtWork(agent'[g])
        /\ agent'[h].pc # "set"
        /\ \A g \in Hosts \ {h} : agent'[g] = agent[g]
    BY <1>0, <2>1, <2>2, GoesOn
  <2>4. QED BY <2>3
<1>3. Registry'
  BY <1>0, <1>1, <1>2, AgentLeavesRegistry DEF Registry, StillThere
<1>4. mishaps' \in 0..Mishaps
  BY <1>0 DEF DeployApp, Mishap, AgentType
<1>5. vm' \in [Hosts -> [Projects -> VM]] /\ KnownKeepsDisk'
  <2>1. CASE UNCHANGED vm
    BY <1>0, <1>1, <2>1 DEF KnownKeepsDisk, AgentType
  <2>2. ASSUME NEW b \in BOOLEAN, vm' = [vm EXCEPT ![h][p].app = b]
        PROVE  vm' \in [Hosts -> [Projects -> VM]] /\ KnownKeepsDisk'
    <3> DEFINE v == [vm[h][p] EXCEPT !.app = b]
    <3>0. vm[h][p] \in VM
      BY <1>0 DEF AgentType
    <3>1. v \in VM /\ v.st = vm[h][p].st /\ v.disk = vm[h][p].disk
      BY <3>0 DEF VM
    <3>2. vm' = [vm EXCEPT ![h][p] = v]
      BY <1>0, <2>2 DEF AgentType
    <3> HIDE DEF v
    <3>3. QED BY <1>0, <1>1, <3>1, <3>2, KeepsDisk
  <2>3. QED BY <2>1, <2>2 DEF DeployApp
<1>6. QED BY <1>0, <1>1, <1>2, <1>3, <1>4, <1>5 DEF AgentType

\* A restart forgets every instance; what powers off or ends is there still.
LEMMA MishapStep ==
  ASSUME IInv, NEW h \in Hosts,
         \/ AgentEnds(h) \/ AgentDies(h)
         \/ \E p \in Projects : PowersOff(h, p) \/ AppEnds(h, p)
  PROVE  Registry' /\ AgentType' /\ KnownKeepsDisk'
<1>0. Registry /\ AgentType /\ KnownKeepsDisk
  BY TypesApart DEF IInv, Registry
<1>1. UNCHANGED <<nodes, host, status, want, req, removed, raced>> /\ mishaps' \in 0..Mishaps
  <2>1. /\ UNCHANGED <<nodes, host, status, want, req, removed, raced>>
        /\ Mishap \/ UNCHANGED mishaps
    BY DEF AgentEnds, AgentDies, Restarts, PowersOff, AppEnds, registry, ghosts
  <2>2. mishaps \in 0..Mishaps
    BY <1>0 DEF AgentType
  <2>3. QED BY <2>1, <2>2 DEF Mishap
<1>2. CASE AgentEnds(h) \/ AgentDies(h)
  <2>0. Restarts(h)
    BY <1>2 DEF AgentEnds, AgentDies
  <2>1. {} \in SUBSET Projects /\ "wait" \in {"wait", "pull"} /\ Onward(h, "wait", {}, {})
    BY <2>0 DEF Restarts, Onward
  <2>2. /\ agent' \in [Hosts -> AgentState]
        /\ \A g \in Hosts : AtWork(agent'[g])
        /\ agent'[h].pc # "set"
        /\ \A g \in Hosts \ {h} : agent'[g] = agent[g]
    BY <1>0, <2>1, GoesOn
  <2>3. /\ rt' \in [Hosts -> SUBSET Projects] /\ vm' = vm
        /\ \A g \in Hosts : rt'[g] \subseteq rt[g]
    BY <1>0, <2>0 DEF Restarts, AgentType
  <2>4. KnownKeepsDisk'
    BY <1>0, <2>3 DEF KnownKeepsDisk
  <2>5. Registry'
    BY <1>0, <1>1, <2>2, AgentLeavesRegistry DEF Registry, StillThere
  <2>6. QED BY <1>0, <1>1, <2>2, <2>3, <2>4, <2>5 DEF AgentType
<1>3. ASSUME NEW p \in Projects, PowersOff(h, p) \/ AppEnds(h, p)
      PROVE  Registry' /\ AgentType' /\ KnownKeepsDisk'
  <2>1. UNCHANGED <<agent, rt>>
    BY <1>3 DEF PowersOff, AppEnds
  <2>2. Registry'
    BY <1>0, <1>1, <2>1, AgentLeavesRegistry DEF Registry, StillThere
  <2>3. vm' \in [Hosts -> [Projects -> VM]] /\ KnownKeepsDisk'
    <3> DEFINE x == vm[h][p]
               off == [[x EXCEPT !.st = "off"] EXCEPT !.app = FALSE]
               over == [x EXCEPT !.app = FALSE]
    <3>1. x \in VM /\ vm \in [Hosts -> [Projects -> VM]]
      BY <1>0 DEF AgentType
    <3>2. CASE PowersOff(h, p)
      <4>1. vm' = [vm EXCEPT ![h][p] = off] /\ x.st = "on"
        BY <3>1, <3>2 DEF PowersOff
      <4>2. off \in VM /\ off.disk = x.disk /\ off.st = "off"
        BY <3>1 DEF VM
      <4> HIDE DEF off
      <4>3. QED BY <1>0, <2>1, <4>1, <4>2, KeepsDisk
    <3>3. CASE AppEnds(h, p)
      <4>1. vm' = [vm EXCEPT ![h][p] = over]
        BY <3>1, <3>3 DEF AppEnds
      <4>2. over \in VM /\ over.disk = x.disk /\ over.st = x.st
        BY <3>1 DEF VM
      <4> HIDE DEF over
      <4>3. QED BY <1>0, <2>1, <4>1, <4>2, KeepsDisk
    <3>4. QED BY <1>3, <3>2, <3>3
  <2>4. QED BY <1>0, <1>1, <2>1, <2>2, <2>3 DEF AgentType
<1>4. QED BY <1>2, <1>3

LEMMA NextIInv == IInv /\ [Next]_vars => IInv'
<1> SUFFICES ASSUME IInv, [Next]_vars PROVE IInv'
  OBVIOUS
<1>0. Registry /\ AgentType /\ KnownKeepsDisk
  BY TypesApart DEF IInv, Registry
<1>1. CASE UNCHANGED vars
  <2>1. Registry'
    BY <1>0, <1>1, AgentLeavesRegistry DEF vars, Registry, StillThere
  <2>2. AgentType' /\ KnownKeepsDisk'
    BY <1>0, <1>1 DEF vars, AgentType, KnownKeepsDisk
  <2>3. QED BY <2>1, <2>2
            DEF IInv, TypeOK, Registry, RegistryType, AgentType, NodeRequest, AgentState, VM,
                AtWork
<1>2. CASE Next
  <2>1. Registry' /\ AgentType' /\ KnownKeepsDisk'
    <3>1. ASSUME UNCHANGED <<agent, rt, vm, mishaps>>
          PROVE  AgentType' /\ KnownKeepsDisk'
      BY <1>0, <3>1 DEF AgentType, KnownKeepsDisk
    <3>2. ASSUME NEW c \in Clients,
                 Serve(c) \/ \E op \in {"register", "drain", "remove"}, h \in Hosts : Request(c, op, h)
          PROVE  Registry' /\ AgentType' /\ KnownKeepsDisk'
      <4>1. UNCHANGED <<agent, rt, vm, mishaps>>
        BY <3>2 DEF Serve, Request, RegisterList, RegisterSet, DrainGet, DrainSet, Remove, local
      <4>2. Registry'
        BY <3>2, RequestStep, RegisterListStep, RegisterSetStep, DrainGetStep, DrainSetStep,
           RemoveStep DEF Serve
      <4>3. QED BY <3>1, <4>1, <4>2
    <3>3. ASSUME NEW p \in Projects, NEW what \in {"none", "project", "app"}, Define(p, what)
          PROVE  Registry' /\ AgentType' /\ KnownKeepsDisk'
      BY <3>1, <3>3, DefineStep DEF Define, local
    <3>4. ASSUME NEW h \in Hosts, Tick(h)
          PROVE  Registry' /\ AgentType' /\ KnownKeepsDisk'
      BY <3>4, BeatStep, NotReadyStep, CreateStep, DeployStep DEF Tick
    <3>5. ASSUME NEW h \in Hosts, Ready(h) \/ AgentStops(h)
          PROVE  Registry' /\ AgentType' /\ KnownKeepsDisk'
      BY <3>5, BeatStep
    <3>6. ASSUME NEW h \in Hosts,
                 \/ AgentEnds(h) \/ AgentDies(h)
                 \/ \E p \in Projects : PowersOff(h, p) \/ AppEnds(h, p)
          PROVE  Registry' /\ AgentType' /\ KnownKeepsDisk'
      BY <3>6, MishapStep
    <3>7. QED BY <1>2, <3>2, <3>3, <3>4, <3>5, <3>6 DEF Next
  <2>2. QED BY <2>1
            DEF IInv, TypeOK, Registry, RegistryType, AgentType, NodeRequest, AgentState, VM,
                AtWork
<1>3. QED BY <1>1, <1>2
-----------------------------------------------------------------------------
(* Drains.                                                                   *)

\* A tick that reads a node for its heartbeat reads one of its own host's name.
LEMMA AgentKeepsOwn ==
  ASSUME IInv, OwnBeats, NEW h \in Hosts,
         Tick(h) \/ Ready(h) \/ AgentStops(h) \/ AgentEnds(h) \/ AgentDies(h)
  PROVE  OwnBeats'
<1>0. agent \in [Hosts -> AgentState]
  BY TypesApart DEF IInv, AgentType
<1>1. host' = host
  BY DEF Tick, BeatGet, BeatSet, Pull, TickEnds, CreateInstance, DeployApp, NotReady,
         Ready, AgentStops, AgentEnds, AgentDies, Restarts, registry
<1>2. ASSUME agent'[h].pc # "set", \A g \in Hosts \ {h} : agent'[g] = agent[g]
      PROVE  OwnBeats'
  BY <1>1, <1>2 DEF OwnBeats
<1>3. CASE BeatGet(h)
  <2>1. \A g \in Hosts \ {h} : agent'[g] = agent[g]
    BY <1>0, <1>3 DEF BeatGet, Proceed
  <2>2. ASSUME NEW n \in GetNode(h), agent' = [agent EXCEPT ![h].pc = "set", ![h].node = n]
        PROVE  OwnBeats'
    <3>1. host[n] = h /\ agent'[h].node = n
      BY <1>0, <2>2 DEF GetNode, AgentState
    <3>2. QED BY <1>1, <2>1, <3>1 DEF OwnBeats
  <2>3. CASE Proceed(h, "pull")
    <3>1. agent'[h].pc = "pull"
      BY <1>0, <2>3 DEF Proceed, AgentState
    <3>2. QED BY <1>2, <2>1, <3>1
  <2>4. QED BY <1>3, <2>2, <2>3 DEF BeatGet
<1>4. CASE BeatSet(h)
  <2>1. agent'[h].pc = "pull" /\ \A g \in Hosts \ {h} : agent'[g] = agent[g]
    BY <1>0, <1>4 DEF BeatSet, AgentState
  <2>2. QED BY <1>2, <2>1
<1>5. CASE Pull(h)
  <2>1. agent'[h].pc \in {"wait", "reconcile"} /\ \A g \in Hosts \ {h} : agent'[g] = agent[g]
    BY <1>0, <1>5 DEF Pull, Proceed, AgentState
  <2>2. QED BY <1>2, <2>1
<1>6. CASE AgentEnds(h) \/ AgentDies(h)
  <2>1. agent' = [agent EXCEPT ![h] = IdleAgent]
    BY <1>6 DEF AgentEnds, AgentDies, Restarts
  <2>2. agent'[h].pc = "wait" /\ \A g \in Hosts \ {h} : agent'[g] = agent[g]
    BY <1>0, <2>1 DEF IdleAgent
  <2>3. QED BY <1>2, <2>2
<1>7. CASE TickEnds(h) \/ Ready(h) \/ NotReady(h) \/ AgentStops(h)
  <2>1. /\ agent'[h].pc \in {"wait", "reconcile", "await"}
        /\ \A g \in Hosts \ {h} : agent'[g] = agent[g]
    BY <1>0, <1>7 DEF TickEnds, Ready, NotReady, AgentStops, Proceed, AgentState
  <2>2. QED BY <1>2, <2>1
<1>8. ASSUME NEW p \in Projects, CreateInstance(h, p) \/ DeployApp(h, p)
      PROVE  OwnBeats'
  <2>1. /\ agent[h].pc = "reconcile"
        /\ \/ agent' = [agent EXCEPT ![h].create = @ \ {p}, ![h].pc = "await", ![h].at = p]
           \/ agent' = [agent EXCEPT ![h].create = @ \ {p}]
           \/ agent' = [agent EXCEPT ![h].deploy = @ \ {p}]
    BY <1>8 DEF CreateInstance, StartVM, DeployApp
  <2>2. agent'[h].pc \in {"reconcile", "await"} /\ \A g \in Hosts \ {h} : agent'[g] = agent[g]
    BY <1>0, <2>1 DEF AgentState
  <2>3. QED BY <1>2, <2>2
<1>9. QED BY <1>3, <1>4, <1>5, <1>6, <1>7, <1>8 DEF Tick

\* A registration names a host of its own, which no heartbeat is about.
LEMMA RegistrationKeepsOwn ==
  ASSUME IInv, OwnBeats, NEW c \in Clients, NEW n \in Ids, RegisterList(c, n)
  PROVE  OwnBeats'
<1>0. Registry /\ AgentType
  BY TypesApart DEF IInv, Registry
<1>1. host[n] = None /\ agent' = agent
  BY DEF RegisterList
<1>2. \A m \in Ids \ {n} : host'[m] = host[m]
  BY <1>0 DEF RegisterList, Registry, RegistryType
<1>3. ASSUME NEW h \in Hosts, agent[h].pc = "set"
      PROVE  agent[h].node \in Ids \ {n}
  <2>1. agent[h].node \in Ids
    BY <1>0, <1>3 DEF Registry, RegistryType, StillThere
  <2>2. host[agent[h].node] # None
    BY <1>3 DEF OwnBeats
  <2>3. QED BY <1>1, <2>1, <2>2
<1>4. QED BY <1>1, <1>2, <1>3 DEF OwnBeats

LEMMA NextOwnBeats == IInv /\ OwnBeats /\ [Next]_vars => OwnBeats'
<1> SUFFICES ASSUME IInv, OwnBeats, [Next]_vars PROVE OwnBeats'
  OBVIOUS
<1>1. ASSUME UNCHANGED <<host, agent>> PROVE OwnBeats'
  BY <1>1 DEF OwnBeats
<1>2. CASE UNCHANGED vars
  BY <1>1, <1>2 DEF vars
<1>3. ASSUME NEW c \in Clients,
             Serve(c) \/ \E op \in {"register", "drain", "remove"}, h \in Hosts : Request(c, op, h)
      PROVE  OwnBeats'
  <2>1. CASE \E n \in Ids : RegisterList(c, n)
    BY <2>1, RegistrationKeepsOwn
  <2>2. CASE ~\E n \in Ids : RegisterList(c, n)
    BY <1>1, <1>3, <2>2 DEF Serve, Request, RegisterSet, DrainGet, DrainSet, Remove, registry
  <2>3. QED BY <2>1, <2>2
<1>4. ASSUME NEW p \in Projects, NEW what \in {"none", "project", "app"}, Define(p, what)
      PROVE  OwnBeats'
  BY <1>1, <1>4 DEF Define, registry
<1>5. ASSUME NEW h \in Hosts,
             Tick(h) \/ Ready(h) \/ AgentStops(h) \/ AgentEnds(h) \/ AgentDies(h)
      PROVE  OwnBeats'
  BY <1>5, AgentKeepsOwn
<1>6. ASSUME NEW h \in Hosts, NEW p \in Projects, PowersOff(h, p) \/ AppEnds(h, p)
      PROVE  OwnBeats'
  BY <1>1, <1>6 DEF PowersOff, AppEnds, registry
<1>7. QED BY <1>2, <1>3, <1>4, <1>5, <1>6 DEF Next

\* A step that changes the status of a draining node is a heartbeat's second half.
LEMMA StepHoldsDrain ==
  ASSUME IInv, OwnBeats, [Next]_vars, NEW n \in nodes, status[n] = "draining", n \in nodes',
         status'[n] # "draining"
  PROVE  Beats(host[n], n)
<1>0. Registry /\ n \in Ids /\ status \in [Ids -> {"online", "draining"}]
  BY TypesApart DEF IInv, Registry, RegistryType
<1>1. ASSUME NEW c \in Clients, RegisterSet(c)
      PROVE  FALSE
  <2>1. req[c].node \in Ids \ nodes
    BY <1>0, <1>1 DEF RegisterSet, Registry, NewNodes, Fresh
  <2>2. QED BY <1>0, <1>1, <2>1 DEF RegisterSet, SetNode
<1>2. ASSUME NEW c \in Clients, DrainSet(c)
      PROVE  FALSE
  BY <1>0, <1>2 DEF DrainSet, SetNode
<1>3. ASSUME NEW h \in Hosts, BeatSet(h)
      PROVE  Beats(host[n], n)
  <2>1. agent[h].pc = "set" /\ agent[h].node = n
    BY <1>0, <1>3 DEF BeatSet, SetNode
  <2>2. host[n] = h
    BY <2>1 DEF OwnBeats
  <2>3. QED BY <2>1, <2>2 DEF Beats
<1>4. ASSUME status' = status
      PROVE  FALSE
  BY <1>4
<1>5. CASE UNCHANGED vars
  BY <1>4, <1>5 DEF vars
<1>6. ASSUME NEW c \in Clients,
             Serve(c) \/ \E op \in {"register", "drain", "remove"}, h \in Hosts : Request(c, op, h)
      PROVE  FALSE
  <2>1. CASE Remove(c)
    <3>1. \A m \in nodes' : status'[m] = status[m]
      BY <1>0, <2>1 DEF Remove, ghosts, GetNode
    <3>2. QED BY <3>1
  <2>2. CASE ~Remove(c)
    BY <1>1, <1>2, <1>4, <1>6, <2>2 DEF Serve, Request, RegisterList, DrainGet, registry
  <2>3. QED BY <2>1, <2>2
<1>7. ASSUME NEW h \in Hosts,
             Tick(h) \/ Ready(h) \/ AgentStops(h) \/ AgentEnds(h) \/ AgentDies(h)
      PROVE  Beats(host[n], n)
  BY <1>3, <1>4, <1>7 DEF Tick, BeatGet, Pull, TickEnds, CreateInstance, DeployApp,
                          NotReady, Ready, AgentStops, AgentEnds, AgentDies, Restarts, registry
<1>8. ASSUME \/ \E p \in Projects, what \in {"none", "project", "app"} : Define(p, what)
             \/ \E h \in Hosts, p \in Projects : PowersOff(h, p) \/ AppEnds(h, p)
      PROVE  FALSE
  BY <1>4, <1>8 DEF Define, PowersOff, AppEnds, registry
<1>9. QED BY <1>5, <1>6, <1>7, <1>8 DEF Next
-----------------------------------------------------------------------------
(* The theorems.                                                             *)

\* What every state of a behaviour satisfies, however many requests, heartbeats
\* and ticks interleave and whatever goes wrong.
THEOREM Invariant == Spec => []IInv
<1>1. Init => IInv
  BY InitIInv
<1>2. IInv /\ [Next]_vars => IInv'
  BY NextIInv
<1>3. QED BY <1>1, <1>2, PTL DEF Spec

\* The registry, the requests, the agents and their VMs have their types.
THEOREM TypeCorrect == Spec => []TypeOK
<1>1. IInv => TypeOK
  BY DEF IInv
<1>2. QED BY <1>1, Invariant, PTL

\* Two nodes of one name, or a removed node that is back, come from overlapping
\* requests and from nothing else (node_handlers.go:35-60, 112-127, 163-176).
THEOREM OnlyRacesDisturb == Spec => []RegistrySound
<1>1. IInv => RegistrySound
  BY DEF IInv
<1>2. QED BY <1>1, Invariant, PTL

\* No creation that fails takes the disk of a VM the agent knows
\* (reconciler.go:37-40).
THEOREM KnownVMsKeepTheirDisks == Spec => []KnownKeepsDisk
<1>1. IInv => KnownKeepsDisk
  BY DEF IInv
<1>2. QED BY <1>1, Invariant, PTL

\* A heartbeat of the node's own host undoes a drain, and nothing else does
\* (node_handlers.go:122-124, 173).
THEOREM OnlyBeatsUndoDrains == Spec => DrainHolds
<1>1. Init => OwnBeats
  BY DEF Init, OwnBeats, IdleAgent
<1>2. Spec => []OwnBeats
  BY <1>1, NextOwnBeats, Invariant, PTL DEF Spec
<1>3. IInv /\ OwnBeats /\ [Next]_vars =>
        [\A n \in nodes : status[n] = "draining" /\ n \in nodes' /\ status'[n] # "draining"
                            => Beats(host[n], n)]_vars
  BY StepHoldsDrain
<1>4. QED BY <1>2, <1>3, Invariant, PTL DEF Spec, DrainHolds
=============================================================================
