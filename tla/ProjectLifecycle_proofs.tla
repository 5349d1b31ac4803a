----------------------- MODULE ProjectLifecycle_proofs -----------------------
(* Proofs about ProjectLifecycle for any identifiers, names, handlers and    *)
(* environments.                                                             *)
EXTENDS ProjectLifecycle, FiniteSetTheorems, TLAPS

USE ScopesAssumption, NoneAssumption

-----------------------------------------------------------------------------
(* The file and the requests.                                                *)

\* What a save writes has the type of the file, is not torn, and has the
\* projects and instances it was written for.
LEMMA SnapshotType ==
  ASSUME NEW P \in SUBSET Ids, NEW I \in SUBSET Ids,
         NEW ps \in [Ids -> ProjectStates], NEW is \in [Ids -> InstanceStates]
  PROVE  /\ Snapshot(P, I, ps, is) \in File
         /\ Snapshot(P, I, ps, is) # Torn
         /\ DOMAIN Snapshot(P, I, ps, is).projects = P
         /\ DOMAIN Snapshot(P, I, ps, is).instances = I
         /\ \A i \in P : Snapshot(P, I, ps, is).projects[i] = ps[i]
         /\ \A i \in I : Snapshot(P, I, ps, is).instances[i] = is[i]
<1> DEFINE p == [i \in P |-> ps[i]]
           q == [i \in I |-> is[i]]
<1>1. p \in [P -> ProjectStates] /\ q \in [I -> InstanceStates]
  OBVIOUS
<1>2. /\ p \in UNION {[Q -> ProjectStates] : Q \in SUBSET Ids}
      /\ q \in UNION {[Q -> InstanceStates] : Q \in SUBSET Ids}
  BY <1>1
<1>3. DOMAIN p = P /\ DOMAIN q = I /\ (\A i \in P : p[i] = ps[i]) /\ (\A i \in I : q[i] = is[i])
  OBVIOUS
<1> HIDE DEF p, q
<1>4. Snapshot(P, I, ps, is) = [projects |-> p, instances |-> q]
  BY DEF Snapshot, p, q
<1>5. [projects |-> p, instances |-> q] \in File
  BY <1>2 DEF File
<1>6. [projects |-> p, instances |-> q] # Torn
  BY DEF Torn
<1>7. QED BY <1>3, <1>4, <1>5, <1>6

\* A save, logged or not, keeps the type of the file.
LEMMA SaveType ==
  ASSUME file \in File, NEW P \in SUBSET Ids, NEW I \in SUBSET Ids,
         pstate' \in [Ids -> ProjectStates], istate' \in [Ids -> InstanceStates],
         SaveLogged(P, I)
  PROVE  /\ file' \in File
         /\ file' # Torn => file' = file \/ (DOMAIN file'.projects = P /\ DOMAIN file'.instances = I)
         /\ "save" \notin scope.faults => /\ file' # Torn
                                          /\ DOMAIN file'.projects = P /\ DOMAIN file'.instances = I
         /\ file' # Snapshot(P, I, pstate', istate') => file' \in {file, Torn}
<1>1. Torn \in File
  BY DEF File
<1>2. CASE SaveOk(P, I)
  BY <1>2, SnapshotType DEF SaveOk
<1>3. CASE SaveFails
  BY <1>1, <1>3 DEF SaveFails
<1>4. QED BY <1>2, <1>3 DEF SaveLogged
-----------------------------------------------------------------------------
(* The requests.                                                             *)

Later == {"GetInstance", "SetDomains", "CreateInstance", "waitReady", "Cleanup", "RemoveDir",
          "DropProject", "SetInstance", "DestroyInstance", "DeleteInstance", "DeleteProject",
          "StopInstance", "waitForShutoff", "Poll", "StartInstance", "UpdateInstance",
          "UpdateProject"}

OfCreation == {"CreateProject", "SetDomains", "CreateInstance", "Cleanup", "RemoveDir",
               "DropProject", "SetInstance"}

\* A step of the server for one request ends it, or takes it further.
GoesOn(h) ==
    /\ req' \in [Handlers -> Request]
    /\ \A g \in Handlers \ {h} : req'[g] = req[g]
    /\ req[h].pc # "idle"
    /\ \/ req'[h].pc = "idle"
       \/ /\ req'[h].pc \in Later /\ req'[h].op = req[h].op /\ req'[h].name = req[h].name
          /\ req'[h].id \in Ids /\ name[req'[h].id] = req[h].name
          /\ req'[h].id = req[h].id \/ (req[h].pc = "GetProject" /\ req'[h].id \in proj)
          /\ req'[h].pc \in OfCreation => req[h].op = "create"

\* The ways of going on.
LEMMA Answers ==
  ASSUME TypeOK, NEW h \in Handlers, req[h].pc # "idle", Answer(h)
  PROVE  GoesOn(h) /\ req'[h].pc = "idle"
<1>1. IdleReq \in Request /\ IdleReq.pc = "idle"
  BY DEF IdleReq, Request, Ops
<1>2. req \in [Handlers -> Request]
  BY DEF TypeOK
<1>3. QED BY <1>1, <1>2 DEF Answer, GoesOn

LEMMA Goes ==
  ASSUME TypeOK, Requests, NEW h \in Handlers, NEW pc \in Later,
         req[h].pc \notin {"idle", "GetProject"}, pc \in OfCreation => req[h].op = "create",
         Goto(h, pc)
  PROVE  /\ GoesOn(h)
         /\ req'[h].pc = pc /\ req'[h].op = req[h].op /\ req'[h].name = req[h].name
         /\ req'[h].id = req[h].id /\ req'[h].vm = req[h].vm
<1> DEFINE x == req[h]
           y == [x EXCEPT !.pc = pc]
<1>1. x \in Request /\ req \in [Handlers -> Request]
  BY DEF TypeOK
<1>2. y \in Request /\ y.pc = pc /\ y.op = x.op /\ y.name = x.name /\ y.id = x.id /\ y.vm = x.vm
  BY <1>1 DEF Request, Later
<1>3. req' = [req EXCEPT ![h] = y]
  BY DEF Goto
<1> HIDE DEF y
<1>4. /\ req' \in [Handlers -> Request] /\ req'[h] = y
      /\ \A g \in Handlers \ {h} : req'[g] = req[g]
  BY <1>1, <1>2, <1>3
<1>5. x.id \in Ids /\ name[x.id] = x.name
  BY DEF Requests
<1>6. QED BY <1>2, <1>4, <1>5 DEF GoesOn

\* GetProject has found the project.
LEMMA GoesFound ==
  ASSUME TypeOK, NEW h \in Handlers, NEW i \in proj, name[i] = req[h].name,
         req[h].pc = "GetProject",
         req' = [req EXCEPT ![h].pc = "GetInstance", ![h].id = i]
  PROVE  /\ GoesOn(h)
         /\ req'[h].pc = "GetInstance" /\ req'[h].op = req[h].op /\ req'[h].name = req[h].name
         /\ req'[h].id = i
<1> DEFINE x == req[h]
           y == [[x EXCEPT !.pc = "GetInstance"] EXCEPT !.id = i]
<1>1. x \in Request /\ req \in [Handlers -> Request] /\ i \in Ids
  BY DEF TypeOK
<1>2. y \in Request /\ y.pc = "GetInstance" /\ y.op = x.op /\ y.name = x.name /\ y.id = i
  BY <1>1 DEF Request
<1>3. req' = [req EXCEPT ![h] = y]
  BY <1>1
<1> HIDE DEF y
<1>4. /\ req' \in [Handlers -> Request] /\ req'[h] = y
      /\ \A g \in Handlers \ {h} : req'[g] = req[g]
  BY <1>1, <1>2, <1>3
<1>5. QED BY <1>1, <1>2, <1>4 DEF GoesOn, Later, OfCreation

\* StopInstance keeps a handle.
LEMMA GoesWaiting ==
  ASSUME TypeOK, Requests, NEW h \in Handlers, NEW v \in Ids \cup {None},
         req[h].pc \notin {"idle", "GetProject"},
         req' = [req EXCEPT ![h].pc = "waitForShutoff", ![h].vm = v]
  PROVE  /\ GoesOn(h)
         /\ req'[h].pc = "waitForShutoff" /\ req'[h].op = req[h].op
         /\ req'[h].name = req[h].name /\ req'[h].id = req[h].id /\ req'[h].vm = v
<1> DEFINE x == req[h]
           y == [[x EXCEPT !.pc = "waitForShutoff"] EXCEPT !.vm = v]
<1>1. x \in Request /\ req \in [Handlers -> Request]
  BY DEF TypeOK
<1>2. y \in Request /\ y.pc = "waitForShutoff" /\ y.op = x.op /\ y.name = x.name /\ y.id = x.id
      /\ y.vm = v
  BY <1>1 DEF Request
<1>3. req' = [req EXCEPT ![h] = y]
  BY <1>1
<1> HIDE DEF y
<1>4. /\ req' \in [Handlers -> Request] /\ req'[h] = y
      /\ \A g \in Handlers \ {h} : req'[g] = req[g]
  BY <1>1, <1>2, <1>3
<1>5. x.id \in Ids /\ name[x.id] = x.name
  BY DEF Requests
<1>6. QED BY <1>2, <1>4, <1>5 DEF GoesOn, Later, OfCreation

\* A request that goes on, with the server up and names as before.
LEMMA RequestsGoOn ==
  ASSUME Requests, NEW h \in Handlers, GoesOn(h), up, UNCHANGED <<up, name>>
  PROVE  Requests'
<1>1. ASSUME NEW g \in Handlers
      PROVE  /\ req'[g].pc # "idle" => req'[g].name \in Names
             /\ req'[g].pc = "GetProject" => req'[g].op # "create"
             /\ req'[g].pc \notin {"idle", "GetProject"} =>
                   req'[g].id \in Ids /\ name[req'[g].id] = req'[g].name
             /\ req'[g].pc \in OfCreation => req'[g].op = "create"
  BY DEF GoesOn, Requests, Later, OfCreation
<1>2. QED BY <1>1 DEF Requests, OfCreation

\* Every step of a request does one or the other.
LEMMA ServeGoesOn ==
  ASSUME TypeOK, Requests, NEW h \in Handlers, Serve(h)
  PROVE  GoesOn(h) /\ up /\ UNCHANGED <<scope, up, name>>
<1>1. up /\ UNCHANGED <<scope, up, name>>
  BY DEF Serve, GetProject, GetInstance, Creating, Deleting, Stopping, Starting, Updating,
     CreateProject, SetDomains, CreateInstance, DestroyOnFailure, RemoveDirOnFailure, DropProject,
     SetInstance, DestroyInstance, DeleteInstance, DeleteProject, StopInstance, ShutOff,
     NotShutOff, PollEnds, StartInstance, Ready, NotReady, UpdateInstance, UpdateProject, At
<1>2. CASE GetProject(h)
  BY <1>2, Answers, GoesFound DEF GetProject, At
<1>3. CASE GetInstance(h)
  <2>1. req[h].pc \notin {"idle", "GetProject"}
    BY <1>3 DEF GetInstance, At
  <2>2. AfterGetInstance(req[h].op, req[h].id \in inst) \in
           {"DestroyInstance", "DeleteProject", "StartInstance", "StopInstance", "idle"}
    BY DEF AfterGetInstance
  <2>3. PICK pc \in {"DestroyInstance", "DeleteProject", "StartInstance", "StopInstance", "idle"} :
           IF pc = "idle" THEN Answer(h) ELSE Goto(h, pc)
    BY <1>3, <2>2 DEF GetInstance
  <2>4. pc # "idle" => pc \in Later /\ pc \notin OfCreation
    BY DEF Later, OfCreation
  <2>5. QED BY <1>1, <2>1, <2>3, <2>4, Answers, Goes
<1>4. CASE Creating(h)
  <2>1. Creating(h) => req[h].pc \in OfCreation
    BY DEF Creating, CreateProject, SetDomains, CreateInstance,
       DestroyOnFailure, RemoveDirOnFailure, DropProject, SetInstance, At, OfCreation
  <2>2. req[h].op = "create" /\ req[h].pc \notin {"idle", "GetProject"}
    BY <1>4, <2>1 DEF Requests, OfCreation
  <2>3. \/ Answer(h)
        \/ \E pc \in {"SetDomains", "CreateInstance", "waitReady", "DropProject",
                      "RemoveDir"} : Goto(h, pc)
    BY <1>4 DEF Creating, CreateProject, SetDomains, CreateInstance,
       DestroyOnFailure, RemoveDirOnFailure, DropProject, SetInstance
  <2>4. ASSUME NEW pc \in {"SetDomains", "CreateInstance", "waitReady", "DropProject", "RemoveDir"},
               Goto(h, pc)
        PROVE  GoesOn(h)
    <3>1. pc \in Later
      BY DEF Later
    <3>2. QED BY <2>2, <2>4, <3>1, Goes
  <2>5. QED BY <1>1, <2>2, <2>3, <2>4, Answers
<1>5. CASE Deleting(h) \/ Stopping(h) \/ Starting(h) \/ Updating(h)
  <2>1. req[h].pc \notin {"idle", "GetProject"}
    BY <1>5 DEF Deleting, Stopping, Starting, Updating, DestroyInstance, DeleteInstance,
       DeleteProject, StopInstance, ShutOff, NotShutOff, PollEnds, StartInstance, Ready, NotReady,
       UpdateInstance, UpdateProject, At
  <2>2. \/ Answer(h)
        \/ \E pc \in {"DeleteInstance", "DeleteProject", "UpdateInstance", "Poll",
                      "StartInstance", "waitReady", "UpdateProject"} : Goto(h, pc)
        \/ req[h].op = "create" /\ \E pc \in {"Cleanup", "SetInstance"} : Goto(h, pc)
        \/ StopInstance(h)
    BY <1>5 DEF Deleting, Stopping, Starting, Updating, DestroyInstance, DeleteInstance,
       DeleteProject, ShutOff, NotShutOff, PollEnds, StartInstance, Ready, NotReady,
       UpdateInstance, UpdateProject
  <2>3. CASE StopInstance(h)
    <3>1. req[h].name \in Names
      BY <2>1 DEF Requests
    <3>2. dom \in [Names -> [st : {"none", "running", "stopping", "off"}, id : Ids \cup {None}]]
      BY DEF TypeOK
    <3>3. PICK v \in Ids \cup {None} : v = dom[req[h].name].id
      BY <3>1, <3>2
    <3>4. Answer(h) \/ req' = [req EXCEPT ![h].pc = "waitForShutoff", ![h].vm = v]
      BY <2>3, <3>3 DEF StopInstance
    <3>5. CASE Answer(h)
      BY <1>1, <2>1, <3>5, Answers
    <3>6. CASE req' = [req EXCEPT ![h].pc = "waitForShutoff", ![h].vm = v]
      BY <1>1, <2>1, <3>6, GoesWaiting
    <3>7. QED BY <3>4, <3>5, <3>6
  <2>4. ASSUME NEW pc \in {"DeleteInstance", "DeleteProject", "UpdateInstance", "Poll",
                           "StartInstance", "waitReady", "UpdateProject"}, Goto(h, pc)
        PROVE  GoesOn(h)
    <3>1. pc \in Later /\ pc \notin OfCreation
      BY DEF Later, OfCreation
    <3>2. QED BY <2>1, <2>4, <3>1, Goes
  <2>5. ASSUME req[h].op = "create", NEW pc \in {"Cleanup", "SetInstance"}, Goto(h, pc)
        PROVE  GoesOn(h)
    <3>1. pc \in Later
      BY DEF Later
    <3>2. QED BY <2>1, <2>5, <3>1, Goes
  <2>6. QED BY <1>1, <2>1, <2>2, <2>3, <2>4, <2>5, Answers
<1>6. QED BY <1>1, <1>2, <1>3, <1>4, <1>5 DEF Serve
-----------------------------------------------------------------------------
(* Types.                                                                    *)

\* What a request that was accepted is about.
LEMMA About ==
  ASSUME TypeOK, Requests, NEW h \in Handlers, req[h].pc \notin {"idle", "GetProject"}
  PROVE  req[h].id \in Ids /\ req[h].name \in Names /\ name[req[h].id] = req[h].name
BY DEF Requests

\* A save, logged or not, of some projects and instances, with any type of states.
LEMMA SavedType ==
  ASSUME TypeOK, NEW P \in SUBSET Ids, NEW I \in SUBSET Ids,
         pstate' \in [Ids -> ProjectStates], istate' \in [Ids -> InstanceStates],
         SaveLogged(P, I) \/ UNCHANGED file
  PROVE  file' \in File
<1>1. file \in File
  BY DEF TypeOK
<1>2. CASE UNCHANGED file
  BY <1>1, <1>2
<1>3. CASE SaveLogged(P, I)
  BY <1>1, <1>3, SaveType
<1>4. QED BY <1>2, <1>3

\* The objects keep their types, and so does the file when nothing else changes.
LEMMA ObjectsType ==
  ASSUME TypeOK, NEW i \in Ids, NEW st \in InstanceStates,
         istate' = [istate EXCEPT ![i] = st] \/ istate' = istate
  PROVE  istate' \in [Ids -> InstanceStates]
BY DEF TypeOK

\* Every step of a request keeps the types.
LEMMA ServeKeepsTypes ==
  ASSUME TypeOK, Requests, NEW h \in Handlers, Serve(h)
  PROVE  TypeOK'
<1>1. GoesOn(h) /\ up /\ UNCHANGED <<scope, up, name>>
  BY ServeGoesOn
<1>2. req' \in [Handlers -> Request]
  BY <1>1 DEF GoesOn
<1> USE <1>1, <1>2 DEF objects, store, vms, answers
<1>3. CASE GetProject(h) \/ GetInstance(h) \/ NotReady(h) \/ NotShutOff(h)
  BY <1>3 DEF TypeOK, GetProject, GetInstance, NotReady, NotShutOff
<1>4. SUFFICES ASSUME \/ Creating(h) \/ Deleting(h) \/ StopInstance(h) \/ ShutOff(h) \/ PollEnds(h)
                      \/ StartInstance(h) \/ Ready(h) \/ Updating(h)
               PROVE  TypeOK'
  BY <1>3 DEF Serve, Stopping, Starting
<1>5. req[h].pc \notin {"idle", "GetProject"}
  BY <1>4 DEF Creating, Deleting, Updating, CreateProject, SetDomains, CreateInstance,
     DestroyOnFailure, RemoveDirOnFailure, DropProject, SetInstance, DestroyInstance, DeleteInstance,
     DeleteProject, StopInstance, ShutOff, PollEnds, StartInstance, Ready, UpdateInstance,
     UpdateProject, At
<1>6. PICK i \in Ids : i = req[h].id
  BY <1>5, About
<1>7. PICK n \in Names : n = req[h].name
  BY <1>5, About
<1>8. CASE CreateProject(h) \/ SetDomains(h)
  <2>1. /\ UNCHANGED <<inst, rt, dom, img, created, deleted, pstate, istate>>
        /\ proj' \in SUBSET Ids
        /\ SaveLogged(proj', inst) \/ UNCHANGED file
    BY <1>6, <1>8 DEF CreateProject, SetDomains, TypeOK, SaveLogged
  <2>2. file' \in File
    BY <2>1, SavedType DEF TypeOK
  <2>3. QED BY <2>1, <2>2 DEF TypeOK
<1>9. CASE CreateInstance(h)
  <2>1. UNCHANGED <<proj, inst, file, created, deleted, pstate>>
    BY <1>9 DEF CreateInstance
  <2>2. istate' = [istate EXCEPT ![i] = "starting"] \/ istate' = istate
    BY <1>6, <1>9 DEF CreateInstance
  <2>3. istate' \in [Ids -> InstanceStates]
    BY <2>2 DEF TypeOK, InstanceStates
  <2>4. dom' = [dom EXCEPT ![n] = [st |-> "running", id |-> i]] \/ dom' = dom
    BY <1>6, <1>7, <1>9 DEF CreateInstance
  <2>5. img' = [img EXCEPT ![n] = i] \/ img' = [img EXCEPT ![n] = None] \/ img' = img
    BY <1>6, <1>7, <1>9 DEF CreateInstance, RemoveDir
  <2>6. rt' \subseteq Ids
    BY <1>6, <1>9 DEF CreateInstance, TypeOK
  <2>7. dom' \in [Names -> [st : {"none", "running", "stopping", "off"}, id : Ids \cup {None}]]
    BY <2>4 DEF TypeOK
  <2>8. img' \in [Names -> Ids \cup {None}]
    BY <2>5 DEF TypeOK
  <2>9. QED BY <2>1, <2>3, <2>6, <2>7, <2>8 DEF TypeOK
<1>10. CASE DestroyOnFailure(h) \/ RemoveDirOnFailure(h)
  <2>1. UNCHANGED <<proj, inst, file, created, deleted, pstate, istate>>
    BY <1>10 DEF DestroyOnFailure, RemoveDirOnFailure
  <2>2. dom' = [dom EXCEPT ![n] = NoDomain] \/ dom' = [dom EXCEPT ![n].st = "off"] \/ dom' = dom
    BY <1>7, <1>10 DEF DestroyOnFailure, RemoveDirOnFailure, DestroyFails
  <2>3. img' = [img EXCEPT ![n] = None] \/ img' = img
    BY <1>7, <1>10 DEF DestroyOnFailure, RemoveDirOnFailure, RemoveDir
  <2>4. rt' \subseteq Ids
    BY <1>10 DEF DestroyOnFailure, RemoveDirOnFailure, TypeOK
  <2>5. QED BY <2>1, <2>2, <2>3, <2>4 DEF TypeOK, NoDomain
<1>11. CASE DropProject(h) \/ SetInstance(h)
  <2>1. UNCHANGED <<rt, dom, img, deleted, pstate, istate>>
    BY <1>11 DEF DropProject, SetInstance
  <2>2. /\ proj' \in SUBSET Ids /\ inst' \in SUBSET Ids /\ created' \in SUBSET Ids
        /\ SaveLogged(proj', inst') \/ UNCHANGED file
    BY <1>6, <1>11 DEF DropProject, SetInstance, TypeOK
  <2>3. file' \in File
    BY <2>1, <2>2, SavedType DEF TypeOK
  <2>4. QED BY <2>1, <2>2, <2>3 DEF TypeOK
<1>12. CASE DestroyInstance(h)
  <2>1. UNCHANGED <<proj, inst, file, created, deleted, pstate, istate>>
    BY <1>12 DEF DestroyInstance
  <2>2. dom' = [dom EXCEPT ![n] = NoDomain] \/ dom' = [dom EXCEPT ![n].st = "off"] \/ dom' = dom
    BY <1>7, <1>12 DEF DestroyInstance, DestroyFails
  <2>3. img' = [img EXCEPT ![n] = None] \/ img' = img
    BY <1>7, <1>12 DEF DestroyInstance, RemoveDir
  <2>4. rt' \subseteq Ids
    BY <1>6, <1>12 DEF DestroyInstance, TypeOK
  <2>5. QED BY <2>1, <2>2, <2>3, <2>4 DEF TypeOK, NoDomain
<1>13. CASE DeleteInstance(h) \/ DeleteProject(h)
  <2>1. UNCHANGED <<rt, dom, img, created, pstate, istate>>
    BY <1>13 DEF DeleteInstance, DeleteProject
  <2>2. /\ proj' \in SUBSET Ids /\ inst' \in SUBSET Ids /\ deleted' \in SUBSET Ids
        /\ SaveLogged(proj', inst') \/ UNCHANGED file
    BY <1>6, <1>13 DEF DeleteInstance, DeleteProject, TypeOK, SaveLogged
  <2>3. file' \in File
    BY <2>1, <2>2, SavedType DEF TypeOK
  <2>4. QED BY <2>1, <2>2, <2>3 DEF TypeOK
<1>14. CASE StopInstance(h) \/ StartInstance(h)
  <2>1. UNCHANGED <<proj, inst, file, img, created, deleted, pstate>>
    BY <1>14 DEF StopInstance, StartInstance
  <2>2. \E st \in InstanceStates : istate' = [istate EXCEPT ![i] = st] \/ istate' = istate
    BY <1>6, <1>14 DEF StopInstance, StartInstance, InstanceStates
  <2>3. istate' \in [Ids -> InstanceStates]
    BY <2>2, ObjectsType
  <2>4. \/ \E st \in {"none", "running", "stopping", "off"} : dom' = [dom EXCEPT ![n].st = st]
        \/ dom' = dom
    BY <1>7, <1>14 DEF StopInstance, StartInstance
  <2>5. rt' \subseteq Ids
    BY <1>6, <1>14 DEF StopInstance, StartInstance, TypeOK
  <2>6. QED BY <2>1, <2>3, <2>4, <2>5 DEF TypeOK
<1>15. CASE ShutOff(h) \/ PollEnds(h) \/ Ready(h)
  <2>1. UNCHANGED <<proj, inst, rt, file, dom, img, created, deleted, pstate>>
    BY <1>15 DEF ShutOff, PollEnds, Ready
  <2>2. \E st \in InstanceStates : istate' = [istate EXCEPT ![i] = st] \/ istate' = istate
    BY <1>6, <1>15 DEF ShutOff, PollEnds, Ready, InstanceStates, StateSeen
  <2>3. istate' \in [Ids -> InstanceStates]
    BY <2>2, ObjectsType
  <2>4. QED BY <2>1, <2>3 DEF TypeOK
<1>16. CASE UpdateInstance(h) \/ UpdateProject(h)
  <2>1. UNCHANGED <<inst, rt, dom, img, created, deleted>>
    BY <1>16 DEF UpdateInstance, UpdateProject
  <2>2. \E st \in InstanceStates : istate' = [istate EXCEPT ![i] = st] \/ istate' = istate
    BY <1>6, <1>16 DEF UpdateInstance, UpdateProject, InstanceStates
  <2>3. istate' \in [Ids -> InstanceStates]
    BY <2>2, ObjectsType
  <2>4. pstate' \in [Ids -> ProjectStates]
    BY <1>6, <1>16 DEF UpdateInstance, UpdateProject, ProjectStates, TypeOK
  <2>5. proj' \in SUBSET Ids /\ (SaveLogged(proj', inst) \/ UNCHANGED file)
    BY <1>6, <1>16 DEF UpdateInstance, UpdateProject, TypeOK
  <2>6. file' \in File
    BY <2>3, <2>4, <2>5, SavedType DEF TypeOK
  <2>7. QED BY <2>1, <2>3, <2>4, <2>5, <2>6 DEF TypeOK
<1>17. QED BY <1>4, <1>8, <1>9, <1>10, <1>11, <1>12, <1>13, <1>14, <1>15, <1>16
         DEF Creating, Deleting, Updating

\* What a file that can be parsed holds.
LEMMA FileHolds ==
  ASSUME file \in File, file # Torn
  PROVE  /\ DOMAIN file.projects \subseteq Ids /\ DOMAIN file.instances \subseteq Ids
         /\ \A i \in DOMAIN file.projects : file.projects[i] \in ProjectStates
         /\ \A i \in DOMAIN file.instances : file.instances[i] \in InstanceStates
<1>1. file \in [projects  : UNION {[P -> ProjectStates] : P \in SUBSET Ids},
                instances : UNION {[I -> InstanceStates] : I \in SUBSET Ids}]
  BY DEF File
<1>2. /\ file.projects \in UNION {[P -> ProjectStates] : P \in SUBSET Ids}
      /\ file.instances \in UNION {[I -> InstanceStates] : I \in SUBSET Ids}
  BY <1>1
<1>3. PICK P \in SUBSET Ids : file.projects \in [P -> ProjectStates]
  BY <1>2
<1>4. PICK I \in SUBSET Ids : file.instances \in [I -> InstanceStates]
  BY <1>2
<1>5. QED BY <1>3, <1>4

\* An accepted request has the type of a request.
LEMMA ReceivesTypes ==
  ASSUME TypeOK, NEW h \in Handlers, NEW n \in Names, NEW op \in Ops
  PROVE  /\ \A i \in Ids : ReceiveCreate(h, n, i) => TypeOK'
         /\ Receive(h, op, n) => TypeOK'
<1>1. /\ \A i \in Ids :
           [pc |-> "CreateProject", op |-> "create", name |-> n, id |-> i, vm |-> None] \in Request
      /\ [pc |-> "GetProject", op |-> op, name |-> n, id |-> None, vm |-> None] \in Request
  BY DEF Request, Ops
<1>2. ASSUME NEW i \in Ids, ReceiveCreate(h, n, i)
      PROVE  TypeOK'
  <2>1. UNCHANGED <<scope, objects, store, rt, vms, up, answers>>
    BY <1>2 DEF ReceiveCreate
  <2>2. req' \in [Handlers -> Request]
    BY <1>1, <1>2 DEF ReceiveCreate, TypeOK
  <2>3. name' \in [Ids -> Names \cup {None}]
    BY <1>2 DEF ReceiveCreate, TypeOK
  <2>4. QED BY <2>1, <2>2, <2>3 DEF TypeOK, objects, store, vms, answers
<1>3. CASE Receive(h, op, n)
  <2>1. UNCHANGED <<scope, name, objects, store, rt, vms, up, answers>>
    BY <1>3 DEF Receive
  <2>2. req' \in [Handlers -> Request]
    BY <1>1, <1>3 DEF Receive, TypeOK
  <2>3. QED BY <2>1, <2>2 DEF TypeOK, objects, store, vms, answers
<1>4. QED BY <1>2, <1>3

\* So do the other steps.
LEMMA PollAndGuestTypes ==
  ASSUME TypeOK, Requests
  PROVE  /\ \A h \in Handlers : PollWaits(h) => TypeOK'
         /\ \A n \in Names : GuestEnds(n) => TypeOK'
<1>1. ASSUME NEW h \in Handlers, PollWaits(h)
      PROVE  TypeOK'
  <2>1. UNCHANGED <<scope, name, pstate, store, rt, vms, up, req, answers>>
    BY <1>1 DEF PollWaits
  <2>2. PICK i \in Ids : i = req[h].id
    BY <1>1, About DEF PollWaits, At
  <2>3. \E st \in InstanceStates : istate' = [istate EXCEPT ![i] = st]
    BY <1>1, <2>2 DEF PollWaits, StateSeen, InstanceStates
  <2>4. istate' \in [Ids -> InstanceStates]
    BY <2>3, ObjectsType
  <2>5. QED BY <2>1, <2>4 DEF TypeOK, store, vms, answers
<1>2. ASSUME NEW n \in Names, GuestEnds(n)
      PROVE  TypeOK'
  <2>1. UNCHANGED <<scope, name, objects, store, rt, img, up, req, answers>>
    BY <1>2 DEF GuestEnds
  <2>2. dom' \in [Names -> [st : {"none", "running", "stopping", "off"}, id : Ids \cup {None}]]
    BY <1>2 DEF GuestEnds, TypeOK
  <2>3. QED BY <2>1, <2>2 DEF TypeOK, objects, store, answers
<1>3. QED BY <1>1, <1>2

LEMMA ServerTypes ==
  ASSUME TypeOK, ServerEnds \/ ServerStarts
  PROVE  TypeOK'
<1>1. IdleReq \in Request /\ Torn \in File
  BY DEF IdleReq, Request, Ops, File
<1>2. CASE ServerEnds
  BY <1>1, <1>2 DEF ServerEnds, TypeOK, objects, vms, answers
<1>3. CASE ServerStarts
  <2>1. /\ UNCHANGED <<scope, name, vms, req, answers>> /\ up' = TRUE
        /\ file \in File /\ file # Torn
    BY <1>3 DEF ServerStarts, Loadable, TypeOK
  <2> DEFINE P == DOMAIN file.projects
             I == DOMAIN file.instances
             new(i) == Reconciled(i, file.instances[i])
  <2>2. /\ P \in SUBSET Ids /\ I \in SUBSET Ids
        /\ \A i \in P : file.projects[i] \in ProjectStates
        /\ \A i \in I : file.instances[i] \in InstanceStates
    BY <2>1, FileHolds
  <2>3. proj' = P /\ inst' = I /\ rt' = I
    BY <1>3 DEF ServerStarts
  <2>4. istate' = [i \in Ids |-> IF i \in I THEN new(i) ELSE istate[i]]
    BY <1>3 DEF ServerStarts
  <2>5. pstate' = [i \in Ids |->
                     IF i \in I /\ new(i) # file.instances[i] THEN ProjectStateOf(new(i))
                     ELSE IF i \in P THEN file.projects[i] ELSE pstate[i]]
    BY <1>3 DEF ServerStarts
  <2>6. SaveLogged(P, I) \/ UNCHANGED file
    BY <1>3 DEF ServerStarts
  <2>7. /\ \A i \in I : new(i) \in InstanceStates
        /\ \A i \in I : ProjectStateOf(new(i)) \in ProjectStates
    BY <2>2 DEF Reconciled, StateSeen, InstanceStates, ProjectStateOf, ProjectStates
  <2> HIDE DEF P, I, new
  <2>8. istate' \in [Ids -> InstanceStates]
    BY <2>4, <2>7 DEF TypeOK
  <2>9. pstate' \in [Ids -> ProjectStates]
    BY <2>2, <2>5, <2>7 DEF TypeOK
  <2>10. file' \in File
    BY <2>2, <2>6, <2>8, <2>9, SavedType
  <2>11. QED BY <2>1, <2>2, <2>3, <2>8, <2>9, <2>10 DEF TypeOK, vms, answers
<1>4. QED BY <1>2, <1>3
-----------------------------------------------------------------------------
(* Projects in memory and in the file.                                       *)

\* What a step of a request may do to them: a creation adds its own project,
\* or drops it, or confirms it; a deletion removes its project and confirms
\* that when it is saved.
StoreGoesOn(h) ==
    /\ \/ created' = created
       \/ /\ created' = created \cup {req[h].id} /\ req[h].pc = "SetInstance"
          /\ req'[h].pc = "idle" /\ proj' = proj
    /\ \/ proj' \subseteq proj /\ (req[h].pc = "CreateProject" => req'[h].pc = "idle")
       \/ proj' = proj \cup {req[h].id} /\ req[h].pc = "CreateProject"
    /\ deleted \subseteq deleted' /\ deleted' \subseteq deleted \cup (proj \ proj')
    /\ \/ deleted' = deleted /\ file' \in {file, Torn}
       \/ file' # Torn /\ DOMAIN file'.projects = proj'
    /\ "save" \notin scope.faults =>
          /\ file' # Torn /\ DOMAIN file'.projects = proj'
          /\ proj \ {req[h].id} \subseteq proj'
          /\ \/ proj \subseteq proj' \cup deleted'
             \/ Creates(h) /\ req'[h].pc = "idle"

\* A creation under way was under way before the step, with the same project.
LEMMA CreatesBefore ==
  ASSUME TypeOK, Requests, NEW h \in Handlers, GoesOn(h), NEW g \in Handlers, Creates(g)'
  PROVE  /\ Creates(g) /\ req'[g].id = req[g].id
         /\ g # h => req'[g] = req[g]
         /\ req'[h].pc # "CreateProject"
<1>1. CASE g = h
  BY <1>1 DEF Creates, GoesOn, Requests, Later
<1>2. CASE g # h
  BY <1>2 DEF Creates, GoesOn, Later
<1>3. QED BY <1>1, <1>2

LEMMA OwnGoesOn ==
  ASSUME Base, NEW h \in Handlers, GoesOn(h), up, UNCHANGED <<scope, up, name>>, TypeOK',
         StoreGoesOn(h)
  PROVE  OwnProject'
<1> USE DEF Base
<1>1. req[h].pc \in {"CreateProject", "SetInstance"} =>
         Creates(h) /\ req[h].id \in Ids /\ name[req[h].id] # None
  BY NoneAssumption DEF Requests, Creates
<1>2. \A i \in Ids : name[i] = None =>
         /\ i \notin proj' \cup created' \cup deleted'
         /\ file' # Torn => i \notin DOMAIN file'.projects
  BY <1>1 DEF OwnProject, StoreGoesOn
<1>3. ASSUME NEW g \in Handlers, Creates(g)'
      PROVE  /\ req'[g].id \notin created'
             /\ req'[g].pc = "CreateProject" => req'[g].id \notin proj' \cup deleted'
  <2>1. /\ Creates(g) /\ req'[g].id = req[g].id
        /\ g # h => req'[g] = req[g]
        /\ req'[h].pc # "CreateProject"
    BY <1>3, CreatesBefore
  <2>2. req[g].id \notin created
    BY <2>1 DEF OwnProject
  <2>3. created' # created => g # h /\ req[g].id # req[h].id
    BY <1>1, <1>3, <2>1 DEF OwnProject, StoreGoesOn, Creates
  <2>4. req'[g].id \notin created'
    BY <2>1, <2>2, <2>3 DEF StoreGoesOn
  <2>5. ASSUME req'[g].pc = "CreateProject"
        PROVE  req'[g].id \notin proj' \cup deleted'
    <3>1. g # h /\ req[g].pc = "CreateProject"
      BY <2>1, <2>5
    <3>2. req[g].id \notin proj \cup deleted
      BY <3>1 DEF OwnProject
    <3>3. req[h].pc = "CreateProject" => req[g].id # req[h].id
      BY <1>1, <2>1, <3>1 DEF OwnProject
    <3>4. QED BY <2>1, <3>2, <3>3 DEF StoreGoesOn
  <2>6. QED BY <2>4, <2>5
<1>4. ASSUME NEW g \in Handlers, NEW k \in Handlers, Creates(g)', Creates(k)',
             req'[g].id = req'[k].id
      PROVE  g = k
  BY <1>4, CreatesBefore DEF OwnProject
<1>5. \A g \in Handlers : req'[g].pc = "CreateProject" => Creates(g)'
  <2>1. \A g \in Handlers : req'[g].pc = "CreateProject" => g # h /\ req'[g] = req[g]
    BY DEF GoesOn, Later
  <2>2. QED BY <2>1 DEF Creates, Requests
<1>6. QED BY <1>2, <1>3, <1>4, <1>5 DEF OwnProject

LEMMA BaseGoesOn ==
  ASSUME Base, NEW h \in Handlers, GoesOn(h), up, UNCHANGED <<scope, up, name>>, TypeOK',
         StoreGoesOn(h)
  PROVE  Base'
<1> USE DEF Base
<1>1. Requests' /\ OwnProject'
  BY RequestsGoOn, OwnGoesOn
<1>2. NotBack'
  <2>1. deleted' \cap proj' = {}
    BY DEF NotBack, StoreGoesOn, OwnProject
  <2>2. file' # Torn => deleted' \cap DOMAIN file'.projects = {}
    BY <2>1 DEF NotBack, StoreGoesOn
  <2>3. QED BY <2>1, <2>2 DEF NotBack
<1>3. SUFFICES ASSUME "save" \notin scope.faults
               PROVE  Saved' /\ ConfirmedIsDurable'
  BY <1>1, <1>2 DEF Saved, ConfirmedIsDurable
<1>4. file' # Torn /\ DOMAIN file'.projects = proj' /\ file # Torn /\ DOMAIN file.projects = proj
  BY <1>3 DEF StoreGoesOn, Saved
<1>5. ASSUME NEW g \in Handlers, Creates(g)', req'[g].pc # "CreateProject"
      PROVE  req'[g].id \in proj' \cup deleted'
  <2>1. /\ Creates(g) /\ req'[g].id = req[g].id
        /\ g # h => req'[g] = req[g]
    BY <1>5, CreatesBefore
  <2>2. CASE g = h /\ req[h].pc = "CreateProject"
    BY <1>5, <2>1, <2>2 DEF StoreGoesOn, Creates
  <2>3. CASE ~(g = h /\ req[h].pc = "CreateProject")
    <3>1. req[g].id \in proj \cup deleted
      BY <1>3, <1>5, <2>1, <2>3 DEF Saved
    <3>2. Creates(h) /\ req'[h].pc = "idle" => g # h /\ req[g].id # req[h].id
      BY <1>5, <2>1 DEF OwnProject, Creates
    <3>3. QED BY <1>3, <2>1, <3>1, <3>2 DEF StoreGoesOn
  <2>4. QED BY <2>2, <2>3
<1>6. Saved'
  BY <1>4, <1>5 DEF Saved
<1>7. created' \ deleted' \subseteq proj'
  <2>1. ASSUME NEW i \in created' \ deleted'
        PROVE  i \in proj'
    <3>1. CASE i \in created
      <4>1. i \in proj
        BY <1>3, <1>4, <2>1, <3>1 DEF ConfirmedIsDurable, StoreGoesOn
      <4>2. Creates(h) => i # req[h].id
        BY <3>1 DEF OwnProject
      <4>3. QED BY <1>3, <2>1, <4>1, <4>2 DEF StoreGoesOn
    <3>2. CASE i \notin created
      <4>1. i = req[h].id /\ req[h].pc = "SetInstance" /\ proj' = proj
        BY <2>1, <3>2 DEF StoreGoesOn
      <4>2. Creates(h) /\ req[h].pc # "CreateProject"
        BY <4>1 DEF Requests, Creates
      <4>3. QED BY <1>3, <2>1, <4>1, <4>2 DEF Saved, StoreGoesOn
    <3>3. QED BY <3>1, <3>2
  <2>2. QED BY <2>1
<1>8. ConfirmedIsDurable'
  BY <1>4, <1>7 DEF ConfirmedIsDurable
<1>9. QED BY <1>6, <1>8

\* A save whose failure is logged, in terms of the above.
LEMMA SavesProjects ==
  ASSUME TypeOK, TypeOK', NEW P \in SUBSET Ids, NEW I \in SUBSET Ids, SaveLogged(P, I)
  PROVE  /\ \/ file' \in {file, Torn}
            \/ file' # Torn /\ DOMAIN file'.projects = P /\ DOMAIN file'.instances = I
         /\ "save" \notin scope.faults => file' # Torn /\ DOMAIN file'.projects = P
<1>1. file \in File /\ pstate' \in [Ids -> ProjectStates] /\ istate' \in [Ids -> InstanceStates]
  BY DEF TypeOK
<1>2. QED BY <1>1, SaveType, SnapshotType

LEMMA SavesOk ==
  ASSUME NEW P \in SUBSET Ids, NEW I \in SUBSET Ids, SaveOk(P, I)
  PROVE  file' # Torn /\ DOMAIN file'.projects = P /\ DOMAIN file'.instances = I
BY DEF SaveOk, Snapshot, Torn

\* Every step of a request does no more than StoreGoesOn says.
LEMMA ServeStore ==
  ASSUME Base, NEW h \in Handlers, Serve(h)
  PROVE  StoreGoesOn(h)
<1> USE DEF Base, store, answers
<1>1. GoesOn(h) /\ up /\ UNCHANGED <<scope, up, name>> /\ TypeOK'
  BY ServeGoesOn, ServeKeepsTypes
<1>2. "save" \notin scope.faults => file # Torn /\ DOMAIN file.projects = proj
  BY <1>1 DEF Saved
<1>3. ASSUME UNCHANGED <<store, answers>>, req[h].pc = "CreateProject" => req'[h].pc = "idle"
      PROVE  StoreGoesOn(h)
  BY <1>2, <1>3 DEF StoreGoesOn
<1>4. CASE GetProject(h) \/ GetInstance(h) \/ Stopping(h) \/ Starting(h)
  BY <1>3, <1>4 DEF GetProject, GetInstance, Stopping, Starting, StopInstance, ShutOff,
     NotShutOff, PollEnds, StartInstance, Ready, NotReady, At
<1>5. CASE CreateInstance(h) \/ DestroyOnFailure(h) \/ RemoveDirOnFailure(h) \/ DestroyInstance(h)
  BY <1>3, <1>5 DEF CreateInstance, DestroyOnFailure, RemoveDirOnFailure, DestroyInstance, At
<1>6. CASE CreateProject(h)
  <2>1. UNCHANGED <<created, deleted, inst, pstate, istate>> /\ req[h].pc = "CreateProject"
    BY <1>6 DEF CreateProject, At, objects
  <2>2. CASE Answer(h) /\ UNCHANGED <<proj, file>>
    BY <1>1, <1>3, <2>1, <2>2, Answers
  <2>3. CASE Answer(h) /\ UNCHANGED proj /\ SaveFails
    BY <1>1, <2>1, <2>3, Answers DEF StoreGoesOn, SaveFails
  <2>4. CASE proj' = proj \cup {req[h].id} /\ SaveOk(proj', inst)
    <3>1. PICK P \in SUBSET Ids : P = proj'
      BY <1>1 DEF TypeOK
    <3>2. file' # Torn /\ DOMAIN file'.projects = proj'
      BY <1>1, <2>4, <3>1, SavesOk DEF TypeOK
    <3>3. QED BY <2>1, <2>4, <3>2 DEF StoreGoesOn
  <2>5. QED BY <1>6, <2>2, <2>3, <2>4 DEF CreateProject
<1>7. CASE DropProject(h)
  <2>1. /\ UNCHANGED <<created, deleted, inst>> /\ req[h].pc = "DropProject"
        /\ proj' = proj \ {req[h].id}
        /\ IF req[h].id \in proj THEN SaveLogged(proj', inst) ELSE UNCHANGED file
    BY <1>7 DEF DropProject, At
  <2>2. Answer(h) /\ Creates(h)
    BY <1>7, <2>1 DEF DropProject, Requests, Creates
  <2>3. req'[h].pc = "idle"
    BY <2>1, <2>2, Answers
  <2>4. CASE req[h].id \in proj
    BY <1>1, <2>1, <2>2, <2>3, <2>4, SavesProjects DEF StoreGoesOn, TypeOK
  <2>5. CASE req[h].id \notin proj
    BY <1>2, <2>1, <2>2, <2>3, <2>5 DEF StoreGoesOn
  <2>6. QED BY <2>4, <2>5
<1>8. CASE SetInstance(h)
  <2>1. /\ UNCHANGED <<proj, deleted>> /\ req[h].pc = "SetInstance"
        /\ created' = created \cup {req[h].id}
        /\ SaveLogged(proj, inst') \/ UNCHANGED file
        /\ Answer(h)
    BY <1>8 DEF SetInstance, At
  <2>2. req'[h].pc = "idle"
    BY <2>1, Answers
  <2>3. /\ file' \in {file, Torn} \/ (file' # Torn /\ DOMAIN file'.projects = proj)
        /\ "save" \notin scope.faults => file' # Torn /\ DOMAIN file'.projects = proj
    BY <1>1, <1>2, <2>1, SavesProjects DEF TypeOK
  <2>4. QED BY <2>1, <2>2, <2>3 DEF StoreGoesOn
<1>9. CASE DeleteInstance(h)
  <2>1. /\ UNCHANGED <<proj, created, deleted>> /\ req[h].pc = "DeleteInstance"
        /\ SaveLogged(proj, inst')
    BY <1>9 DEF DeleteInstance, At
  <2>2. QED BY <1>1, <2>1, SavesProjects DEF StoreGoesOn, TypeOK
<1>10. CASE DeleteProject(h)
  <2>1. /\ UNCHANGED <<inst, created, pstate, istate>> /\ req[h].pc = "DeleteProject"
        /\ proj' = proj \ {req[h].id}
    BY <1>10 DEF DeleteProject, At, objects
  <2>2. CASE req[h].id \in proj /\ SaveOk(proj', inst) /\ deleted' = deleted \cup {req[h].id}
    <3>1. PICK P \in SUBSET Ids : P = proj'
      BY <1>1 DEF TypeOK
    <3>2. file' # Torn /\ DOMAIN file'.projects = proj'
      BY <1>1, <2>2, <3>1, SavesOk DEF TypeOK
    <3>3. QED BY <2>1, <2>2, <3>2 DEF StoreGoesOn
  <2>3. CASE SaveFails /\ UNCHANGED deleted
    BY <2>1, <2>3 DEF StoreGoesOn, SaveFails
  <2>4. CASE req[h].id \notin proj /\ UNCHANGED <<file, deleted>>
    BY <1>2, <2>1, <2>4 DEF StoreGoesOn
  <2>5. QED BY <1>10, <2>2, <2>3, <2>4 DEF DeleteProject
<1>11. CASE SetDomains(h) \/ UpdateInstance(h) \/ UpdateProject(h)
  <2>1. /\ UNCHANGED <<created, deleted, inst>> /\ req[h].pc # "CreateProject"
        /\ proj' = proj
        /\ SaveLogged(proj', inst) \/ UNCHANGED file
    BY <1>11 DEF SetDomains, UpdateInstance, UpdateProject, Updatable, At
  <2>2. /\ file' \in {file, Torn} \/ (file' # Torn /\ DOMAIN file'.projects = proj)
        /\ "save" \notin scope.faults => file' # Torn /\ DOMAIN file'.projects = proj
    BY <1>1, <1>2, <2>1, SavesProjects DEF TypeOK
  <2>3. QED BY <2>1, <2>2 DEF StoreGoesOn
<1>12. QED BY <1>4, <1>5, <1>6, <1>7, <1>8, <1>9, <1>10, <1>11
         DEF Serve, Creating, Deleting, Updating

\* Accepting a request: the only step that adds one.
LEMMA ReceiveKeepsBase ==
  ASSUME Base, NEW h \in Handlers, NEW n \in Names, NEW op \in Ops,
         (\E i \in Ids : ReceiveCreate(h, n, i)) \/ Receive(h, op, n)
  PROVE  Base'
<1> USE DEF Base, objects, store, vms, answers
<1>0. PICK i : (i \in Ids /\ ReceiveCreate(h, n, i)) \/ Receive(h, op, n)
  OBVIOUS
<1> DEFINE c == [pc |-> "CreateProject", op |-> "create", name |-> n, id |-> i, vm |-> None]
           q == [pc |-> "GetProject", op |-> op, name |-> n, id |-> None, vm |-> None]
<1>1. TypeOK'
  BY <1>0, ReceivesTypes
<1>2. UNCHANGED <<scope, proj, inst, file, created, deleted, up>> /\ up /\ req[h].pc = "idle"
  BY <1>0 DEF ReceiveCreate, Receive, Accepts, At
<1>3. req \in [Handlers -> Request] /\ name \in [Ids -> Names \cup {None}]
  BY DEF TypeOK
<1>4. \/ /\ req'[h] = c /\ name[i] = None /\ name' = [name EXCEPT ![i] = n] /\ i \in Ids
      \/ req'[h] = q /\ op # "create" /\ name' = name
  BY <1>0, <1>3 DEF ReceiveCreate, Receive
<1>5. \A g \in Handlers : g # h => req'[g] = req[g]
  BY <1>0, <1>3 DEF ReceiveCreate, Receive
<1>6. \A j \in Ids : name[j] # None => name'[j] = name[j]
  BY <1>3, <1>4
<1>7. \A g \in Handlers : req[g].pc \notin {"idle", "GetProject"} => name[req[g].id] # None
  BY NoneAssumption DEF Requests
<1>8. Requests'
  <2>1. ASSUME NEW g \in Handlers
        PROVE  /\ req'[g].pc # "idle" => req'[g].name \in Names
               /\ req'[g].pc = "GetProject" => req'[g].op # "create"
               /\ req'[g].pc \notin {"idle", "GetProject"} =>
                     req'[g].id \in Ids /\ name'[req'[g].id] = req'[g].name
               /\ req'[g].pc \in {"CreateProject", "SetDomains", "CreateInstance", "Cleanup",
                                  "RemoveDir", "DropProject", "SetInstance"} => req'[g].op = "create"
    <3>1. CASE g = h
      BY <1>3, <1>4, <3>1
    <3>2. CASE g # h
      BY <1>5, <1>6, <1>7, <3>2 DEF Requests
    <3>3. QED BY <3>1, <3>2
  <2>2. QED BY <1>2, <2>1 DEF Requests
<1>9. \A g \in Handlers : Creates(g)' => (g # h /\ Creates(g) /\ req'[g] = req[g])
                                         \/ (g = h /\ req'[h] = c /\ name[i] = None /\ i \in Ids)
  BY <1>4, <1>5 DEF Creates
<1>10. \A g \in Handlers : Creates(g) => name[req[g].id] # None
  BY <1>7 DEF Creates, Requests
<1>11. OwnProject'
  <2>1. \A g, k \in Handlers : Creates(g)' /\ Creates(k)' /\ req'[g].id = req'[k].id => g = k
    BY <1>9, <1>10 DEF OwnProject
  <2>2. \A g \in Handlers : Creates(g)' => req'[g].id \notin created'
    BY <1>2, <1>9 DEF OwnProject
  <2>3. \A g \in Handlers : req'[g].pc = "CreateProject" => req'[g].id \notin proj' \cup deleted'
    BY <1>2, <1>4, <1>5 DEF OwnProject
  <2>4. \A j \in Ids : name'[j] = None => name[j] = None
    BY <1>6
  <2>5. \A j \in Ids : name'[j] = None =>
           /\ j \notin proj' \cup created' \cup deleted'
           /\ file' # Torn => j \notin DOMAIN file'.projects
    BY <1>2, <2>4 DEF OwnProject
  <2>6. QED BY <2>1, <2>2, <2>3, <2>5 DEF OwnProject
<1>12. NotBack' /\ ConfirmedIsDurable'
  BY <1>2 DEF NotBack, ConfirmedIsDurable
<1>13. Saved'
  BY <1>2, <1>9 DEF Saved
<1>14. QED BY <1>1, <1>8, <1>11, <1>12, <1>13

\* A step that leaves requests and store alone.
LEMMA ApartKeepsBase ==
  ASSUME Base, TypeOK', UNCHANGED <<scope, name, proj, inst, file, up, req, created, deleted>>
  PROVE  Base'
BY DEF Base, Requests, OwnProject, Creates, NotBack, Saved, ConfirmedIsDurable

\* The server's end: every request is lost, and perhaps the file.
LEMMA EndKeepsBase ==
  ASSUME Base, ServerEnds
  PROVE  Base'
<1> USE DEF Base
<1>1. TypeOK'
  BY ServerTypes
<1>2. /\ UNCHANGED <<scope, name, proj, created, deleted>> /\ up' = FALSE
      /\ \A h \in Handlers : req'[h].pc = "idle"
      /\ file' = file \/ file' = Torn
  BY DEF ServerEnds, answers, IdleReq
<1>3. Requests' /\ OwnProject'
  BY <1>2 DEF Requests, OwnProject, Creates
<1>4. NotBack' /\ Saved' /\ ConfirmedIsDurable'
  BY <1>2 DEF NotBack, Saved, Creates, ConfirmedIsDurable
<1>5. QED BY <1>1, <1>3, <1>4

\* The server's start: it takes over what the file holds.
LEMMA StartKeepsBase ==
  ASSUME Base, ServerStarts
  PROVE  Base'
<1> USE DEF Base
<1>1. TypeOK'
  BY ServerTypes
<1>2. /\ UNCHANGED <<scope, name, req, created, deleted>> /\ up' = TRUE /\ ~up
      /\ file # Torn /\ proj' = DOMAIN file.projects
      /\ SaveLogged(DOMAIN file.projects, DOMAIN file.instances) \/ UNCHANGED file
  BY DEF ServerStarts, Loadable, answers
<1>3. \A h \in Handlers : req[h].pc = "idle"
  BY <1>2 DEF Requests
<1>4. DOMAIN file.projects \in SUBSET Ids /\ DOMAIN file.instances \in SUBSET Ids
  BY <1>2, FileHolds DEF TypeOK
<1>5. /\ file' # Torn => DOMAIN file'.projects = proj'
      /\ "save" \notin scope.faults => file' # Torn
  BY <1>1, <1>2, <1>4, SavesProjects
<1>6. Requests' /\ OwnProject'
  BY <1>2, <1>3, <1>5 DEF Requests, OwnProject, Creates
<1>7. NotBack' /\ Saved' /\ ConfirmedIsDurable'
  BY <1>2, <1>3, <1>5 DEF NotBack, Saved, Creates, ConfirmedIsDurable
<1>8. QED BY <1>1, <1>6, <1>7
-----------------------------------------------------------------------------
(* Whatever happens.                                                         *)

LEMMA InitBase ==
  ASSUME Init
  PROVE  Base
<1>1. pstate \in [Ids -> ProjectStates] /\ istate \in [Ids -> InstanceStates]
  BY DEF Init, ProjectStates, InstanceStates
<1>2. Snapshot({}, {}, pstate, istate) \in File
  <2>1. PICK P \in SUBSET Ids : P = {}
    OBVIOUS
  <2>2. QED BY <1>1, <2>1, SnapshotType
<1>3. DOMAIN file.projects = {} /\ file # Torn
  BY DEF Init, Snapshot, Torn
<1>4. IdleReq \in Request
  BY DEF IdleReq, Request, Ops
<1>5. TypeOK
  BY <1>1, <1>2, <1>4 DEF Init, TypeOK, NoDomain
<1>6. \A h \in Handlers : req[h].pc = "idle"
  BY DEF Init, IdleReq
<1>7. Requests /\ OwnProject
  BY <1>3, <1>6 DEF Init, Requests, OwnProject, Creates
<1>8. NotBack /\ Saved /\ ConfirmedIsDurable
  BY <1>3, <1>6 DEF Init, NotBack, Saved, Creates, ConfirmedIsDurable
<1>9. QED BY <1>5, <1>7, <1>8 DEF Base

LEMMA NextKeepsBase ==
  ASSUME Base, [Next]_vars
  PROVE  Base'
<1>1. ASSUME NEW h \in Handlers, NEW n \in Names, NEW i \in Ids, ReceiveCreate(h, n, i)
      PROVE  Base'
  BY <1>1, ReceiveKeepsBase DEF Ops
<1>2. ASSUME NEW h \in Handlers, NEW n \in Names, NEW op \in Ops, Receive(h, op, n)
      PROVE  Base'
  BY <1>2, ReceiveKeepsBase
<1>3. ASSUME NEW h \in Handlers, Serve(h)
      PROVE  Base'
  BY <1>3, ServeGoesOn, ServeKeepsTypes, ServeStore, BaseGoesOn DEF Base
<1>4. ASSUME NEW h \in Handlers, PollWaits(h)
      PROVE  Base'
  BY <1>4, PollAndGuestTypes, ApartKeepsBase DEF Base, PollWaits, store, answers
<1>5. ASSUME NEW n \in Names, GuestEnds(n)
      PROVE  Base'
  BY <1>5, PollAndGuestTypes, ApartKeepsBase DEF Base, GuestEnds, store, answers
<1>6. CASE ServerEnds
  BY <1>6, EndKeepsBase
<1>7. CASE ServerStarts
  BY <1>7, StartKeepsBase
<1>8. CASE UNCHANGED vars
  BY <1>8, ApartKeepsBase DEF Base, TypeOK, vars
<1>9. QED BY <1>1, <1>2, <1>3, <1>4, <1>5, <1>6, <1>7, <1>8 DEF Next

\* What the server has, its file and its requests, whatever fails, however
\* requests overlap and wherever the server dies.
THEOREM BaseInvariant == Spec => []Base
<1>1. Init => Base
  BY InitBase
<1>2. Base /\ [Next]_vars => Base'
  BY NextKeepsBase
<1>3. QED BY <1>1, <1>2, PTL DEF Spec

\* Types, from the invariant.
THEOREM TypeCorrect == Spec => []TypeOK
<1>1. Base => TypeOK
  BY DEF Base
<1>2. QED BY BaseInvariant, <1>1, PTL

\* A confirmed deletion is final: no other handler that still has the project,
\* no failed save and no restart brings it back (local.go: UpdateProject
\* refuses what the store does not have, saves write what memory has).
THEOREM DeletedStays == Spec => []DeletedStaysDeleted
<1>1. Base => DeletedStaysDeleted
  BY DEF Base, NotBack, DeletedStaysDeleted
<1>2. QED BY BaseInvariant, <1>1, PTL

\* A confirmed creation is in the file until its deletion is confirmed,
\* wherever the server dies, as long as saves work.
THEOREM ConfirmedStays == Spec => []ConfirmedIsDurable
<1>1. Base => ConfirmedIsDurable
  BY DEF Base
<1>2. QED BY BaseInvariant, <1>1, PTL
-----------------------------------------------------------------------------
(* One request at a time.                                                    *)

\* Where a request goes, and that the others stay where they are.
LEMMA Going ==
  ASSUME TypeOK, NEW h \in Handlers, NEW pc, Goto(h, pc)
  PROVE  req'[h].pc = pc /\ req'[h].id = req[h].id
<1>1. req \in [Handlers -> Request]
  BY DEF TypeOK
<1> DEFINE x == req[h]
           y == [x EXCEPT !.pc = pc]
<1>2. x \in Request
  BY <1>1
<1>3. y.pc = pc /\ y.id = x.id
  BY <1>2 DEF Request
<1>4. req' = [req EXCEPT ![h] = y]
  BY DEF Goto
<1> HIDE DEF y
<1>5. QED BY <1>1, <1>3, <1>4

\* A request is accepted only when none is being served.
LEMMA NoneServed ==
  ASSUME OneByOne, Cardinality(Busy) < scope.clients
  PROVE  \A h \in Handlers : req[h].pc = "idle"
<1>1. IsFiniteSet(Busy)
  BY HandlersAssumption, FS_Subset DEF Busy
<1>2. Cardinality(Busy) \in Nat
  BY <1>1, FS_CardinalityType
<1>3. Cardinality(Busy) = 0
  BY <1>2 DEF OneByOne
<1>4. Busy = {}
  BY <1>1, <1>3, FS_EmptySet
<1>5. QED BY <1>4 DEF Busy

\* Requests that are being served are one.
LEMMA AloneKept ==
  ASSUME Base, Alone, [Next]_vars
  PROVE  Alone'
<1> SUFFICES ASSUME OneByOne', NEW g \in Handlers, NEW k \in Handlers,
                    req'[g].pc # "idle", req'[k].pc # "idle"
             PROVE  g = k
  BY DEF Alone, Busy
<1>1. scope' = scope /\ OneByOne
  <2>1. scope' = scope
    BY ServeGoesOn DEF Base, Next, vars, ReceiveCreate, Receive, PollWaits, GuestEnds,
       ServerEnds, ServerStarts
  <2>2. QED BY <2>1 DEF OneByOne
<1>2. \A f, h \in Handlers : req[f].pc # "idle" /\ req[h].pc # "idle" => f = h
  BY <1>1 DEF Alone, Busy
<1>3. ASSUME NEW h \in Handlers, NEW n \in Names, NEW op \in Ops,
             (\E i \in Ids : ReceiveCreate(h, n, i)) \/ Receive(h, op, n)
      PROVE  g = k
  <2>1. \A f \in Handlers : req[f].pc = "idle"
    BY <1>1, <1>3, NoneServed DEF ReceiveCreate, Receive, Accepts
  <2>2. \A f \in Handlers : f # h => req'[f] = req[f]
    BY <1>3 DEF Base, TypeOK, ReceiveCreate, Receive
  <2>3. QED BY <2>1, <2>2
<1>4. ASSUME NEW h \in Handlers, Serve(h)
      PROVE  g = k
  <2>1. GoesOn(h)
    BY <1>4, ServeGoesOn DEF Base
  <2>2. QED BY <1>2, <2>1 DEF GoesOn
<1>5. CASE UNCHANGED req
  BY <1>2, <1>5
<1>6. CASE ServerEnds
  BY <1>6 DEF ServerEnds, IdleReq
<1>7. QED BY <1>3, <1>4, <1>5, <1>6
  DEF Next, vars, PollWaits, GuestEnds, ServerStarts, Ops

\* What a step of the only request does to memory and file, as far as instances
\* and their projects are concerned.
LEMMA ServeBound ==
  ASSUME Base, Bound, OneByOne, NEW h \in Handlers, Serve(h)
  PROVE  /\ inst' \subseteq proj'
         /\ file' # Torn => file' = file \/ DOMAIN file'.instances \subseteq DOMAIN file'.projects
         /\ req'[h].pc # "idle" => inst' \subseteq inst
         /\ req'[h].pc = "DeleteProject" => req'[h].id \notin inst'
<1> USE DEF Base, store
<1>1. GoesOn(h) /\ up /\ TypeOK'
  BY ServeGoesOn, ServeKeepsTypes
<1>2. /\ inst \subseteq proj
      /\ Creates(h) \/ req[h].pc = "DeleteProject" => req[h].id \notin inst
  BY DEF Bound
<1>3. req[h].pc \in OfCreation => Creates(h)
  BY DEF Creates, Requests, OfCreation
<1>4. ASSUME UNCHANGED store, req'[h].pc # "DeleteProject"
      PROVE  /\ inst' \subseteq proj'
             /\ file' # Torn => file' = file
             /\ inst' \subseteq inst
             /\ req'[h].pc # "DeleteProject"
  BY <1>2, <1>4
<1>5. CASE GetProject(h)
  <2>1. UNCHANGED store /\ req[h].pc = "GetProject"
    BY <1>5 DEF GetProject, At
  <2>2. req'[h].pc \in {"idle", "GetInstance"}
    BY <1>5, <2>1, Answers, GoesFound DEF GetProject
  <2>3. QED BY <1>4, <2>1, <2>2
<1>6. CASE GetInstance(h)
  <2>1. UNCHANGED store /\ req[h].pc = "GetInstance"
    BY <1>6 DEF GetInstance, At
  <2>2. PICK pc : /\ pc = AfterGetInstance(req[h].op, req[h].id \in inst)
                  /\ (pc = "idle" /\ Answer(h)) \/ Goto(h, pc)
    BY <1>6 DEF GetInstance
  <2>3. pc = "DeleteProject" => req[h].id \notin inst
    BY <2>2 DEF AfterGetInstance
  <2>4. QED BY <1>2, <2>1, <2>2, <2>3, Answers, Going
<1>7. CASE Stopping(h) \/ Starting(h)
  <2>1. UNCHANGED store /\ req[h].pc \notin {"idle", "GetProject"}
    BY <1>7 DEF Stopping, Starting, StopInstance, ShutOff, NotShutOff, PollEnds, StartInstance,
       Ready, NotReady, At
  <2>2. \/ Answer(h)
        \/ \E pc \in Later \ {"DeleteProject"} : Goto(h, pc)
        \/ StopInstance(h)
    BY <1>7 DEF Stopping, Starting, ShutOff, NotShutOff, PollEnds, StartInstance, Ready,
       NotReady, Later
  <2>3. CASE StopInstance(h)
    <3>1. dom[req[h].name].id \in Ids \cup {None}
      <4>1. req[h].name \in Names
        BY <2>1 DEF Requests
      <4>2. QED BY <4>1 DEF TypeOK
    <3>2. req'[h].pc \in {"idle", "waitForShutoff"}
      <4>1. PICK v \in Ids \cup {None} : v = dom[req[h].name].id
        BY <3>1
      <4>2. Answer(h) \/ req' = [req EXCEPT ![h].pc = "waitForShutoff", ![h].vm = v]
        BY <2>3, <4>1 DEF StopInstance
      <4>3. QED BY <2>1, <4>2, Answers, GoesWaiting
    <3>3. QED BY <1>4, <2>1, <3>2
  <2>4. StopInstance(h) \/ req'[h].pc # "DeleteProject"
    <3>1. CASE Answer(h)
      BY <1>1, <2>1, <3>1, Answers
    <3>2. ASSUME NEW pc \in Later \ {"DeleteProject"}, Goto(h, pc)
          PROVE  req'[h].pc # "DeleteProject"
      BY <3>2, Going
    <3>3. QED BY <2>2, <3>1, <3>2
  <2>5. QED BY <1>4, <2>1, <2>3, <2>4
<1>8. CASE CreateInstance(h) \/ DestroyOnFailure(h) \/ RemoveDirOnFailure(h) \/ DestroyInstance(h)
  <2>1. UNCHANGED store
    BY <1>8 DEF CreateInstance, DestroyOnFailure, RemoveDirOnFailure, DestroyInstance
  <2>2. \E pc \in Later \ {"DeleteProject"} : Goto(h, pc)
    BY <1>8 DEF CreateInstance, DestroyOnFailure, RemoveDirOnFailure, DestroyInstance, Later
  <2>3. QED BY <1>4, <2>1, <2>2, Going
<1>9. CASE CreateProject(h) \/ DropProject(h)
  <2>1. UNCHANGED inst /\ req[h].id \notin inst /\ req[h].pc # "idle"
    BY <1>2, <1>3, <1>9 DEF CreateProject, DropProject, At, OfCreation
  <2>2. proj' \in {proj, proj \cup {req[h].id}, proj \ {req[h].id}}
    BY <1>9 DEF CreateProject, DropProject
  <2>3. inst' \subseteq proj'
    BY <1>2, <2>1, <2>2
  <2>4. Answer(h) \/ Goto(h, "SetDomains") \/ Goto(h, "CreateInstance")
    BY <1>9 DEF CreateProject, DropProject
  <2>5. req'[h].pc # "DeleteProject"
    BY <2>1, <2>4, Answers, Going
  <2>6. SaveLogged(proj', inst) \/ UNCHANGED file
    BY <1>9 DEF CreateProject, DropProject, SaveLogged, SaveFails
  <2>7. PICK P \in SUBSET Ids : P = proj'
    BY <1>1 DEF TypeOK
  <2>8. file' # Torn => file' = file \/ DOMAIN file'.instances \subseteq DOMAIN file'.projects
    BY <1>1, <2>1, <2>3, <2>6, <2>7, SavesProjects DEF TypeOK
  <2>9. QED BY <2>1, <2>3, <2>5, <2>8
<1>10. CASE DeleteInstance(h)
  <2>1. UNCHANGED proj /\ inst' = inst \ {req[h].id} /\ SaveLogged(proj, inst')
    BY <1>10 DEF DeleteInstance
  <2>2. req'[h].id = req[h].id
    BY <1>10, Going DEF DeleteInstance
  <2>3. inst' \subseteq proj'
    BY <1>2, <2>1
  <2>4. PICK P \in SUBSET Ids, I \in SUBSET Ids : P = proj /\ I = inst'
    BY <1>1 DEF TypeOK
  <2>5. file' # Torn => file' = file \/ DOMAIN file'.instances \subseteq DOMAIN file'.projects
    BY <1>1, <2>1, <2>3, <2>4, SavesProjects
  <2>6. QED BY <2>1, <2>2, <2>3, <2>5
<1>11. CASE DeleteProject(h) \/ SetInstance(h)
  <2>1. /\ inst' \subseteq proj' /\ Answer(h) /\ req[h].pc # "idle"
        /\ SaveLogged(proj', inst') \/ UNCHANGED file
    BY <1>2, <1>11 DEF DeleteProject, SetInstance, SaveLogged, At
  <2>2. PICK P \in SUBSET Ids, I \in SUBSET Ids : P = proj' /\ I = inst'
    BY <1>1 DEF TypeOK
  <2>3. file' # Torn => file' = file \/ DOMAIN file'.instances \subseteq DOMAIN file'.projects
    BY <1>1, <2>1, <2>2, SavesProjects
  <2>4. QED BY <2>1, <2>3, Answers
<1>12. CASE SetDomains(h) \/ UpdateInstance(h) \/ UpdateProject(h)
  <2>1. /\ UNCHANGED <<proj, inst>> /\ req[h].pc # "idle"
        /\ SaveLogged(proj, inst) \/ UNCHANGED file
        /\ \/ Answer(h)
           \/ \E pc \in {"CreateInstance", "UpdateProject", "SetInstance"} : Goto(h, pc)
    BY <1>12 DEF SetDomains, UpdateInstance, UpdateProject, Updatable, At
  <2>2. req'[h].pc # "DeleteProject"
    BY <2>1, Answers, Going
  <2>3. file' # Torn => file' = file \/ DOMAIN file'.instances \subseteq DOMAIN file'.projects
    BY <1>1, <1>2, <2>1, SavesProjects DEF TypeOK
  <2>4. QED BY <1>2, <2>1, <2>2, <2>3
<1>13. QED BY <1>5, <1>6, <1>7, <1>8, <1>9, <1>10, <1>11, <1>12
         DEF Serve, Creating, Deleting, Updating

LEMMA BoundKept ==
  ASSUME Base, Alone, Bound, Base', [Next]_vars
  PROVE  Bound'
<1> USE DEF Base, store
<1> SUFFICES ASSUME OneByOne'
             PROVE  /\ InstancesAreBound' /\ inst' \subseteq proj'
                    /\ \A g \in Handlers : Creates(g)' \/ req'[g].pc = "DeleteProject" =>
                          req'[g].id \notin inst'
  BY DEF Bound
<1>1. scope' = scope
  BY ServeGoesOn DEF Next, vars, ReceiveCreate, Receive, PollWaits, GuestEnds, ServerEnds,
     ServerStarts
<1>2. /\ OneByOne /\ InstancesAreBound /\ inst \subseteq proj
      /\ \A g \in Handlers : Creates(g) \/ req[g].pc = "DeleteProject" => req[g].id \notin inst
  BY <1>1 DEF OneByOne, Bound
<1>3. ASSUME NEW h \in Handlers, Serve(h)
      PROVE  /\ InstancesAreBound' /\ inst' \subseteq proj'
             /\ \A g \in Handlers : Creates(g)' \/ req'[g].pc = "DeleteProject" =>
                   req'[g].id \notin inst'
  <2>1. GoesOn(h)
    BY <1>3, ServeGoesOn
  <2>2. /\ inst' \subseteq proj'
        /\ file' # Torn => file' = file \/ DOMAIN file'.instances \subseteq DOMAIN file'.projects
        /\ req'[h].pc # "idle" => inst' \subseteq inst
        /\ req'[h].pc = "DeleteProject" => req'[h].id \notin inst'
    BY <1>2, <1>3, ServeBound
  <2>3. InstancesAreBound'
    BY <1>2, <2>2 DEF InstancesAreBound
  <2>4. \A g \in Handlers : g # h => req'[g].pc = "idle"
    BY <1>2, <2>1 DEF GoesOn, Alone, Busy
  <2>5. Creates(h)' => Creates(h) /\ req'[h].id = req[h].id /\ req'[h].pc # "idle"
    <3>1. Creates(h)' => req'[h].pc # "idle"
      BY DEF Creates
    <3>2. QED BY <2>1, <3>1, CreatesBefore
  <2>6. Creates(h)' => req'[h].id \notin inst'
    BY <1>2, <2>2, <2>5
  <2>7. \A g \in Handlers : Creates(g)' => req'[g].pc # "idle"
    BY DEF Creates
  <2>8. QED BY <2>2, <2>3, <2>4, <2>6, <2>7
<1>4. ASSUME NEW h \in Handlers, NEW n \in Names, NEW op \in Ops,
             (\E i \in Ids : ReceiveCreate(h, n, i)) \/ Receive(h, op, n)
      PROVE  /\ InstancesAreBound' /\ inst' \subseteq proj'
             /\ \A g \in Handlers : Creates(g)' \/ req'[g].pc = "DeleteProject" =>
                   req'[g].id \notin inst'
  <2>1. UNCHANGED <<proj, inst, file>>
    BY <1>4 DEF ReceiveCreate, Receive
  <2>2. \A g \in Handlers : g # h => req'[g] = req[g]
    BY <1>4 DEF TypeOK, ReceiveCreate, Receive
  <2>3. \/ req'[h].pc = "CreateProject"
        \/ req'[h].pc = "GetProject"
    <3>1. req \in [Handlers -> Request]
      BY DEF TypeOK
    <3>2. \E r \in Request : /\ r.pc \in {"CreateProject", "GetProject"}
                             /\ req' = [req EXCEPT ![h] = r]
      <4>1. /\ \A i \in Ids : [pc |-> "CreateProject", op |-> "create", name |-> n, id |-> i,
                              vm |-> None] \in Request
            /\ [pc |-> "GetProject", op |-> op, name |-> n, id |-> None, vm |-> None] \in Request
        BY DEF Request, Ops
      <4>2. QED BY <1>4, <4>1 DEF ReceiveCreate, Receive
    <3>3. QED BY <3>1, <3>2
  <2>4. req'[h].pc = "CreateProject" => req'[h].id \notin proj'
    BY DEF OwnProject
  <2>5. req'[h].pc = "GetProject" => ~Creates(h)'
    BY DEF Requests, Creates
  <2>6. QED BY <1>2, <2>1, <2>2, <2>3, <2>4, <2>5 DEF InstancesAreBound, Creates
<1>5. CASE UNCHANGED <<proj, inst, file, req>>
  BY <1>2, <1>5 DEF InstancesAreBound, Creates
<1>6. CASE ServerEnds
  <2>1. /\ UNCHANGED <<proj, inst>> /\ file' \in {file, Torn}
        /\ \A g \in Handlers : req'[g].pc = "idle"
    BY <1>6 DEF ServerEnds, IdleReq
  <2>2. QED BY <1>2, <2>1 DEF InstancesAreBound, Creates
<1>7. CASE ServerStarts
  <2>1. /\ ~up /\ UNCHANGED req /\ Loadable
        /\ proj' = DOMAIN file.projects /\ inst' = DOMAIN file.instances
        /\ SaveLogged(DOMAIN file.projects, DOMAIN file.instances) \/ UNCHANGED file
    BY <1>7 DEF ServerStarts
  <2>2. DOMAIN file.projects \in SUBSET Ids /\ DOMAIN file.instances \in SUBSET Ids
    BY <2>1, FileHolds DEF TypeOK, Loadable
  <2>3. file' # Torn => file' = file \/ DOMAIN file'.instances \subseteq DOMAIN file'.projects
    BY <2>1, <2>2, SavesProjects DEF Loadable
  <2>4. \A g \in Handlers : req'[g].pc = "idle"
    BY <2>1 DEF Requests
  <2>5. QED BY <2>1, <2>3, <2>4 DEF InstancesAreBound, Loadable, Creates
<1>8. QED BY <1>3, <1>4, <1>5, <1>6, <1>7 DEF Next, vars, PollWaits, GuestEnds, Ops

LEMMA BoundInvariant == Spec => [](Base /\ Alone /\ Bound)
<1>1. Init => Base /\ Alone /\ Bound
  <2> SUFFICES ASSUME Init PROVE Base /\ Alone /\ Bound
    OBVIOUS
  <2>1. /\ \A h \in Handlers : req[h].pc = "idle"
        /\ proj = {} /\ inst = {}
        /\ DOMAIN file.instances = {} /\ DOMAIN file.projects = {}
    BY DEF Init, IdleReq, Snapshot
  <2>2. Alone /\ Bound
    BY <2>1 DEF Alone, Busy, Bound, InstancesAreBound, Creates
  <2>3. QED BY <2>2, InitBase
<1>2. (Base /\ Alone /\ Bound) /\ [Next]_vars => (Base /\ Alone /\ Bound)'
  BY NextKeepsBase, AloneKept, BoundKept
<1>3. QED BY <1>1, <1>2, PTL DEF Spec

\* As long as requests do not overlap the server can always read its file
\* again, unless a failed save tore it: whatever fails and wherever it dies,
\* no instance is written without its project (local.go: load).
THEOREM StaysLoadable == Spec => []OneByOneStaysLoadable
<1>1. Bound => OneByOneStaysLoadable
  BY DEF Bound, OneByOneStaysLoadable
<1>2. QED BY BoundInvariant, <1>1, PTL
-----------------------------------------------------------------------------
(* One request at a time, and nothing failing.                               *)

\* The invariant as the one handler that serves a request sees it.
SettledBut(h) == \A i \in inst : Begins(h) \/ req[h].id # i => Settled(i)
Served(h) == /\ Owned /\ SettledBut(h)
             /\ req[h].pc # "idle" => PhaseOf(h)
             /\ req[h].pc = "idle" => Synced
Serving(h) == Base /\ Bound /\ OneByOne /\ Calm /\ Served(h)

\* Nothing fails.
LEMMA CalmFaults ==
  ASSUME Calm
  PROVE  /\ {"save", "torn", "vm", "guest", "crash"} \cap scope.faults = {}
         /\ \A P, I : SaveLogged(P, I) => SaveOk(P, I)
BY DEF Calm, SaveLogged, SaveFails

\* What the handler knows of its own project and of the others.
LEMMA ServingKnows ==
  ASSUME NEW h \in Handlers, Serving(h)
  PROVE  /\ \A j \in inst : j \in Ids /\ j \in proj /\ name[j] \in Names
         /\ req[h].pc \notin {"idle", "GetProject"} =>
               /\ req[h].id \in Ids /\ req[h].name \in Names /\ name[req[h].id] = req[h].name
               /\ PhaseOf(h)
         /\ req \in [Handlers -> Request]
         /\ dom \in [Names -> [st : {"none", "running", "stopping", "off"},
                               id : Ids \cup {None}]]
         /\ pstate \in [Ids -> ProjectStates] /\ istate \in [Ids -> InstanceStates]
<1> USE DEF Serving, Base
<1>1. TypeOK /\ Requests /\ inst \subseteq proj
  BY DEF Bound
<1>2. \A j \in Ids : name[j] = None => j \notin proj
  BY DEF OwnProject
<1>3. QED BY <1>1, <1>2 DEF TypeOK, Requests, Served

\* Changing one project's records and the domain of its name leaves the others
\* settled, when the domain was this project's, or no domain.
LEMMA OthersStay ==
  ASSUME NEW i \in Ids, NEW n \in Names, name' = name,
         \A j \in inst : name[j] \in Names /\ j \in Ids,
         \A j \in inst \ {i} : Settled(j),
         \A m \in Names \ {n} : dom'[m] = dom[m],
         dom[n].id = i \/ dom[n].st = "none" \/ dom' = dom,
         \A j \in Ids \ {i} : istate'[j] = istate[j] /\ pstate'[j] = pstate[j]
  PROVE  \A j \in inst \ {i} : Settled(j)'
<1> SUFFICES ASSUME NEW j \in inst \ {i}
             PROVE  Settled(j)'
  OBVIOUS
<1>1. Settled(j) /\ name[j] \in Names /\ j \in Ids
  OBVIOUS
<1>2. dom'[name[j]] = dom[name[j]]
  BY <1>1 DEF Settled
<1>3. QED BY <1>1, <1>2 DEF Settled

\* Domains and disks stay owned when nothing changes but those of one name,
\* which has no domain then, or that of a project of this name, with its disk.
LEMMA OwnedStays ==
  ASSUME Owned, NEW n \in Names, name' = name, proj \subseteq proj',
         \A m \in Names \ {n} : dom'[m] = dom[m] /\ img'[m] = img[m],
         \/ dom'[n] = NoDomain
         \/ /\ dom'[n].st # "none" /\ dom'[n].id \in proj' /\ name[dom'[n].id] = n
            /\ img'[n] = dom'[n].id
  PROVE  Owned'
<1> SUFFICES ASSUME NEW m \in Names
             PROVE  IF dom'[m].st = "none" THEN dom'[m] = NoDomain
                    ELSE /\ dom'[m].id \in proj' /\ name'[dom'[m].id] = m
                         /\ img'[m] = dom'[m].id
  BY DEF Owned
<1>1. CASE m = n
  BY <1>1 DEF NoDomain
<1>2. CASE m # n
  BY <1>2 DEF Owned
<1>3. QED BY <1>1, <1>2

\* A request that goes on and changes the state of its own instance at most.
LEMMA OwnStateKeepsServed ==
  ASSUME NEW h \in Handlers, Serving(h), NEW i \in Ids, i = req[h].id, ~Begins(h),
         UNCHANGED <<name, proj, inst, pstate, dom, img>>,
         \A j \in Ids \ {i} : istate'[j] = istate[j],
         req'[h].pc # "idle", req'[h].id = i, ~Begins(h)', PhaseOf(h)'
  PROVE  Served(h)'
<1>1. Owned /\ \A j \in inst \ {i} : Settled(j)
  BY DEF Serving, Served, SettledBut
<1>2. Owned' /\ \A j \in inst \ {i} : Settled(j)'
  BY <1>1, ServingKnows DEF Owned, Settled
<1>3. QED BY <1>2 DEF Served, SettledBut

\* Finding the project.
LEMMA FindKeepsServed ==
  ASSUME NEW h \in Handlers, Serving(h), GetProject(h) \/ GetInstance(h)
  PROVE  Served(h)'
<1> USE DEF objects, store, vms, answers
<1>1. UNCHANGED <<name, proj, inst, pstate, istate, file, dom, img>>
  BY DEF GetProject, GetInstance
<1>2. Begins(h) /\ PhaseOf(h) /\ req[h].pc \in {"GetProject", "GetInstance"}
  BY DEF GetProject, GetInstance, At, Serving, Served, Begins
<1>3. Synced /\ Owned /\ \A j \in inst : Settled(j)
  BY <1>2 DEF Serving, Served, SettledBut, PhaseOf
<1>4. Synced' /\ Owned' /\ \A j \in inst' : Settled(j)'
  BY <1>1, <1>3 DEF Synced, Owned, Settled
<1>5. CASE Answer(h)
  <2>1. req'[h].pc = "idle"
    BY <1>2, <1>5, Answers DEF Serving, Base
  <2>2. QED BY <1>4, <2>1 DEF Served, SettledBut
<1>6. CASE GetProject(h) /\ ~Answer(h)
  <2>1. PICK i \in proj : /\ name[i] = req[h].name
                          /\ req' = [req EXCEPT ![h].pc = "GetInstance", ![h].id = i]
    BY <1>6 DEF GetProject
  <2>2. req[h].pc = "GetProject"
    BY <1>6 DEF GetProject, At
  <2>3. req'[h].pc = "GetInstance" /\ req'[h].id = i
    BY <2>1, <2>2, GoesFound DEF Serving, Base
  <2>4. proj' = inst' /\ i \in inst'
    BY <1>4, <1>1, <2>1 DEF Synced
  <2>5. PhaseOf(h)'
    BY <1>4, <2>3, <2>4 DEF PhaseOf, Begins
  <2>6. QED BY <1>4, <2>3, <2>5 DEF Served, SettledBut
<1>7. CASE GetInstance(h) /\ ~Answer(h)
  <2>1. req[h].pc = "GetInstance"
    BY <1>7 DEF GetInstance, At
  <2>2. proj = inst /\ req[h].id \in inst
    BY <1>2, <2>1 DEF PhaseOf, Begins
  <2>3. PICK pc : pc = AfterGetInstance(req[h].op, req[h].id \in inst) /\ Goto(h, pc) /\ pc # "idle"
    BY <1>7 DEF GetInstance
  <2>4. \/ pc = "DestroyInstance" /\ req[h].op = "delete"
        \/ pc = "StartInstance" /\ req[h].op = "start"
        \/ pc = "StopInstance" /\ req[h].op \in {"stop", "restart"}
    BY <2>2, <2>3 DEF AfterGetInstance
  <2>5. pc \in Later /\ pc \notin OfCreation
    BY <2>4 DEF Later, OfCreation
  <2>6. req'[h].pc = pc /\ req'[h].op = req[h].op /\ req'[h].id = req[h].id
    BY <2>1, <2>3, <2>5, Goes DEF Serving, Base
  <2>7. PhaseOf(h)'
    BY <1>1, <1>4, <2>2, <2>4, <2>6 DEF PhaseOf, Begins
  <2>8. QED BY <1>4, <2>4, <2>6, <2>7 DEF Served, SettledBut
<1>8. QED BY <1>5, <1>6, <1>7

\* Creating.
LEMMA CreateProjectKeepsServed ==
  ASSUME NEW h \in Handlers, Serving(h), CreateProject(h)
  PROVE  Served(h)'
<1> USE DEF objects, store, vms, answers
<1> DEFINE i == req[h].id
           n == req[h].name
<1>1. req[h].pc = "CreateProject" /\ UNCHANGED <<name, inst, pstate, istate, dom, img>>
  BY DEF CreateProject, At
<1>2. Synced /\ Owned /\ \A j \in inst : Settled(j)
  BY <1>1 DEF Serving, Served, SettledBut, PhaseOf, Begins
<1>3. i \in Ids /\ n \in Names /\ name[i] = n /\ i \notin proj
  BY <1>1, ServingKnows DEF Serving, Base, OwnProject
<1>4. \A j \in inst' : Settled(j)'
  BY <1>1, <1>2 DEF Settled
<1>5. CASE Answer(h) /\ UNCHANGED <<proj, file>>
  <2>1. req'[h].pc = "idle"
    BY <1>1, <1>5, Answers DEF Serving, Base
  <2>2. Synced' /\ Owned'
    BY <1>1, <1>2, <1>5 DEF Synced, Owned
  <2>3. QED BY <1>4, <2>1, <2>2 DEF Served, SettledBut
<1>6. CASE /\ ~NameTaken(n) /\ proj' = proj \cup {i}
           /\ Goto(h, "SetDomains") \/ Goto(h, "CreateInstance")
  <2>1. req[h].op = "create"
    BY <1>1 DEF Serving, Base, Requests
  <2>2. /\ req'[h].pc \in {"SetDomains", "CreateInstance"} /\ req'[h].op = req[h].op
        /\ req'[h].name = n /\ req'[h].id = i
    BY <1>1, <1>6, <2>1, Goes DEF Serving, Base, Later
  <2>3. dom[n].st = "none"
    BY <1>2, <1>3, <1>6 DEF Owned, NameTaken
  <2>4. proj' = inst' \cup {i} /\ i \notin inst'
    BY <1>1, <1>2, <1>3, <1>6 DEF Synced
  <2>5. PhaseOf(h)'
    BY <1>1, <2>2, <2>3, <2>4 DEF PhaseOf, Begins
  <2>6. Owned'
    BY <1>1, <1>2, <1>6 DEF Owned
  <2>7. QED BY <1>4, <2>2, <2>5, <2>6 DEF Served, SettledBut
<1>7. QED BY <1>5, <1>6, CalmFaults DEF CreateProject, SaveFails, Serving

LEMMA SetDomainsKeepsServed ==
  ASSUME NEW h \in Handlers, Serving(h), SetDomains(h)
  PROVE  Served(h)'
<1> USE DEF objects, store, vms, answers
<1>1. PICK i \in Ids, n \in Names : i = req[h].id /\ n = req[h].name /\ name[i] = n
  BY ServingKnows DEF SetDomains, At
<1>2. /\ req[h].pc = "SetDomains" /\ req[h].op = "create"
      /\ UNCHANGED <<name, proj, inst, pstate, istate, dom, img>>
  BY DEF SetDomains, At, Serving, Base, Requests
<1>3. proj = inst \cup {i} /\ i \notin inst /\ dom[n].st = "none"
  <2>1. PhaseOf(h)
    BY <1>2 DEF Serving, Served
  <2>2. QED BY <1>1, <1>2, <2>1 DEF PhaseOf
<1>4. /\ req'[h].pc = "CreateInstance" /\ req'[h].op = req[h].op
      /\ req'[h].name = n /\ req'[h].id = i
  BY <1>1, <1>2, Goes DEF SetDomains, Serving, Base, Later
<1>5. PhaseOf(h)'
  BY <1>2, <1>3, <1>4 DEF PhaseOf, Begins
<1>6. ~Begins(h) /\ ~Begins(h)'
  BY <1>2, <1>4 DEF Begins
<1>7. QED BY <1>1, <1>2, <1>4, <1>5, <1>6, OwnStateKeepsServed

LEMMA CreateInstanceKeepsServed ==
  ASSUME NEW h \in Handlers, Serving(h), CreateInstance(h)
  PROVE  Served(h)'
<1> USE DEF objects, store, vms, answers
<1>1. PICK i \in Ids, n \in Names : i = req[h].id /\ n = req[h].name /\ name[i] = n
  BY ServingKnows DEF CreateInstance, At
<1>2. /\ req[h].pc = "CreateInstance" /\ UNCHANGED <<name, proj, inst, pstate, file>>
      /\ req[h].op = "create"
  BY DEF CreateInstance, At, Serving, Base, Requests
<1>3. proj = inst \cup {i} /\ i \notin inst /\ dom[n].st = "none"
  <2>1. PhaseOf(h)
    BY <1>2 DEF Serving, Served
  <2>2. QED BY <1>1, <1>2, <2>1 DEF PhaseOf
<1>4. Owned /\ \A j \in inst \ {i} : Settled(j)
  BY <1>1 DEF Serving, Served, SettledBut
<1>5. /\ dom' = [dom EXCEPT ![n] = [st |-> "running", id |-> i]]
      /\ img' = [img EXCEPT ![n] = i]
      /\ rt' = rt \cup {i}
      /\ istate' = [istate EXCEPT ![i] = "starting"]
      /\ Goto(h, "waitReady")
  BY <1>1, <1>3, CalmFaults DEF CreateInstance, Serving, VMFails
<1>6. dom'[n] = [st |-> "running", id |-> i] /\ img'[n] = i /\ i \in rt'
  BY <1>5, ServingKnows DEF Serving, Base, TypeOK
<1>7. /\ req'[h].pc = "waitReady" /\ req'[h].op = req[h].op
      /\ req'[h].name = n /\ req'[h].id = i
  BY <1>1, <1>2, <1>5, Goes DEF Serving, Base, Later
<1>8. Owned'
  BY <1>1, <1>2, <1>3, <1>4, <1>5, <1>6, OwnedStays
<1>9. \A j \in inst \ {i} : Settled(j)'
  BY <1>1, <1>2, <1>3, <1>4, <1>5, OthersStay, ServingKnows
<1>10. PhaseOf(h)'
  BY <1>2, <1>3, <1>6, <1>7 DEF PhaseOf, Begins
<1>11. QED BY <1>2, <1>7, <1>8, <1>9, <1>10 DEF Served, SettledBut, Begins

LEMMA SetInstanceKeepsServed ==
  ASSUME NEW h \in Handlers, Serving(h), SetInstance(h)
  PROVE  Served(h)'
<1> USE DEF objects, store, vms, answers
<1>1. PICK i \in Ids, n \in Names : i = req[h].id /\ n = req[h].name /\ name[i] = n
  BY ServingKnows DEF SetInstance, At
<1>2. req[h].pc = "SetInstance" /\ UNCHANGED <<name, proj, pstate, istate, dom, img>>
  BY DEF SetInstance, At
<1>3. /\ proj = inst \cup {i} /\ i \notin inst /\ dom[n].st = "running" /\ dom[n].id = i
      /\ istate[i] = "running" /\ pstate[i] = "running"
  <2>1. PhaseOf(h)
    BY <1>2 DEF Serving, Served
  <2>2. QED BY <1>1, <1>2, <2>1 DEF PhaseOf
<1>4. Owned /\ \A j \in inst \ {i} : Settled(j)
  BY <1>1 DEF Serving, Served, SettledBut
<1>5. inst' = inst \cup {i} /\ SaveOk(proj, inst') /\ Answer(h)
  BY <1>1, <1>3, CalmFaults DEF SetInstance, Serving
<1>6. req'[h].pc = "idle"
  BY <1>2, <1>5, Answers DEF Serving, Base
<1>7. Synced'
  BY <1>2, <1>3, <1>5 DEF Synced, SaveOk
<1>8. Owned'
  BY <1>2, <1>4 DEF Owned
<1>9. Settled(i)'
  BY <1>1, <1>2, <1>3 DEF Settled
<1>10. \A j \in inst : Settled(j)'
  BY <1>2, <1>3, <1>4 DEF Settled
<1>11. QED BY <1>5, <1>6, <1>7, <1>8, <1>9, <1>10 DEF Served, SettledBut

\* The clean-up after a failure is out of reach.
LEMMA NoCleanUp ==
  ASSUME NEW h \in Handlers, Serving(h)
  PROVE  ~DestroyOnFailure(h) /\ ~RemoveDirOnFailure(h) /\ ~DropProject(h)
BY DEF DestroyOnFailure, RemoveDirOnFailure, DropProject, At, Serving, Served, PhaseOf

\* Deleting.
LEMMA DestroyInstanceKeepsServed ==
  ASSUME NEW h \in Handlers, Serving(h), DestroyInstance(h)
  PROVE  Served(h)'
<1> USE DEF objects, store, vms, answers
<1>1. PICK i \in Ids, n \in Names : i = req[h].id /\ n = req[h].name /\ name[i] = n
  BY ServingKnows DEF DestroyInstance, At
<1>2. /\ req[h].pc = "DestroyInstance"
      /\ UNCHANGED <<name, proj, inst, pstate, istate, file>>
  BY DEF DestroyInstance, At
<1>3. Begins(h) /\ PhaseOf(h)
  BY <1>2 DEF Serving, Served, Begins
<1>4. proj = inst /\ i \in inst
  BY <1>1, <1>2, <1>3 DEF PhaseOf
<1>5. Owned /\ \A j \in inst : Settled(j)
  BY <1>3 DEF Serving, Served, SettledBut
<1>6. dom[n].id = i /\ dom[n].st # "none"
  BY <1>1, <1>4, <1>5 DEF Settled
<1>7. /\ dom' = [dom EXCEPT ![n] = NoDomain]
      /\ img' = [img EXCEPT ![n] = None]
      /\ Goto(h, "DeleteInstance")
  BY <1>1, <1>6, CalmFaults DEF DestroyInstance, Serving, RemoveDir, DestroyFails, VMFails
<1>8. dom'[n] = NoDomain
  BY <1>7, ServingKnows
<1>9. /\ req'[h].pc = "DeleteInstance" /\ req'[h].op = req[h].op
      /\ req'[h].name = n /\ req'[h].id = i
  BY <1>1, <1>2, <1>7, Goes DEF Serving, Base, Later, OfCreation
<1>10. Owned'
  BY <1>1, <1>2, <1>5, <1>7, <1>8, OwnedStays
<1>11. \A j \in inst \ {i} : Settled(j)'
  BY <1>1, <1>2, <1>5, <1>6, <1>7, OthersStay, ServingKnows
<1>12. PhaseOf(h)'
  BY <1>2, <1>4, <1>8, <1>9 DEF PhaseOf, Begins, NoDomain
<1>13. QED BY <1>2, <1>9, <1>10, <1>11, <1>12 DEF Served, SettledBut, Begins

LEMMA DeleteInstanceKeepsServed ==
  ASSUME NEW h \in Handlers, Serving(h), DeleteInstance(h)
  PROVE  Served(h)'
<1> USE DEF objects, store, vms, answers
<1>1. PICK i \in Ids, n \in Names : i = req[h].id /\ n = req[h].name /\ name[i] = n
  BY ServingKnows DEF DeleteInstance, At
<1>2. /\ req[h].pc = "DeleteInstance" /\ UNCHANGED <<name, proj, pstate, istate, dom, img>>
      /\ inst' = inst \ {i} /\ Goto(h, "DeleteProject")
  BY <1>1 DEF DeleteInstance, At
<1>3. proj = inst /\ i \in inst /\ dom[n].st = "none"
  <2>1. PhaseOf(h)
    BY <1>2 DEF Serving, Served
  <2>2. QED BY <1>1, <1>2, <2>1 DEF PhaseOf
<1>4. Owned /\ \A j \in inst \ {i} : Settled(j)
  BY <1>1 DEF Serving, Served, SettledBut
<1>5. /\ req'[h].pc = "DeleteProject" /\ req'[h].op = req[h].op
      /\ req'[h].name = n /\ req'[h].id = i
  BY <1>1, <1>2, Goes DEF Serving, Base, Later, OfCreation
<1>6. Owned' /\ \A j \in inst \ {i} : Settled(j)'
  BY <1>2, <1>4 DEF Owned, Settled
<1>7. proj' = inst' \cup {i} /\ i \notin inst'
  BY <1>2, <1>3
<1>8. PhaseOf(h)'
  BY <1>2, <1>3, <1>5, <1>7 DEF PhaseOf, Begins
<1>9. QED BY <1>2, <1>5, <1>6, <1>8 DEF Served, SettledBut, Begins

LEMMA DeleteProjectKeepsServed ==
  ASSUME NEW h \in Handlers, Serving(h), DeleteProject(h)
  PROVE  Served(h)'
<1> USE DEF objects, store, vms, answers
<1>1. PICK i \in Ids, n \in Names : i = req[h].id /\ n = req[h].name /\ name[i] = n
  BY ServingKnows DEF DeleteProject, At
<1>2. /\ req[h].pc = "DeleteProject" /\ UNCHANGED <<name, inst, pstate, istate, dom, img>>
      /\ proj' = proj \ {i} /\ Answer(h)
  BY <1>1 DEF DeleteProject, At
<1>3. proj = inst \cup {i} /\ i \notin inst /\ dom[n].st = "none"
  <2>1. PhaseOf(h)
    BY <1>2 DEF Serving, Served
  <2>2. QED BY <1>1, <1>2, <2>1 DEF PhaseOf
<1>4. Owned /\ \A j \in inst : Settled(j)
  BY <1>1, <1>3 DEF Serving, Served, SettledBut
<1>5. SaveOk(proj', inst)
  BY <1>1, <1>3, CalmFaults DEF DeleteProject, Serving, SaveFails
<1>6. req'[h].pc = "idle"
  BY <1>2, Answers DEF Serving, Base
<1>7. Synced'
  BY <1>2, <1>3, <1>5 DEF Synced, SaveOk
<1>8. Owned'
  BY <1>1, <1>2, <1>3, <1>4 DEF Owned
<1>9. \A j \in inst' : Settled(j)'
  BY <1>2, <1>4 DEF Settled
<1>10. QED BY <1>6, <1>7, <1>8, <1>9 DEF Served, SettledBut

\* Stopping.
LEMMA StopInstanceKeepsServed ==
  ASSUME NEW h \in Handlers, Serving(h), StopInstance(h)
  PROVE  Served(h)'
<1> USE DEF objects, store, vms, answers
<1>1. PICK i \in Ids, n \in Names : i = req[h].id /\ n = req[h].name /\ name[i] = n
  BY ServingKnows DEF StopInstance, At
<1>2. req[h].pc = "StopInstance" /\ UNCHANGED <<name, proj, inst, pstate, file, img>>
  BY DEF StopInstance, At
<1>3. Begins(h) /\ PhaseOf(h)
  BY <1>2 DEF Serving, Served, Begins
<1>4. proj = inst /\ i \in inst /\ Synced /\ req[h].op \in {"stop", "restart"}
  BY <1>1, <1>2, <1>3 DEF PhaseOf
<1>5. Owned /\ \A j \in inst : Settled(j)
  BY <1>3 DEF Serving, Served, SettledBut
<1>6. CASE Answer(h) /\ UNCHANGED <<dom, istate>>
  <2>1. req'[h].pc = "idle"
    BY <1>2, <1>6, Answers DEF Serving, Base
  <2>2. Synced' /\ Owned' /\ \A j \in inst' : Settled(j)'
    BY <1>2, <1>4, <1>5, <1>6 DEF Synced, Owned, Settled
  <2>3. QED BY <2>1, <2>2 DEF Served, SettledBut
<1>7. CASE /\ Powered(n) /\ dom' = [dom EXCEPT ![n].st = "stopping"]
           /\ istate' = [istate EXCEPT ![i] = "stopping"]
           /\ req' = [req EXCEPT ![h].pc = "waitForShutoff", ![h].vm = dom[n].id]
  <2>1. dom[n].id = i
    BY <1>1, <1>4, <1>5 DEF Settled
  <2>2. PICK v \in Ids \cup {None} : v = i
    OBVIOUS
  <2>3. req' = [req EXCEPT ![h].pc = "waitForShutoff", ![h].vm = v]
    BY <1>7, <2>1, <2>2
  <2>4. /\ req'[h].pc = "waitForShutoff" /\ req'[h].op = req[h].op
        /\ req'[h].name = n /\ req'[h].id = i /\ req'[h].vm = i
    BY <1>1, <1>2, <2>2, <2>3, GoesWaiting DEF Serving, Base
  <2>5. dom'[n].st = "stopping" /\ dom'[n].id = i
    BY <1>7, <2>1, ServingKnows
  <2>6. \A m \in Names \ {n} : dom'[m] = dom[m]
    BY <1>7, ServingKnows
  <2>7. img[n] = i /\ i \in proj
    BY <1>4, <1>7, <2>1, <1>5 DEF Owned, Powered
  <2>8. Owned'
    BY <1>1, <1>2, <1>5, <2>5, <2>6, <2>7, OwnedStays
  <2>9. \A j \in inst \ {i} : Settled(j)'
    BY <1>1, <1>2, <1>5, <1>7, <2>1, <2>6, OthersStay, ServingKnows
  <2>10. i \in rt'
    BY <1>1 DEF StopInstance
  <2>11. PhaseOf(h)'
    BY <1>2, <1>4, <2>4, <2>5, <2>10 DEF PhaseOf, Begins
  <2>12. QED BY <1>2, <2>4, <2>8, <2>9, <2>11 DEF Served, SettledBut, Begins
<1>8. QED BY <1>1, <1>6, <1>7 DEF StopInstance

LEMMA ShutOffKeepsServed ==
  ASSUME NEW h \in Handlers, Serving(h), ShutOff(h)
  PROVE  Served(h)'
<1> USE DEF objects, store, vms, answers
<1>1. PICK i \in Ids, n \in Names : i = req[h].id /\ n = req[h].name /\ name[i] = n
  BY ServingKnows DEF ShutOff, At
<1>2. /\ req[h].pc = "waitForShutoff" /\ UNCHANGED <<name, proj, inst, pstate, dom, img, rt>>
      /\ istate' = [istate EXCEPT ![i] = "stopped"]
      /\ dom[n].st = "off"
  BY <1>1 DEF ShutOff, At, IsShutOff, Domain
<1>3. /\ proj = inst /\ i \in inst /\ dom[n].id = i /\ i \in rt
      /\ req[h].op \in {"stop", "restart"}
  <2>1. PhaseOf(h)
    BY <1>2 DEF Serving, Served
  <2>2. QED BY <1>1, <1>2, <2>1 DEF PhaseOf
<1>4. PICK pc : pc = (IF req[h].op = "stop" THEN "UpdateInstance" ELSE "Poll") /\ Goto(h, pc)
  BY DEF ShutOff
<1>5. pc \in Later /\ pc \notin OfCreation
  BY <1>4 DEF Later, OfCreation
<1>6. /\ req'[h].pc = pc /\ req'[h].op = req[h].op
      /\ req'[h].name = n /\ req'[h].id = i
  BY <1>1, <1>2, <1>4, <1>5, Goes DEF Serving, Base
<1>7. istate'[i] = "stopped" /\ \A j \in Ids \ {i} : istate'[j] = istate[j]
  BY <1>2, ServingKnows
<1>8. PhaseOf(h)'
  BY <1>2, <1>3, <1>4, <1>6, <1>7 DEF PhaseOf, Begins
<1>9. QED BY <1>1, <1>2, <1>4, <1>6, <1>7, <1>8, OwnStateKeepsServed DEF Begins

LEMMA PollEndsKeepsServed ==
  ASSUME NEW h \in Handlers, Serving(h), PollEnds(h)
  PROVE  Served(h)'
<1> USE DEF objects, store, vms, answers
<1>1. PICK i \in Ids, n \in Names : i = req[h].id /\ n = req[h].name /\ name[i] = n
  BY ServingKnows DEF PollEnds, At
<1>2. req[h].pc = "Poll" /\ UNCHANGED <<name, proj, inst, pstate, dom, img, rt>>
  BY DEF PollEnds, At
<1>3. /\ proj = inst /\ i \in inst /\ dom[n].st = "off" /\ dom[n].id = i /\ i \in rt
      /\ req[h].op = "restart"
  <2>1. PhaseOf(h)
    BY <1>2 DEF Serving, Served
  <2>2. QED BY <1>1, <1>2, <2>1 DEF PhaseOf
<1>4. istate' = [istate EXCEPT ![i] = StateSeen(n)] /\ Goto(h, "StartInstance")
  BY <1>1, <1>3 DEF PollEnds, Powered
<1>5. /\ req'[h].pc = "StartInstance" /\ req'[h].op = req[h].op
      /\ req'[h].name = n /\ req'[h].id = i
  BY <1>1, <1>2, <1>4, Goes DEF Serving, Base, Later, OfCreation
<1>6. \A j \in Ids \ {i} : istate'[j] = istate[j]
  BY <1>4, ServingKnows
<1>7. PhaseOf(h)'
  BY <1>2, <1>3, <1>5 DEF PhaseOf, Begins
<1>8. QED BY <1>1, <1>2, <1>3, <1>5, <1>6, <1>7, OwnStateKeepsServed DEF Begins

\* Waiting in vain is out of reach.
LEMMA NotInVain ==
  ASSUME NEW h \in Handlers, Serving(h)
  PROVE  ~NotShutOff(h) /\ ~NotReady(h)
<1>1. req[h].pc \in {"waitForShutoff", "waitReady"} => PhaseOf(h)
  BY DEF Serving, Served
<1>2. "guest" \notin scope.faults
  BY CalmFaults DEF Serving
<1>3. ~NotShutOff(h)
  BY <1>1, <1>2 DEF NotShutOff, At, PhaseOf, Domain
<1>4. ~NotReady(h)
  BY <1>1, <1>2 DEF NotReady, At, PhaseOf, Powered
<1>5. QED BY <1>3, <1>4

\* Starting.
LEMMA StartInstanceKeepsServed ==
  ASSUME NEW h \in Handlers, Serving(h), StartInstance(h)
  PROVE  Served(h)'
<1> USE DEF objects, store, vms, answers
<1>1. PICK i \in Ids, n \in Names : i = req[h].id /\ n = req[h].name /\ name[i] = n
  BY ServingKnows DEF StartInstance, At
<1>2. /\ req[h].pc = "StartInstance" /\ UNCHANGED <<name, proj, inst, pstate, file, img>>
      /\ rt' = IF req[h].op = "start" THEN rt \cup {i} ELSE rt
  BY <1>1 DEF StartInstance, At
<1>3. PhaseOf(h)
  BY <1>2 DEF Serving, Served
<1>4. /\ proj = inst /\ i \in inst
      /\ req[h].op = "start" => Synced
      /\ req[h].op # "start" => /\ dom[n].st = "off" /\ dom[n].id = i /\ i \in rt
                                /\ req[h].op = "restart"
  BY <1>1, <1>2, <1>3 DEF PhaseOf, Begins
<1>5. Owned /\ \A j \in inst : req[h].op = "start" \/ j # i => Settled(j)
  BY <1>1, <1>2 DEF Serving, Served, SettledBut, Begins
<1>6. dom[n].id = i /\ i \in rt'
  BY <1>1, <1>2, <1>4, <1>5 DEF Settled
<1>7. CASE Answer(h) /\ dom[n].st # "off" /\ UNCHANGED <<dom, istate>>
  <2>1. req'[h].pc = "idle"
    BY <1>2, <1>7, Answers DEF Serving, Base
  <2>2. Synced' /\ Owned' /\ \A j \in inst' : Settled(j)'
    BY <1>2, <1>4, <1>5, <1>7 DEF Synced, Owned, Settled
  <2>3. QED BY <2>1, <2>2 DEF Served, SettledBut
<1>8. CASE /\ dom[n].st = "off" /\ dom' = [dom EXCEPT ![n].st = "running"]
           /\ istate' = [istate EXCEPT ![i] = "starting"] /\ Goto(h, "waitReady")
  <2>1. /\ req'[h].pc = "waitReady" /\ req'[h].op = req[h].op
        /\ req'[h].name = n /\ req'[h].id = i
    BY <1>1, <1>2, <1>8, Goes DEF Serving, Base, Later, OfCreation
  <2>2. dom'[n].st = "running" /\ dom'[n].id = i
    BY <1>6, <1>8, ServingKnows
  <2>3. \A m \in Names \ {n} : dom'[m] = dom[m]
    BY <1>8, ServingKnows
  <2>4. img[n] = i /\ i \in proj
    BY <1>4, <1>5, <1>6, <1>8 DEF Owned
  <2>5. Owned'
    BY <1>1, <1>2, <1>5, <2>2, <2>3, <2>4, OwnedStays
  <2>6. \A j \in inst \ {i} : Settled(j)'
    BY <1>1, <1>2, <1>5, <1>6, <1>8, <2>3, OthersStay, ServingKnows
  <2>7. req[h].op \in {"start", "restart"}
    BY <1>4
  <2>8. PhaseOf(h)'
    BY <1>2, <1>4, <1>6, <2>1, <2>2, <2>7 DEF PhaseOf, Begins
  <2>9. QED BY <1>2, <2>1, <2>5, <2>6, <2>8 DEF Served, SettledBut, Begins
<1>9. QED BY <1>1, <1>6, <1>7, <1>8, CalmFaults DEF StartInstance, Serving, VMFails

LEMMA ReadyKeepsServed ==
  ASSUME NEW h \in Handlers, Serving(h), Ready(h)
  PROVE  Served(h)'
<1> USE DEF objects, store, vms, answers
<1>1. PICK i \in Ids, n \in Names : i = req[h].id /\ n = req[h].name /\ name[i] = n
  BY ServingKnows DEF Ready, At
<1>2. /\ req[h].pc = "waitReady" /\ UNCHANGED <<name, proj, inst, pstate, dom, img, rt>>
      /\ istate' = [istate EXCEPT ![i] = "running"]
  BY <1>1 DEF Ready, At
<1>3. /\ IF req[h].op = "create" THEN proj = inst \cup {i} /\ i \notin inst
         ELSE proj = inst /\ i \in inst
      /\ dom[n].st = "running" /\ dom[n].id = i /\ req[h].op # "stop"
  <2>1. PhaseOf(h)
    BY <1>2 DEF Serving, Served
  <2>2. QED BY <1>1, <1>2, <2>1 DEF PhaseOf
<1>4. PICK pc : /\ pc = (IF req[h].op = "create" THEN "UpdateProject" ELSE "UpdateInstance")
                /\ Goto(h, pc)
  BY DEF Ready
<1>5. pc \in Later /\ pc \notin OfCreation
  BY <1>4 DEF Later, OfCreation
<1>6. /\ req'[h].pc = pc /\ req'[h].op = req[h].op
      /\ req'[h].name = n /\ req'[h].id = i
  BY <1>1, <1>2, <1>4, <1>5, Goes DEF Serving, Base
<1>7. istate'[i] = "running" /\ \A j \in Ids \ {i} : istate'[j] = istate[j]
  BY <1>2, ServingKnows
<1>8. PhaseOf(h)'
  BY <1>2, <1>3, <1>4, <1>6, <1>7 DEF PhaseOf, Begins
<1>9. QED BY <1>1, <1>2, <1>4, <1>6, <1>7, <1>8, OwnStateKeepsServed DEF Begins

\* Recording what was done.
LEMMA UpdateInstanceKeepsServed ==
  ASSUME NEW h \in Handlers, Serving(h), UpdateInstance(h)
  PROVE  Served(h)'
<1> USE DEF objects, store, vms, answers
<1>1. PICK i \in Ids, n \in Names : i = req[h].id /\ n = req[h].name /\ name[i] = n
  BY ServingKnows DEF UpdateInstance, At
<1>2. /\ req[h].pc = "UpdateInstance" /\ UNCHANGED <<name, proj, inst, pstate, dom, img, rt>>
      /\ istate' = IF req[h].op = "stop" THEN [istate EXCEPT ![i] = "stopped"] ELSE istate
      /\ Goto(h, "UpdateProject")
  BY <1>1 DEF UpdateInstance, At
<1>3. /\ proj = inst /\ i \in inst /\ req[h].op # "create" /\ dom[n].id = i
      /\ IF req[h].op = "stop" THEN dom[n].st = "off" /\ istate[i] = "stopped"
         ELSE dom[n].st = "running" /\ istate[i] = "running"
  <2>1. PhaseOf(h)
    BY <1>2 DEF Serving, Served
  <2>2. QED BY <1>1, <1>2, <2>1 DEF PhaseOf
<1>4. /\ req'[h].pc = "UpdateProject" /\ req'[h].op = req[h].op
      /\ req'[h].name = n /\ req'[h].id = i
  BY <1>1, <1>2, Goes DEF Serving, Base, Later, OfCreation
<1>5. istate'[i] = istate[i] /\ \A j \in Ids \ {i} : istate'[j] = istate[j]
  BY <1>2, <1>3, ServingKnows
<1>6. PhaseOf(h)'
  BY <1>2, <1>3, <1>4, <1>5 DEF PhaseOf, Begins
<1>7. QED BY <1>1, <1>2, <1>4, <1>5, <1>6, OwnStateKeepsServed DEF Begins

LEMMA UpdateProjectKeepsServed ==
  ASSUME NEW h \in Handlers, Serving(h), UpdateProject(h)
  PROVE  Served(h)'
<1> USE DEF objects, store, vms, answers
<1>1. PICK i \in Ids, n \in Names : i = req[h].id /\ n = req[h].name /\ name[i] = n
  BY ServingKnows DEF UpdateProject, At
<1>2. /\ req[h].pc = "UpdateProject" /\ UNCHANGED <<name, inst, istate, dom, img, rt>>
      /\ pstate' = [pstate EXCEPT ![i] = IF req[h].op = "stop" THEN "stopped" ELSE "running"]
  BY <1>1 DEF UpdateProject, At
<1>3. /\ IF req[h].op = "create" THEN proj = inst \cup {i} /\ i \notin inst
         ELSE proj = inst /\ i \in inst
      /\ dom[n].id = i
      /\ IF req[h].op = "stop" THEN dom[n].st = "off" /\ istate[i] = "stopped"
         ELSE dom[n].st = "running" /\ istate[i] = "running"
  <2>1. PhaseOf(h)
    BY <1>2 DEF Serving, Served
  <2>2. QED BY <1>1, <1>2, <2>1 DEF PhaseOf
<1>4. Owned /\ \A j \in inst \ {i} : Settled(j)
  BY <1>1 DEF Serving, Served, SettledBut
<1>5. proj' = proj /\ SaveOk(proj, inst)
  BY <1>1, <1>3, CalmFaults DEF UpdateProject, Updatable, Serving
<1>6. /\ pstate'[i] = IF req[h].op = "stop" THEN "stopped" ELSE "running"
      /\ \A j \in Ids \ {i} : pstate'[j] = pstate[j]
  BY <1>2, ServingKnows
<1>7. Owned' /\ \A j \in inst \ {i} : Settled(j)'
  BY <1>2, <1>4, <1>5, <1>6, ServingKnows DEF Owned, Settled
<1>8. CASE req[h].op = "create"
  <2>1. Goto(h, "SetInstance")
    BY <1>8 DEF UpdateProject
  <2>2. /\ req'[h].pc = "SetInstance" /\ req'[h].op = req[h].op
        /\ req'[h].name = n /\ req'[h].id = i
    BY <1>1, <1>2, <1>8, <2>1, Goes DEF Serving, Base, Later, OfCreation
  <2>3. PhaseOf(h)'
    BY <1>2, <1>3, <1>5, <1>6, <1>8, <2>2 DEF PhaseOf, Begins
  <2>4. QED BY <1>2, <1>7, <2>2, <2>3 DEF Served, SettledBut, Begins
<1>9. CASE req[h].op # "create"
  <2>1. Answer(h)
    BY <1>9 DEF UpdateProject
  <2>2. req'[h].pc = "idle"
    BY <1>2, <2>1, Answers DEF Serving, Base
  <2>3. Synced'
    BY <1>2, <1>3, <1>5, <1>9 DEF Synced, SaveOk
  <2>4. Settled(i)'
    BY <1>1, <1>2, <1>3, <1>6 DEF Settled
  <2>5. QED BY <1>2, <1>7, <2>2, <2>3, <2>4 DEF Served, SettledBut
<1>10. QED BY <1>8, <1>9

LEMMA ServeKeepsServed ==
  ASSUME NEW h \in Handlers, Serving(h), Serve(h)
  PROVE  Served(h)'
BY FindKeepsServed, CreateProjectKeepsServed, SetDomainsKeepsServed,
   CreateInstanceKeepsServed, SetInstanceKeepsServed,
   NoCleanUp, DestroyInstanceKeepsServed, DeleteInstanceKeepsServed, DeleteProjectKeepsServed,
   StopInstanceKeepsServed, ShutOffKeepsServed, PollEndsKeepsServed, NotInVain,
   StartInstanceKeepsServed, ReadyKeepsServed, UpdateInstanceKeepsServed,
   UpdateProjectKeepsServed
DEF Serve, Creating, Deleting, Stopping, Starting, Updating

\* Between requests: everything is settled.
Resting == Owned /\ Synced /\ \A i \in inst : Settled(i)

LEMMA AtRest ==
  ASSUME Undisturbed, OneByOne, Calm, \A h \in Handlers : req[h].pc = "idle"
  PROVE  Resting
BY DEF Undisturbed, Resting, Begins

\* A request begins.
LEMMA ReceiveKeepsUndisturbed ==
  ASSUME Base, Bound, OneByOne, Calm, Undisturbed, NEW h \in Handlers, NEW n \in Names,
         NEW op \in Ops, (\E i \in Ids : ReceiveCreate(h, n, i)) \/ Receive(h, op, n)
  PROVE  Undisturbed'
<1> USE DEF objects, store, vms, answers
<1>1. \A g \in Handlers : req[g].pc = "idle"
  BY NoneServed DEF ReceiveCreate, Receive, Accepts
<1>2. Resting
  BY <1>1, AtRest
<1>3. UNCHANGED <<scope, proj, inst, pstate, istate, file, dom, img>>
  BY DEF ReceiveCreate, Receive
<1>4. req \in [Handlers -> Request] /\ name \in [Ids -> Names \cup {None}]
  BY DEF Base, TypeOK
<1>5. req'[h].pc \in {"CreateProject", "GetProject"}
  <2>1. ASSUME NEW i \in Ids, ReceiveCreate(h, n, i)
        PROVE  req'[h].pc = "CreateProject"
    BY <1>4, <2>1 DEF ReceiveCreate
  <2>2. ASSUME Receive(h, op, n)
        PROVE  req'[h].pc = "GetProject"
    BY <1>4, <2>2 DEF Receive
  <2>3. QED BY <2>1, <2>2
<1>6. \A g \in Handlers : g # h => req'[g] = req[g]
  BY <1>4 DEF ReceiveCreate, Receive
<1>7. \A g \in Handlers : g # h => req'[g].pc = "idle"
  BY <1>1, <1>6
<1>8. \A j \in proj : j \in Ids /\ name[j] # None
  BY DEF Base, OwnProject, TypeOK
<1>9. \A j \in proj : name'[j] = name[j]
  BY <1>4, <1>8 DEF ReceiveCreate, Receive
<1>10. inst \subseteq proj
  BY DEF Bound
<1>11. Synced' /\ Owned' /\ \A j \in inst' : Settled(j)'
  BY <1>2, <1>3, <1>9, <1>10 DEF Resting, Synced, Owned, Settled
<1>12. PhaseOf(h)'
  BY <1>5, <1>11 DEF PhaseOf, Begins
<1>13. \A g \in Handlers : req'[g].pc # "idle" => PhaseOf(g)'
  BY <1>7, <1>12
<1>14. QED BY <1>5, <1>11, <1>13 DEF Undisturbed

\* A VM that is told to stop belongs to the project whose handler waits for it.
LEMMA WhoStops ==
  ASSUME Base, Alone, Bound, OneByOne, Calm, Undisturbed, NEW n \in Names,
         dom[n].st = "stopping"
  PROVE  \E h \in Handlers : /\ req[h].pc = "waitForShutoff" /\ req[h].name = n
                             /\ req[h].id = dom[n].id
<1> DEFINE i == dom[n].id
<1>1. i \in proj /\ name[i] = n
  BY DEF Undisturbed, Owned
<1>2. ~Settled(i)
  BY <1>1 DEF Settled
<1>3. ASSUME \A h \in Handlers : req[h].pc = "idle"
      PROVE  FALSE
  <2>1. proj = inst
    BY <1>3, AtRest DEF Resting, Synced
  <2>2. QED BY <1>1, <1>2, <1>3, <2>1, AtRest DEF Resting
<1>4. PICK h \in Handlers : req[h].pc # "idle"
  BY <1>3
<1>5. \A g \in Handlers : g # h => req[g].pc = "idle"
  BY <1>4 DEF Alone, Busy
<1>6. PhaseOf(h)
  BY <1>4 DEF Undisturbed
<1>7. \A g \in Handlers : g # h => Begins(g)
  BY <1>5 DEF Begins
<1>8. i \in inst /\ (Begins(h) \/ req[h].id # i) => FALSE
  BY <1>2, <1>7 DEF Undisturbed
<1>9. ~Begins(h)
  <2>1. Begins(h) => proj = inst
    BY <1>6 DEF PhaseOf, Synced
  <2>2. QED BY <1>1, <1>8, <2>1
<1>10. req[h].pc \notin {"idle", "GetProject"} /\ req[h].pc \in Later
  <2>1. req[h] \in Request
    BY DEF Base, TypeOK
  <2>2. QED BY <1>9, <2>1 DEF Begins, Request, Later
<1>11. proj = inst \/ proj = inst \cup {req[h].id}
  BY <1>6, <1>9, <1>10 DEF PhaseOf, Later, Begins
<1>12. req[h].id = i
  BY <1>1, <1>8, <1>11
<1>13. req[h].name = n
  BY <1>1, <1>10, <1>12 DEF Base, Requests
<1>14. req[h].pc = "waitForShutoff"
  BY <1>6, <1>9, <1>10, <1>13 DEF PhaseOf, Later, Begins
<1>15. QED BY <1>12, <1>13, <1>14

\* It shuts down.
LEMMA GuestKeepsUndisturbed ==
  ASSUME Base, Alone, Bound, OneByOne, Calm, Undisturbed, NEW n \in Names, GuestEnds(n)
  PROVE  Undisturbed'
<1> USE DEF objects, store, vms, answers
<1>1. dom[n].st = "stopping" /\ dom' = [dom EXCEPT ![n].st = "off"]
  BY CalmFaults DEF GuestEnds, ShutsDown, PowersOff
<1>2. UNCHANGED <<scope, name, proj, inst, pstate, istate, file, img, rt, req>>
  BY DEF GuestEnds
<1>3. PICK h \in Handlers : /\ req[h].pc = "waitForShutoff" /\ req[h].name = n
                            /\ req[h].id = dom[n].id
  BY <1>1, WhoStops
<1>4. PICK i \in Ids : i = req[h].id /\ name[i] = n
  BY <1>3 DEF Base, Requests
<1>5. dom \in [Names -> [st : {"none", "running", "stopping", "off"}, id : Ids \cup {None}]]
  BY DEF Base, TypeOK
<1>6. /\ dom'[n].st = "off" /\ dom'[n].id = i
      /\ \A m \in Names \ {n} : dom'[m] = dom[m]
  BY <1>1, <1>3, <1>4, <1>5
<1>7. Owned
  BY DEF Undisturbed
<1>8. i \in proj /\ img[n] = i
  BY <1>1, <1>3, <1>4, <1>7 DEF Owned
<1>9. Owned'
  BY <1>2, <1>4, <1>6, <1>7, <1>8, OwnedStays
<1>10. ~Begins(h) /\ PhaseOf(h)
  BY <1>3 DEF Begins, Undisturbed
<1>11. \A g \in Handlers : g # h => req[g].pc = "idle"
  BY <1>3 DEF Alone, Busy
<1>12. \A j \in inst \ {i} : Settled(j)
  BY <1>4, <1>11 DEF Undisturbed, Begins
<1>13. \A j \in inst : name[j] \in Names /\ j \in Ids
  BY DEF Base, TypeOK, Bound, OwnProject
<1>14. \A j \in inst \ {i} : Settled(j)'
  BY <1>2, <1>3, <1>4, <1>6, <1>12, <1>13, OthersStay
<1>15. PhaseOf(h)'
  <2>1. /\ proj = inst /\ i \in inst /\ req[h].vm = i /\ i \in rt
        /\ req[h].op \in {"stop", "restart"}
    BY <1>3, <1>4, <1>10 DEF PhaseOf
  <2>2. QED BY <1>2, <1>3, <1>4, <1>6, <2>1 DEF PhaseOf, Begins
<1>16. \A g \in Handlers : req'[g].pc # "idle" => PhaseOf(g)'
  BY <1>2, <1>11, <1>15
<1>17. \A j \in inst' : (\A g \in Handlers : Begins(g)' \/ req'[g].id # j) => Settled(j)'
  BY <1>2, <1>3, <1>4, <1>14 DEF Begins
<1>18. ~(\A g \in Handlers : req'[g].pc = "idle")
  BY <1>2, <1>3
<1>19. QED BY <1>9, <1>16, <1>17, <1>18 DEF Undisturbed

\* The server is restarted between requests: it takes over what it had, and
\* has nothing to correct.
LEMMA ServerKeepsUndisturbed ==
  ASSUME Base, Bound, OneByOne, Calm, Undisturbed, ServerEnds \/ ServerStarts
  PROVE  Undisturbed'
<1> USE DEF objects, store, vms, answers
<1>1. ~up \/ \A h \in Handlers : req[h].pc = "idle"
  BY CalmFaults DEF ServerEnds, ServerStarts
<1>2. Resting
  BY <1>1, AtRest DEF Base, Requests
<1>3. ASSUME UNCHANGED <<name, proj, inst, pstate, istate, file, dom, img>>,
             \A h \in Handlers : req'[h].pc = "idle"
      PROVE  Undisturbed'
  <2>1. Synced' /\ Owned' /\ \A j \in inst' : Settled(j)'
    BY <1>2, <1>3 DEF Resting, Synced, Owned, Settled
  <2>2. QED BY <1>3, <2>1 DEF Undisturbed
<1>4. CASE ServerEnds
  BY <1>3, <1>4, CalmFaults DEF ServerEnds, IdleReq
<1>5. CASE ServerStarts
  <2>1. UNCHANGED <<name, dom, img, req>> /\ \A h \in Handlers : req'[h].pc = "idle"
    BY <1>5 DEF ServerStarts, Base, Requests
  <2>2. /\ proj = inst /\ DOMAIN file.projects = proj /\ DOMAIN file.instances = inst
        /\ \A i \in proj : file.projects[i] = pstate[i]
        /\ \A i \in inst : file.instances[i] = istate[i]
    BY <1>2 DEF Resting, Synced, Snapshot
  <2>3. \A i \in inst : Reconciled(i, file.instances[i]) = file.instances[i]
    BY <1>2, <2>2 DEF Resting, Settled, Reconciled, StateSeen, Powered
  <2>4. pstate \in [Ids -> ProjectStates] /\ istate \in [Ids -> InstanceStates]
    BY DEF Base, TypeOK
  <2>5. proj' = proj /\ inst' = inst /\ file' = file
    BY <1>5, <2>2, <2>3 DEF ServerStarts
  <2>6. istate' = [i \in Ids |-> IF i \in inst THEN Reconciled(i, file.instances[i])
                                ELSE istate[i]]
    BY <1>5, <2>2 DEF ServerStarts
  <2>7. istate' = istate
    BY <2>2, <2>3, <2>4, <2>6
  <2>8. pstate' = [i \in Ids |->
                     IF i \in inst /\ Reconciled(i, file.instances[i]) # file.instances[i]
                     THEN ProjectStateOf(Reconciled(i, file.instances[i]))
                     ELSE IF i \in proj THEN file.projects[i] ELSE pstate[i]]
    BY <1>5, <2>2 DEF ServerStarts
  <2>9. pstate' = pstate
    BY <2>2, <2>3, <2>4, <2>8
  <2>10. QED BY <1>3, <2>1, <2>5, <2>7, <2>9
<1>6. QED BY <1>4, <1>5

LEMMA UndisturbedKept ==
  ASSUME Base, Alone, Bound, Undisturbed, [Next]_vars
  PROVE  Undisturbed'
<1> USE DEF objects, store, vms, answers
<1>1. scope' = scope
  BY ServeGoesOn DEF Base, Next, vars, ReceiveCreate, Receive, PollWaits, GuestEnds, ServerEnds,
     ServerStarts
<1>2. SUFFICES ASSUME OneByOne, Calm
               PROVE  Undisturbed'
  BY <1>1 DEF Undisturbed, OneByOne, Calm
<1>3. ASSUME NEW h \in Handlers, Serve(h)
      PROVE  Undisturbed'
  <2>1. GoesOn(h)
    BY <1>3, ServeGoesOn DEF Base
  <2>2. \A g \in Handlers : g # h => req[g].pc = "idle" /\ req'[g].pc = "idle"
    BY <1>2, <2>1 DEF GoesOn, Alone, Busy
  <2>3. \A g \in Handlers : g # h => Begins(g) /\ Begins(g)'
    BY <2>2 DEF Begins
  <2>4. Serving(h)
    BY <1>2, <2>1, <2>3 DEF Serving, Served, SettledBut, Undisturbed, GoesOn
  <2>5. Served(h)'
    BY <1>3, <2>4, ServeKeepsServed
  <2>6. QED BY <2>2, <2>3, <2>5 DEF Served, SettledBut, Undisturbed
<1>4. ASSUME NEW h \in Handlers, PollWaits(h)
      PROVE  Undisturbed'
  BY <1>2, <1>4 DEF PollWaits, At, Undisturbed, PhaseOf, Powered
<1>5. CASE UNCHANGED vars
  BY <1>5 DEF vars, Undisturbed, Owned, Settled, Begins, PhaseOf, Synced, OneByOne, Calm
<1>6. QED BY <1>2, <1>3, <1>4, <1>5, ReceiveKeepsUndisturbed, GuestKeepsUndisturbed,
             ServerKeepsUndisturbed DEF Next, Ops
-----------------------------------------------------------------------------
(* The inductive invariant.                                                  *)

THEOREM Invariant == Spec => []IInv
<1>1. Init => IInv
  <2> SUFFICES ASSUME Init PROVE IInv
    OBVIOUS
  <2>1. /\ \A h \in Handlers : req[h].pc = "idle"
        /\ proj = {} /\ inst = {} /\ file = Snapshot({}, {}, pstate, istate)
        /\ DOMAIN file.instances = {} /\ DOMAIN file.projects = {}
        /\ dom = [n \in Names |-> NoDomain]
    BY DEF Init, IdleReq, Snapshot
  <2>2. Alone /\ Bound
    BY <2>1 DEF Alone, Busy, Bound, InstancesAreBound, Creates
  <2>3. Undisturbed
    BY <2>1 DEF Undisturbed, Owned, Synced, NoDomain
  <2>4. QED BY <2>2, <2>3, InitBase DEF IInv
<1>2. IInv /\ [Next]_vars => IInv'
  BY NextKeepsBase, AloneKept, BoundKept, UndisturbedKept DEF IInv
<1>3. QED BY <1>1, <1>2, PTL DEF Spec

\* Without failures and overlapping requests, a confirmed deletion leaves no VM
\* of the project behind (docs/cli-reference.md:265; project_handlers.go:
\* deleteProject, which goes on when DestroyInstance fails).
THEOREM DeletedVMsAreGone == Spec => []DeletedMeansDestroyed
<1>1. IInv => DeletedMeansDestroyed
  <2> SUFFICES ASSUME IInv, OneByOne, Calm, NEW i \in deleted
               PROVE  dom[name[i]].id # i
    BY DEF DeletedMeansDestroyed
  <2> USE DEF IInv, Base
  <2>1. i \in Ids /\ i \notin proj /\ name[i] \in Names
    BY DEF TypeOK, OwnProject, NotBack
  <2>2. CASE dom[name[i]].st = "none"
    BY <2>1, <2>2, NoneAssumption DEF Undisturbed, Owned, NoDomain
  <2>3. CASE dom[name[i]].st # "none"
    BY <2>1, <2>3 DEF Undisturbed, Owned
  <2>4. QED BY <2>2, <2>3
<1>2. QED BY Invariant, <1>1, PTL

\* ... no VM loses its disk image, though directories are found by a name that
\* a later project may have again (manager.go: Create, Destroy), ...
THEOREM VMsKeepTheirDisks == Spec => []RunningKeepsDisk
<1>1. IInv => RunningKeepsDisk
  BY DEF IInv, Undisturbed, Owned, RunningKeepsDisk
<1>2. QED BY Invariant, <1>1, PTL

\* ... and between requests, restarts of the server included, memory agrees
\* with libvirt (project_handlers.go: the updates that end each handler;
\* server.go: serverReconcileState).
THEOREM RecordsMatch == Spec => []RecordsMatchVMs
<1>1. IInv => RecordsMatchVMs
  <2> SUFFICES ASSUME IInv, OneByOne, Calm, Quiet, NEW i \in inst
               PROVE  /\ dom[name[i]].id = i
                      /\ istate[i] = "running" => Powered(name[i])
                      /\ istate[i] = "stopped" => dom[name[i]].st = "off"
                      /\ pstate[i] = ProjectStateOf(istate[i])
    BY DEF RecordsMatchVMs
  <2>1. Settled(i)
    BY AtRest DEF IInv, Quiet, Resting
  <2>2. QED BY <2>1 DEF Settled, Powered, ProjectStateOf
<1>2. QED BY Invariant, <1>1, PTL
=============================================================================
