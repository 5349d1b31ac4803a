--------------------------- MODULE AppRoutes_proofs ---------------------------
(* Proofs about AppRoutes for any projects, apps, hostnames, domains,        *)
(* addresses, ports, objects, handlers and scopes.                           *)
EXTENDS AppRoutes, FiniteSetTheorems, TLAPS

USE NamesAssumption, ScopesAssumption

-----------------------------------------------------------------------------
(* What a step of a handler makes of its request.                            *)

\* A step of h leaves the requests of the others alone ...
Turns(h) == /\ req' \in [Handlers -> Request]
            /\ \A g \in Handlers \ {h} : req'[g] = req[g]

\* ... and goes on with the one it serves ...
GoesOn(h) == /\ Turns(h)
             /\ req'[h].op = req[h].op /\ req'[h].p = req[h].p /\ req'[h].a = req[h].a

\* ... holding the same app and domains ...
Holding(h) == /\ GoesOn(h)
              /\ req'[h].o = req[h].o /\ req'[h].old = req[h].old
              /\ req'[h].host = req[h].host

\* ... and with the same apps before it.
Keeping(h) == Holding(h) /\ req'[h].all = req[h].all /\ req'[h].left = req[h].left

LEMMA IdleType == IdleReq \in Request
BY DEF IdleReq, Request, AllOps

LEMMA Turn ==
  ASSUME TypeOK, NEW h \in Handlers, NEW y \in Request, req' = [req EXCEPT ![h] = y]
  PROVE  Turns(h) /\ req'[h] = y
BY DEF TypeOK, Turns

LEMMA Answers ==
  ASSUME TypeOK, NEW h \in Handlers, Answer(h)
  PROVE  Turns(h) /\ req'[h] = IdleReq /\ req'[h].pc = "idle"
<1>1. Turns(h) /\ req'[h] = IdleReq
  BY IdleType, Turn DEF Answer
<1>2. QED BY <1>1 DEF IdleReq

Places == {"GetApp", "SetApp", "Update", "Remove", "Delete", "Register", "Set", "GetAddress",
           "GetInstance", "Command", "DeleteApp", "UpdateDomains", "GetApps", "RemoveNext",
           "RegisterNext", "DestroyInstance", "DeleteProject"}

LEMMA Goes ==
  ASSUME TypeOK, NEW h \in Handlers, NEW pc \in Places, Goto(h, pc)
  PROVE  /\ Keeping(h) /\ req'[h].pc = pc
         /\ req'[h].keys = req[h].keys /\ req'[h].to = req[h].to
<1> DEFINE x == req[h]
           y == [x EXCEPT !.pc = pc]
<1>1. x \in Request /\ req \in [Handlers -> Request]
  BY DEF TypeOK
<1>2. /\ y \in Request /\ y.pc = pc /\ y.op = x.op /\ y.p = x.p /\ y.a = x.a /\ y.o = x.o
      /\ y.all = x.all /\ y.left = x.left /\ y.old = x.old /\ y.host = x.host
      /\ y.keys = x.keys /\ y.to = x.to
  BY <1>1 DEF Request, Places
<1>3. req' = [req EXCEPT ![h] = y]
  BY DEF Goto
<1> HIDE DEF y
<1>4. Turns(h) /\ req'[h] = y
  BY <1>2, <1>3, Turn
<1>5. QED BY <1>2, <1>4 DEF Keeping, Holding, GoesOn

\* A request arrives.
LEMMA Received ==
  ASSUME TypeOK, NEW h \in Handlers, NEW op \in AllOps, NEW p \in Projects, NEW a \in AppNames,
         Receive(h, op, p, a)
  PROVE  /\ Turns(h) /\ req'[h].op = op /\ req'[h].p = p /\ req'[h].a = a
         /\ req'[h].pc = CASE op = "domains" -> "UpdateDomains"
                           [] op = "remove"  -> "GetApps"
                           [] OTHER          -> "GetApp"
         /\ req'[h].o = None /\ req'[h].all = {} /\ req'[h].left = {}
<1> DEFINE pc == CASE op = "domains" -> "UpdateDomains"
                   [] op = "remove"  -> "GetApps"
                   [] OTHER          -> "GetApp"
           y == [IdleReq EXCEPT !.pc = pc, !.op = op, !.p = p, !.a = a]
<1>1. pc \in {"UpdateDomains", "GetApps", "GetApp"}
  OBVIOUS
<1>2. req' = [req EXCEPT ![h] = y]
  BY DEF Receive
<1> HIDE DEF pc
<1>3. /\ y \in Request /\ y.op = op /\ y.p = p /\ y.a = a /\ y.pc = pc /\ y.o = None
      /\ y.all = {} /\ y.left = {}
  BY <1>1 DEF IdleReq, Request
<1> HIDE DEF y
<1>4. Turns(h) /\ req'[h] = y
  BY <1>2, <1>3, Turn
<1>5. QED BY <1>3, <1>4 DEF pc

\* A handler takes the app it finds, or the one it makes.
Taken(h, pc, o) == req' = [req EXCEPT ![h].pc = pc, ![h].o = o]

LEMMA Takes ==
  ASSUME TypeOK, NEW h \in Handlers, NEW pc \in Places, NEW o \in Objs, Taken(h, pc, o)
  PROVE  /\ GoesOn(h) /\ req'[h].pc = pc /\ req'[h].o = o
         /\ req'[h].all = req[h].all /\ req'[h].left = req[h].left
<1> DEFINE x == req[h]
           z == [x EXCEPT !.pc = pc]
           y == [z EXCEPT !.o = o]
<1>1. x \in Request /\ req \in [Handlers -> Request]
  BY DEF TypeOK
<1>2. z \in Request /\ z.pc = pc
  BY <1>1 DEF Request, Places
<1>3. y \in Request /\ y.pc = pc /\ y.o = o
  <2> HIDE DEF z
  <2>1. QED BY <1>2 DEF Request
<1>4. y.op = x.op /\ y.p = x.p /\ y.a = x.a /\ y.all = x.all /\ y.left = x.left
  BY <1>1 DEF Request
<1>5. req' = [req EXCEPT ![h] = y]
  BY <1>1 DEF Taken
<1> HIDE DEF y, z
<1>6. Turns(h) /\ req'[h] = y
  BY <1>3, <1>5, Turn
<1>7. QED BY <1>3, <1>4, <1>6 DEF GoesOn

\* An update that goes on to the routes.
LEMMA TakesHost ==
  ASSUME TypeOK, NEW h \in Handlers, NEW host \in Hostnames,
         req' = [req EXCEPT ![h].pc = "Remove", ![h].host = host]
  PROVE  /\ GoesOn(h) /\ req'[h].pc = "Remove" /\ req'[h].host = host
         /\ req'[h].o = req[h].o
         /\ req'[h].all = req[h].all /\ req'[h].left = req[h].left
<1> DEFINE x == req[h]
           y == [[x EXCEPT !.pc = "Remove"] EXCEPT !.host = host]
<1>1. x \in Request /\ req \in [Handlers -> Request]
  BY DEF TypeOK
<1>2. /\ y \in Request /\ y.pc = "Remove" /\ y.op = x.op /\ y.p = x.p /\ y.a = x.a /\ y.o = x.o
      /\ y.host = host /\ y.all = x.all /\ y.left = x.left
  BY <1>1 DEF Request
<1>3. req' = [req EXCEPT ![h] = y]
  BY <1>1
<1> HIDE DEF y
<1>4. Turns(h) /\ req'[h] = y
  BY <1>2, <1>3, Turn
<1>5. QED BY <1>2, <1>4 DEF GoesOn

\* A loop over routes begins: those to delete ...
LEMMA TakesKeys ==
  ASSUME TypeOK, NEW h \in Handlers, NEW keys \in SUBSET RouteKeys,
         req' = [req EXCEPT ![h].pc = "Delete", ![h].keys = keys]
  PROVE  Keeping(h) /\ req'[h].pc = "Delete" /\ req'[h].keys = keys
<1> DEFINE x == req[h]
           y == [[x EXCEPT !.pc = "Delete"] EXCEPT !.keys = keys]
<1>1. x \in Request /\ req \in [Handlers -> Request]
  BY DEF TypeOK
<1>2. /\ y \in Request /\ y.pc = "Delete" /\ y.op = x.op /\ y.p = x.p /\ y.a = x.a /\ y.o = x.o
      /\ y.all = x.all /\ y.left = x.left /\ y.old = x.old /\ y.host = x.host
      /\ y.keys = keys
  BY <1>1 DEF Request
<1>3. req' = [req EXCEPT ![h] = y]
  BY <1>1
<1> HIDE DEF y
<1>4. Turns(h) /\ req'[h] = y
  BY <1>2, <1>3, Turn
<1>5. QED BY <1>2, <1>4 DEF Keeping, Holding, GoesOn

\* ... or to set.
LEMMA TakesRoutes ==
  ASSUME TypeOK, NEW h \in Handlers, NEW keys \in SUBSET RouteKeys, NEW to \in Backends \cup {None},
         req' = [req EXCEPT ![h].pc = "Set", ![h].keys = keys, ![h].to = to]
  PROVE  Keeping(h) /\ req'[h].pc = "Set" /\ req'[h].keys = keys /\ req'[h].to = to
<1> DEFINE x == req[h]
           y == [[[x EXCEPT !.pc = "Set"] EXCEPT !.keys = keys] EXCEPT !.to = to]
<1>1. x \in Request /\ req \in [Handlers -> Request]
  BY DEF TypeOK
<1>2. /\ y \in Request /\ y.pc = "Set" /\ y.op = x.op /\ y.p = x.p /\ y.a = x.a /\ y.o = x.o
      /\ y.all = x.all /\ y.left = x.left /\ y.old = x.old /\ y.host = x.host
      /\ y.keys = keys /\ y.to = to
  BY <1>1 DEF Request
<1>3. req' = [req EXCEPT ![h] = y]
  BY <1>1
<1> HIDE DEF y
<1>4. Turns(h) /\ req'[h] = y
  BY <1>2, <1>3, Turn
<1>5. QED BY <1>2, <1>4 DEF Keeping, Holding, GoesOn

\* One route of the loop.
LEMMA NextKey ==
  ASSUME TypeOK, NEW h \in Handlers, NEW r \in RouteKeys,
         req' = [req EXCEPT ![h].keys = @ \ {r}]
  PROVE  /\ Keeping(h) /\ req'[h].pc = req[h].pc
         /\ req'[h].keys = req[h].keys \ {r} /\ req'[h].to = req[h].to
<1> DEFINE x == req[h]
           y == [x EXCEPT !.keys = x.keys \ {r}]
<1>1. x \in Request /\ req \in [Handlers -> Request]
  BY DEF TypeOK
<1>2. /\ y \in Request /\ y.pc = x.pc /\ y.op = x.op /\ y.p = x.p /\ y.a = x.a /\ y.o = x.o
      /\ y.all = x.all /\ y.left = x.left /\ y.old = x.old /\ y.host = x.host
      /\ y.keys = x.keys \ {r} /\ y.to = x.to
  BY <1>1 DEF Request
<1>3. req' = [req EXCEPT ![h] = y]
  BY <1>1
<1> HIDE DEF y
<1>4. Turns(h) /\ req'[h] = y
  BY <1>2, <1>3, Turn
<1>5. QED BY <1>2, <1>4 DEF Keeping, Holding, GoesOn

\* The apps of the second half of a reconciliation are those of the first.
LEMMA TakesAll ==
  ASSUME TypeOK, NEW h \in Handlers, NEW pc \in {"RegisterNext", "Register"},
         req' = [req EXCEPT ![h].left = req[h].all, ![h].pc = pc]
  PROVE  /\ Holding(h) /\ req'[h].pc = pc
         /\ req'[h].all = req[h].all /\ req'[h].left = req[h].all
<1> DEFINE x == req[h]
           y == [[x EXCEPT !.left = x.all] EXCEPT !.pc = pc]
<1>1. x \in Request /\ req \in [Handlers -> Request]
  BY DEF TypeOK
<1>2. /\ y \in Request /\ y.pc = pc /\ y.op = x.op /\ y.p = x.p /\ y.a = x.a /\ y.o = x.o
      /\ y.all = x.all /\ y.left = x.all /\ y.old = x.old /\ y.host = x.host
  BY <1>1 DEF Request
<1>3. req' = [req EXCEPT ![h] = y]
  BY <1>1
<1> HIDE DEF y
<1>4. Turns(h) /\ req'[h] = y
  BY <1>2, <1>3, Turn
<1>5. QED BY <1>2, <1>4 DEF Holding, GoesOn

\* The domains a project had ...
LEMMA TakesDomains ==
  ASSUME TypeOK, NEW h \in Handlers, NEW D \in SUBSET Domains,
         req' = [req EXCEPT ![h].pc = "GetApps", ![h].old = D]
  PROVE  /\ GoesOn(h) /\ req'[h].pc = "GetApps" /\ req'[h].old = D /\ req'[h].o = req[h].o
         /\ req'[h].all = req[h].all /\ req'[h].left = req[h].left
<1> DEFINE x == req[h]
           y == [[x EXCEPT !.pc = "GetApps"] EXCEPT !.old = D]
<1>1. x \in Request /\ req \in [Handlers -> Request]
  BY DEF TypeOK
<1>2. /\ y \in Request /\ y.pc = "GetApps" /\ y.op = x.op /\ y.p = x.p /\ y.a = x.a /\ y.o = x.o
      /\ y.all = x.all /\ y.left = x.left /\ y.old = D
  BY <1>1 DEF Request
<1>3. req' = [req EXCEPT ![h] = y]
  BY <1>1
<1> HIDE DEF y
<1>4. Turns(h) /\ req'[h] = y
  BY <1>2, <1>3, Turn
<1>5. QED BY <1>2, <1>4 DEF GoesOn

\* ... and its apps ...
LEMMA TakesApps ==
  ASSUME TypeOK, NEW h \in Handlers, NEW O \in SUBSET Objs,
         req' = [req EXCEPT ![h].pc = "RemoveNext", ![h].all = O, ![h].left = O]
  PROVE  Holding(h) /\ req'[h].pc = "RemoveNext" /\ req'[h].all = O /\ req'[h].left = O
<1> DEFINE x == req[h]
           y == [[[x EXCEPT !.pc = "RemoveNext"] EXCEPT !.all = O] EXCEPT !.left = O]
<1>1. x \in Request /\ req \in [Handlers -> Request]
  BY DEF TypeOK
<1>2. /\ y \in Request /\ y.pc = "RemoveNext" /\ y.op = x.op /\ y.p = x.p /\ y.a = x.a
      /\ y.o = x.o /\ y.all = O /\ y.left = O /\ y.old = x.old /\ y.host = x.host
  BY <1>1 DEF Request
<1>3. req' = [req EXCEPT ![h] = y]
  BY <1>1
<1> HIDE DEF y
<1>4. Turns(h) /\ req'[h] = y
  BY <1>2, <1>3, Turn
<1>5. QED BY <1>2, <1>4 DEF Holding, GoesOn

\* ... one after the other.
LEMMA TakesNext ==
  ASSUME TypeOK, NEW h \in Handlers, NEW o \in Objs, NextApp(h, o)
  PROVE  /\ GoesOn(h) /\ req'[h].o = o
         /\ req'[h].pc = IF At(h, "RemoveNext") THEN "Remove" ELSE "Register"
         /\ req'[h].all = req[h].all /\ req'[h].left = req[h].left \ {o}
         /\ req'[h].old = req[h].old /\ req'[h].host = req[h].host
<1> DEFINE x == req[h]
           pc == IF x.pc = "RemoveNext" THEN "Remove" ELSE "Register"
           y == [[[x EXCEPT !.left = x.left \ {o}] EXCEPT !.o = o] EXCEPT !.pc = pc]
<1>1. x \in Request /\ req \in [Handlers -> Request]
  BY DEF TypeOK
<1>2. pc \in {"Remove", "Register"}
  OBVIOUS
<1>3. req' = [req EXCEPT ![h] = y]
  BY <1>1 DEF NextApp
<1>4. /\ y \in Request /\ y.pc = pc /\ y.op = x.op /\ y.p = x.p /\ y.a = x.a
      /\ y.o = o /\ y.all = x.all /\ y.left = x.left \ {o} /\ y.old = x.old /\ y.host = x.host
  <2> HIDE DEF pc
  <2>1. QED BY <1>1, <1>2 DEF Request
<1> HIDE DEF y
<1>5. Turns(h) /\ req'[h] = y
  BY <1>3, <1>4, Turn
<1>6. QED BY <1>4, <1>5 DEF GoesOn, At
-----------------------------------------------------------------------------
(* The requests.                                                             *)

LEMMA OpsAre ==
  /\ OpsAt("idle") = AllOps
  /\ OpsAt("GetApp") = {"create", "deploy", "update", "stop", "delete"}
  /\ OpsAt("SetApp") = {"create", "deploy"} /\ OpsAt("Update") = {"update"}
  /\ \A pc \in {"Remove", "Delete"} :
        OpsAt(pc) = {"update", "stop", "delete", "domains", "remove"}
  /\ \A pc \in {"Register", "Set"} : OpsAt(pc) = {"deploy", "update", "domains"}
  /\ OpsAt("GetAddress") = {"update", "domains"}
  /\ \A pc \in {"GetInstance", "Command"} : OpsAt(pc) = {"deploy", "stop", "delete"}
  /\ OpsAt("DeleteApp") = {"delete"}
  /\ \A pc \in {"UpdateDomains", "RegisterNext"} : OpsAt(pc) = {"domains"}
  /\ \A pc \in {"GetApps", "RemoveNext"} : OpsAt(pc) = {"domains", "remove"}
  /\ \A pc \in {"DestroyInstance", "DeleteProject"} : OpsAt(pc) = {"remove"}
BY DEF OpsAt

\* A request that is answered.
LEMMA RequestsAnswer ==
  ASSUME TypeOK, Requests, NEW h \in Handlers, Answer(h)
  PROVE  Requests' /\ Turns(h) /\ req'[h] = IdleReq
<1>1. Turns(h) /\ req'[h] = IdleReq
  BY Answers
<1>2. /\ IdleReq.pc = "idle" /\ IdleReq.op \in AllOps
  BY DEF IdleReq, AllOps
<1>3. QED BY <1>1, <1>2, OpsAre DEF Requests, Turns, HoldsApp, At, Serves

\* A request that goes on.
LEMMA RequestsGoOn ==
  ASSUME Requests, NEW h \in Handlers, GoesOn(h), ~At(h, "idle"),
         req'[h].op \in OpsAt(req'[h].pc), HoldsApp(h)' => req'[h].o # None,
         req'[h].pc = "Remove" /\ req'[h].op = "update" => req'[h].host # None
  PROVE  Requests'
<1>1. ASSUME NEW g \in Handlers
      PROVE  /\ req'[g].op \in OpsAt(req'[g].pc)
             /\ req'[g].pc # "idle" => req'[g].p \in Projects /\ req'[g].a \in AppNames
             /\ HoldsApp(g)' => req'[g].o # None
             /\ req'[g].pc = "Remove" /\ req'[g].op = "update" => req'[g].host # None
  <2>1. CASE g = h
    BY <2>1 DEF Requests, GoesOn, Turns, At
  <2>2. CASE g # h
    <3>1. req'[g] = req[g]
      BY <2>2 DEF GoesOn, Turns
    <3>2. QED BY <3>1 DEF Requests, HoldsApp, At, Serves
  <2>3. QED BY <2>1, <2>2
<1>2. QED BY <1>1 DEF Requests, HoldsApp, At, Serves

\* The steps a handler takes.
Acts(h) == \/ Arrives(h) \/ GetApp(h) \/ Defines(h) \/ SetApp(h)
           \/ GetInstance(h) \/ Obeyed(h) \/ Failed(h)
           \/ Routing(h) \/ Reconciles(h) \/ Deletes(h)

\* What the record of a busy handler has.
LEMMA Serving ==
  ASSUME TypeOK, Requests, NEW h \in Handlers, ~At(h, "idle")
  PROVE  /\ req[h].p \in Projects /\ req[h].a \in AppNames /\ App(h) \in Objs \cup {None}
         /\ req[h].op \in OpsAt(req[h].pc) /\ req[h].o \in Objs \cup {None}
         /\ req[h].all \in SUBSET Objs /\ req[h].left \in SUBSET Objs
         /\ req[h].old \in SUBSET Domains /\ req[h].keys \in SUBSET RouteKeys
         /\ req[h].host \in Hostnames \cup {None} /\ req[h].to \in Backends \cup {None}
<1>1. req[h] \in Request
  BY DEF TypeOK
<1>2. req[h].p \in Projects /\ req[h].a \in AppNames /\ req[h].op \in OpsAt(req[h].pc)
  BY DEF Requests
<1>3. App(h) \in Objs \cup {None}
  BY <1>2 DEF TypeOK, App
<1>4. QED BY <1>1, <1>2, <1>3 DEF Request

\* A request that holds an app holds one with a hostname.
LEMMA HoldsOne ==
  ASSUME Base, NEW h \in Handlers, HoldsApp(h)
  PROVE  /\ ~At(h, "idle") /\ req[h].o \in Objs /\ obj[req[h].o] \in Apps
         /\ Hostname(req[h].o) \in Hostnames
<1>1. ~At(h, "idle")
  BY DEF HoldsApp, At
<1>2. req[h].o \in Objs /\ req[h].o # None
  BY <1>1, Serving DEF Base, Requests
<1>3. obj[req[h].o] \in Apps
  BY <1>2 DEF Base, TypeOK, Reached, Used
<1>4. QED BY <1>1, <1>2, <1>3 DEF Hostname, Apps

LEMMA RequestsGoto ==
  ASSUME TypeOK, Requests, NEW h \in Handlers, ~At(h, "idle"), NEW pc \in Places, Goto(h, pc),
         req[h].op \in OpsAt(pc), pc \notin {"Remove"},
         pc \in {"DestroyInstance", "DeleteProject", "RemoveNext", "RegisterNext"}
         \/ (pc = "GetAddress" /\ req[h].op = "domains") \/ HoldsApp(h)
  PROVE  Requests' /\ Keeping(h) /\ req'[h].pc = pc
<1>1. Keeping(h) /\ req'[h].pc = pc
  BY Goes
<1>2. HoldsApp(h) => req[h].o # None
  BY DEF Requests
<1>3. HoldsApp(h)' => req'[h].o # None
  BY <1>1, <1>2 DEF HoldsApp, At, Serves, Keeping, Holding, GoesOn
<1>4. GoesOn(h) /\ req'[h].op = req[h].op
  BY <1>1 DEF Keeping, Holding, GoesOn
<1>5. QED BY <1>1, <1>3, <1>4, RequestsGoOn

\* A request comes, and finds its app or makes it.
LEMMA ArrivalRequests ==
  ASSUME Base, NEW h \in Handlers, NEW op \in AllOps, NEW p \in Projects, NEW a \in AppNames,
         Receive(h, op, p, a)
  PROVE  Requests' /\ Turns(h)
<1>1. /\ Turns(h) /\ req'[h].op = op /\ req'[h].p = p /\ req'[h].a = a
      /\ req'[h].pc = CASE op = "domains" -> "UpdateDomains"
                        [] op = "remove"  -> "GetApps"
                        [] OTHER          -> "GetApp"
  BY Received DEF Base
<1>2. /\ req'[h].op \in OpsAt(req'[h].pc)
      /\ req'[h].pc \in {"UpdateDomains", "GetApps", "GetApp"}
  <2>1. CASE op \in {"domains", "remove"}
    BY <1>1, <2>1, OpsAre
  <2>2. CASE op \notin {"domains", "remove"}
    <3>1. req'[h].pc = "GetApp"
      BY <1>1, <2>2
    <3>2. QED BY <1>1, <2>2, <3>1, OpsAre DEF AllOps
  <2>3. QED BY <2>1, <2>2
<1>3. QED BY <1>1, <1>2 DEF Requests, Base, Turns, HoldsApp, At, Serves

LEMMA GetAppRequests ==
  ASSUME Base, NEW h \in Handlers, GetApp(h)
  PROVE  Requests' /\ Turns(h)
<1>1. req[h].pc = "GetApp" /\ ~At(h, "idle") /\ req[h].op # "create"
  BY DEF GetApp, At, Serves
<1>2. App(h) \in Objs \cup {None} /\ req[h].op \in {"deploy", "update", "stop", "delete"}
  BY <1>1, Serving, OpsAre DEF Base
<1>3. CASE Answer(h)
  BY <1>3, RequestsAnswer DEF Base
<1>4. CASE ~Answer(h)
  <2>1. App(h) \in Objs
    BY <1>2, <1>4 DEF GetApp
  <2>2. PICK pc \in CASE Serves(h, "deploy") -> {"SetApp", "GetInstance"}
                      [] Serves(h, "update") -> {"Update"}
                      [] Serves(h, "stop")   -> {"GetInstance"}
                      [] Serves(h, "delete") -> {"Remove"} :
             req' = [req EXCEPT ![h].pc = pc, ![h].o = App(h)]
    BY <1>4 DEF GetApp
  <2>3. \/ pc \in {"SetApp", "GetInstance"} /\ req[h].op = "deploy"
        \/ pc = "Update" /\ req[h].op = "update"
        \/ pc = "GetInstance" /\ req[h].op = "stop"
        \/ pc = "Remove" /\ req[h].op = "delete"
    BY <1>2, <2>2 DEF Serves
  <2>4. pc \in Places /\ req[h].op \in OpsAt(pc)
    BY <2>3, OpsAre DEF Places
  <2>5. GoesOn(h) /\ req'[h].pc = pc /\ req'[h].o = App(h)
    <3>1. TypeOK /\ Taken(h, pc, App(h))
      BY <2>2 DEF Base, Taken
    <3>2. QED BY <2>1, <2>4, <3>1, Takes
  <2>6. req'[h].op = req[h].op /\ Turns(h) /\ App(h) # None
    BY <2>1, <2>5 DEF GoesOn
  <2>7. QED BY <1>1, <2>3, <2>4, <2>5, <2>6, RequestsGoOn DEF Base
<1>5. QED BY <1>3, <1>4

LEMMA CreateAppRequests ==
  ASSUME Base, NEW h \in Handlers, NEW o \in Objs, NEW host, NEW avail, NEW port,
         CreateApp(h, o, host, avail, port)
  PROVE  Requests' /\ Turns(h)
<1>1. req[h].pc = "GetApp" /\ ~At(h, "idle") /\ req[h].op = "create"
  BY DEF CreateApp, At, Serves
<1>2. CASE Answer(h)
  BY <1>2, RequestsAnswer DEF Base
<1>3. CASE ~Answer(h)
  <2>1. req' = [req EXCEPT ![h].pc = "SetApp", ![h].o = o]
    BY <1>3 DEF CreateApp
  <2>2. GoesOn(h) /\ req'[h].pc = "SetApp" /\ req'[h].o = o
    <3>1. TypeOK /\ Taken(h, "SetApp", o) /\ "SetApp" \in Places
      BY <2>1 DEF Base, Taken, Places
    <3>2. QED BY <3>1, Takes
  <2>3. req'[h].op = "create" /\ Turns(h) /\ o # None
    BY <1>1, <2>2 DEF GoesOn
  <2>4. req'[h].op \in OpsAt(req'[h].pc)
    BY <2>2, <2>3, OpsAre
  <2>5. QED BY <1>1, <2>2, <2>3, <2>4, RequestsGoOn DEF Base
<1>4. QED BY <1>2, <1>3

LEMMA UpdateAppRequests ==
  ASSUME Base, NEW h \in Handlers, NEW host, NEW avail, NEW port,
         UpdateApp(h, host, avail, port)
  PROVE  Requests' /\ Turns(h)
<1>1. req[h].pc = "Update" /\ ~At(h, "idle") /\ HoldsApp(h)
  BY DEF UpdateApp, At, HoldsApp
<1>2. req[h].op = "update" /\ req[h].o # None
  BY <1>1, OpsAre DEF Base, Requests
<1>3. CASE Answer(h)
  BY <1>3, RequestsAnswer DEF Base
<1>4. CASE ~Answer(h)
  <2>1. PICK name \in Hostnames : name = Hostname(req[h].o)
    BY <1>1, HoldsOne
  <2>2. req' = [req EXCEPT ![h].pc = "Remove", ![h].host = name]
    BY <1>4, <2>1 DEF UpdateApp
  <2>3. GoesOn(h) /\ req'[h].pc = "Remove" /\ req'[h].host = name /\ req'[h].o = req[h].o
    BY <2>2, TakesHost DEF Base
  <2>4. Turns(h) /\ req'[h].op = "update" /\ req'[h].o # None /\ req'[h].host # None
    BY <1>2, <2>3 DEF GoesOn
  <2>5. req'[h].op \in OpsAt(req'[h].pc)
    BY <2>3, <2>4, OpsAre
  <2>6. QED BY <1>1, <2>3, <2>4, <2>5, RequestsGoOn DEF Base
<1>5. QED BY <1>3, <1>4

\* The keys of a removal, and those of a registration.
LEMMA KeysType ==
  ASSUME Base, NEW h \in Handlers, HoldsApp(h)
  PROVE  /\ At(h, "Remove") => RemovedKeys(h) \in SUBSET RouteKeys
         /\ RoutesFor(Hostname(req[h].o), doms[req[h].p]) \in SUBSET RouteKeys
<1>1. ~At(h, "idle") /\ Hostname(req[h].o) \in Hostnames
  BY HoldsOne
<1>2. /\ req[h].p \in Projects /\ req[h].old \in SUBSET Domains
      /\ req[h].host \in Hostnames \cup {None}
  BY <1>1, Serving DEF Base
<1>3. doms[req[h].p] \in SUBSET Domains
  BY <1>2 DEF Base, TypeOK
<1>4. At(h, "Remove") /\ Serves(h, "update") => req[h].host \in Hostnames
  BY <1>2 DEF Base, Requests
<1>5. QED BY <1>1, <1>2, <1>3, <1>4 DEF RemovedKeys, RoutesFor, RouteKeys

\* A handler that goes on holding its app.
LEMMA RequestsKeep ==
  ASSUME Base, NEW h \in Handlers, Holding(h), HoldsApp(h), req'[h].pc # "Remove",
         req[h].op \in OpsAt(req'[h].pc)
  PROVE  Requests' /\ Turns(h)
<1>1. ~At(h, "idle") /\ req[h].o # None
  BY HoldsOne DEF Base, Requests
<1>2. GoesOn(h) /\ req'[h].o # None /\ req'[h].op = req[h].op /\ Turns(h)
  BY <1>1 DEF Holding, GoesOn
<1>3. QED BY <1>1, <1>2, RequestsGoOn DEF Base

LEMMA RoutingRequests ==
  ASSUME Base, NEW h \in Handlers, Routing(h)
  PROVE  Requests' /\ Turns(h)
<1> USE DEF Base
<1>1. CASE Remove(h)
  <2>1. req[h].pc = "Remove" /\ HoldsApp(h) /\ At(h, "Remove")
    BY <1>1 DEF Remove, At, HoldsApp
  <2>2. req[h].op \in OpsAt("Delete")
    BY <2>1, OpsAre DEF Requests
  <2>3. CASE Answer(h)
    BY <2>3, RequestsAnswer
  <2>4. CASE ~Answer(h)
    <3>1. req' = [req EXCEPT ![h].pc = "Delete", ![h].keys = RemovedKeys(h)]
      BY <1>1, <2>4 DEF Remove
    <3>2. Keeping(h) /\ req'[h].pc = "Delete"
      BY <2>1, <3>1, KeysType, TakesKeys
    <3>3. QED BY <2>1, <2>2, <3>2, RequestsKeep DEF Keeping
  <2>5. QED BY <2>3, <2>4
<1>2. CASE Removed(h)
  <2>1. req[h].pc = "Delete" /\ HoldsApp(h) /\ ~At(h, "idle")
    BY <1>2 DEF Removed, At, HoldsApp
  <2>2. req[h].op \in {"update", "stop", "delete", "domains", "remove"}
    BY <2>1, OpsAre DEF Requests
  <2>3. PICK pc : pc = AfterRemoval(h)
    OBVIOUS
  <2>4. \/ pc = "idle"
        \/ pc = "GetAddress" /\ req[h].op = "update"
        \/ pc = "GetInstance" /\ req[h].op = "delete"
        \/ pc = "RemoveNext" /\ req[h].op \in {"domains", "remove"}
    BY <2>2, <2>3 DEF AfterRemoval, Serves
  <2>5. CASE pc = "idle"
    <3>1. Answer(h)
      BY <1>2, <2>3, <2>5 DEF Removed
    <3>2. QED BY <3>1, RequestsAnswer
  <2>6. CASE pc # "idle"
    <3>1. Goto(h, pc)
      BY <1>2, <2>3, <2>6 DEF Removed
    <3>2. pc \in Places /\ req[h].op \in OpsAt(pc) /\ pc # "Remove"
      BY <2>4, <2>6, OpsAre DEF Places
    <3>3. Requests' /\ Keeping(h)
      BY <2>1, <3>1, <3>2, RequestsGoto
    <3>4. QED BY <3>3 DEF Keeping, Holding, GoesOn
  <2>7. QED BY <2>5, <2>6
<1>3. CASE Register(h)
  <2>1. req[h].pc = "Register" /\ HoldsApp(h) /\ ~At(h, "idle")
    BY <1>3 DEF Register, At, HoldsApp
  <2>2. req[h].op \in OpsAt("Set")
    BY <2>1, OpsAre DEF Requests
  <2>3. PICK keys \in SUBSET RouteKeys :
           keys = IF Routable(req[h].o) THEN RoutesFor(Hostname(req[h].o), doms[req[h].p]) ELSE {}
    BY <2>1, KeysType
  <2>4. PICK to \in Backends \cup {None} :
           to = IF Routable(req[h].o) THEN <<addr[req[h].p], obj[req[h].o].port>> ELSE None
    <3>1. CASE Routable(req[h].o)
      <4>1. obj[req[h].o].port \in Ports
        BY <2>1, <3>1, HoldsOne DEF Routable, Apps
      <4>2. addr[req[h].p] \in Addrs \cup {None}
        BY <2>1, Serving DEF TypeOK
      <4>3. QED BY <3>1, <4>1, <4>2 DEF Backends
    <3>2. QED BY <3>1
  <2>5. req' = [req EXCEPT ![h].pc = "Set", ![h].keys = keys, ![h].to = to]
    BY <1>3, <2>3, <2>4 DEF Register
  <2>6. Keeping(h) /\ req'[h].pc = "Set"
    BY <2>5, TakesRoutes
  <2>7. QED BY <2>1, <2>2, <2>6, RequestsKeep DEF Keeping
<1>4. CASE Registered(h)
  <2>1. req[h].pc = "Set" /\ HoldsApp(h) /\ ~At(h, "idle")
    BY <1>4 DEF Registered, At, HoldsApp
  <2>2. CASE Answer(h)
    BY <2>2, RequestsAnswer
  <2>3. CASE ~Answer(h)
    <3>1. Goto(h, "RegisterNext") /\ req[h].op = "domains"
      BY <1>4, <2>3 DEF Registered, Serves
    <3>2. "RegisterNext" \in Places /\ req[h].op \in OpsAt("RegisterNext")
      BY <3>1, OpsAre DEF Places
    <3>3. Requests' /\ Keeping(h)
      BY <2>1, <3>1, <3>2, RequestsGoto
    <3>4. QED BY <3>3 DEF Keeping, Holding, GoesOn
  <2>4. QED BY <2>2, <2>3
<1>5. ASSUME NEW r \in RouteKeys, DeleteRoute(h, r) \/ SetRoute(h, r)
      PROVE  Requests' /\ Turns(h)
  <2>1. /\ req[h].pc \in {"Delete", "Set"} /\ HoldsApp(h)
        /\ req' = [req EXCEPT ![h].keys = @ \ {r}]
    BY <1>5 DEF DeleteRoute, SetRoute, At, HoldsApp
  <2>2. Keeping(h) /\ req'[h].pc = req[h].pc
    BY <2>1, NextKey
  <2>3. req[h].op \in OpsAt(req[h].pc)
    BY DEF Requests
  <2>4. QED BY <2>1, <2>2, <2>3, RequestsKeep DEF Keeping
<1>6. CASE GetAddress(h)
  <2>1. /\ req[h].pc = "GetAddress" /\ ~At(h, "idle") /\ req[h].op \in {"update", "domains"}
        /\ req[h].op = "update" => HoldsApp(h)
    BY <1>6, OpsAre DEF GetAddress, At, HoldsApp, Serves, Requests
  <2>2. CASE Answer(h)
    BY <2>2, RequestsAnswer
  <2>3. CASE ~Answer(h)
    <3>1. PICK pc : pc = IF Serves(h, "domains") THEN "RegisterNext" ELSE "Register"
      OBVIOUS
    <3>2. req' = [req EXCEPT ![h].left = req[h].all, ![h].pc = pc]
      BY <1>6, <2>3, <3>1 DEF GetAddress
    <3>3. pc \in {"RegisterNext", "Register"} /\ req[h].op \in OpsAt(pc)
      BY <2>1, <3>1, OpsAre DEF Serves
    <3>4. Holding(h) /\ req'[h].pc = pc
      BY <3>2, <3>3, TakesAll
    <3>5. CASE Serves(h, "domains")
      <4>1. req'[h].pc = "RegisterNext" /\ ~HoldsApp(h)'
        BY <3>1, <3>4, <3>5 DEF HoldsApp, At
      <4>2. GoesOn(h) /\ req'[h].op = req[h].op /\ Turns(h)
        BY <3>4 DEF Holding, GoesOn
      <4>3. QED BY <2>1, <3>3, <3>4, <4>1, <4>2, RequestsGoOn
    <3>6. CASE ~Serves(h, "domains")
      BY <2>1, <3>3, <3>4, <3>6, RequestsKeep DEF Serves
    <3>7. QED BY <3>5, <3>6
  <2>4. QED BY <2>2, <2>3
<1>7. QED BY <1>1, <1>2, <1>3, <1>4, <1>5, <1>6 DEF Routing

\* The apps of a project are objects.
LEMMA AppsOfType ==
  ASSUME TypeOK, NEW p \in Projects
  PROVE  /\ AppsOf(p) \in SUBSET Objs /\ None \notin AppsOf(p)
         /\ \A a \in AppNames : apps[p][a] # None => apps[p][a] \in AppsOf(p)
         /\ \A o \in AppsOf(p) : \E a \in AppNames : o = apps[p][a] /\ apps[p][a] # None
<1>1. \A a \in AppNames : apps[p][a] \in Objs \cup {None}
  BY DEF TypeOK
<1>2. QED BY <1>1 DEF AppsOf

\* Every step of a request leaves the others alone.
LEMMA ServeRequests ==
  ASSUME Base, NEW h \in Handlers, Acts(h)
  PROVE  Requests' /\ Turns(h)
<1> USE DEF Base
<1>1. CASE Arrives(h)
  <2>1. scope \in ScopeRecords
    BY DEF TypeOK
  <2>2. scope.ops \subseteq AllOps
    BY <2>1 DEF ScopeRecords
  <2>3. QED BY <1>1, <2>2, ArrivalRequests DEF Arrives
<1>2. CASE Defines(h)
  BY <1>2, CreateAppRequests, UpdateAppRequests DEF Defines
<1>3. CASE SetApp(h) \/ GetInstance(h) \/ Obeyed(h) \/ Failed(h)
  <2>1. req[h].pc \in {"SetApp", "GetInstance", "Command"} /\ HoldsApp(h) /\ ~At(h, "idle")
    BY <1>3 DEF SetApp, GetInstance, Obeyed, Failed, At, HoldsApp
  <2>2. req[h].op \in OpsAt(req[h].pc)
    BY DEF Requests
  <2>3. \/ Answer(h)
        \/ Goto(h, "GetInstance") /\ req[h].op = "deploy"
        \/ Goto(h, "Command") /\ req[h].pc = "GetInstance"
        \/ Goto(h, "DeleteApp") /\ req[h].op = "delete"
        \/ Goto(h, "Register") /\ req[h].op = "deploy"
        \/ Goto(h, "Remove") /\ req[h].op = "stop"
    <3>1. CASE SetApp(h)
      BY <3>1 DEF SetApp, Serves
    <3>2. CASE GetInstance(h)
      BY <3>2 DEF GetInstance, Serves, At
    <3>3. CASE Obeyed(h)
      <4>1. req[h].op \in {"deploy", "stop", "delete"}
        BY <2>2, <3>3, OpsAre DEF Obeyed, At
      <4>2. QED BY <3>3, <4>1 DEF Obeyed, Serves
    <3>4. CASE Failed(h)
      BY <3>4 DEF Failed, Serves
    <3>5. QED BY <1>3, <3>1, <3>2, <3>3, <3>4
  <2>4. CASE Answer(h)
    BY <2>4, RequestsAnswer
  <2>5. ASSUME NEW pc \in {"GetInstance", "Command", "DeleteApp", "Register"}, Goto(h, pc),
               \/ pc \in {"GetInstance", "Register"} /\ req[h].op = "deploy"
               \/ pc = "Command" /\ req[h].pc = "GetInstance"
               \/ pc = "DeleteApp" /\ req[h].op = "delete"
        PROVE  Requests' /\ Turns(h)
    <3>1. pc \in Places /\ pc # "Remove"
      BY DEF Places
    <3>2. req[h].op \in OpsAt(pc)
      BY <2>2, <2>5, OpsAre
    <3>3. Requests' /\ Keeping(h)
      BY <2>1, <2>5, <3>1, <3>2, RequestsGoto
    <3>4. QED BY <3>3 DEF Keeping, Holding, GoesOn
  <2>6. CASE Goto(h, "Remove") /\ req[h].op = "stop"
    <3>1. Keeping(h) /\ req'[h].pc = "Remove"
      BY <2>6, Goes DEF Places
    <3>2. GoesOn(h) /\ req'[h].op = "stop" /\ req'[h].o = req[h].o /\ Turns(h)
      BY <2>6, <3>1 DEF Keeping, Holding, GoesOn
    <3>3. req[h].o # None /\ req'[h].op \in OpsAt("Remove")
      BY <2>1, <3>2, OpsAre DEF Requests
    <3>4. QED BY <2>1, <3>1, <3>2, <3>3, RequestsGoOn
  <2>7. QED BY <2>3, <2>4, <2>5, <2>6
<1>4. CASE Reconciles(h)
  <2>1. ASSUME NEW D \in SUBSET scope.domains, UpdateDomains(h, D)
        PROVE  Requests' /\ Turns(h)
    <3>1. req[h].pc = "UpdateDomains" /\ ~At(h, "idle")
      BY <2>1 DEF UpdateDomains, At
    <3>2. CASE Answer(h)
      BY <3>2, RequestsAnswer
    <3>3. CASE ~Answer(h)
      <4>1. PICK old \in SUBSET Domains : old = doms[req[h].p]
        BY <3>1, Serving DEF TypeOK
      <4>2. req' = [req EXCEPT ![h].pc = "GetApps", ![h].old = old]
        BY <2>1, <3>3, <4>1 DEF UpdateDomains
      <4>3. GoesOn(h) /\ req'[h].pc = "GetApps"
        BY <4>2, TakesDomains
      <4>4. req[h].op = "domains"
        BY <3>1, OpsAre DEF Requests
      <4>5. req'[h].op \in OpsAt(req'[h].pc) /\ ~HoldsApp(h)' /\ Turns(h)
        BY <4>3, <4>4, OpsAre DEF GoesOn, HoldsApp, At
      <4>6. QED BY <3>1, <4>3, <4>5, RequestsGoOn
    <3>4. QED BY <3>2, <3>3
  <2>2. CASE GetApps(h)
    <3>1. req[h].pc = "GetApps" /\ ~At(h, "idle") /\ req[h].op \in {"domains", "remove"}
      BY <2>2, OpsAre DEF GetApps, At, Requests
    <3>2. PICK O \in SUBSET Objs : O = AppsOf(req[h].p)
      BY <3>1, Serving, AppsOfType
    <3>3. req' = [req EXCEPT ![h].pc = "RemoveNext", ![h].all = O, ![h].left = O]
      BY <2>2, <3>2 DEF GetApps
    <3>4. Holding(h) /\ req'[h].pc = "RemoveNext"
      BY <3>3, TakesApps
    <3>5. GoesOn(h) /\ req'[h].op \in OpsAt("RemoveNext") /\ ~HoldsApp(h)' /\ Turns(h)
      BY <3>1, <3>4, OpsAre DEF Holding, GoesOn, HoldsApp, At
    <3>6. QED BY <3>1, <3>4, <3>5, RequestsGoOn
  <2>3. ASSUME NEW o \in Objs, NextApp(h, o)
        PROVE  Requests' /\ Turns(h)
    <3>1. req[h].pc \in {"RemoveNext", "RegisterNext"} /\ ~At(h, "idle")
      BY <2>3 DEF NextApp, At
    <3>2. /\ req[h].op = "domains" \/ (req[h].op = "remove" /\ req[h].pc = "RemoveNext")
      BY <3>1, OpsAre DEF Requests
    <3>3. /\ GoesOn(h) /\ req'[h].o = o
          /\ req'[h].pc = IF At(h, "RemoveNext") THEN "Remove" ELSE "Register"
      BY <2>3, TakesNext
    <3>4. req'[h].op = req[h].op /\ Turns(h) /\ o # None
      BY <3>3 DEF GoesOn
    <3>5. req'[h].op \in OpsAt(req'[h].pc) /\ req'[h].op # "update"
      BY <3>2, <3>3, <3>4, OpsAre DEF At
    <3>6. QED BY <3>1, <3>3, <3>4, <3>5, RequestsGoOn
  <2>4. CASE LastApp(h)
    <3>1. req[h].pc \in {"RemoveNext", "RegisterNext"} /\ ~At(h, "idle")
      BY <2>4 DEF LastApp, At
    <3>2. req[h].op \in {"domains", "remove"}
      BY <3>1, OpsAre DEF Requests
    <3>3. CASE Answer(h)
      BY <3>3, RequestsAnswer
    <3>4. CASE ~Answer(h)
      <4>1. PICK pc \in {"GetAddress", "DestroyInstance"} :
               /\ Goto(h, pc)
               /\ \/ pc = "GetAddress" /\ req[h].op = "domains"
                  \/ pc = "DestroyInstance" /\ req[h].op = "remove"
        BY <2>4, <3>1, <3>2, <3>4 DEF LastApp, Serves
      <4>2. pc \in Places /\ pc # "Remove"
        BY <4>1 DEF Places
      <4>3. req[h].op \in OpsAt(pc)
        BY <4>1, OpsAre
      <4>4. Requests' /\ Keeping(h)
        BY <3>1, <4>1, <4>2, <4>3, RequestsGoto
      <4>5. QED BY <4>4 DEF Keeping, Holding, GoesOn
    <3>5. QED BY <3>3, <3>4
  <2>5. QED BY <1>4, <2>1, <2>2, <2>3, <2>4 DEF Reconciles
<1>5. CASE Deletes(h)
  <2>1. CASE Answer(h)
    BY <2>1, RequestsAnswer
  <2>2. CASE ~Answer(h)
    <3>1. req[h].pc = "DestroyInstance" /\ ~At(h, "idle") /\ Goto(h, "DeleteProject")
      BY <1>5, <2>2 DEF Deletes, DeleteApp, DestroyInstance, DeleteProject, At
    <3>2. "DeleteProject" \in Places /\ req[h].op \in OpsAt("DeleteProject")
      BY <3>1, OpsAre DEF Requests, Places
    <3>3. Requests' /\ Keeping(h)
      BY <3>1, <3>2, RequestsGoto
    <3>4. QED BY <3>3 DEF Keeping, Holding, GoesOn
  <2>3. QED BY <2>1, <2>2
<1>6. QED BY <1>1, <1>2, <1>3, <1>4, <1>5, GetAppRequests, RoutingRequests DEF Acts
-----------------------------------------------------------------------------
(* Types, and what is reached.                                               *)

\* Apps that are lost keep all but their phase, and so does one whose command
\* the VM obeys.
Rephased == /\ obj' \in [Objs -> Apps \cup {Free}]
            /\ \A o \in Objs : obj[o] # Free =>
                  /\ obj'[o] # Free /\ obj'[o].name = obj[o].name /\ obj'[o].host = obj[o].host
                  /\ obj'[o].avail = obj[o].avail /\ obj'[o].port = obj[o].port

LEMMA AppsAreNotFree == \A x \in Apps : x # Free
BY DEF Apps, Free

LEMMA PhaseOf ==
  ASSUME NEW x \in Apps, NEW ph \in {"new", "deployed", "changed", "stopped"}
  PROVE  LET y == [x EXCEPT !.phase = ph] IN
         /\ y \in Apps /\ y.name = x.name /\ y.host = x.host /\ y.avail = x.avail
         /\ y.port = x.port
BY DEF Apps

LEMMA LostRephases ==
  ASSUME TypeOK, NEW O, Lost(O)
  PROVE  Rephased
<1>1. ASSUME NEW o \in Objs
      PROVE  /\ obj'[o] \in Apps \cup {Free}
             /\ obj[o] # Free =>
                  /\ obj'[o] # Free /\ obj'[o].name = obj[o].name /\ obj'[o].host = obj[o].host
                  /\ obj'[o].avail = obj[o].avail /\ obj'[o].port = obj[o].port
  <2>1. obj[o] \in Apps \cup {Free}
    BY DEF TypeOK
  <2>2. obj'[o] = IF o \in O /\ obj[o].phase # "new"
                  THEN [obj[o] EXCEPT !.phase = "stopped"] ELSE obj[o]
    BY DEF Lost
  <2>3. CASE obj[o] \in Apps
    BY <2>2, <2>3, PhaseOf, AppsAreNotFree
  <2>4. CASE obj[o] = Free
    <3>1. [Free EXCEPT !.phase = "stopped"] = Free
      BY DEF Free
    <3>2. QED BY <2>2, <2>4, <3>1
  <2>5. QED BY <2>1, <2>3, <2>4
<1>2. obj' = [o \in Objs |-> obj'[o]]
  BY DEF Lost
<1>3. QED BY <1>1, <1>2 DEF Rephased

LEMMA BecomesRephases ==
  ASSUME Base, NEW h \in Handlers, HoldsApp(h),
         NEW ph \in {"new", "deployed", "changed", "stopped"}, Becomes(h, ph)
  PROVE  Rephased
<1> DEFINE x == obj[req[h].o]
           y == [x EXCEPT !.phase = ph]
<1>1. req[h].o \in Objs /\ x \in Apps
  BY HoldsOne
<1>2. y \in Apps /\ y.name = x.name /\ y.host = x.host /\ y.avail = x.avail /\ y.port = x.port
  BY <1>1, PhaseOf
<1>3. obj' = [obj EXCEPT ![req[h].o] = y]
  BY DEF Becomes
<1> HIDE DEF y
<1>4. obj \in [Objs -> Apps \cup {Free}]
  BY DEF Base, TypeOK
<1>5. obj' \in [Objs -> Apps \cup {Free}]
  BY <1>1, <1>2, <1>3, <1>4
<1>6. obj'[req[h].o] = y /\ \A o \in Objs \ {req[h].o} : obj'[o] = obj[o]
  BY <1>1, <1>3, <1>4
<1>7. QED BY <1>2, <1>5, <1>6, AppsAreNotFree DEF Rephased

\* An app that is made or updated is one.
LEMMA CreateAppTypes ==
  ASSUME Base, NEW h \in Handlers, NEW o \in Objs, NEW host \in Hostnames \cup {None},
         NEW avail \in BOOLEAN, NEW port \in Ports \cup {None},
         CreateApp(h, o, host, avail, port)
  PROVE  /\ obj' \in [Objs -> Apps \cup {Free}] /\ \A x \in Objs : obj[x] # Free => obj'[x] # Free
         /\ \A x \in Objs \ {o} : obj'[x] = obj[x]
         /\ obj'[o] = obj[o] \/ obj'[o] \in Apps
         /\ UNCHANGED <<live, inst, doms, addr, apps, routes>>
<1> DEFINE y == [name |-> req[h].a, host |-> host, avail |-> avail, port |-> port, phase |-> "new"]
<1>1. ~At(h, "idle")
  BY DEF CreateApp, At
<1>2. y \in Apps
  BY <1>1, Serving DEF Apps, Base
<1>3. obj \in [Objs -> Apps \cup {Free}]
  BY DEF Base, TypeOK
<1>4. obj' = obj \/ obj' = [obj EXCEPT ![o] = y]
  BY DEF CreateApp
<1> HIDE DEF y
<1>5. obj' = obj \/ (/\ obj' \in [Objs -> Apps \cup {Free}] /\ obj'[o] = y
                     /\ \A x \in Objs \ {o} : obj'[x] = obj[x])
  BY <1>2, <1>3, <1>4
<1>6. UNCHANGED <<live, inst, doms, addr, apps, routes>>
  BY DEF CreateApp
<1>7. QED BY <1>2, <1>3, <1>5, <1>6, AppsAreNotFree

LEMMA UpdateAppTypes ==
  ASSUME Base, NEW h \in Handlers, NEW host \in Hostnames \cup {None},
         NEW avail \in BOOLEAN, NEW port \in Ports \cup {None},
         UpdateApp(h, host, avail, port)
  PROVE  /\ obj' \in [Objs -> Apps \cup {Free}] /\ \A x \in Objs : obj[x] # Free => obj'[x] # Free
         /\ \A x \in Objs \ {req[h].o} : obj'[x] = obj[x]
         /\ obj'[req[h].o].host = host /\ obj'[req[h].o].avail = avail
         /\ obj'[req[h].o].name = obj[req[h].o].name
<1> DEFINE o == req[h].o
           x == obj[o]
           ph == IF port # x.port /\ x.phase = "deployed" THEN "changed" ELSE x.phase
           y == [[[[x EXCEPT !.host = host] EXCEPT !.avail = avail] EXCEPT !.port = port]
                 EXCEPT !.phase = ph]
<1>1. HoldsApp(h)
  BY DEF UpdateApp, At, HoldsApp
<1>2. o \in Objs /\ x \in Apps /\ obj \in [Objs -> Apps \cup {Free}]
  BY <1>1, HoldsOne DEF Base, TypeOK
<1>3. x.phase \in {"new", "deployed", "changed", "stopped"}
  BY <1>2 DEF Apps
<1>4. ph \in {"new", "deployed", "changed", "stopped"}
  BY <1>3
<1>5. obj' = [obj EXCEPT ![o] = y]
  BY <1>2 DEF UpdateApp, Apps
<1>6. y \in Apps /\ y.host = host /\ y.avail = avail /\ y.name = x.name
  <2> HIDE DEF ph
  <2>1. QED BY <1>2, <1>4 DEF Apps
<1> HIDE DEF y
<1>7. /\ obj' \in [Objs -> Apps \cup {Free}] /\ obj'[o] = y
      /\ \A z \in Objs \ {o} : obj'[z] = obj[z]
  BY <1>2, <1>5, <1>6
<1>8. QED BY <1>6, <1>7, AppsAreNotFree

\* No step of a handler makes an app that is used free.
LEMMA ServeObjects ==
  ASSUME Base, NEW h \in Handlers, Acts(h)
  PROVE  obj' \in [Objs -> Apps \cup {Free}] /\ \A x \in Objs : obj[x] # Free => obj'[x] # Free
<1>1. obj \in [Objs -> Apps \cup {Free}]
  BY DEF Base, TypeOK
<1>2. CASE Defines(h)
  BY <1>2, CreateAppTypes, UpdateAppTypes DEF Defines
<1>3. CASE Obeyed(h)
  <2>1. HoldsApp(h)
    BY <1>3 DEF Obeyed, At, HoldsApp
  <2>2. req[h].op \in {"deploy", "stop", "delete"}
    BY <1>3, OpsAre DEF Obeyed, At, Base, Requests
  <2>3. Becomes(h, "deployed") \/ Becomes(h, "stopped") \/ Becomes(h, "new")
    BY <1>3, <2>2 DEF Obeyed, Serves
  <2>4. Rephased
    BY <2>1, <2>3, BecomesRephases
  <2>5. QED BY <2>4 DEF Rephased
<1>4. CASE DestroyInstance(h)
  <2>1. Rephased
    BY <1>4, LostRephases DEF DestroyInstance, Base
  <2>2. QED BY <2>1 DEF Rephased
<1>5. CASE obj' = obj
  BY <1>1, <1>5
<1>6. \/ Defines(h) \/ Obeyed(h) \/ DestroyInstance(h) \/ obj' = obj
  BY DEF Acts, Arrives, Receive, GetApp, SetApp, GetInstance, Failed, Routing, Remove, Removed,
     Register, Registered, DeleteRoute, SetRoute, GetAddress, Reconciles, UpdateDomains, GetApps,
     NextApp, LastApp, Deletes, DeleteApp, DeleteProject
<1>7. QED BY <1>2, <1>3, <1>4, <1>5, <1>6

\* The other tables.
LEMMA ServeTables ==
  ASSUME Base, NEW h \in Handlers, Acts(h)
  PROVE  /\ UNCHANGED addr /\ live' \subseteq live /\ inst' \subseteq inst
         /\ doms' \in [Projects -> SUBSET Domains]
         /\ apps' \in [Projects -> [AppNames -> Objs \cup {None}]]
         /\ routes' \in [RouteKeys -> Backends \cup {None}]
<1> USE DEF Base
<1>1. /\ doms \in [Projects -> SUBSET Domains]
      /\ apps \in [Projects -> [AppNames -> Objs \cup {None}]]
      /\ routes \in [RouteKeys -> Backends \cup {None}]
  BY DEF TypeOK
<1>2. CASE UNCHANGED <<live, inst, doms, addr, apps, routes>>
  BY <1>1, <1>2
<1>3. CASE SetApp(h) \/ DeleteApp(h) \/ (\E host, avail, port : UpdateApp(h, host, avail, port))
  <2>1. ~At(h, "idle")
    BY <1>3 DEF SetApp, DeleteApp, UpdateApp, At
  <2>2. PICK p \in Projects, a \in AppNames, o \in Objs \cup {None} :
           apps' = [apps EXCEPT ![p][a] = o]
    <3>1. \/ apps' = [apps EXCEPT ![req[h].p][req[h].a] = req[h].o]
          \/ apps' = [apps EXCEPT ![req[h].p][req[h].a] = None]
      <4>1. CASE SetApp(h)
        BY <4>1 DEF SetApp
      <4>2. CASE DeleteApp(h)
        BY <4>2 DEF DeleteApp
      <4>3. CASE \E host, avail, port : UpdateApp(h, host, avail, port)
        BY <4>3 DEF UpdateApp
      <4>4. QED BY <1>3, <4>1, <4>2, <4>3
    <3>2. req[h].p \in Projects /\ req[h].a \in AppNames /\ req[h].o \in Objs \cup {None}
      BY <2>1, Serving
    <3>3. QED BY <3>1, <3>2
  <2>3. apps' \in [Projects -> [AppNames -> Objs \cup {None}]]
    BY <1>1, <2>2
  <2>4. UNCHANGED <<live, inst, doms, addr, routes>>
    BY <1>3 DEF SetApp, DeleteApp, UpdateApp
  <2>5. QED BY <1>1, <2>3, <2>4
<1>4. CASE \E D \in SUBSET scope.domains : UpdateDomains(h, D)
  <2>1. PICK D \in SUBSET scope.domains : UpdateDomains(h, D)
    BY <1>4
  <2>2. scope \in ScopeRecords
    BY DEF TypeOK
  <2>3. D \in SUBSET Domains
    BY <2>2 DEF ScopeRecords
  <2>4. QED BY <1>1, <2>1, <2>3 DEF UpdateDomains
<1>5. CASE \E r \in RouteKeys : DeleteRoute(h, r) \/ SetRoute(h, r)
  <2>1. PICK r \in RouteKeys, to \in Backends \cup {None} : routes' = [routes EXCEPT ![r] = to]
    <3>1. PICK r \in RouteKeys : DeleteRoute(h, r) \/ SetRoute(h, r)
      BY <1>5
    <3>2. ~At(h, "idle")
      BY <3>1 DEF DeleteRoute, SetRoute, At
    <3>3. req[h].to \in Backends \cup {None} /\ None \in Backends \cup {None}
      BY <3>2, Serving
    <3>4. QED BY <3>1, <3>3 DEF DeleteRoute, SetRoute
  <2>2. routes' \in [RouteKeys -> Backends \cup {None}]
    BY <1>1, <2>1
  <2>3. QED BY <1>1, <1>5, <2>2 DEF DeleteRoute, SetRoute
<1>6. CASE DestroyInstance(h)
  BY <1>1, <1>6 DEF DestroyInstance
<1>7. CASE DeleteProject(h)
  <2>1. req[h].p \in Projects
    BY <1>7, Serving DEF DeleteProject, At
  <2>2. [a \in AppNames |-> None] \in [AppNames -> Objs \cup {None}]
    OBVIOUS
  <2>3. PICK none \in [AppNames -> Objs \cup {None}] : apps' = [apps EXCEPT ![req[h].p] = none]
    BY <1>7, <2>2 DEF DeleteProject
  <2>4. apps' \in [Projects -> [AppNames -> Objs \cup {None}]]
    BY <1>1, <2>1, <2>3
  <2>5. QED BY <1>1, <1>7, <2>4 DEF DeleteProject
<1>8. \/ UNCHANGED <<live, inst, doms, addr, apps, routes>>
      \/ SetApp(h) \/ DeleteApp(h) \/ (\E host, avail, port : UpdateApp(h, host, avail, port))
      \/ (\E D \in SUBSET scope.domains : UpdateDomains(h, D))
      \/ (\E r \in RouteKeys : DeleteRoute(h, r) \/ SetRoute(h, r))
      \/ DestroyInstance(h) \/ DeleteProject(h)
  BY DEF Acts, Arrives, Receive, GetApp, Defines, CreateApp, GetInstance, Obeyed, Failed, Routing,
     Remove, Removed, Register, Registered, GetAddress, Reconciles, GetApps,
     NextApp, LastApp, Deletes
<1>9. QED BY <1>2, <1>3, <1>4, <1>5, <1>6, <1>7, <1>8

LEMMA ServeTypes ==
  ASSUME Base, NEW h \in Handlers, Acts(h), UNCHANGED scope
  PROVE  TypeOK'
<1>1. req' \in [Handlers -> Request]
  BY ServeRequests DEF Turns
<1>2. QED BY <1>1, ServeObjects, ServeTables DEF Base, TypeOK

\* What a handler holds.
HeldBy(h) == (req[h].all \cup req[h].left \cup {req[h].o}) \ {None}

\* A handler comes to hold only what the table of its project holds, or what it
\* has made.
LEMMA ServeHolds ==
  ASSUME Base, NEW h \in Handlers, Acts(h), NEW o \in HeldBy(h)'
  PROVE  o \in HeldBy(h) \/ (req[h].p \in Projects /\ o \in AppsOf(req[h].p)) \/ obj'[o] # Free
<1> USE DEF Base
<1>0. HeldBy(h)' = (req'[h].all \cup req'[h].left \cup {req'[h].o}) \ {None}
  BY DEF HeldBy
<1>1. CASE req'[h] = IdleReq
  BY <1>0, <1>1 DEF IdleReq
<1>2. CASE Keeping(h)
  BY <1>0, <1>2 DEF Keeping, Holding, HeldBy
<1>3. CASE Arrives(h)
  <2>1. scope \in ScopeRecords
    BY DEF TypeOK
  <2>2. scope.ops \subseteq AllOps
    BY <2>1 DEF ScopeRecords
  <2>3. PICK op \in AllOps, p \in Projects, a \in AppNames : Receive(h, op, p, a)
    BY <1>3, <2>2 DEF Arrives
  <2>4. req'[h].o = None /\ req'[h].all = {} /\ req'[h].left = {}
    BY <2>3, Received
  <2>5. QED BY <1>0, <2>4
<1>4. CASE GetApp(h)
  <2>1. req[h].pc = "GetApp" /\ ~At(h, "idle") /\ req[h].op # "create"
    BY <1>4 DEF GetApp, At, Serves
  <2>2. App(h) \in Objs \cup {None} /\ req[h].op \in {"deploy", "update", "stop", "delete"}
        /\ req[h].p \in Projects /\ req[h].a \in AppNames
    BY <2>1, Serving, OpsAre
  <2>3. CASE Answer(h)
    BY <1>1, <2>3, Answers
  <2>4. CASE ~Answer(h)
    <3>1. App(h) \in Objs /\ App(h) \in AppsOf(req[h].p)
      BY <1>4, <2>2, <2>4, AppsOfType DEF GetApp, App
    <3>2. PICK pc : /\ req' = [req EXCEPT ![h].pc = pc, ![h].o = App(h)]
                    /\ pc \in {"SetApp", "GetInstance", "Update", "Remove"}
      BY <1>4, <2>2, <2>4 DEF GetApp, Serves
    <3>3. pc \in Places /\ Taken(h, pc, App(h))
      BY <3>2 DEF Places, Taken
    <3>4. req'[h].o = App(h) /\ req'[h].all = req[h].all /\ req'[h].left = req[h].left
      BY <3>1, <3>3, Takes
    <3>5. QED BY <1>0, <2>2, <3>1, <3>4 DEF HeldBy
  <2>5. QED BY <2>3, <2>4
<1>5. CASE Defines(h)
  <2>1. ASSUME NEW host \in Hostnames \cup {None}, NEW avail \in BOOLEAN,
               NEW port \in Ports \cup {None}, NEW x \in Objs, CreateApp(h, x, host, avail, port),
               ~Answer(h)
        PROVE  o \in HeldBy(h) \/ obj'[o] # Free
    <3>1. req' = [req EXCEPT ![h].pc = "SetApp", ![h].o = x] /\ ~At(h, "idle")
          /\ obj' = [obj EXCEPT ![x] = [name |-> req[h].a, host |-> host, avail |-> avail,
                                        port |-> port, phase |-> "new"]]
      BY <2>1 DEF CreateApp, At
    <3>2. req'[h].o = x /\ req'[h].all = req[h].all /\ req'[h].left = req[h].left
      BY <3>1, Takes DEF Places, Taken
    <3>3. obj'[x] = [name |-> req[h].a, host |-> host, avail |-> avail,
                     port |-> port, phase |-> "new"]
      BY <3>1 DEF TypeOK
    <3>4. obj'[x] # Free
      BY <3>3 DEF Free
    <3>5. QED BY <1>0, <3>2, <3>4 DEF HeldBy
  <2>2. ASSUME NEW host, NEW avail, NEW port, UpdateApp(h, host, avail, port), ~Answer(h)
        PROVE  o \in HeldBy(h)
    <3>1. HoldsApp(h)
      BY <2>2 DEF UpdateApp, At, HoldsApp
    <3>2. Hostname(req[h].o) \in Hostnames
      BY <3>1, HoldsOne
    <3>3. req' = [req EXCEPT ![h].pc = "Remove", ![h].host = Hostname(req[h].o)]
      BY <2>2 DEF UpdateApp
    <3>4. req'[h].o = req[h].o /\ req'[h].all = req[h].all /\ req'[h].left = req[h].left
      BY <3>2, <3>3, TakesHost
    <3>5. QED BY <1>0, <3>4 DEF HeldBy
  <2>3. CASE Answer(h)
    BY <1>1, <2>3, Answers
  <2>4. QED BY <1>5, <2>1, <2>2, <2>3 DEF Defines
<1>6. CASE Remove(h)
  <2>1. At(h, "Remove") /\ HoldsApp(h)
    BY <1>6 DEF Remove, At, HoldsApp
  <2>2. CASE Answer(h)
    BY <1>1, <2>2, Answers
  <2>3. CASE ~Answer(h)
    <3>1. req' = [req EXCEPT ![h].pc = "Delete", ![h].keys = RemovedKeys(h)]
      BY <1>6, <2>3 DEF Remove
    <3>2. QED BY <1>2, <2>1, <3>1, KeysType, TakesKeys
  <2>4. QED BY <2>2, <2>3
<1>7. CASE Register(h)
  <2>1. HoldsApp(h) /\ ~At(h, "idle")
    BY <1>7 DEF Register, At, HoldsApp
  <2>2. PICK keys \in SUBSET RouteKeys :
           keys = IF Routable(req[h].o) THEN RoutesFor(Hostname(req[h].o), doms[req[h].p]) ELSE {}
    BY <2>1, KeysType
  <2>3. PICK to \in Backends \cup {None} :
           to = IF Routable(req[h].o) THEN <<addr[req[h].p], obj[req[h].o].port>> ELSE None
    <3>1. CASE Routable(req[h].o)
      <4>1. obj[req[h].o].port \in Ports
        BY <2>1, <3>1, HoldsOne DEF Routable, Apps
      <4>2. addr[req[h].p] \in Addrs \cup {None}
        BY <2>1, Serving DEF TypeOK
      <4>3. QED BY <3>1, <4>1, <4>2 DEF Backends
    <3>2. QED BY <3>1
  <2>4. req' = [req EXCEPT ![h].pc = "Set", ![h].keys = keys, ![h].to = to]
    BY <1>7, <2>2, <2>3 DEF Register
  <2>5. QED BY <1>2, <2>4, TakesRoutes
<1>8. CASE \E r \in RouteKeys : DeleteRoute(h, r) \/ SetRoute(h, r)
  BY <1>2, <1>8, NextKey DEF DeleteRoute, SetRoute
<1>9. CASE GetAddress(h)
  <2>1. PICK pc \in {"RegisterNext", "Register"} :
           Answer(h) \/ req' = [req EXCEPT ![h].left = req[h].all, ![h].pc = pc]
    <3>1. PICK pc : pc = IF Serves(h, "domains") THEN "RegisterNext" ELSE "Register"
      OBVIOUS
    <3>2. Answer(h) \/ req' = [req EXCEPT ![h].left = req[h].all, ![h].pc = pc]
      BY <1>9, <3>1 DEF GetAddress
    <3>3. QED BY <3>1, <3>2
  <2>2. Answer(h) \/ (Holding(h) /\ req'[h].all = req[h].all /\ req'[h].left = req[h].all)
    BY <2>1, TakesAll
  <2>3. CASE Answer(h)
    BY <1>1, <2>3, Answers
  <2>4. QED BY <1>0, <2>2, <2>3 DEF HeldBy, Holding
<1>10. CASE \E D \in SUBSET scope.domains : UpdateDomains(h, D)
  <2>1. ~At(h, "idle")
    BY <1>10 DEF UpdateDomains, At
  <2>2. PICK old \in SUBSET Domains : old = doms[req[h].p]
    BY <2>1, Serving DEF TypeOK
  <2>3. Answer(h) \/ req' = [req EXCEPT ![h].pc = "GetApps", ![h].old = old]
    BY <1>10, <2>2 DEF UpdateDomains
  <2>4. Answer(h) \/ (/\ req'[h].o = req[h].o /\ req'[h].all = req[h].all
                      /\ req'[h].left = req[h].left)
    BY <2>3, TakesDomains
  <2>5. CASE Answer(h)
    BY <1>1, <2>5, Answers
  <2>6. QED BY <1>0, <2>4, <2>5 DEF HeldBy
<1>11. CASE GetApps(h)
  <2>1. ~At(h, "idle")
    BY <1>11 DEF GetApps, At
  <2>2. PICK O \in SUBSET Objs : O = AppsOf(req[h].p)
    BY <2>1, Serving, AppsOfType
  <2>3. req' = [req EXCEPT ![h].pc = "RemoveNext", ![h].all = O, ![h].left = O]
    BY <1>11, <2>2 DEF GetApps
  <2>4. req'[h].o = req[h].o /\ req'[h].all = O /\ req'[h].left = O
    BY <2>3, TakesApps DEF Holding
  <2>5. QED BY <1>0, <2>1, <2>2, <2>4, Serving DEF HeldBy
<1>12. CASE \E x \in Objs : NextApp(h, x)
  <2>1. PICK x \in Objs : NextApp(h, x)
    BY <1>12
  <2>2. req'[h].o = x /\ req'[h].all = req[h].all /\ req'[h].left = req[h].left \ {x}
    BY <2>1, TakesNext
  <2>3. x \in req[h].left
    BY <2>1 DEF NextApp
  <2>4. QED BY <1>0, <2>2, <2>3 DEF HeldBy
<1>13. ASSUME NEW pc \in Places, Goto(h, pc)
       PROVE  o \in HeldBy(h)
  <2>1. Keeping(h)
    BY <1>13, Goes
  <2>2. QED BY <1>0, <2>1 DEF Keeping, Holding, HeldBy
<1>14. CASE Answer(h)
  BY <1>1, <1>14, Answers
<1>15. \/ Arrives(h) \/ GetApp(h) \/ Defines(h) \/ Remove(h) \/ Register(h)
       \/ (\E r \in RouteKeys : DeleteRoute(h, r) \/ SetRoute(h, r)) \/ GetAddress(h)
       \/ (\E D \in SUBSET scope.domains : UpdateDomains(h, D)) \/ GetApps(h)
       \/ (\E x \in Objs : NextApp(h, x)) \/ Answer(h) \/ \E pc \in Places : Goto(h, pc)
  <2>1. CASE Removed(h)
    <3>1. req[h].op \in {"update", "stop", "delete", "domains", "remove"}
      BY <2>1, OpsAre DEF Removed, Requests, At
    <3>2. AfterRemoval(h) \in {"idle", "GetAddress", "GetInstance", "RemoveNext"}
      BY <3>1 DEF AfterRemoval, Serves
    <3>3. PICK pc \in {"idle", "GetAddress", "GetInstance", "RemoveNext"} : pc = AfterRemoval(h)
      BY <3>2
    <3>4. IF pc = "idle" THEN Answer(h) ELSE Goto(h, pc)
      BY <2>1, <3>3 DEF Removed
    <3>5. QED BY <3>4 DEF Places
  <2>2. CASE SetApp(h) \/ GetInstance(h) \/ Failed(h) \/ Registered(h) \/ Deletes(h)
    <3>1. \/ Answer(h) \/ Goto(h, "GetInstance") \/ Goto(h, "Command") \/ Goto(h, "DeleteApp")
          \/ Goto(h, "RegisterNext") \/ Goto(h, "DeleteProject")
      <4>1. CASE SetApp(h)
        BY <4>1 DEF SetApp
      <4>2. CASE GetInstance(h)
        BY <4>2 DEF GetInstance
      <4>3. CASE Failed(h)
        BY <4>3 DEF Failed
      <4>4. CASE Registered(h)
        BY <4>4 DEF Registered
      <4>5. CASE Deletes(h)
        BY <4>5 DEF Deletes, DeleteApp, DestroyInstance, DeleteProject
      <4>6. QED BY <2>2, <4>1, <4>2, <4>3, <4>4, <4>5
    <3>2. QED BY <3>1 DEF Places
  <2>3. CASE Obeyed(h)
    <3>1. req[h].op \in {"deploy", "stop", "delete"}
      BY <2>3, OpsAre DEF Obeyed, At, Requests
    <3>2. Goto(h, "Register") \/ Goto(h, "Remove") \/ Goto(h, "DeleteApp")
      BY <2>3, <3>1 DEF Obeyed, Serves
    <3>3. QED BY <3>2 DEF Places
  <2>4. CASE LastApp(h)
    <3>1. req[h].op \in {"domains", "remove"}
      BY <2>4, OpsAre DEF LastApp, At, Requests
    <3>2. Answer(h) \/ Goto(h, "GetAddress") \/ Goto(h, "DestroyInstance")
      BY <2>4, <3>1 DEF LastApp, At, Serves
    <3>3. QED BY <3>2 DEF Places
  <2>5. QED BY <2>1, <2>2, <2>3, <2>4 DEF Acts, Routing, Reconciles
<1>16. QED BY <1>3, <1>4, <1>5, <1>6, <1>7, <1>8, <1>9, <1>10, <1>11, <1>12, <1>13, <1>14, <1>15

\* What is used stays used, and no step names what is not.
LEMMA ServeReached ==
  ASSUME Base, NEW h \in Handlers, Acts(h)
  PROVE  Reached'
<1> USE DEF Base
<1>1. \A x \in Objs : obj[x] # Free => obj'[x] # Free
  BY ServeObjects
<1>2. Turns(h)
  BY ServeRequests
<1>3. req \in [Handlers -> Request]
  BY DEF TypeOK
<1>4. \A g \in Handlers : \A o \in HeldBy(g) : o \in Objs /\ obj[o] # Free
  BY <1>3 DEF HeldBy, Request, Reached, Used
<1>5. \A p \in Projects : \A o \in AppsOf(p) : o \in Objs /\ obj[o] # Free
  BY AppsOfType DEF Reached, Used
<1>6. ASSUME NEW g \in Handlers, NEW o \in HeldBy(g)'
      PROVE  obj'[o] # Free
  <2>1. CASE g = h
    BY <1>1, <1>4, <1>5, <1>6, <2>1, ServeHolds
  <2>2. CASE g # h
    <3>1. o \in HeldBy(g)
      BY <1>2, <1>6, <2>2 DEF Turns, HeldBy
    <3>2. QED BY <1>1, <1>4, <3>1
  <2>3. QED BY <2>1, <2>2
<1>7. ASSUME NEW p \in Projects, NEW o \in AppsOf(p)'
      PROVE  obj'[o] # Free
  <2>1. PICK a \in AppNames : o = apps'[p][a] /\ o # None
    BY <1>7 DEF AppsOf
  <2>2. CASE apps'[p][a] = apps[p][a]
    BY <1>1, <1>5, <2>1, <2>2, AppsOfType
  <2>3. CASE apps'[p][a] # apps[p][a]
    <3>1. apps \in [Projects -> [AppNames -> Objs \cup {None}]]
      BY DEF TypeOK
    <3>2. \/ SetApp(h) \/ DeleteApp(h) \/ (\E host, avail, port : UpdateApp(h, host, avail, port))
          \/ DeleteProject(h)
      BY <2>3 DEF Acts, Arrives, Receive, GetApp, Defines, CreateApp, GetInstance, Obeyed, Failed,
         Routing, Remove, Removed, Register, Registered, DeleteRoute, SetRoute, GetAddress,
         Reconciles, UpdateDomains, GetApps, NextApp, LastApp, Deletes, DestroyInstance
    <3>3. \/ apps' = [apps EXCEPT ![req[h].p][req[h].a] = req[h].o]
          \/ apps' = [apps EXCEPT ![req[h].p][req[h].a] = None]
          \/ apps' = [apps EXCEPT ![req[h].p] = [x \in AppNames |-> None]]
      <4>1. CASE SetApp(h)
        BY <4>1 DEF SetApp
      <4>2. CASE DeleteApp(h)
        BY <4>2 DEF DeleteApp
      <4>3. CASE \E host, avail, port : UpdateApp(h, host, avail, port)
        BY <4>3 DEF UpdateApp
      <4>4. CASE DeleteProject(h)
        BY <4>4 DEF DeleteProject
      <4>5. QED BY <3>2, <4>1, <4>2, <4>3, <4>4
    <3>4. o = req[h].o
      BY <2>1, <2>3, <3>1, <3>3
    <3>5. o \in HeldBy(h)
      BY <2>1, <3>4 DEF HeldBy
    <3>6. QED BY <1>1, <1>4, <3>5
  <2>4. QED BY <2>2, <2>3
<1>8. QED BY <1>6, <1>7 DEF Reached, Used, HeldBy

\* The rest of the world: a VM boots, or the server restarts.
LEMMA WorldKeepsBase ==
  ASSUME Base, UNCHANGED scope,
         \/ \E p \in Projects, ip \in Addrs : VMReady(p, ip)
         \/ ServerRestarts
  PROVE  Base'
<1> USE DEF Base
<1>1. CASE \E p \in Projects, ip \in Addrs : VMReady(p, ip)
  <2>1. PICK p \in Projects, ip \in Addrs : VMReady(p, ip)
    BY <1>1
  <2>2. PICK gone \in SUBSET AppsOf(p) : Lost(gone)
    BY <2>1 DEF VMReady
  <2>3. Rephased
    BY <2>2, LostRephases
  <2>4. addr' = [addr EXCEPT ![p] = ip] /\ UNCHANGED <<live, inst, doms, apps, routes, req>>
    BY <2>1 DEF VMReady
  <2>5. addr' \in [Projects -> Addrs \cup {None}]
    BY <2>4 DEF TypeOK
  <2>6. TypeOK'
    BY <2>3, <2>4, <2>5 DEF TypeOK, Rephased
  <2>7. Requests'
    BY <2>4 DEF Requests, HoldsApp, At, Serves
  <2>8. \A o \in Objs : obj[o] # Free => obj'[o] # Free
    BY <2>3 DEF Rephased
  <2>9. \A q \in Projects : AppsOf(q)' = AppsOf(q)
    BY <2>4 DEF AppsOf
  <2>10. ASSUME NEW g \in Handlers,
                NEW o \in (req[g].all \cup req[g].left \cup {req[g].o}) \ {None}
         PROVE  obj'[o] # Free
    <3>1. req[g] \in Request
      BY DEF TypeOK
    <3>2. o \in Objs
      BY <3>1 DEF Request
    <3>3. QED BY <2>8, <2>10, <3>2 DEF Reached, Used
  <2>11. ASSUME NEW q \in Projects, NEW o \in AppsOf(q)
         PROVE  obj'[o] # Free
    BY <2>8, AppsOfType DEF Reached, Used
  <2>12. Reached'
    BY <2>4, <2>9, <2>10, <2>11 DEF Reached, Used
  <2>13. QED BY <2>6, <2>7, <2>12
<1>2. CASE ServerRestarts
  <2>1. UNCHANGED <<live, inst, doms, addr, apps, obj, req>>
        /\ routes' \in [RouteKeys -> Backends \cup {None}]
    BY <1>2 DEF ServerRestarts
  <2>2. TypeOK'
    BY <2>1 DEF TypeOK
  <2>3. Requests'
    BY <2>1 DEF Requests, HoldsApp, At, Serves
  <2>4. Reached'
    BY <2>1 DEF Reached, Used, AppsOf
  <2>5. QED BY <2>2, <2>3, <2>4
<1>3. QED BY <1>1, <1>2

LEMMA InitBase == Init => Base
<1> SUFFICES ASSUME Init PROVE Base
  OBVIOUS
<1>1. /\ scope \in ScopeRecords /\ live = scope.projects /\ inst = scope.projects
      /\ doms \in [Projects -> SUBSET scope.domains] /\ addr \in [Projects -> Addrs \cup {None}]
      /\ routes = [r \in RouteKeys |-> None] /\ req = [h \in Handlers |-> IdleReq]
  BY DEF Init
<1>2. /\ live \subseteq Projects /\ inst \subseteq Projects /\ scope.defined \subseteq AppNames
      /\ scope.domains \subseteq Domains
  BY <1>1 DEF ScopeRecords
<1>3. PICK own \in [live \X scope.defined -> Objs], port \in Ports :
        /\ \A x, y \in DOMAIN own : own[x] = own[y] => x = y
        /\ apps = [p \in Projects |-> [a \in AppNames |->
                     IF p \in live /\ a \in scope.defined THEN own[<<p, a>>] ELSE None]]
        /\ obj = [o \in Objs |->
                    IF \E x \in DOMAIN own : own[x] = o
                    THEN Default((CHOOSE x \in DOMAIN own : own[x] = o)[2], port)
                    ELSE Free]
  BY DEF Init
<1>4. ASSUME NEW p \in Projects, NEW a \in AppNames
      PROVE  /\ apps[p][a] \in Objs \cup {None}
             /\ apps[p][a] # None => \E x \in DOMAIN own : own[x] = apps[p][a]
  <2>1. CASE p \in live /\ a \in scope.defined
    <3>1. <<p, a>> \in DOMAIN own /\ apps[p][a] = own[<<p, a>>]
      BY <1>3, <2>1
    <3>2. QED BY <3>1
  <2>2. CASE ~(p \in live /\ a \in scope.defined)
    BY <1>3, <2>2
  <2>3. QED BY <2>1, <2>2
<1>5. apps \in [Projects -> [AppNames -> Objs \cup {None}]]
  <2>1. apps = [p \in Projects |-> [a \in AppNames |-> apps[p][a]]]
    BY <1>3
  <2>2. QED BY <1>4, <2>1
<1>6. ASSUME NEW o \in Objs
      PROVE  /\ obj[o] \in Apps \cup {Free}
             /\ (\E x \in DOMAIN own : own[x] = o) => obj[o] # Free
  <2>1. CASE \E x \in DOMAIN own : own[x] = o
    <3>1. PICK x \in DOMAIN own : x = CHOOSE y \in DOMAIN own : own[y] = o
      BY <2>1
    <3>2. x[2] \in AppNames
      BY <1>2, <3>1
    <3>3. obj[o] = Default(x[2], port)
      BY <1>3, <2>1, <3>1
    <3>4. Default(x[2], port) \in Apps
      BY <3>2 DEF Default, Apps
    <3>5. QED BY <3>3, <3>4, AppsAreNotFree
  <2>2. CASE ~ \E x \in DOMAIN own : own[x] = o
    BY <1>3, <2>2
  <2>3. QED BY <2>1, <2>2
<1>7. obj \in [Objs -> Apps \cup {Free}]
  <2>1. obj = [o \in Objs |-> obj[o]]
    BY <1>3
  <2>2. QED BY <1>6, <2>1
<1>8. TypeOK
  BY <1>1, <1>2, <1>5, <1>7, IdleType DEF TypeOK, Init
<1>9. /\ IdleReq.pc = "idle" /\ IdleReq.op \in AllOps /\ IdleReq.o = None
      /\ IdleReq.all = {} /\ IdleReq.left = {}
  BY DEF IdleReq, AllOps
<1>10. Requests
  BY <1>1, <1>9, OpsAre DEF Requests, HoldsApp, At, Serves
<1>11. Reached
  <2>1. \A p \in Projects : \A o \in AppsOf(p) : obj[o] # Free
    BY <1>4, <1>6 DEF AppsOf
  <2>2. QED BY <1>1, <1>9, <2>1 DEF Reached, Used
<1>12. QED BY <1>8, <1>10, <1>11 DEF Base

LEMMA NextBase == Base /\ [Next]_vars => Base'
<1> SUFFICES ASSUME Base, [Next]_vars PROVE Base'
  OBVIOUS
<1>1. CASE UNCHANGED vars
  BY <1>1 DEF vars, Base, TypeOK, Requests, HoldsApp, At, Serves, Reached, Used, AppsOf
<1>2. ASSUME NEW h \in Handlers, Acts(h), UNCHANGED scope
      PROVE  Base'
  BY <1>2, ServeTypes, ServeRequests, ServeReached DEF Base
<1>3. CASE Next
  <2>1. \/ \E h \in Handlers : Acts(h)
        \/ \E p \in Projects, ip \in Addrs : VMReady(p, ip)
        \/ ServerRestarts
    BY <1>3 DEF Next, Acts
  <2>2. UNCHANGED scope
    BY <1>3 DEF Next
  <2>3. QED BY <1>2, <2>1, <2>2, WorldKeepsBase
<1>4. QED BY <1>1, <1>3

THEOREM BaseInvariant == Spec => []Base
<1>1. QED BY InitBase, NextBase, PTL DEF Spec

\* The store, the route table and the handlers keep their types: no handler
\* uses an app it does not hold or one that was never made (app_handlers.go,
\* project_handlers.go, proxy/routes.go).
THEOREM TypeCorrect == Spec => []TypeOK
<1>1. Base => TypeOK
  BY DEF Base
<1>2. QED BY <1>1, BaseInvariant, PTL
-----------------------------------------------------------------------------
(* One request at a time.                                                    *)

Fit(h) == Current(h) /\ Departing(h) /\ Registering(h)
One == Alone /\ Distinct /\ NoStray /\ \A h \in Handlers : Fit(h)

\* Only an arrival is a step of an idle handler.
LEMMA IdleArrives ==
  ASSUME NEW h \in Handlers, Acts(h), At(h, "idle")
  PROVE  Arrives(h)
BY DEF Acts, GetApp, Defines, CreateApp, UpdateApp, SetApp, GetInstance, Obeyed, Failed, Routing,
   Remove, Removed, Register, Registered, DeleteRoute, SetRoute, GetAddress, Reconciles,
   UpdateDomains, GetApps, NextApp, LastApp, Deletes, DeleteApp, DestroyInstance, DeleteProject,
   At

\* Whoever else there is waits, before the step and after it.
LEMMA OthersIdle ==
  ASSUME Base, Alone, scope.clients = 1, NEW h \in Handlers, Acts(h)
  PROVE  \A g \in Handlers \ {h} : req[g].pc = "idle" /\ req'[g] = req[g]
<1>1. Turns(h)
  BY ServeRequests
<1>2. CASE At(h, "idle")
  <2> DEFINE B == {g \in Handlers : ~At(g, "idle")}
  <2>1. Cardinality(B) < 1
    BY <1>2, IdleArrives DEF Arrives, Receive
  <2>2. IsFiniteSet(B) /\ Cardinality(B) \in Nat
    BY HandlersAssumption, FS_Subset, FS_CardinalityType
  <2>3. Cardinality(B) = 0
    BY <2>1, <2>2
  <2>4. B = {}
    BY <2>2, <2>3, FS_EmptySet
  <2>5. QED BY <1>1, <2>4 DEF Turns, At
<1>3. CASE ~At(h, "idle")
  BY <1>1, <1>3 DEF Alone, Turns, At
<1>4. QED BY <1>2, <1>3

\* An idle handler fits, and dooms no route.
LEMMA IdleFits ==
  ASSUME NEW h \in Handlers, req[h].pc = "idle"
  PROVE  Fit(h) /\ \A r \in RouteKeys : ~Doomed(h, r)
BY DEF Fit, Current, OnOneApp, Creating, Departing, Registering, Doomed, At, Serves

\* It is enough to look at the handler that makes the step.
LEMMA OneStep ==
  ASSUME Base, Alone, scope.clients = 1, NEW h \in Handlers, Acts(h),
         Distinct', NoStray', req'[h].pc # "idle" => Fit(h)'
  PROVE  One'
<1>1. \A g \in Handlers \ {h} : req'[g].pc = "idle"
  BY OthersIdle
<1>2. Alone'
  BY <1>1 DEF Alone, At
<1>3. ASSUME NEW g \in Handlers, req'[g].pc = "idle"
      PROVE  Fit(g)'
  BY <1>3 DEF Fit, Current, OnOneApp, Creating, Departing, Registering, At, Serves
<1>4. QED BY <1>1, <1>2, <1>3 DEF One

\* A step after which the tables hold the same apps, with the same hostnames.
Still == /\ UNCHANGED <<live, doms, apps>>
         /\ \A p \in Projects : \A o \in AppsOf(p) :
               /\ obj'[o].name = obj[o].name /\ obj'[o].host = obj[o].host
               /\ obj'[o].avail = obj[o].avail

LEMMA StillSame ==
  ASSUME Still
  PROVE  /\ \A p \in Projects : AppsOf(p)' = AppsOf(p)
         /\ \A p \in Projects : \A o \in AppsOf(p) : Hostname(o)' = Hostname(o)
         /\ \A p \in Projects, a \in AppNames : \A r : Owns(p, a, r) => Owns(p, a, r)'
         /\ Distinct => Distinct'
<1>1. \A p \in Projects : AppsOf(p)' = AppsOf(p)
  BY DEF Still, AppsOf
<1>2. \A p \in Projects : \A o \in AppsOf(p) : Hostname(o)' = Hostname(o)
  BY DEF Still, Hostname
<1>3. ASSUME NEW p \in Projects, NEW a \in AppNames, NEW r, Owns(p, a, r)
      PROVE  Owns(p, a, r)'
  <2>1. PICK o : o = apps[p][a]
    OBVIOUS
  <2>2. o \in AppsOf(p) /\ apps'[p][a] = o /\ live' = live /\ doms' = doms
    BY <1>3, <2>1 DEF Owns, AppsOf, Still
  <2>3. /\ obj'[o].name = obj[o].name /\ obj'[o].host = obj[o].host
        /\ obj'[o].avail = obj[o].avail
    BY <2>2 DEF Still
  <2>4. QED BY <1>3, <2>1, <2>2, <2>3 DEF Owns, Hostname
<1>4. Distinct => Distinct'
  BY DEF Distinct, Still
<1>5. QED BY <1>1, <1>2, <1>3, <1>4

\* Nothing happens to the routes, and the handler goes on with those it dooms.
LEMMA StillNoStray ==
  ASSUME Base, Alone, NoStray, scope.clients = 1, NEW h \in Handlers, Acts(h), Still,
         UNCHANGED routes, \A r \in RouteKeys : Doomed(h, r) => Doomed(h, r)'
  PROVE  NoStray'
<1>1. ASSUME NEW r \in RouteKeys, routes[r] # None
      PROVE  \/ \E p \in Projects, a \in AppNames : Owns(p, a, r)'
             \/ \E g \in Handlers : Doomed(g, r)'
  <2>1. CASE \E p \in Projects, a \in AppNames : Owns(p, a, r)
    BY <2>1, StillSame
  <2>2. ASSUME NEW g \in Handlers, Doomed(g, r)
        PROVE  Doomed(h, r)'
    <3>1. g = h
      BY <2>2, OthersIdle, IdleFits
    <3>2. QED BY <2>2, <3>1
  <2>3. QED BY <1>1, <2>1, <2>2 DEF NoStray
<1>2. QED BY <1>1 DEF NoStray

\* Apps that are only rephased are still there.
LEMMA RephasedStill ==
  ASSUME Base, Rephased, UNCHANGED <<live, doms, apps>>
  PROVE  Still
<1>1. \A p \in Projects : \A o \in AppsOf(p) : o \in Objs /\ obj[o] # Free
  BY AppsOfType DEF Base, Reached, Used
<1>2. QED BY <1>1 DEF Still, Rephased

LEMMA UnchangedStill ==
  ASSUME UNCHANGED <<live, doms, apps, obj>>
  PROVE  Still
BY DEF Still

\* Such a step of a request that goes on.
LEMMA StillStep ==
  ASSUME Base, One, scope.clients = 1, NEW h \in Handlers, Acts(h), Still, UNCHANGED routes,
         req'[h].pc # "idle" => Fit(h)',
         \A r \in RouteKeys : Doomed(h, r) => Doomed(h, r)'
  PROVE  One'
BY StillSame, StillNoStray, OneStep DEF One

\* Most steps doom nothing.
LEMMA DoomsNone ==
  ASSUME NEW h \in Handlers, req[h].pc \notin {"Remove", "Delete", "GetApps", "RemoveNext"}
  PROVE  \A r \in RouteKeys : ~Doomed(h, r)
BY DEF Doomed, At

LEMMA CurrentGoesOn ==
  ASSUME Still, NEW h \in Handlers, Current(h), ~At(h, "idle"), GoesOn(h),
         req[h].p \in Projects, req[h].op # "create",
         req[h].op \in {"deploy", "update", "stop", "delete"} => req'[h].o = App(h),
         req[h].op \in {"domains", "remove"} =>
            /\ req'[h].all \cup req'[h].left \subseteq AppsOf(req[h].p)
            /\ req'[h].pc \in {"Remove", "Delete", "Register", "Set"} =>
                  req'[h].o \in AppsOf(req[h].p)
  PROVE  Current(h)'
<1>1. req'[h].op = req[h].op /\ req'[h].p = req[h].p /\ req'[h].a = req[h].a
  BY DEF GoesOn
<1>2. req[h].p \in live' /\ apps' = apps
  BY DEF Still, Current
<1>3. req'[h].op \in {"deploy", "update", "stop", "delete"} => req'[h].o = App(h)'
  BY <1>1, <1>2 DEF App
<1>4. req'[h].op \in {"domains", "remove"} =>
            /\ req'[h].all \cup req'[h].left \subseteq AppsOf(req[h].p)'
            /\ req'[h].pc \in {"Remove", "Delete", "Register", "Set"} =>
                  req'[h].o \in AppsOf(req[h].p)'
  BY <1>1, <1>2 DEF AppsOf
<1>5. QED BY <1>1, <1>2, <1>3, <1>4 DEF Current, OnOneApp, Creating, At, Serves

LEMMA ArrivalStep ==
  ASSUME Base, One, scope.clients = 1, NEW h \in Handlers, Arrives(h)
  PROVE  One'
<1>1. PICK op \in AllOps, p \in Projects, a \in AppNames : Receive(h, op, p, a)
  <2>1. scope \in ScopeRecords
    BY DEF Base, TypeOK
  <2>2. scope.ops \subseteq AllOps
    BY <2>1 DEF ScopeRecords
  <2>3. QED BY <2>2 DEF Arrives
<1>2. /\ req'[h].op = op /\ req'[h].p = p /\ req'[h].a = a
      /\ req'[h].pc = CASE op = "domains" -> "UpdateDomains"
                        [] op = "remove"  -> "GetApps"
                        [] OTHER          -> "GetApp"
      /\ req'[h].all = {} /\ req'[h].left = {}
  BY <1>1, Received DEF Base
<1>3. /\ req'[h].pc \in {"UpdateDomains", "GetApps", "GetApp"}
      /\ op \notin {"domains", "remove"} => req'[h].pc = "GetApp"
      /\ op = "remove" => req'[h].pc = "GetApps"
  <2>1. CASE op = "domains"
    BY <1>2, <2>1
  <2>2. CASE op = "remove"
    BY <1>2, <2>2
  <2>3. CASE op \notin {"domains", "remove"}
    BY <1>2, <2>3
  <2>4. QED BY <2>1, <2>2, <2>3
<1>4. At(h, "idle") /\ p \in live /\ UNCHANGED <<live, doms, apps, obj, routes>>
  BY <1>1 DEF Receive
<1>5. Acts(h)
  BY DEF Acts
<1>6. Current(h)'
  BY <1>2, <1>3, <1>4 DEF Current, OnOneApp, Creating, At, Serves
<1>7. Departing(h)' /\ Registering(h)'
  BY <1>2, <1>3 DEF Departing, Registering, At
<1>8. \A r \in RouteKeys : ~Doomed(h, r)
  BY <1>4, IdleFits DEF At
<1>9. QED BY <1>4, <1>5, <1>6, <1>7, <1>8, UnchangedStill, StillStep DEF Fit

LEMMA GetAppStep ==
  ASSUME Base, One, scope.clients = 1, NEW h \in Handlers, GetApp(h)
  PROVE  One'
<1>1. req[h].pc = "GetApp" /\ ~At(h, "idle") /\ req[h].op # "create"
  BY DEF GetApp, At, Serves
<1>2. App(h) \in Objs \cup {None} /\ req[h].op \in {"deploy", "update", "stop", "delete"}
      /\ req[h].p \in Projects /\ req[h].a \in AppNames
  BY <1>1, Serving, OpsAre DEF Base
<1>3. Acts(h) /\ Still /\ UNCHANGED routes
  BY UnchangedStill DEF Acts, GetApp
<1>4. \A r \in RouteKeys : ~Doomed(h, r)
  BY <1>1, DoomsNone
<1>5. CASE Answer(h)
  <2>1. req'[h].pc = "idle"
    BY <1>5, Answers DEF Base
  <2>2. QED BY <1>3, <1>4, <2>1, StillStep
<1>6. CASE ~Answer(h)
  <2>1. App(h) \in Objs
    BY <1>2, <1>6 DEF GetApp
  <2>2. PICK pc \in CASE Serves(h, "deploy") -> {"SetApp", "GetInstance"}
                      [] Serves(h, "update") -> {"Update"}
                      [] Serves(h, "stop")   -> {"GetInstance"}
                      [] Serves(h, "delete") -> {"Remove"} :
             req' = [req EXCEPT ![h].pc = pc, ![h].o = App(h)]
    BY <1>6 DEF GetApp
  <2>3. \/ pc \in {"SetApp", "GetInstance"} /\ req[h].op = "deploy"
        \/ pc = "Update" /\ req[h].op = "update"
        \/ pc = "GetInstance" /\ req[h].op = "stop"
        \/ pc = "Remove" /\ req[h].op = "delete"
    BY <1>2, <2>2 DEF Serves
  <2>4. pc \in Places
    BY <2>3 DEF Places
  <2>5. GoesOn(h) /\ req'[h].pc = pc /\ req'[h].o = App(h)
    <3>1. TypeOK /\ Taken(h, pc, App(h))
      BY <2>2 DEF Base, Taken
    <3>2. QED BY <2>1, <2>4, <3>1, Takes
  <2>6. req'[h].op = req[h].op
    BY <2>5 DEF GoesOn
  <2>7. Current(h)'
    BY <1>1, <1>2, <1>3, <2>5, CurrentGoesOn DEF One, Fit
  <2>8. Registering(h)'
    BY <2>3, <2>5 DEF Registering, At
  <2>9. Departing(h)'
    BY <2>3, <2>5, <2>6 DEF Departing, Visited, At, Serves
  <2>10. QED BY <1>3, <1>4, <2>7, <2>8, <2>9, StillStep DEF Fit
<1>7. QED BY <1>5, <1>6

\* The object that is made was nobody's.
LEMMA CreateAppStep ==
  ASSUME Base, One, scope.clients = 1, NEW h \in Handlers, NEW o \in Objs,
         NEW host \in Hostnames \cup {None}, NEW avail \in BOOLEAN, NEW port \in Ports \cup {None},
         CreateApp(h, o, host, avail, port)
  PROVE  One'
<1>1. req[h].pc = "GetApp" /\ ~At(h, "idle") /\ req[h].op = "create"
  BY DEF CreateApp, At, Serves
<1>2. Acts(h)
  BY DEF Acts, Defines
<1>3. UNCHANGED <<live, doms, apps, routes>> /\ \A x \in Objs \ {o} : obj'[x] = obj[x]
  BY CreateAppTypes
<1>4. \A r \in RouteKeys : ~Doomed(h, r)
  BY <1>1, DoomsNone
<1>5. CASE App(h) # None
  <2>1. Answer(h) /\ obj' = obj
    BY <1>5 DEF CreateApp
  <2>2. req'[h].pc = "idle" /\ Still
    BY <1>3, <2>1, Answers, UnchangedStill DEF Base
  <2>3. QED BY <1>2, <1>3, <1>4, <2>2, StillStep
<1>6. CASE App(h) = None
  <2>1. /\ App(h) = None /\ \A p \in Projects : o \notin AppsOf(p)
        /\ req' = [req EXCEPT ![h].pc = "SetApp", ![h].o = o]
    BY <1>6 DEF CreateApp, Unreachable
  <2>2. GoesOn(h) /\ req'[h].pc = "SetApp" /\ req'[h].o = o
    <3>1. TypeOK /\ Taken(h, "SetApp", o) /\ "SetApp" \in Places
      BY <2>1 DEF Base, Taken, Places
    <3>2. QED BY <3>1, Takes
  <2>3. Still
    <3>1. \A p \in Projects : \A x \in AppsOf(p) : x \in Objs /\ x # o
      BY <2>1, AppsOfType DEF Base
    <3>2. QED BY <1>3, <3>1 DEF Still
  <2>4. req'[h].op = "create" /\ req'[h].p = req[h].p /\ req'[h].a = req[h].a
    BY <1>1, <2>2 DEF GoesOn
  <2>5. req[h].p \in live /\ live' = live
    BY <1>1, <1>3 DEF One, Fit, Current
  <2>6. App(h)' = None
    BY <1>3, <2>1, <2>4 DEF App
  <2>7. Current(h)'
    <3>1. \A p \in Projects : AppsOf(p)' = AppsOf(p)
      BY <2>3, StillSame
    <3>2. \A p \in Projects : req'[h].o \notin AppsOf(p)'
      BY <2>1, <2>2, <3>1
    <3>3. QED BY <2>4, <2>5, <2>6, <3>2 DEF Current, OnOneApp, Serves
  <2>8. Departing(h)' /\ Registering(h)'
    BY <2>2, <2>4 DEF Departing, Registering, At
  <2>9. QED BY <1>2, <1>3, <1>4, <2>3, <2>7, <2>8, StillStep DEF Fit
<1>7. QED BY <1>5, <1>6

\* Writing what the table already holds changes nothing.
LEMMA SameEntry ==
  ASSUME TypeOK, NEW p \in Projects, NEW a \in AppNames,
         apps' = [apps EXCEPT ![p][a] = apps[p][a]]
  PROVE  apps' = apps
BY DEF TypeOK

\* A deployment writes the app it found, a creation one that is nobody's under
\* a name that is free.
LEMMA SetAppStep ==
  ASSUME Base, One, scope.clients = 1, NEW h \in Handlers, SetApp(h)
  PROVE  One'
<1>1. req[h].pc = "SetApp" /\ ~At(h, "idle") /\ req[h].op \in {"create", "deploy"} /\ Acts(h)
  BY OpsAre DEF SetApp, At, Base, Requests, Acts
<1>2. PICK p \in Projects, a \in AppNames, o \in Objs :
        p = req[h].p /\ a = req[h].a /\ o = req[h].o
  <2>1. HoldsApp(h)
    BY <1>1 DEF HoldsApp
  <2>2. QED BY <1>1, <2>1, HoldsOne, Serving DEF Base
<1>3. apps' = [apps EXCEPT ![p][a] = o] /\ UNCHANGED <<live, doms, addr, obj, routes>>
  BY <1>2 DEF SetApp
<1>4. \A r \in RouteKeys : ~Doomed(h, r)
  BY <1>1, DoomsNone
<1>5. CASE req[h].op = "deploy"
  <2>1. o = App(h) /\ o = apps[p][a]
    BY <1>1, <1>2, <1>5 DEF One, Fit, Current, OnOneApp, App, At
  <2>2. Still
    BY <1>3, <2>1, SameEntry, UnchangedStill DEF Base
  <2>3. Keeping(h) /\ req'[h].pc = "GetInstance"
    BY <1>5, Goes DEF SetApp, Serves, Places, Base
  <2>4. Current(h)'
    BY <1>1, <1>2, <1>5, <2>1, <2>2, <2>3, CurrentGoesOn DEF One, Fit, Keeping, Holding
  <2>5. Departing(h)' /\ Registering(h)'
    BY <1>5, <2>3 DEF Departing, Registering, At, Keeping, Holding, GoesOn
  <2>6. QED BY <1>1, <1>3, <1>4, <2>2, <2>4, <2>5, StillStep DEF Fit
<1>6. CASE req[h].op = "create"
  <2>1. /\ apps[p][a] = None
        /\ \A q \in Projects : o \notin AppsOf(q)
    BY <1>1, <1>2, <1>6 DEF One, Fit, Current, Creating, App, At, Serves
  <2>2. /\ apps'[p][a] = o
        /\ \A q \in Projects, b \in AppNames : (q # p \/ b # a) => apps'[q][b] = apps[q][b]
    BY <1>3 DEF Base, TypeOK
  <2>3. \A q \in Projects, b \in AppNames : apps[q][b] # o
    <3>1. \A q \in Projects, b \in AppNames : apps[q][b] \in AppsOf(q) \/ apps[q][b] = None
      BY AppsOfType DEF Base
    <3>2. o # None
      OBVIOUS
    <3>3. QED BY <2>1, <3>1, <3>2
  <2>4. Distinct'
    BY <2>2, <2>3 DEF Distinct, One
  <2>5. req'[h].pc = "idle"
    BY <1>6, Answers DEF SetApp, Serves, Base
  <2>6. ASSUME NEW r \in RouteKeys, routes[r] # None
        PROVE  \E q \in Projects, b \in AppNames : Owns(q, b, r)'
    <3>1. ~ \E g \in Handlers : Doomed(g, r)
      BY <1>1, <1>4, IdleFits, OthersIdle DEF One
    <3>2. PICK q \in Projects, b \in AppNames : Owns(q, b, r)
      BY <2>6, <3>1 DEF One, NoStray
    <3>3. apps'[q][b] = apps[q][b]
      BY <2>1, <2>2, <3>2 DEF Owns
    <3>4. Owns(q, b, r)'
      BY <1>3, <3>2, <3>3 DEF Owns, Hostname
    <3>5. QED BY <3>4
  <2>7. NoStray'
    BY <1>3, <2>6 DEF NoStray
  <2>8. QED BY <1>1, <2>4, <2>5, <2>7, OneStep DEF One
<1>7. QED BY <1>1, <1>5, <1>6

\* An update dooms the routes of the hostname the app had.
LEMMA UpdateAppStep ==
  ASSUME Base, One, scope.clients = 1, NEW h \in Handlers, NEW host \in Hostnames \cup {None},
         NEW avail \in BOOLEAN, NEW port \in Ports \cup {None},
         UpdateApp(h, host, avail, port)
  PROVE  One'
<1>1. req[h].pc = "Update" /\ ~At(h, "idle") /\ req[h].op = "update" /\ Acts(h) /\ HoldsApp(h)
  BY OpsAre DEF UpdateApp, At, Base, Requests, Acts, Defines, HoldsApp
<1>2. PICK p \in Projects, a \in AppNames, o \in Objs :
        p = req[h].p /\ a = req[h].a /\ o = req[h].o
  BY <1>1, HoldsOne, Serving DEF Base
<1>3. apps' = [apps EXCEPT ![p][a] = o] /\ UNCHANGED <<live, doms, addr, routes>>
  BY <1>2 DEF UpdateApp
<1>4. \A r \in RouteKeys : ~Doomed(h, r)
  BY <1>1, DoomsNone
<1>5. o = App(h) /\ o = apps[p][a]
  BY <1>1, <1>2 DEF One, Fit, Current, OnOneApp, App, At
<1>6. apps' = apps
  BY <1>3, <1>5, SameEntry DEF Base
<1>7. /\ \A x \in Objs \ {o} : obj'[x] = obj[x]
      /\ obj'[o].host = host /\ obj'[o].avail = avail /\ obj'[o].name = obj[o].name
  BY <1>2, UpdateAppTypes
<1>8. Distinct'
  BY <1>6 DEF Distinct, One
<1>9. PICK name \in Hostnames : name = Hostname(o)
  BY <1>1, <1>2, HoldsOne
<1>10. \/ Answer(h) /\ host = obj[o].host /\ avail = obj[o].avail
       \/ req' = [req EXCEPT ![h].pc = "Remove", ![h].host = name]
  BY <1>2, <1>9 DEF UpdateApp
<1>11. ASSUME NEW q \in Projects, NEW b \in AppNames, NEW r, Owns(q, b, r), q # p \/ b # a
       PROVE  Owns(q, b, r)'
  <2>1. PICK x : x = apps[q][b]
    OBVIOUS
  <2>2. x \in Objs /\ x # o
    <3>1. x \in AppsOf(q) /\ AppsOf(q) \in SUBSET Objs
      BY <1>11, <2>1, AppsOfType DEF Owns, Base
    <3>2. x # o
      BY <1>5, <1>11, <2>1 DEF One, Distinct, Owns
    <3>3. QED BY <3>1, <3>2
  <2>3. QED BY <1>3, <1>6, <1>7, <1>11, <2>1, <2>2 DEF Owns, Hostname
<1>12. CASE Answer(h) /\ host = obj[o].host /\ avail = obj[o].avail
  <2>1. req'[h].pc = "idle"
    BY <1>12, Answers DEF Base
  <2>2. Still
    <3>1. \A q \in Projects : \A x \in AppsOf(q) : x \in Objs
      BY AppsOfType DEF Base
    <3>2. \A x \in Objs : /\ obj'[x].name = obj[x].name /\ obj'[x].host = obj[x].host
                          /\ obj'[x].avail = obj[x].avail
      BY <1>7, <1>12
    <3>3. QED BY <1>3, <1>6, <3>1, <3>2 DEF Still
  <2>3. QED BY <1>1, <1>3, <1>4, <2>1, <2>2, StillStep
<1>13. CASE req' = [req EXCEPT ![h].pc = "Remove", ![h].host = name]
  <2>1. GoesOn(h) /\ req'[h].pc = "Remove" /\ req'[h].host = name /\ req'[h].o = o
    BY <1>2, <1>13, TakesHost DEF Base
  <2>2. req'[h].op = "update" /\ req'[h].p = p /\ req'[h].a = a
    BY <1>1, <1>2, <2>1 DEF GoesOn
  <2>3. p \in live'
    BY <1>1, <1>2, <1>3 DEF One, Fit, Current
  <2>4. Current(h)'
    BY <1>5, <1>6, <2>1, <2>2, <2>3 DEF Current, OnOneApp, Creating, At, Serves, App
  <2>5. Departing(h)' /\ Registering(h)'
    BY <2>1, <2>2 DEF Departing, Registering, At
  <2>6. ASSUME NEW r \in RouteKeys, routes[r] # None
        PROVE  \/ \E q \in Projects, b \in AppNames : Owns(q, b, r)'
               \/ Doomed(h, r)'
    <3>1. ~ \E g \in Handlers : Doomed(g, r)
      BY <1>1, <1>4, IdleFits, OthersIdle DEF One
    <3>2. PICK q \in Projects, b \in AppNames : Owns(q, b, r)
      BY <2>6, <3>1 DEF One, NoStray
    <3>3. CASE q # p \/ b # a
      BY <1>11, <3>2, <3>3
    <3>4. CASE q = p /\ b = a
      <4>1. r[1] = name /\ r[2] \in doms'[p]
        BY <1>3, <1>5, <1>9, <3>2, <3>4 DEF Owns
      <4>2. r \in RoutesFor(name, doms'[p])
        BY <4>1 DEF RoutesFor, RouteKeys
      <4>3. r \in RemovedKeys(h)'
        BY <2>1, <2>2, <4>2 DEF RemovedKeys, RoutesFor, Serves
      <4>4. QED BY <2>1, <4>3 DEF Doomed, At
    <3>5. QED BY <3>3, <3>4
  <2>7. NoStray'
    BY <1>3, <2>6 DEF NoStray
  <2>8. QED BY <1>1, <1>8, <2>4, <2>5, <2>7, OneStep DEF One, Fit
<1>14. QED BY <1>10, <1>12, <1>13

\* A deletion comes after the routes of the app.
LEMMA DeleteAppStep ==
  ASSUME Base, One, scope.clients = 1, NEW h \in Handlers, DeleteApp(h)
  PROVE  One'
<1>1. req[h].pc = "DeleteApp" /\ ~At(h, "idle") /\ req[h].op = "delete" /\ Acts(h) /\ HoldsApp(h)
  BY OpsAre DEF DeleteApp, At, Base, Requests, Acts, Deletes, HoldsApp
<1>2. PICK p \in Projects, a \in AppNames, o \in Objs :
        p = req[h].p /\ a = req[h].a /\ o = req[h].o
  BY <1>1, HoldsOne, Serving DEF Base
<1>3. apps' = [apps EXCEPT ![p][a] = None] /\ UNCHANGED <<live, doms, addr, obj, routes>>
  BY <1>2 DEF DeleteApp
<1>4. \A r \in RouteKeys : ~Doomed(h, r)
  BY <1>1, DoomsNone
<1>5. o = App(h) /\ o = apps[p][a]
  BY <1>1, <1>2 DEF One, Fit, Current, OnOneApp, App, At
<1>6. /\ apps'[p][a] = None
      /\ \A q \in Projects, b \in AppNames : (q # p \/ b # a) => apps'[q][b] = apps[q][b]
  BY <1>3 DEF Base, TypeOK
<1>7. Distinct'
  BY <1>6 DEF Distinct, One
<1>8. req'[h].pc = "idle"
  BY Answers DEF DeleteApp, Base
<1>9. \A r \in RoutesFor(Hostname(o), doms[p]) : routes[r] = None
  <2>1. Departing(h) /\ o \in Visited(h)
    BY <1>1, <1>2 DEF One, Fit, Visited, Serves
  <2>2. Cleared(p, o, {})
    BY <1>1, <1>2, <2>1 DEF Departing, At
  <2>3. QED BY <2>2 DEF Cleared
<1>10. ASSUME NEW r \in RouteKeys, routes[r] # None
       PROVE  \E q \in Projects, b \in AppNames : Owns(q, b, r)'
  <2>1. ~ \E g \in Handlers : Doomed(g, r)
    BY <1>1, <1>4, IdleFits, OthersIdle DEF One
  <2>2. PICK q \in Projects, b \in AppNames : Owns(q, b, r)
    BY <1>10, <2>1 DEF One, NoStray
  <2>3. q # p \/ b # a
    <3>1. SUFFICES ASSUME q = p, b = a PROVE FALSE
      OBVIOUS
    <3>2. r \in RoutesFor(Hostname(o), doms[p])
      BY <1>5, <2>2, <3>1 DEF Owns, RoutesFor, RouteKeys
    <3>3. QED BY <1>9, <1>10, <3>2
  <2>4. Owns(q, b, r)'
    BY <1>3, <1>6, <2>2, <2>3 DEF Owns, Hostname
  <2>5. QED BY <2>4
<1>11. NoStray'
  BY <1>3, <1>10 DEF NoStray
<1>12. QED BY <1>1, <1>7, <1>8, <1>11, OneStep DEF One

LEMMA DeleteProjectStep ==
  ASSUME Base, One, scope.clients = 1, NEW h \in Handlers, DeleteProject(h)
  PROVE  One'
<1>1. req[h].pc = "DeleteProject" /\ ~At(h, "idle") /\ req[h].op = "remove" /\ Acts(h)
  BY OpsAre DEF DeleteProject, At, Base, Requests, Acts, Deletes
<1>2. PICK p \in Projects : p = req[h].p
  BY <1>1, Serving DEF Base
<1>3. /\ apps' = [apps EXCEPT ![p] = [a \in AppNames |-> None]] /\ live' = live \ {p}
      /\ UNCHANGED <<doms, addr, obj, routes>>
  BY <1>2 DEF DeleteProject
<1>4. \A r \in RouteKeys : ~Doomed(h, r)
  BY <1>1, DoomsNone
<1>5. /\ \A b \in AppNames : apps'[p][b] = None
      /\ \A q \in Projects \ {p} : apps'[q] = apps[q]
  BY <1>3 DEF Base, TypeOK
<1>6. Distinct'
  BY <1>5 DEF Distinct, One
<1>7. req'[h].pc = "idle"
  BY Answers DEF DeleteProject, Base
<1>8. \A o \in AppsOf(p) : \A r \in RoutesFor(Hostname(o), doms[p]) : routes[r] = None
  <2>1. Departing(h) /\ req[h].left = {}
    BY <1>1 DEF One, Fit, Departing
  <2>2. Visited(h) = AppsOf(p)
    BY <1>1, <1>2, <2>1 DEF Visited, Serves
  <2>3. \A o \in AppsOf(p) : Cleared(p, o, {})
    BY <1>1, <1>2, <2>1, <2>2 DEF Departing, At
  <2>4. QED BY <2>3 DEF Cleared
<1>9. ASSUME NEW r \in RouteKeys, routes[r] # None
      PROVE  \E q \in Projects, b \in AppNames : Owns(q, b, r)'
  <2>1. ~ \E g \in Handlers : Doomed(g, r)
    BY <1>1, <1>4, IdleFits, OthersIdle DEF One
  <2>2. PICK q \in Projects, b \in AppNames : Owns(q, b, r)
    BY <1>9, <2>1 DEF One, NoStray
  <2>3. q # p
    <3>1. SUFFICES ASSUME q = p PROVE FALSE
      OBVIOUS
    <3>2. apps[p][b] \in AppsOf(p)
      BY <2>2, <3>1, AppsOfType DEF Owns, Base
    <3>3. r \in RoutesFor(Hostname(apps[p][b]), doms[p])
      BY <2>2, <3>1 DEF Owns, RoutesFor, RouteKeys
    <3>4. QED BY <1>8, <1>9, <3>2, <3>3
  <2>4. Owns(q, b, r)'
    BY <1>3, <1>5, <2>2, <2>3 DEF Owns, Hostname
  <2>5. QED BY <2>4
<1>10. NoStray'
  BY <1>3, <1>9 DEF NoStray
<1>11. QED BY <1>1, <1>6, <1>7, <1>10, OneStep DEF One

\* New domains doom the routes of the old ones.
LEMMA UpdateDomainsStep ==
  ASSUME Base, One, scope.clients = 1, NEW h \in Handlers, NEW D \in SUBSET scope.domains,
         UpdateDomains(h, D)
  PROVE  One'
<1>1. req[h].pc = "UpdateDomains" /\ ~At(h, "idle") /\ req[h].op = "domains" /\ Acts(h)
  BY OpsAre DEF UpdateDomains, At, Base, Requests, Acts, Reconciles
<1>2. PICK p \in Projects, old \in SUBSET Domains : p = req[h].p /\ old = doms[p]
  BY <1>1, Serving DEF Base, TypeOK
<1>3. p \in live
  BY <1>1, <1>2 DEF One, Fit, Current
<1>4. /\ doms' = [doms EXCEPT ![p] = D] /\ UNCHANGED <<live, addr, apps, obj, routes>>
      /\ req' = [req EXCEPT ![h].pc = "GetApps", ![h].old = old]
  BY <1>2, <1>3 DEF UpdateDomains
<1>5. \A r \in RouteKeys : ~Doomed(h, r)
  BY <1>1, DoomsNone
<1>6. /\ GoesOn(h) /\ req'[h].pc = "GetApps" /\ req'[h].old = old
      /\ req'[h].all = req[h].all /\ req'[h].left = req[h].left
  BY <1>4, TakesDomains DEF Base
<1>7. req'[h].op = "domains" /\ req'[h].p = p
  BY <1>1, <1>2, <1>6 DEF GoesOn
<1>8. Distinct'
  BY <1>4 DEF Distinct, One
<1>9. req[h].all \cup req[h].left \subseteq AppsOf(p)
  BY <1>1, <1>2 DEF One, Fit, Current
<1>10. Current(h)'
  <2>0. AppsOf(p)' = AppsOf(p)
    BY <1>4 DEF AppsOf
  <2>1. req'[h].all \cup req'[h].left \subseteq AppsOf(req[h].p)'
    BY <1>6, <1>7, <1>9, <2>0
  <2>2. ~OnOneApp(h)' /\ ~Creating(h)' /\ req'[h].p \in live'
    BY <1>3, <1>4, <1>7 DEF OnOneApp, Creating, Serves
  <2>3. req'[h].pc = "GetApps"
    BY <1>6
  <2>4. QED BY <1>2, <1>7, <2>1, <2>2, <2>3 DEF Current
<1>11. Departing(h)' /\ Registering(h)'
  BY <1>6, <1>7 DEF Departing, Registering, At
<1>12. ASSUME NEW r \in RouteKeys, routes[r] # None
       PROVE  \/ \E q \in Projects, b \in AppNames : Owns(q, b, r)'
              \/ Doomed(h, r)'
  <2>1. ~ \E g \in Handlers : Doomed(g, r)
    BY <1>1, <1>5, IdleFits, OthersIdle DEF One
  <2>2. PICK q \in Projects, b \in AppNames : Owns(q, b, r)
    BY <1>12, <2>1 DEF One, NoStray
  <2>3. CASE q # p
    <3>1. doms'[q] = doms[q]
      BY <1>4, <2>3 DEF Base, TypeOK
    <3>2. Owns(q, b, r)'
      BY <1>4, <2>2, <3>1 DEF Owns, Hostname
    <3>3. QED BY <3>2
  <2>4. CASE q = p
    <3>1. PICK o \in AppsOf(p) : o = apps[p][b]
      BY <2>2, <2>4, AppsOfType DEF Owns, Base
    <3>2. r[1] = Hostname(o) /\ r[2] \in old
      BY <1>2, <2>2, <2>4, <3>1 DEF Owns
    <3>3. r \in RoutesFor(Hostname(o), old)
      BY <3>2 DEF RoutesFor, RouteKeys
    <3>4. Hostname(o)' = Hostname(o) /\ o \in AppsOf(req[h].p)'
      <4>1. Hostname(o)' = Hostname(o)
        BY <1>4 DEF Hostname
      <4>2. AppsOf(req[h].p)' = AppsOf(p)
        BY <1>4, <1>7 DEF AppsOf
      <4>3. QED BY <3>1, <4>1, <4>2
    <3>5. Doomed(h, r)'
      BY <1>6, <1>7, <3>3, <3>4 DEF Doomed, At, Serves, RoutesFor
    <3>6. QED BY <3>5
  <2>5. QED BY <2>3, <2>4
<1>13. NoStray'
  BY <1>4, <1>12 DEF NoStray
<1>14. QED BY <1>1, <1>8, <1>10, <1>11, <1>13, OneStep DEF One, Fit

\* The apps of a request that goes away.
LEMMA VisitedType ==
  ASSUME Base, NEW h \in Handlers, Current(h), ~At(h, "idle"),
         req[h].op \in {"delete", "remove"}, req[h].op = "delete" => HoldsApp(h)
  PROVE  Visited(h) \subseteq AppsOf(req[h].p) /\ Visited(h) \subseteq Objs
<1>1. req[h].p \in Projects /\ req[h].a \in AppNames
  BY Serving DEF Base
<1>2. AppsOf(req[h].p) \subseteq Objs
  BY <1>1, AppsOfType DEF Base
<1>3. CASE req[h].op = "remove"
  BY <1>2, <1>3 DEF Visited, Serves
<1>4. CASE req[h].op = "delete"
  <2>1. req[h].o # None /\ ~At(h, "GetApp")
    BY <1>4 DEF Base, Requests, HoldsApp, At
  <2>2. req[h].o = apps[req[h].p][req[h].a]
    BY <1>4, <2>1 DEF Current, OnOneApp, App
  <2>3. req[h].o \in AppsOf(req[h].p)
    BY <1>1, <2>1, <2>2, AppsOfType DEF Base
  <2>4. QED BY <1>2, <1>4, <2>3 DEF Visited, Serves
<1>5. QED BY <1>3, <1>4

\* Routes that are cleared stay so while nothing is set.
LEMMA ClearedStays ==
  ASSUME Still, NEW p \in Projects, NEW o \in AppsOf(p), NEW but, NEW but2,
         \A r \in RoutesFor(Hostname(o), doms[p]) :
            /\ routes[r] = None => routes'[r] = None
            /\ r \in but => r \in but2 \/ routes'[r] = None,
         Cleared(p, o, but)
  PROVE  \A r \in RoutesFor(Hostname(o)', doms'[p]) \ but2 : routes'[r] = None
<1>1. Hostname(o)' = Hostname(o) /\ doms' = doms
  BY StillSame DEF Still
<1>2. QED BY <1>1 DEF Cleared

\* What is to be shown of a departing request that goes on.
LEMMA DepartingGoesOn ==
  ASSUME NEW h \in Handlers, NEW p \in Projects, req'[h].p = p,
         NEW V, V = Visited(h)', req'[h].pc \in {"DestroyInstance", "DeleteProject"} => req'[h].left = {},
         req'[h].op \in {"delete", "remove"} =>
         \A o \in V :
            \/ req'[h].pc = "Remove" /\ o = req'[h].o
            \/ \A r \in RoutesFor(Hostname(o)', doms'[p])
                        \ (IF req'[h].pc = "Delete" /\ o = req'[h].o THEN req'[h].keys ELSE {}) :
                  routes'[r] = None
  PROVE  Departing(h)'
BY DEF Departing, Cleared, At

LEMMA StillDeparting ==
  ASSUME Base, Still, UNCHANGED routes, NEW h \in Handlers, Current(h), Departing(h),
         ~At(h, "idle"), GoesOn(h),
         NEW V, V = Visited(h)', V \subseteq AppsOf(req[h].p),
         req'[h].pc \in {"DestroyInstance", "DeleteProject"} => req'[h].left = {},
         req[h].op \in {"delete", "remove"} =>
           \A o \in V :
             \/ req'[h].pc = "Remove" /\ o = req'[h].o
             \/ /\ req'[h].pc = "Delete" /\ o = req'[h].o
                /\ RoutesFor(Hostname(o), doms[req[h].p]) \subseteq req'[h].keys
             \/ /\ o \in Visited(h) /\ ~(At(h, "Remove") /\ o = req[h].o)
                /\ req[h].pc \notin {"GetApp", "GetApps"}
                /\ At(h, "Delete") /\ o = req[h].o => req[h].keys = {}
  PROVE  Departing(h)'
<1>1. PICK p \in Projects : p = req[h].p
  BY Serving DEF Base
<1>2. req'[h].p = p /\ req'[h].op = req[h].op
  BY <1>1 DEF GoesOn
<1>3. ASSUME req[h].op \in {"delete", "remove"}, NEW o \in V, ~(req'[h].pc = "Remove" /\ o = req'[h].o)
      PROVE  \A r \in RoutesFor(Hostname(o)', doms'[p])
                      \ (IF req'[h].pc = "Delete" /\ o = req'[h].o THEN req'[h].keys ELSE {}) :
                routes'[r] = None
  <2>1. o \in AppsOf(p) /\ Hostname(o)' = Hostname(o) /\ doms' = doms
    BY <1>1, StillSame DEF Still
  <2>2. CASE /\ req'[h].pc = "Delete" /\ o = req'[h].o
             /\ RoutesFor(Hostname(o), doms[p]) \subseteq req'[h].keys
    BY <2>1, <2>2
  <2>3. CASE /\ o \in Visited(h) /\ ~(At(h, "Remove") /\ o = req[h].o)
             /\ req[h].pc \notin {"GetApp", "GetApps"}
             /\ At(h, "Delete") /\ o = req[h].o => req[h].keys = {}
    <3>1. Cleared(p, o, IF At(h, "Delete") /\ o = req[h].o THEN req[h].keys ELSE {})
      BY <1>1, <1>3, <2>3 DEF Departing, At
    <3>2. Cleared(p, o, {})
      BY <2>3, <3>1 DEF Cleared
    <3>3. QED BY <2>1, <3>2 DEF Cleared
  <2>4. QED BY <1>1, <1>3, <2>2, <2>3
<1>4. QED BY <1>2, <1>3, DepartingGoesOn

\* Other requests do not go away.
LEMMA StaysAway ==
  ASSUME NEW h \in Handlers, GoesOn(h), req[h].op \notin {"delete", "remove"},
         req'[h].pc \notin {"DestroyInstance", "DeleteProject"}
  PROVE  Departing(h)'
BY DEF Departing, GoesOn

\* What a handler that goes on has.
LEMMA BusyFacts ==
  ASSUME Base, One, NEW h \in Handlers, ~At(h, "idle")
  PROVE  /\ Current(h) /\ Departing(h) /\ Registering(h)
         /\ req[h].p \in Projects /\ req[h].a \in AppNames /\ req[h].p \in live
         /\ req[h].op \in {"deploy", "update", "stop", "delete"} /\ ~At(h, "GetApp") =>
               /\ req[h].o = App(h)
               /\ req[h].o # None => req[h].o \in AppsOf(req[h].p)
         /\ req[h].op \in {"domains", "remove"} =>
               /\ req[h].all \cup req[h].left \subseteq AppsOf(req[h].p)
               /\ req[h].pc \in {"Remove", "Delete", "Register", "Set"} =>
                     req[h].o \in AppsOf(req[h].p)
<1>1. Current(h) /\ Departing(h) /\ Registering(h)
  BY DEF One, Fit
<1>2. req[h].p \in Projects /\ req[h].a \in AppNames
  BY Serving DEF Base
<1>3. req[h].op \in {"deploy", "update", "stop", "delete"} /\ ~At(h, "GetApp") =>
         req[h].o = apps[req[h].p][req[h].a]
  BY <1>1 DEF Current, OnOneApp, App
<1>4. QED BY <1>1, <1>2, <1>3, AppsOfType DEF Current, App, Base

\* A request that goes on with the same app, apps and domains.
LEMMA KeepingStep ==
  ASSUME Base, One, scope.clients = 1, NEW h \in Handlers, Acts(h), Still, UNCHANGED routes,
         Keeping(h), HoldsApp(h) \/ req[h].op \in {"domains", "remove"}, ~At(h, "idle"), ~At(h, "GetApp"),
         req[h].op # "create",
         req[h].op \in {"domains", "remove"} /\ req'[h].pc \in {"Remove", "Delete", "Register", "Set"}
            => req[h].pc \in {"Remove", "Delete", "Register", "Set"},
         Departing(h)', Registering(h)',
         \A r \in RouteKeys : Doomed(h, r) => Doomed(h, r)'
  PROVE  One'
<1>1. GoesOn(h) /\ req'[h].o = req[h].o /\ req'[h].all = req[h].all /\ req'[h].left = req[h].left
  BY DEF Keeping, Holding
<1>2. Current(h)'
  BY <1>1, BusyFacts, CurrentGoesOn
<1>3. QED BY <1>2, StillStep DEF Fit

LEMMA RemovingStep ==
  ASSUME Base, One, scope.clients = 1, NEW h \in Handlers, Remove(h),
         req' = [req EXCEPT ![h].pc = "Delete", ![h].keys = RemovedKeys(h)]
  PROVE  One'
<1>1. /\ req[h].pc = "Remove" /\ HoldsApp(h) /\ ~At(h, "idle") /\ ~At(h, "GetApp") /\ At(h, "Remove")
      /\ Acts(h) /\ Still /\ UNCHANGED routes
      /\ req[h].op \in {"update", "stop", "delete", "domains", "remove"}
  BY UnchangedStill, OpsAre DEF Remove, At, HoldsApp, Acts, Routing, Base, Requests
<1>2. PICK keys \in SUBSET RouteKeys : keys = RemovedKeys(h)
  BY <1>1, KeysType
<1>3. req' = [req EXCEPT ![h].pc = "Delete", ![h].keys = keys]
  BY <1>2
<1>4. Keeping(h) /\ req'[h].pc = "Delete" /\ req'[h].keys = keys
  BY <1>3, TakesKeys DEF Base
<1>5. GoesOn(h) /\ req'[h].o = req[h].o /\ req'[h].left = req[h].left /\ req'[h].old = req[h].old
      /\ req'[h].op = req[h].op /\ req'[h].p = req[h].p
  BY <1>4 DEF Keeping, Holding, GoesOn
<1>6. PICK p \in Projects : p = req[h].p
  BY <1>1, BusyFacts
<1>7. AppsOf(p)' = AppsOf(p) /\ \A o \in AppsOf(p) : Hostname(o)' = Hostname(o)
  BY <1>1, StillSame
<1>8. ASSUME NEW r \in RouteKeys, Doomed(h, r)
      PROVE  Doomed(h, r)'
  <2>1. CASE r \in RemovedKeys(h)
    BY <1>2, <1>4, <2>1 DEF Doomed, At
  <2>2. ASSUME req[h].op = "domains", NEW o \in req[h].left, r \in RoutesFor(Hostname(o), req[h].old)
        PROVE  Doomed(h, r)'
    <3>1. Hostname(o)' = Hostname(o)
      BY <1>1, <1>6, <1>7, <2>2, BusyFacts
    <3>2. QED BY <1>4, <1>5, <2>2, <3>1 DEF Doomed, At, Serves, RoutesFor
  <2>3. QED BY <1>1, <1>8, <2>1, <2>2 DEF Doomed, At, Serves
<1>9. Registering(h)'
  BY <1>4 DEF Registering, At
<1>10. Departing(h)'
  <2>1. CASE req[h].op \notin {"delete", "remove"}
    BY <1>4, <1>5, <2>1, StaysAway
  <2>2. CASE req[h].op \in {"delete", "remove"}
    <3>1. keys = RoutesFor(Hostname(req[h].o), doms[p])
      BY <1>2, <1>6, <2>2 DEF RemovedKeys, Serves
    <3>2. Visited(h) \subseteq AppsOf(p)
      BY <1>1, <1>6, <2>2, BusyFacts, VisitedType
    <3>3. PICK V : V = Visited(h)
      OBVIOUS
    <3>4. V = Visited(h)'
      <4>1. CASE req[h].op = "delete"
        BY <1>5, <3>3, <4>1 DEF Visited, Serves
      <4>2. CASE req[h].op = "remove"
        BY <1>5, <1>1, <3>3, <4>2 DEF Visited, Serves, Still, AppsOf
      <4>3. QED BY <2>2, <4>1, <4>2
    <3>5. QED BY <1>1, <1>4, <1>5, <1>6, <3>1, <3>2, <3>3, <3>4, BusyFacts, StillDeparting DEF At
  <2>3. QED BY <2>1, <2>2
<1>11. QED BY <1>1, <1>4, <1>8, <1>9, <1>10, KeepingStep

LEMMA VisitedSame ==
  ASSUME Still, NEW h \in Handlers, Keeping(h), req[h].op \in {"delete", "remove"}
  PROVE  Visited(h)' = Visited(h)
<1>1. /\ req'[h].o = req[h].o /\ req'[h].left = req[h].left /\ req'[h].op = req[h].op
      /\ req'[h].p = req[h].p
  BY DEF Keeping, Holding, GoesOn
<1>2. CASE req[h].op = "delete"
  BY <1>1, <1>2 DEF Visited, Serves
<1>3. CASE req[h].op = "remove"
  BY <1>1, <1>3 DEF Visited, Serves, Still, AppsOf
<1>4. QED BY <1>2, <1>3

LEMMA KeepsDeparting ==
  ASSUME Base, One, Still, UNCHANGED routes, NEW h \in Handlers, ~At(h, "idle"), Keeping(h),
         req[h].op = "delete" => HoldsApp(h), req[h].pc \notin {"GetApp", "GetApps", "Remove"},
         req[h].pc = "Delete" => req[h].keys = {},
         req'[h].pc \in {"DestroyInstance", "DeleteProject"} => req[h].left = {}
  PROVE  Departing(h)'
<1>1. GoesOn(h) /\ req'[h].o = req[h].o /\ req'[h].left = req[h].left /\ req'[h].op = req[h].op
  BY DEF Keeping, Holding, GoesOn
<1>2. CASE req[h].op \notin {"delete", "remove"}
  <2>1. req'[h].op \notin {"delete", "remove"}
    BY <1>1, <1>2
  <2>2. QED BY <1>1, <2>1 DEF Departing
<1>3. CASE req[h].op \in {"delete", "remove"}
  <2>1. PICK V : V = Visited(h)
    OBVIOUS
  <2>2. V = Visited(h)'
    BY <1>3, <2>1, VisitedSame
  <2>3. V \subseteq AppsOf(req[h].p)
    BY <1>3, <2>1, BusyFacts, VisitedType
  <2>4. QED BY <1>1, <1>3, <2>1, <2>2, <2>3, BusyFacts, StillDeparting DEF At
<1>4. QED BY <1>2, <1>3

LEMMA KeepsDoomed ==
  ASSUME Base, One, Still, NEW h \in Handlers, ~At(h, "idle"), Keeping(h),
         req[h].pc \notin {"Remove", "GetApps"}, req[h].pc = "Delete" => req[h].keys = {},
         req[h].op = "domains" /\ req[h].pc \in {"RemoveNext", "Delete"} =>
            req[h].left = {} \/ req'[h].pc \in {"RemoveNext", "Remove", "Delete"},
         NEW r \in RouteKeys, Doomed(h, r)
  PROVE  Doomed(h, r)'
<1>1. /\ req'[h].left = req[h].left /\ req'[h].op = req[h].op /\ req'[h].p = req[h].p
      /\ req'[h].old = req[h].old
  BY DEF Keeping, Holding, GoesOn
<1>2. PICK o \in req[h].left :
        /\ req[h].op = "domains" /\ r \in RoutesFor(Hostname(o), req[h].old)
        /\ req[h].pc \in {"RemoveNext", "Delete"}
  BY DEF Doomed, At, Serves
<1>3. o \in AppsOf(req[h].p) /\ req[h].p \in Projects
  BY <1>2, BusyFacts
<1>4. Hostname(o)' = Hostname(o)
  BY <1>3, StillSame
<1>5. req'[h].pc \in {"RemoveNext", "Remove", "Delete"}
  BY <1>2
<1>6. QED BY <1>1, <1>2, <1>4, <1>5 DEF Doomed, At, Serves, RoutesFor

LEMMA RemovedStep ==
  ASSUME Base, One, scope.clients = 1, NEW h \in Handlers, Removed(h)
  PROVE  One'
<1>1. /\ req[h].pc = "Delete" /\ HoldsApp(h) /\ ~At(h, "idle") /\ ~At(h, "GetApp")
      /\ Acts(h) /\ Still /\ UNCHANGED routes /\ req[h].keys = {}
      /\ req[h].op \in {"update", "stop", "delete", "domains", "remove"}
  BY UnchangedStill, OpsAre DEF Removed, At, HoldsApp, Acts, Routing, Base, Requests
<1>2. PICK pc : pc = AfterRemoval(h)
  OBVIOUS
<1>3. \/ pc = "idle" /\ req[h].op \in {"update", "stop"}
      \/ pc = "GetAddress" /\ req[h].op = "update"
      \/ pc = "GetInstance" /\ req[h].op = "delete"
      \/ pc = "RemoveNext" /\ req[h].op \in {"domains", "remove"}
  BY <1>1, <1>2 DEF AfterRemoval, Serves
<1>4. CASE pc = "idle"
  <2>1. req'[h].pc = "idle"
    BY <1>2, <1>4, Answers DEF Removed, Base
  <2>2. \A r \in RouteKeys : ~Doomed(h, r)
    BY <1>1, <1>3, <1>4 DEF Doomed, At, Serves
  <2>3. QED BY <1>1, <2>1, <2>2, StillStep
<1>5. CASE pc # "idle"
  <2>1. pc \in Places
    BY <1>3, <1>5 DEF Places
  <2>2. Goto(h, pc)
    BY <1>2, <1>5 DEF Removed
  <2>3. Keeping(h) /\ req'[h].pc = pc
    BY <2>1, <2>2, Goes DEF Base
  <2>4. \A r \in RouteKeys : Doomed(h, r) => Doomed(h, r)'
    BY <1>1, <1>3, <1>5, <2>3, KeepsDoomed
  <2>5. Departing(h)'
    BY <1>1, <1>3, <2>3, KeepsDeparting
  <2>6. Registering(h)'
    BY <1>3, <2>3 DEF Registering, At
  <2>7. QED BY <1>1, <1>3, <2>3, <2>4, <2>5, <2>6, KeepingStep
<1>6. QED BY <1>4, <1>5

LEMMA RegisterStep ==
  ASSUME Base, One, scope.clients = 1, NEW h \in Handlers, Register(h)
  PROVE  One'
<1>1. /\ req[h].pc = "Register" /\ HoldsApp(h) /\ ~At(h, "idle") /\ ~At(h, "GetApp")
      /\ Acts(h) /\ Still /\ UNCHANGED <<routes, obj, doms>>
      /\ req[h].op \in {"deploy", "update", "domains"}
  BY UnchangedStill, OpsAre DEF Register, At, HoldsApp, Acts, Routing, Base, Requests
<1>2. PICK keys \in SUBSET RouteKeys :
         keys = IF Routable(req[h].o) THEN RoutesFor(Hostname(req[h].o), doms[req[h].p]) ELSE {}
  BY <1>1, KeysType
<1>3. PICK to \in Backends \cup {None} :
         to = IF Routable(req[h].o) THEN <<addr[req[h].p], obj[req[h].o].port>> ELSE None
  <2>1. CASE Routable(req[h].o)
    <3>1. obj[req[h].o].port \in Ports
      BY <1>1, <2>1, HoldsOne DEF Routable, Apps
    <3>2. addr[req[h].p] \in Addrs \cup {None}
      BY <1>1, Serving DEF Base, TypeOK
    <3>3. QED BY <2>1, <3>1, <3>2 DEF Backends
  <2>2. QED BY <2>1
<1>4. req' = [req EXCEPT ![h].pc = "Set", ![h].keys = keys, ![h].to = to]
  BY <1>2, <1>3 DEF Register
<1>5. Keeping(h) /\ req'[h].pc = "Set" /\ req'[h].keys = keys
  BY <1>4, TakesRoutes DEF Base
<1>6. req'[h].o = req[h].o /\ req'[h].p = req[h].p
  BY <1>5 DEF Keeping, Holding, GoesOn
<1>7. Registering(h)'
  BY <1>1, <1>2, <1>5, <1>6 DEF Registering, RoutesFor, Hostname, Routable
<1>8. Departing(h)'
  BY <1>1, <1>5, KeepsDeparting
<1>9. \A r \in RouteKeys : ~Doomed(h, r)
  BY <1>1, DoomsNone
<1>10. QED BY <1>1, <1>5, <1>7, <1>8, <1>9, KeepingStep

\* Steps that go on with what the handler holds, where no route is doomed.
LEMMA GotoStep ==
  ASSUME Base, One, scope.clients = 1, NEW h \in Handlers, Acts(h), Still, UNCHANGED routes,
         HoldsApp(h) \/ req[h].op \in {"domains", "remove"}, req[h].op # "create",
         req[h].op = "delete" => HoldsApp(h),
         req[h].pc \notin {"idle", "GetApp", "GetApps", "Remove", "Delete"},
         req[h].op = "domains" /\ req[h].pc = "RemoveNext" => req[h].left = {},
         NEW pc \in Places, Goto(h, pc), pc # "Set",
         req[h].op \in {"domains", "remove"} => pc \notin {"Remove", "Delete", "Register"},
         pc \in {"DestroyInstance", "DeleteProject"} => req[h].left = {}
  PROVE  One'
<1>1. Keeping(h) /\ req'[h].pc = pc
  BY Goes DEF Base
<1>2. ~At(h, "idle") /\ ~At(h, "GetApp")
  BY DEF At
<1>3. \A r \in RouteKeys : Doomed(h, r) => Doomed(h, r)'
  BY <1>1, <1>2, KeepsDoomed
<1>4. Departing(h)'
  BY <1>1, <1>2, KeepsDeparting
<1>5. Registering(h)'
  BY <1>1 DEF Registering, At
<1>6. QED BY <1>1, <1>2, <1>3, <1>4, <1>5, KeepingStep

LEMMA AnswerStep ==
  ASSUME Base, One, scope.clients = 1, NEW h \in Handlers, Acts(h), Still, UNCHANGED routes,
         \A r \in RouteKeys : ~Doomed(h, r), Answer(h)
  PROVE  One'
<1>1. req'[h].pc = "idle"
  BY Answers DEF Base
<1>2. QED BY <1>1, StillStep

\* Without domains there is nothing to remove.
LEMMA RemoveStep ==
  ASSUME Base, One, scope.clients = 1, NEW h \in Handlers, Remove(h)
  PROVE  One'
<1>1. CASE req' = [req EXCEPT ![h].pc = "Delete", ![h].keys = RemovedKeys(h)]
  BY <1>1, RemovingStep
<1>2. CASE Serves(h, "update") /\ doms[req[h].p] = {} /\ Answer(h)
  <2>1. /\ At(h, "Remove") /\ req[h].op = "update" /\ RemovedKeys(h) = {}
        /\ Acts(h) /\ Still /\ UNCHANGED routes
    BY <1>2, UnchangedStill DEF Remove, Serves, Acts, Routing, RemovedKeys, RoutesFor
  <2>2. \A r \in RouteKeys : ~Doomed(h, r)
    BY <2>1 DEF Doomed, At, Serves
  <2>3. QED BY <1>2, <2>1, <2>2, AnswerStep
<1>3. QED BY <1>1, <1>2 DEF Remove

LEMMA RegisteredStep ==
  ASSUME Base, One, scope.clients = 1, NEW h \in Handlers, Registered(h)
  PROVE  One'
<1>1. /\ req[h].pc = "Set" /\ HoldsApp(h)
      /\ Acts(h) /\ Still /\ UNCHANGED routes /\ req[h].op \in {"deploy", "update", "domains"}
  BY UnchangedStill, OpsAre DEF Registered, At, HoldsApp, Acts, Routing, Base, Requests
<1>2. \A r \in RouteKeys : ~Doomed(h, r)
  BY <1>1, DoomsNone
<1>3. CASE Answer(h)
  BY <1>1, <1>2, <1>3, AnswerStep
<1>4. CASE ~Answer(h)
  <2>1. Goto(h, "RegisterNext") /\ "RegisterNext" \in Places
    BY <1>4 DEF Registered, Places
  <2>2. QED BY <1>1, <2>1, GotoStep
<1>5. QED BY <1>3, <1>4

\* To register, the handler starts again with the same apps.
LEMMA GetAddressStep ==
  ASSUME Base, One, scope.clients = 1, NEW h \in Handlers, GetAddress(h)
  PROVE  One'
<1>1. /\ req[h].pc = "GetAddress" /\ ~At(h, "idle") /\ ~At(h, "GetApp")
      /\ Acts(h) /\ Still /\ UNCHANGED routes /\ req[h].op \in {"update", "domains"}
  BY UnchangedStill, OpsAre DEF GetAddress, At, Acts, Routing, Base, Requests
<1>2. \A r \in RouteKeys : ~Doomed(h, r)
  BY <1>1, DoomsNone
<1>3. CASE Answer(h)
  BY <1>1, <1>2, <1>3, AnswerStep
<1>4. CASE ~Answer(h)
  <2>1. PICK pc : pc = IF Serves(h, "domains") THEN "RegisterNext" ELSE "Register"
    OBVIOUS
  <2>2. req' = [req EXCEPT ![h].left = req[h].all, ![h].pc = pc]
    BY <1>4, <2>1 DEF GetAddress
  <2>3. pc \in {"RegisterNext", "Register"} /\ (req[h].op = "domains" => pc = "RegisterNext")
    BY <2>1 DEF Serves
  <2>4. Holding(h) /\ req'[h].pc = pc /\ req'[h].all = req[h].all /\ req'[h].left = req[h].all
    BY <2>2, <2>3, TakesAll DEF Base
  <2>5. GoesOn(h) /\ req'[h].o = req[h].o
    BY <2>4 DEF Holding
  <2>6. Current(h)'
    BY <1>1, <2>3, <2>4, <2>5, BusyFacts, CurrentGoesOn
  <2>7. Departing(h)'
    BY <1>1, <2>3, <2>4, <2>5, StaysAway
  <2>8. Registering(h)'
    BY <2>3, <2>4 DEF Registering, At
  <2>9. QED BY <1>1, <1>2, <2>6, <2>7, <2>8, StillStep DEF Fit
<1>5. QED BY <1>3, <1>4

\* Commands to the VM leave tables and routes alone.
LEMMA CommandStep ==
  ASSUME Base, One, scope.clients = 1, NEW h \in Handlers, GetInstance(h) \/ Obeyed(h) \/ Failed(h)
  PROVE  One'
<1>1. /\ req[h].pc \in {"GetInstance", "Command"} /\ HoldsApp(h) /\ Acts(h)
      /\ UNCHANGED <<live, doms, apps, routes>>
      /\ req[h].op \in {"deploy", "stop", "delete"}
  BY OpsAre DEF GetInstance, Obeyed, Failed, At, HoldsApp, Acts, Base, Requests
<1>2. Still
  <2>1. CASE UNCHANGED obj
    BY <1>1, <2>1, UnchangedStill
  <2>2. CASE Obeyed(h)
    <3>1. Becomes(h, "deployed") \/ Becomes(h, "stopped") \/ Becomes(h, "new")
      BY <1>1, <2>2 DEF Obeyed, Serves
    <3>2. Rephased
      BY <1>1, <3>1, BecomesRephases
    <3>3. QED BY <1>1, <3>2, RephasedStill
  <2>3. QED BY <2>1, <2>2 DEF GetInstance, Failed
<1>3. \A r \in RouteKeys : ~Doomed(h, r)
  BY <1>1, DoomsNone
<1>4. CASE Answer(h)
  BY <1>1, <1>2, <1>3, <1>4, AnswerStep
<1>5. CASE ~Answer(h)
  <2>1. PICK pc \in {"Command", "DeleteApp", "Register", "Remove"} : Goto(h, pc)
    <3>1. CASE GetInstance(h)
      BY <1>5, <3>1 DEF GetInstance
    <3>2. CASE Obeyed(h)
      BY <1>1, <3>2 DEF Obeyed, Serves
    <3>3. CASE Failed(h)
      BY <1>5, <3>3 DEF Failed
    <3>4. QED BY <3>1, <3>2, <3>3
  <2>2. pc \in Places
    BY <2>1 DEF Places
  <2>3. QED BY <1>1, <1>2, <2>1, <2>2, GotoStep
<1>6. QED BY <1>4, <1>5

\* What was doomed under all apps of the project is doomed under those left.
LEMMA GetAppsStep ==
  ASSUME Base, One, scope.clients = 1, NEW h \in Handlers, GetApps(h)
  PROVE  One'
<1>1. /\ req[h].pc = "GetApps" /\ ~At(h, "idle") /\ Acts(h) /\ Still /\ UNCHANGED routes
      /\ req[h].op \in {"domains", "remove"}
  BY UnchangedStill, OpsAre DEF GetApps, At, Acts, Reconciles, Base, Requests
<1>2. PICK p \in Projects, O \in SUBSET Objs : p = req[h].p /\ O = AppsOf(p)
  BY <1>1, BusyFacts, AppsOfType DEF Base
<1>3. req' = [req EXCEPT ![h].pc = "RemoveNext", ![h].all = O, ![h].left = O]
  BY <1>2 DEF GetApps
<1>4. Holding(h) /\ req'[h].pc = "RemoveNext" /\ req'[h].all = O /\ req'[h].left = O
  BY <1>3, TakesApps DEF Base
<1>5. GoesOn(h) /\ req'[h].op = req[h].op /\ req'[h].p = p /\ req'[h].old = req[h].old
  BY <1>2, <1>4 DEF Holding, GoesOn
<1>6. AppsOf(p)' = AppsOf(p) /\ \A o \in AppsOf(p) : Hostname(o)' = Hostname(o)
  BY <1>1, StillSame
<1>7. ASSUME NEW r \in RouteKeys, Doomed(h, r)
      PROVE  Doomed(h, r)'
  <2>1. PICK o \in O : req[h].op = "domains" /\ r \in RoutesFor(Hostname(o), req[h].old)
    BY <1>1, <1>2, <1>7 DEF Doomed, At, Serves
  <2>2. Hostname(o)' = Hostname(o)
    BY <1>2, <1>6
  <2>3. QED BY <1>4, <1>5, <2>1, <2>2 DEF Doomed, At, Serves, RoutesFor
<1>8. Current(h)'
  BY <1>1, <1>2, <1>4, <1>5, BusyFacts, CurrentGoesOn
<1>9. Registering(h)'
  BY <1>4 DEF Registering, At
<1>10. Departing(h)'
  <2>1. req'[h].op \in {"delete", "remove"} => Visited(h)' = {}
    <3>1. AppsOf(req[h].p)' = O
      BY <1>1, <1>2, <1>5 DEF Still, AppsOf
    <3>2. QED BY <1>1, <1>4, <1>5, <3>1 DEF Visited, Serves
  <2>2. QED BY <1>4, <2>1 DEF Departing
<1>11. QED BY <1>1, <1>7, <1>8, <1>9, <1>10, StillStep DEF Fit

LEMMA NextAppStep ==
  ASSUME Base, One, scope.clients = 1, NEW h \in Handlers, NEW o \in Objs, NextApp(h, o)
  PROVE  One'
<1>1. /\ req[h].pc \in {"RemoveNext", "RegisterNext"} /\ ~At(h, "idle") /\ Acts(h) /\ Still
      /\ UNCHANGED routes /\ o \in req[h].left
      /\ req[h].op \in {"domains", "remove"} /\ (req[h].op = "remove" => req[h].pc = "RemoveNext")
  BY UnchangedStill, OpsAre DEF NextApp, At, Acts, Reconciles, Base, Requests
<1>2. /\ GoesOn(h) /\ req'[h].o = o
      /\ req'[h].pc = IF At(h, "RemoveNext") THEN "Remove" ELSE "Register"
      /\ req'[h].all = req[h].all /\ req'[h].left = req[h].left \ {o}
      /\ req'[h].old = req[h].old /\ req'[h].host = req[h].host
  BY TakesNext DEF Base
<1>3. PICK p \in Projects : p = req[h].p
  BY <1>1, BusyFacts
<1>4. req'[h].op = req[h].op /\ req'[h].p = p
  BY <1>2, <1>3 DEF GoesOn
<1>5. req[h].all \cup req[h].left \subseteq AppsOf(p)
  BY <1>1, <1>3, BusyFacts
<1>6. AppsOf(p)' = AppsOf(p) /\ \A x \in AppsOf(p) : Hostname(x)' = Hostname(x)
  BY <1>1, StillSame
<1>7. ASSUME NEW r \in RouteKeys, Doomed(h, r)
      PROVE  Doomed(h, r)'
  <2>1. PICK x \in req[h].left : /\ req[h].op = "domains" /\ req[h].pc = "RemoveNext"
                                 /\ r \in RoutesFor(Hostname(x), req[h].old)
    BY <1>1, <1>7 DEF Doomed, At, Serves
  <2>2. Hostname(x)' = Hostname(x)
    BY <1>5, <1>6
  <2>3. req'[h].pc = "Remove"
    BY <1>2, <2>1 DEF At
  <2>4. CASE x = o
    <3>1. r \in RemovedKeys(h)'
      BY <1>2, <1>4, <2>1, <2>2, <2>4 DEF RemovedKeys, RoutesFor, Serves
    <3>2. QED BY <2>3, <3>1 DEF Doomed, At
  <2>5. CASE x # o
    <3>1. x \in req'[h].left
      BY <1>2, <2>5
    <3>2. QED BY <1>2, <1>4, <2>1, <2>2, <2>3, <3>1 DEF Doomed, At, Serves, RoutesFor
  <2>6. QED BY <2>4, <2>5
<1>8. Current(h)'
  BY <1>1, <1>2, <1>3, <1>5, BusyFacts, CurrentGoesOn
<1>9. Registering(h)'
  BY <1>2 DEF Registering, At
<1>10. Departing(h)'
  <2>1. CASE req[h].op = "domains"
    BY <1>2, <2>1, StaysAway
  <2>2. CASE req[h].op = "remove"
    <3>1. PICK V : V = AppsOf(p) \ (req[h].left \ {o})
      OBVIOUS
    <3>2. V = Visited(h)'
      <4>1. AppsOf(req[h].p)' = AppsOf(p)
        BY <1>1, <1>4 DEF Still, AppsOf
      <4>2. QED BY <1>2, <1>4, <2>2, <3>1, <4>1 DEF Visited, Serves
    <3>3. req'[h].pc = "Remove"
      BY <1>1, <1>2, <2>2 DEF At
    <3>4. \A x \in V : x = o \/ x \in Visited(h)
      BY <1>3, <2>2, <3>1 DEF Visited, Serves
    <3>5. QED BY <1>1, <1>2, <1>3, <2>2, <3>1, <3>2, <3>3, <3>4, BusyFacts, StillDeparting DEF At
  <2>3. QED BY <1>1, <2>1, <2>2
<1>11. QED BY <1>1, <1>7, <1>8, <1>9, <1>10, StillStep DEF Fit

LEMMA LastAppStep ==
  ASSUME Base, One, scope.clients = 1, NEW h \in Handlers, LastApp(h)
  PROVE  One'
<1>1. /\ req[h].pc \in {"RemoveNext", "RegisterNext"} /\ Acts(h) /\ Still /\ UNCHANGED routes
      /\ req[h].left = {} /\ req[h].op \in {"domains", "remove"}
  BY UnchangedStill, OpsAre DEF LastApp, At, Acts, Reconciles, Base, Requests
<1>2. CASE At(h, "RegisterNext")
  <2>1. Answer(h)
    BY <1>2 DEF LastApp, At
  <2>2. \A r \in RouteKeys : ~Doomed(h, r)
    BY <1>2, DoomsNone DEF At
  <2>3. QED BY <1>1, <2>1, <2>2, AnswerStep
<1>3. CASE ~At(h, "RegisterNext")
  <2>1. PICK pc \in {"GetAddress", "DestroyInstance"} : Goto(h, pc)
    BY <1>1, <1>3 DEF LastApp, Serves
  <2>2. pc \in Places
    BY <2>1 DEF Places
  <2>3. QED BY <1>1, <2>1, <2>2, GotoStep
<1>4. QED BY <1>2, <1>3

LEMMA DestroyInstanceStep ==
  ASSUME Base, One, scope.clients = 1, NEW h \in Handlers, DestroyInstance(h)
  PROVE  One'
<1>1. /\ req[h].pc = "DestroyInstance" /\ ~At(h, "idle") /\ Acts(h) /\ UNCHANGED <<live, doms, apps, routes>>
      /\ req[h].op = "remove" /\ Goto(h, "DeleteProject") /\ "DeleteProject" \in Places
  BY OpsAre DEF DestroyInstance, At, Acts, Deletes, Base, Requests, Places
<1>2. Still
  BY <1>1, LostRephases, RephasedStill DEF DestroyInstance, Base
<1>3. req[h].left = {}
  BY <1>1, BusyFacts DEF Departing
<1>4. QED BY <1>1, <1>2, <1>3, GotoStep

\* One route of a loop.
LEMMA KeyStep ==
  ASSUME Base, One, scope.clients = 1, NEW h \in Handlers, NEW r \in RouteKeys,
         DeleteRoute(h, r) \/ SetRoute(h, r)
  PROVE  /\ Acts(h) /\ Still /\ Keeping(h) /\ Current(h)'
         /\ req'[h].pc = req[h].pc /\ req'[h].keys = req[h].keys \ {r}
         /\ req'[h].o = req[h].o /\ req'[h].op = req[h].op /\ req'[h].left = req[h].left
         /\ req'[h].p = req[h].p /\ req'[h].old = req[h].old
         /\ ~At(h, "idle") /\ HoldsApp(h) /\ UNCHANGED <<obj, doms>> /\ Distinct'
         /\ \A x \in RouteKeys \ {r} : routes'[x] = routes[x]
         /\ DeleteRoute(h, r) => routes'[r] = None
<1>1. /\ req[h].pc \in {"Delete", "Set"} /\ HoldsApp(h) /\ ~At(h, "idle") /\ Acts(h)
      /\ req' = [req EXCEPT ![h].keys = @ \ {r}]
      /\ UNCHANGED <<live, inst, doms, addr, apps, obj>>
      /\ req[h].op # "create"
  BY OpsAre DEF DeleteRoute, SetRoute, At, HoldsApp, Acts, Routing, Base, Requests
<1>2. Keeping(h) /\ req'[h].pc = req[h].pc /\ req'[h].keys = req[h].keys \ {r}
  BY <1>1, NextKey DEF Base
<1>3. /\ GoesOn(h) /\ req'[h].o = req[h].o /\ req'[h].op = req[h].op
      /\ req'[h].all = req[h].all /\ req'[h].left = req[h].left
      /\ req'[h].p = req[h].p /\ req'[h].old = req[h].old
  BY <1>2 DEF Keeping, Holding, GoesOn
<1>4. Still
  BY <1>1, UnchangedStill
<1>5. Current(h)'
  BY <1>1, <1>2, <1>3, <1>4, BusyFacts, CurrentGoesOn DEF At
<1>6. routes' = [routes EXCEPT ![r] = None] \/ routes' = [routes EXCEPT ![r] = req[h].to]
  BY DEF DeleteRoute, SetRoute
<1>7. DeleteRoute(h, r) => routes' = [routes EXCEPT ![r] = None]
  BY DEF DeleteRoute
<1>8. /\ \A x \in RouteKeys \ {r} : routes'[x] = routes[x]
      /\ DeleteRoute(h, r) => routes'[r] = None
  BY <1>6, <1>7 DEF Base, TypeOK
<1>9. QED BY <1>1, <1>2, <1>3, <1>4, <1>5, <1>8, StillSame DEF One

LEMMA DeleteRouteStep ==
  ASSUME Base, One, scope.clients = 1, NEW h \in Handlers, NEW r \in RouteKeys, DeleteRoute(h, r)
  PROVE  One'
<1>1. At(h, "Delete") /\ req[h].pc = "Delete"
  BY DEF DeleteRoute, At
<1>2. PICK p \in Projects : p = req[h].p
  BY KeyStep, BusyFacts
<1>3. \A x \in RouteKeys : routes'[x] # None => routes[x] # None /\ x # r
  BY KeyStep
<1>4. Registering(h)'
  BY <1>1, KeyStep DEF Registering, At
<1>5. ASSUME NEW x \in RouteKeys, routes'[x] # None
      PROVE  \/ \E q \in Projects, b \in AppNames : Owns(q, b, x)'
             \/ Doomed(h, x)'
  <2>1. CASE \E q \in Projects, b \in AppNames : Owns(q, b, x)
    BY <2>1, KeyStep, StillSame
  <2>2. CASE \E g \in Handlers : Doomed(g, x)
    <3>1. Doomed(h, x)
      BY <2>2, KeyStep, OthersIdle, IdleFits DEF One
    <3>2. CASE x \in req[h].keys
      <4>1. x \in req'[h].keys /\ req'[h].pc = "Delete"
        BY <1>1, <1>3, <1>5, <3>2, KeyStep
      <4>2. QED BY <4>1 DEF Doomed, At
    <3>3. ASSUME NEW o \in req[h].left, req[h].op = "domains", x \in RoutesFor(Hostname(o), req[h].old)
          PROVE  Doomed(h, x)'
      <4>1. Hostname(o)' = Hostname(o)
        BY KeyStep DEF Hostname
      <4>2. QED BY <1>1, <3>3, <4>1, KeyStep DEF Doomed, At, Serves, RoutesFor
    <3>4. QED BY <1>1, <3>1, <3>2, <3>3 DEF Doomed, At, Serves
  <2>3. QED BY <1>3, <1>5, <2>1, <2>2 DEF One, NoStray
<1>6. NoStray'
  BY <1>5 DEF NoStray
<1>7. Departing(h)'
  <2>1. CASE req[h].op \notin {"delete", "remove"}
    BY <1>1, <2>1, KeyStep DEF Departing
  <2>2. CASE req[h].op \in {"delete", "remove"}
    <3>1. PICK V : V = Visited(h)
      OBVIOUS
    <3>2. V = Visited(h)'
      BY <2>2, <3>1, KeyStep, VisitedSame
    <3>3. V \subseteq AppsOf(p) /\ V \subseteq Objs
      BY <1>2, <2>2, <3>1, KeyStep, BusyFacts, VisitedType
    <3>4. ASSUME NEW o \in V
          PROVE  \A x \in RoutesFor(Hostname(o)', doms'[p])
                       \ (IF req'[h].pc = "Delete" /\ o = req'[h].o THEN req'[h].keys ELSE {}) :
                    routes'[x] = None
      <4>1. Hostname(o)' = Hostname(o) /\ doms' = doms
        BY KeyStep DEF Hostname
      <4>2. Departing(h)
        BY KeyStep, BusyFacts
      <4>3. Cleared(p, o, IF o = req[h].o THEN req[h].keys ELSE {})
        BY <1>1, <1>2, <2>2, <3>1, <3>4, <4>2 DEF Departing, At
      <4>4. RoutesFor(Hostname(o), doms[p]) \subseteq RouteKeys
        <5>1. obj[o] \in Apps /\ doms[p] \in SUBSET Domains
          BY <3>3, <3>4, AppsOfType DEF Base, TypeOK, Reached, Used
        <5>2. QED BY <5>1 DEF RoutesFor, RouteKeys, Hostname, Apps
      <4>5. \A x \in RouteKeys : routes[x] = None => routes'[x] = None
        BY <1>3
      <4>6. routes'[r] = None /\ req'[h].keys = req[h].keys \ {r} /\ req'[h].o = req[h].o
            /\ req'[h].pc = "Delete"
        BY <1>1, KeyStep
      <4>7. QED BY <4>1, <4>3, <4>4, <4>5, <4>6 DEF Cleared
    <3>5. req'[h].p = p
      BY <1>2, KeyStep
    <3>6. req'[h].pc \notin {"DestroyInstance", "DeleteProject"}
      BY <1>1, KeyStep
    <3>7. QED BY <3>2, <3>4, <3>5, <3>6, DepartingGoesOn
  <2>3. QED BY <2>1, <2>2
<1>8. QED BY <1>4, <1>6, <1>7, KeyStep, OneStep DEF One, Fit

\* A route that is set is one its app asks for.
LEMMA SetRouteStep ==
  ASSUME Base, One, scope.clients = 1, NEW h \in Handlers, NEW r \in RouteKeys, SetRoute(h, r)
  PROVE  One'
<1>1. /\ At(h, "Set") /\ req[h].pc = "Set" /\ r \in req[h].keys /\ HoldsApp(h) /\ ~At(h, "idle")
      /\ req[h].op \in {"deploy", "update", "domains"}
  BY OpsAre DEF SetRoute, At, HoldsApp, Base, Requests
<1>2. PICK p \in Projects, o \in Objs : p = req[h].p /\ o = req[h].o
  BY <1>1, BusyFacts, HoldsOne
<1>3. o \in AppsOf(p) /\ p \in live
  BY <1>1, <1>2, BusyFacts DEF At
<1>4. PICK a \in AppNames : o = apps[p][a] /\ apps[p][a] # None
  BY <1>3, AppsOfType DEF Base
<1>5. Owns(p, a, r)
  <2>1. obj[o].avail /\ r \in RoutesFor(Hostname(o), doms[p])
    BY <1>1, <1>2, BusyFacts DEF Registering
  <2>2. QED BY <1>3, <1>4, <2>1 DEF Owns, RoutesFor
<1>6. \A x \in RouteKeys : ~Doomed(h, x)
  BY <1>1, DoomsNone
<1>7. ASSUME NEW x \in RouteKeys, routes'[x] # None
      PROVE  \E q \in Projects, b \in AppNames : Owns(q, b, x)'
  <2>1. CASE x = r
    BY <1>5, <2>1, KeyStep, StillSame
  <2>2. CASE x # r
    <3>1. routes[x] # None
      BY <1>7, <2>2, KeyStep
    <3>2. ~ \E g \in Handlers : Doomed(g, x)
      BY <1>6, KeyStep, OthersIdle, IdleFits DEF One
    <3>3. \E q \in Projects, b \in AppNames : Owns(q, b, x)
      BY <3>1, <3>2 DEF One, NoStray
    <3>4. QED BY <3>3, KeyStep, StillSame
  <2>3. QED BY <2>1, <2>2
<1>8. NoStray'
  BY <1>7 DEF NoStray
<1>9. Registering(h)'
  <2>1. \A x \in req'[h].keys : obj[o].avail /\ x \in RoutesFor(Hostname(o), doms[p])
    BY <1>1, <1>2, KeyStep, BusyFacts DEF Registering
  <2>2. QED BY <1>2, <2>1, KeyStep DEF Registering, Hostname, RoutesFor
<1>10. Departing(h)'
  BY <1>1, KeyStep DEF Departing
<1>11. QED BY <1>8, <1>9, <1>10, KeyStep, OneStep DEF One, Fit
-----------------------------------------------------------------------------
(* The rest of the world, and the theorems.                                  *)

\* Requests that wait while the world goes on.
LEMMA WaitingRequest ==
  ASSUME Base, Rephased, UNCHANGED <<live, doms, apps, routes, req>>,
         NEW h \in Handlers, ~At(h, "idle"), Fit(h)
  PROVE  Fit(h)' /\ \A r \in RouteKeys : Doomed(h, r) => Doomed(h, r)'
<1>1. ASSUME NEW o \in Objs, Used(o)
      PROVE  Hostname(o)' = Hostname(o) /\ obj'[o].avail = obj[o].avail
  BY <1>1 DEF Used, Rephased, Hostname
<1>2. req[h] \in Request
  BY DEF Base, TypeOK
<1>3. PICK p \in Projects : p = req[h].p
  BY Serving DEF Base
<1>4. HoldsApp(h) => req[h].o \in Objs /\ Used(req[h].o)
  BY <1>2 DEF Base, Requests, Reached, Request
<1>5. req[h].left \subseteq Objs /\ \A o \in req[h].left : Used(o)
  <2>1. \A o \in req[h].left : o \in Objs /\ o # None
    BY <1>2, NamesAssumption DEF Request
  <2>2. QED BY <2>1 DEF Base, Reached
<1>6. \A q \in Projects : \A o \in AppsOf(q) : o \in Objs /\ Used(o)
  BY AppsOfType DEF Base, Reached
<1>7. Current(h)'
  BY DEF Fit, Current, OnOneApp, Creating, App, At, Serves, AppsOf
<1>8. Registering(h)'
  <2>1. CASE At(h, "Set")
    <3>1. HoldsApp(h)
      BY <2>1 DEF HoldsApp, At
    <3>2. PICK o \in Objs : o = req[h].o /\ Used(o)
      BY <1>4, <3>1
    <3>3. \A r \in req[h].keys : obj[o].avail /\ r \in RoutesFor(Hostname(o), doms[p])
      BY <1>3, <2>1, <3>2 DEF Fit, Registering
    <3>4. Hostname(o)' = Hostname(o) /\ obj'[o].avail = obj[o].avail
      BY <1>1, <3>2
    <3>5. QED BY <1>3, <3>2, <3>3, <3>4 DEF Registering, RoutesFor
  <2>2. QED BY <2>1 DEF Registering, At
<1>9. Departing(h)'
  <2>1. req[h].pc \in {"DestroyInstance", "DeleteProject"} => req[h].left = {}
    BY DEF Fit, Departing
  <2>2. CASE /\ req[h].op \in {"delete", "remove"}
             /\ req[h].pc \notin {"idle", "GetApp", "GetApps"}
    <3>1. req[h].op = "delete" => HoldsApp(h)
      BY <2>2, OpsAre, <1>2 DEF Base, Requests, HoldsApp, Request
    <3>2. PICK V : V = Visited(h)
      OBVIOUS
    <3>3. V \subseteq AppsOf(p)
      BY <1>3, <2>2, <3>1, <3>2, VisitedType DEF Fit
    <3>4. V = Visited(h)'
      BY <3>2 DEF Visited, AppsOf, Serves
    <3>5. ASSUME NEW o \in V
          PROVE  \/ req[h].pc = "Remove" /\ o = req[h].o
                 \/ \A r \in RoutesFor(Hostname(o)', doms[p])
                       \ (IF req[h].pc = "Delete" /\ o = req[h].o THEN req[h].keys ELSE {}) :
                      routes[r] = None
      <4>1. Hostname(o)' = Hostname(o)
        BY <1>1, <1>6, <3>3
      <4>2. QED BY <1>3, <2>2, <3>2, <3>5, <4>1 DEF Fit, Departing, Cleared, At
    <3>6. QED BY <1>3, <2>1, <3>4, <3>5, DepartingGoesOn
  <2>3. QED BY <2>1, <2>2 DEF Departing
<1>10. ASSUME NEW r \in RouteKeys, Doomed(h, r)
       PROVE  Doomed(h, r)'
  <2>1. CASE At(h, "Remove") /\ r \in RemovedKeys(h)
    <3>1. PICK o \in Objs : o = req[h].o /\ Used(o)
      BY <1>4, <2>1 DEF HoldsApp, At
    <3>2. Hostname(o)' = Hostname(o)
      BY <1>1, <3>1
    <3>3. RemovedKeys(h)' = RemovedKeys(h)
      BY <3>1, <3>2 DEF RemovedKeys, RoutesFor, Serves
    <3>4. QED BY <2>1, <3>3 DEF Doomed, At
  <2>2. CASE At(h, "Delete") /\ r \in req[h].keys
    BY <2>2 DEF Doomed, At
  <2>3. ASSUME Serves(h, "domains"), At(h, "GetApps"),
               NEW o \in AppsOf(p), r \in RoutesFor(Hostname(o), req[h].old)
        PROVE  Doomed(h, r)'
    <3>1. Hostname(o)' = Hostname(o)
      BY <1>1, <1>6
    <3>2. o \in AppsOf(req[h].p)'
      BY <1>3 DEF AppsOf
    <3>3. QED BY <2>3, <3>1, <3>2 DEF Doomed, At, Serves, RoutesFor
  <2>4. ASSUME Serves(h, "domains"), req[h].pc \in {"RemoveNext", "Remove", "Delete"},
               NEW o \in req[h].left, r \in RoutesFor(Hostname(o), req[h].old)
        PROVE  Doomed(h, r)'
    <3>1. Hostname(o)' = Hostname(o)
      BY <1>1, <1>5
    <3>2. QED BY <2>4, <3>1 DEF Doomed, At, Serves, RoutesFor
  <2>5. QED BY <1>3, <1>10, <2>1, <2>2, <2>3, <2>4 DEF Doomed, At
<1>11. QED BY <1>7, <1>8, <1>9, <1>10 DEF Fit

\* A VM that boots, and a step that changes nothing.
LEMMA WaitingStep ==
  ASSUME Base, One, Rephased, UNCHANGED <<live, doms, apps, routes, req>>
  PROVE  One'
<1>1. Still
  BY RephasedStill
<1>2. Alone' /\ Distinct'
  BY <1>1, StillSame DEF One, Alone, At
<1>3. ASSUME NEW h \in Handlers
      PROVE  Fit(h)' /\ \A r \in RouteKeys : Doomed(h, r) => Doomed(h, r)'
  <2>1. CASE At(h, "idle")
    <3>1. req[h].pc = "idle" /\ req'[h].pc = "idle"
      BY <2>1 DEF At
    <3>2. Fit(h)'
      BY <3>1 DEF Fit, Current, OnOneApp, Creating, Departing, Registering, At, Serves
    <3>3. QED BY <3>1, <3>2, IdleFits
  <2>2. CASE ~At(h, "idle")
    BY <2>2, WaitingRequest DEF One
  <2>3. QED BY <2>1, <2>2
<1>4. ASSUME NEW r \in RouteKeys, routes'[r] # None
      PROVE  \/ \E p \in Projects, a \in AppNames : Owns(p, a, r)'
             \/ \E h \in Handlers : Doomed(h, r)'
  <2>1. \/ \E p \in Projects, a \in AppNames : Owns(p, a, r)
        \/ \E h \in Handlers : Doomed(h, r)
    BY <1>4 DEF One, NoStray
  <2>2. QED BY <1>1, <1>3, <2>1, StillSame
<1>5. NoStray'
  BY <1>4 DEF NoStray
<1>6. QED BY <1>2, <1>3, <1>5 DEF One

\* A server that restarts makes routes for the apps that ask for them only.
LEMMA RestartStep ==
  ASSUME Base, One, ServerRestarts
  PROVE  One'
<1>1. /\ \A h \in Handlers : req[h].pc = "idle" /\ req'[h].pc = "idle"
      /\ UNCHANGED <<live, inst, doms, addr, apps, obj, req>>
      /\ \A r \in RouteKeys : Rebuilt(r) = {} => routes'[r] = None
  BY DEF ServerRestarts, At
<1>2. Still
  BY <1>1, UnchangedStill
<1>3. ASSUME NEW r \in RouteKeys, routes'[r] # None
      PROVE  \E p \in Projects, a \in AppNames : Owns(p, a, r)'
  <2>1. Rebuilt(r) # {}
    BY <1>1, <1>3
  <2>2. PICK p \in {q \in live \cap inst : addr[q] # None /\ r[2] \in doms[q]} :
               {o \in AppsOf(p) : Routable(o) /\ Hostname(o) = r[1]} # {}
    BY <2>1 DEF Rebuilt
  <2>3. PICK o \in AppsOf(p) : Routable(o) /\ Hostname(o) = r[1]
    BY <2>2
  <2>4. p \in Projects /\ p \in live /\ r[2] \in doms[p]
    BY <2>2 DEF Base, TypeOK
  <2>5. PICK a \in AppNames : apps[p][a] = o /\ o # None
    BY <2>3 DEF AppsOf
  <2>6. Owns(p, a, r)
    BY <2>3, <2>4, <2>5 DEF Owns, Routable
  <2>7. QED BY <1>2, <2>4, <2>6, StillSame
<1>4. NoStray'
  BY <1>3 DEF NoStray
<1>5. \A h \in Handlers : Fit(h)'
  BY <1>1 DEF Fit, Current, OnOneApp, Creating, Departing, Registering, At, Serves
<1>6. Alone' /\ Distinct'
  BY <1>1, <1>2, StillSame DEF One, Alone, At
<1>7. QED BY <1>4, <1>5, <1>6 DEF One

LEMMA InitOne == Init => One
<1> SUFFICES ASSUME Init PROVE One
  OBVIOUS
<1>1. \A h \in Handlers : req[h].pc = "idle"
  BY DEF Init, IdleReq
<1>2. Alone /\ \A h \in Handlers : Fit(h)
  BY <1>1, IdleFits DEF Alone, At
<1>3. NoStray
  BY DEF Init, NoStray
<1>4. PICK own \in [live \X scope.defined -> Objs] :
        /\ \A x, y \in DOMAIN own : own[x] = own[y] => x = y
        /\ apps = [p \in Projects |-> [a \in AppNames |->
                     IF p \in live /\ a \in scope.defined THEN own[<<p, a>>] ELSE None]]
  BY DEF Init
<1>5. ASSUME NEW p \in Projects, NEW q \in Projects, NEW a \in AppNames, NEW b \in AppNames,
             apps[p][a] # None, apps[p][a] = apps[q][b]
      PROVE  p = q /\ a = b
  <2>1. /\ <<p, a>> \in DOMAIN own /\ apps[p][a] = own[<<p, a>>]
        /\ <<q, b>> \in DOMAIN own /\ apps[q][b] = own[<<q, b>>]
    BY <1>4, <1>5
  <2>2. <<p, a>> = <<q, b>>
    BY <1>4, <1>5, <2>1
  <2>3. QED BY <2>2
<1>6. Distinct
  BY <1>5 DEF Distinct
<1>7. QED BY <1>2, <1>3, <1>6 DEF One

LEMMA NextOne ==
  ASSUME Base, One, scope.clients = 1, [Next]_vars
  PROVE  One'
<1>1. ASSUME NEW h \in Handlers, Acts(h)
      PROVE  One'
  <2>1. CASE Arrives(h)
    BY <2>1, ArrivalStep
  <2>2. CASE GetApp(h)
    BY <2>2, GetAppStep
  <2>3. CASE Defines(h)
    <3>1. PICK host \in Hostnames \cup {None}, avail \in BOOLEAN, port \in Ports \cup {None} :
                 \/ \E o \in Objs : CreateApp(h, o, host, avail, port)
                 \/ UpdateApp(h, host, avail, port)
      BY <2>3 DEF Defines
    <3>2. QED BY <3>1, CreateAppStep, UpdateAppStep
  <2>4. CASE SetApp(h)
    BY <2>4, SetAppStep
  <2>5. CASE GetInstance(h) \/ Obeyed(h) \/ Failed(h)
    BY <2>5, CommandStep
  <2>6. CASE Routing(h)
    BY <2>6, RemoveStep, RemovedStep, RegisterStep, RegisteredStep, DeleteRouteStep,
       SetRouteStep, GetAddressStep DEF Routing
  <2>7. CASE Reconciles(h)
    BY <2>7, UpdateDomainsStep, GetAppsStep, NextAppStep, LastAppStep DEF Reconciles
  <2>8. CASE Deletes(h)
    BY <2>8, DeleteAppStep, DestroyInstanceStep, DeleteProjectStep DEF Deletes
  <2>9. QED BY <1>1, <2>1, <2>2, <2>3, <2>4, <2>5, <2>6, <2>7, <2>8 DEF Acts
<1>2. ASSUME NEW p \in Projects, NEW ip \in Addrs, VMReady(p, ip)
      PROVE  One'
  <2>1. PICK gone : Lost(gone)
    BY <1>2 DEF VMReady
  <2>2. Rephased
    BY <2>1, LostRephases DEF Base
  <2>3. QED BY <1>2, <2>2, WaitingStep DEF VMReady
<1>3. CASE UNCHANGED vars
  <2>1. Rephased
    BY <1>3 DEF vars, Rephased, Base, TypeOK
  <2>2. QED BY <1>3, <2>1, WaitingStep DEF vars
<1>4. CASE Next
  <2>1. \/ \E h \in Handlers : Acts(h)
        \/ \E p \in Projects, ip \in Addrs : VMReady(p, ip)
        \/ ServerRestarts
    BY <1>4 DEF Next, Acts
  <2>2. QED BY <1>1, <1>2, <2>1, RestartStep
<1>5. QED BY <1>3, <1>4

-----------------------------------------------------------------------------
(* Requests that keep routes up.                                             *)

Steady == /\ live \subseteq scope.projects /\ live \subseteq inst
          /\ \A p \in live : addr[p] # None
          /\ Named /\ \A h \in Handlers : Working(h)

\* The app a handler holds is one of its project, and the hostname its own.
LEMMA Holder ==
  ASSUME Base, Steady, NEW h \in Handlers, HoldsApp(h)
  PROVE  \E p \in live, a \in AppNames :
            /\ p = req[h].p /\ p \in Projects /\ req[h].o = apps[p][a] /\ req[h].o \in AppsOf(p)
            /\ req[h].o \in Objs /\ obj[req[h].o] \in Apps
            /\ obj[req[h].o].name = a /\ Hostname(req[h].o) \in HostsOf(a)
            /\ req[h].op # "domains" => a = req[h].a
<1>1. ~At(h, "idle") /\ req[h].o \in Objs /\ obj[req[h].o] \in Apps /\ req[h].o # None
  BY HoldsOne DEF Base, Requests
<1>2. Working(h) /\ req[h].op \in {"deploy", "update", "domains"} /\ req[h].p \in live
  BY <1>1 DEF Steady, Working
<1>3. req[h].p \in Projects /\ req[h].a \in AppNames
  BY <1>1, Serving DEF Base
<1>4. CASE req[h].op = "domains"
  <2>1. req[h].pc \in {"Remove", "Delete", "Register", "Set"}
    <3>1. req[h].op \in OpsAt(req[h].pc)
      BY DEF Base, Requests
    <3>2. QED BY <1>4, <3>1, OpsAre DEF HoldsApp, At, Serves
  <2>2. req[h].o \in AppsOf(req[h].p)
    BY <1>1, <1>2, <1>4, <2>1 DEF Working, Serves
  <2>3. PICK a \in AppNames : req[h].o = apps[req[h].p][a]
    BY <1>3, <2>2, AppsOfType DEF Base
  <2>4. obj[req[h].o].name = a /\ Hostname(req[h].o) \in HostsOf(a)
    BY <1>1, <1>2, <2>3 DEF Steady, Named
  <2>5. QED BY <1>1, <1>2, <1>3, <1>4, <2>2, <2>3, <2>4
<1>5. CASE req[h].op # "domains"
  <2>1. req[h].o = apps[req[h].p][req[h].a]
    BY <1>1, <1>2, <1>5 DEF Working, OnOneApp, HoldsApp, At, App
  <2>2. req[h].o \in AppsOf(req[h].p)
    BY <1>1, <1>3, <2>1, AppsOfType DEF Base
  <2>3. obj[req[h].o].name = req[h].a /\ Hostname(req[h].o) \in HostsOf(req[h].a)
    BY <1>1, <1>2, <1>3, <2>1 DEF Steady, Named
  <2>4. QED BY <1>1, <1>2, <1>3, <2>1, <2>2, <2>3
<1>6. QED BY <1>4, <1>5

\* What such a step leaves alone.
Lasts == /\ UNCHANGED <<scope, live, inst, addr, apps>>
         /\ \A o \in Objs : obj'[o].name = obj[o].name

LEMMA OthersWork ==
  ASSUME Base, Steady, Lasts, NEW h \in Handlers, Turns(h), NEW g \in Handlers, g # h
  PROVE  Working(g)'
<1>1. req'[g] = req[g] /\ Working(g)
  BY DEF Turns, Steady
<1>2. UNCHANGED <<scope, live, inst, addr, apps>>
  BY DEF Lasts
<1>3. req[g].pc \in {"Delete", "Set"} => obj'[req[g].o].name = obj[req[g].o].name
  <2>1. req[g].pc \in {"Delete", "Set"} => req[g].o \in Objs
    BY HoldsOne DEF HoldsApp, At
  <2>2. QED BY <2>1 DEF Lasts
<1>4. QED BY <1>1, <1>2, <1>3 DEF Working, At, Serves, OnOneApp, App, AppsOf, HostsOf

LEMMA SteadyStep ==
  ASSUME Base, Steady, Lasts, Named', NEW h \in Handlers, Turns(h), Working(h)'
  PROVE  Steady'
<1>1. \A g \in Handlers : Working(g)'
  BY OthersWork
<1>2. UNCHANGED <<scope, live, inst, addr, apps>>
  BY DEF Lasts
<1>3. QED BY <1>1, <1>2 DEF Steady

\* Nothing happens to the apps.
LEMMA SameObjects ==
  ASSUME Steady, UNCHANGED <<scope, live, inst, addr, apps, obj>>
  PROVE  Lasts /\ Named'
BY DEF Lasts, Steady, Named, Hostname, HostsOf

LEMMA IdleWorks ==
  ASSUME NEW h \in Handlers, req[h].pc = "idle"
  PROVE  Working(h) /\ \A o, r : ~Owes(h, o, r)
BY DEF Working, Owes, At

Up == Steady /\ RoutedOrOwed

\* What such a step leaves alone, and the project it is about.
LEMMA OneProject ==
  ASSUME Base, Apart, Steady, NEW h \in Handlers, ~At(h, "idle")
  PROVE  /\ req[h].op \in {"deploy", "update", "domains"} /\ req[h].op \in OpsAt(req[h].pc)
         /\ req[h].p \in live /\ req[h].p \in Projects /\ req[h].a \in AppNames
         /\ addr[req[h].p] # None /\ req[h].p \in inst
         /\ \A p \in live : p = req[h].p
<1>1. Working(h) /\ req[h].p \in Projects /\ req[h].a \in AppNames /\ req[h].op \in OpsAt(req[h].pc)
  BY Serving DEF Base, Steady
<1>2. req[h].op \in {"deploy", "update", "domains"} /\ req[h].p \in live
  BY <1>1 DEF Working
<1>3. QED BY <1>1, <1>2 DEF Steady, Apart

\* An app has its route, or this handler owes it.
Due(h, p, o, d) == RightRoute(p, o, d) \/ Owes(h, o, <<Hostname(o), d>>)

LEMMA UpStep ==
  ASSUME Base, Up, Lasts, Named', NEW h \in Handlers, Turns(h), Working(h)',
         \A p \in live : \A o \in AppsOf(p), d \in Domains :
            Deployed(p, o, d)' =>
               \/ Due(h, p, o, d)'
               \/ Deployed(p, o, d) /\ Hostname(o)' = Hostname(o) /\ ~Due(h, p, o, d)
  PROVE  Up'
<1>1. Steady'
  BY SteadyStep DEF Up
<1>2. UNCHANGED <<live, apps>>
  BY DEF Lasts
<1>3. ASSUME NEW p \in live, NEW a \in AppNames, NEW d \in Domains, NEW o, o = apps[p][a],
             Deployed(p, o, d)'
      PROVE  RightRoute(p, o, d)' \/ \E g \in Handlers : Owes(g, o, <<Hostname(o), d>>)'
  <2>1. o \in AppsOf(p)
    <3>1. p \in Projects
      BY DEF Base, TypeOK
    <3>2. QED BY <1>3, <3>1, AppsOfType DEF Base, Deployed
  <2>2. CASE Due(h, p, o, d)'
    BY <2>2 DEF Due
  <2>3. CASE Deployed(p, o, d) /\ Hostname(o)' = Hostname(o) /\ ~Due(h, p, o, d)
    <3>1. PICK g \in Handlers : Owes(g, o, <<Hostname(o), d>>)
      BY <1>3, <2>3 DEF Up, RoutedOrOwed, Due
    <3>2. g # h
      BY <2>3, <3>1 DEF Due
    <3>3. req'[g] = req[g]
      BY <3>2 DEF Turns
    <3>4. Owes(g, o, <<Hostname(o), d>>)'
      BY <2>3, <3>1, <3>3 DEF Owes, At, Serves
    <3>5. QED BY <3>4
  <2>4. QED BY <1>3, <2>1, <2>2, <2>3
<1>4. RoutedOrOwed'
  BY <1>2, <1>3 DEF RoutedOrOwed
<1>5. QED BY <1>1, <1>4 DEF Up

\* A step that changes but the request.
LEMMA RequestStep ==
  ASSUME Base, Up, UNCHANGED <<scope, live, inst, doms, addr, apps, obj, routes>>,
         NEW h \in Handlers, Turns(h), Working(h)',
         \A p \in live : \A o \in AppsOf(p), d \in doms[p] : Routable(o) =>
            \A r : r = <<Hostname(o), d>> /\ Owes(h, o, r) => Owes(h, o, r)'
  PROVE  Up'
<1>1. Lasts /\ Named'
  BY SameObjects DEF Up
<1>2. ASSUME NEW p \in live, NEW o \in AppsOf(p), NEW d \in Domains, Deployed(p, o, d)'
      PROVE  \/ Due(h, p, o, d)'
             \/ Deployed(p, o, d) /\ Hostname(o)' = Hostname(o) /\ ~Due(h, p, o, d)
  <2>1. Deployed(p, o, d) /\ Hostname(o)' = Hostname(o)
    BY <1>2 DEF Deployed, Routable, Hostname
  <2>2. RightRoute(p, o, d) => RightRoute(p, o, d)'
    BY DEF RightRoute, Hostname
  <2>3. d \in doms[p] /\ Routable(o)
    BY <2>1 DEF Deployed
  <2>4. \A r : r = <<Hostname(o), d>> /\ Owes(h, o, r) => Owes(h, o, r)'
    BY <2>3
  <2>5. PICK r : r = <<Hostname(o), d>>
    OBVIOUS
  <2>6. Owes(h, o, r) => Owes(h, o, r)'
    BY <2>4, <2>5
  <2>7. r = <<Hostname(o)', d>>
    BY <2>1, <2>5
  <2>8. Due(h, p, o, d) => Due(h, p, o, d)'
    BY <2>2, <2>5, <2>6, <2>7 DEF Due, Owes
  <2>9. QED BY <2>1, <2>8
<1>3. QED BY <1>1, <1>2, UpStep

\* A request that owes nothing is answered.
LEMMA AnswerUp ==
  ASSUME Base, Up, UNCHANGED <<scope, live, inst, doms, addr, apps, obj, routes>>,
         NEW h \in Handlers, Answer(h),
         \A p \in live : \A o \in AppsOf(p), d \in doms[p] :
            Routable(o) => ~Owes(h, o, <<Hostname(o), d>>)
  PROVE  Up'
<1>1. Turns(h) /\ req'[h].pc = "idle"
  BY Answers DEF Base
<1>2. Working(h)'
  BY <1>1 DEF Working, At
<1>3. QED BY <1>1, <1>2, RequestStep

LEMMA ArrivalUp ==
  ASSUME Base, Apart, Up, scope' = scope, NEW h \in Handlers, Arrives(h)
  PROVE  Up'
<1>1. PICK op \in scope.ops, p \in Projects, a \in AppNames : Receive(h, op, p, a)
  BY DEF Arrives
<1>2. op \in {"deploy", "update", "domains"} /\ op \in AllOps
  BY DEF Apart, AllOps
<1>3. /\ Turns(h) /\ req'[h].op = op /\ req'[h].p = p /\ req'[h].left = {}
      /\ req'[h].pc = CASE op = "domains" -> "UpdateDomains"
                        [] op = "remove"  -> "GetApps"
                        [] OTHER          -> "GetApp"
  BY <1>1, <1>2, Received DEF Base
<1>4. /\ op = "domains" => req'[h].pc = "UpdateDomains"
      /\ op # "domains" => req'[h].pc = "GetApp"
  BY <1>2, <1>3
<1>5. p \in live /\ req[h].pc = "idle" /\ UNCHANGED <<live, inst, doms, addr, apps, obj, routes>>
  BY <1>1 DEF Receive, At
<1>6. Working(h)'
  BY <1>2, <1>3, <1>4, <1>5 DEF Working, At, Serves, OnOneApp
<1>7. \A o, r : ~Owes(h, o, r)
  BY <1>5, IdleWorks
<1>8. QED BY <1>3, <1>5, <1>6, <1>7, RequestStep

\* A handler that comes to its app owes nothing.
LEMMA OwesNothing ==
  ASSUME NEW h \in Handlers, ~Serves(h, "domains"),
         req[h].pc \in {"GetApp", "SetApp", "Update", "GetInstance", "Command"}
  PROVE  \A o, r : ~Owes(h, o, r)
BY DEF Owes, At, Serves

LEMMA GetAppUp ==
  ASSUME Base, Apart, Up, scope' = scope, NEW h \in Handlers, GetApp(h)
  PROVE  Up'
<1>1. /\ req[h].pc = "GetApp" /\ ~At(h, "idle")
      /\ UNCHANGED <<live, inst, doms, addr, apps, obj, routes>>
  BY DEF GetApp, At
<1>2. req[h].op \in {"deploy", "update"} /\ req[h].p \in live /\ App(h) \in Objs \cup {None}
  BY <1>1, OneProject, OpsAre, Serving DEF Up, Base
<1>3. \A o, r : ~Owes(h, o, r)
  BY <1>1, <1>2, OwesNothing DEF Serves
<1>4. CASE Answer(h)
  BY <1>1, <1>3, <1>4, AnswerUp
<1>5. CASE ~Answer(h)
  <2>1. App(h) \in Objs
    BY <1>2, <1>5 DEF GetApp
  <2>2. PICK pc \in CASE Serves(h, "deploy") -> {"SetApp", "GetInstance"}
                      [] Serves(h, "update") -> {"Update"}
                      [] Serves(h, "stop")   -> {"GetInstance"}
                      [] Serves(h, "delete") -> {"Remove"} :
             req' = [req EXCEPT ![h].pc = pc, ![h].o = App(h)]
    BY <1>5 DEF GetApp
  <2>3. pc \in {"SetApp", "GetInstance", "Update"} /\ pc \in Places
    BY <1>2, <2>2 DEF Serves, Places
  <2>4. GoesOn(h) /\ req'[h].pc = pc /\ req'[h].o = App(h)
    <3>1. TypeOK /\ Taken(h, pc, App(h))
      BY <2>2 DEF Base, Taken
    <3>2. QED BY <2>1, <2>3, <3>1, Takes
  <2>5. /\ Turns(h) /\ req'[h].op = req[h].op /\ req'[h].p = req[h].p /\ req'[h].a = req[h].a
    BY <2>4 DEF GoesOn
  <2>6. Working(h)'
    BY <1>1, <1>2, <2>3, <2>4, <2>5 DEF Working, At, Serves, OnOneApp, App
  <2>7. QED BY <1>1, <1>3, <2>5, <2>6, RequestStep
<1>6. QED BY <1>4, <1>5

LEMMA SetAppUp ==
  ASSUME Base, Apart, Up, scope' = scope, NEW h \in Handlers, SetApp(h)
  PROVE  Up'
<1>1. /\ req[h].pc = "SetApp" /\ ~At(h, "idle")
      /\ UNCHANGED <<live, inst, doms, addr, obj, routes>>
      /\ apps' = [apps EXCEPT ![req[h].p][req[h].a] = req[h].o]
  BY DEF SetApp, At
<1>2. req[h].op = "deploy" /\ req[h].p \in live /\ req[h].p \in Projects /\ req[h].a \in AppNames
  BY <1>1, OneProject, OpsAre DEF Up
<1>3. req[h].o = App(h)
  BY <1>1, <1>2 DEF Up, Steady, Working, OnOneApp, At
<1>4. apps' = apps
  BY <1>1, <1>2, <1>3, SameEntry DEF Base, TypeOK, App
<1>5. Goto(h, "GetInstance")
  BY <1>2 DEF SetApp, Serves
<1>6. Keeping(h) /\ req'[h].pc = "GetInstance"
  BY <1>5, Goes DEF Base, Places
<1>7. Turns(h) /\ req'[h].op = req[h].op /\ req'[h].p = req[h].p /\ req'[h].a = req[h].a
      /\ req'[h].o = req[h].o
  BY <1>6 DEF Keeping, Holding, GoesOn
<1>8. Working(h)'
  BY <1>1, <1>2, <1>3, <1>4, <1>6, <1>7 DEF Working, At, Serves, OnOneApp, App
<1>9. \A o, r : ~Owes(h, o, r)
  BY <1>1, <1>2, OwesNothing DEF Serves
<1>10. QED BY <1>1, <1>4, <1>7, <1>8, <1>9, RequestStep

\* A deployment that goes to its VM, or does not.
LEMMA CommandUp ==
  ASSUME Base, Apart, Up, scope' = scope, NEW h \in Handlers, GetInstance(h) \/ Failed(h)
  PROVE  Up'
<1>1. /\ req[h].pc \in {"GetInstance", "Command"} /\ ~At(h, "idle")
      /\ UNCHANGED <<live, inst, doms, addr, apps, obj, routes>>
  BY DEF GetInstance, Failed, At
<1>2. req[h].op = "deploy" /\ req[h].p \in live
  BY <1>1, OneProject, OpsAre DEF Up
<1>3. \A o, r : ~Owes(h, o, r)
  BY <1>1, <1>2, OwesNothing DEF Serves
<1>4. CASE Answer(h)
  BY <1>1, <1>3, <1>4, AnswerUp
<1>5. CASE Goto(h, "Command")
  <2>1. Keeping(h) /\ req'[h].pc = "Command"
    BY <1>5, Goes DEF Base, Places
  <2>2. Turns(h) /\ req'[h].op = req[h].op /\ req'[h].p = req[h].p /\ req'[h].a = req[h].a
        /\ req'[h].o = req[h].o
    BY <2>1 DEF Keeping, Holding, GoesOn
  <2>3. req[h].o = App(h)
    BY <1>1, <1>2 DEF Up, Steady, Working, OnOneApp, At
  <2>4. Working(h)'
    BY <1>1, <1>2, <2>1, <2>2, <2>3 DEF Working, At, Serves, OnOneApp, App
  <2>5. QED BY <1>1, <1>3, <2>2, <2>4, RequestStep
<1>6. Answer(h) \/ Goto(h, "Command")
  BY <1>2 DEF GetInstance, Failed, Serves
<1>7. QED BY <1>4, <1>5, <1>6

\* A step that changes one app's object, its name apart.
LEMMA ObjectStep ==
  ASSUME Base, Up, UNCHANGED <<scope, live, inst, doms, addr, apps, routes>>,
         NEW h \in Handlers, Turns(h), Working(h)', \A o, r : ~Owes(h, o, r),
         NEW x \in Objs, \A o \in Objs \ {x} : obj'[o] = obj[o],
         obj'[x].name = obj[x].name, Hostname(x)' \in HostsOf(obj[x].name),
         \/ \A r : Owes(h, x, r)'
         \/ obj'[x].phase = "deployed" => obj'[x] = obj[x]
  PROVE  Up'
<1>1. Lasts
  BY DEF Lasts
<1>2. ASSUME NEW p \in live, NEW a \in AppNames, NEW o, o = apps[p][a], o # None
      PROVE  obj'[o].name = a /\ Hostname(o)' \in HostsOf(a)
  <2>1. obj[o].name = a /\ Hostname(o) \in HostsOf(a)
    BY <1>2 DEF Up, Steady, Named
  <2>2. CASE o = x
    BY <2>1, <2>2
  <2>3. CASE o # x
    <3>1. o \in Objs
      BY <1>2 DEF Base, TypeOK
    <3>2. obj'[o] = obj[o]
      BY <2>3, <3>1
    <3>3. QED BY <2>1, <3>2 DEF Hostname
  <2>4. QED BY <2>2, <2>3
<1>3. Named'
  BY <1>2 DEF Named, HostsOf
<1>4. ASSUME NEW p \in live, NEW o \in AppsOf(p), NEW d \in Domains, Deployed(p, o, d)'
      PROVE  \/ Due(h, p, o, d)'
             \/ Deployed(p, o, d) /\ Hostname(o)' = Hostname(o) /\ ~Due(h, p, o, d)
  <2>1. CASE obj'[o] = obj[o]
    <3>1. Deployed(p, o, d) /\ Hostname(o)' = Hostname(o)
      BY <1>4, <2>1 DEF Deployed, Routable, Hostname
    <3>2. RightRoute(p, o, d) => RightRoute(p, o, d)'
      BY <2>1 DEF RightRoute, Hostname
    <3>3. QED BY <3>1, <3>2 DEF Due
  <2>2. CASE obj'[o] # obj[o]
    <3>1. o \in Objs
      BY AppsOfType DEF Base, TypeOK
    <3>2. o = x
      BY <2>2, <3>1
    <3>3. obj'[x].phase = "deployed"
      BY <1>4, <3>2 DEF Deployed
    <3>4. \A r : Owes(h, o, r)'
      BY <2>2, <3>2, <3>3
    <3>5. QED BY <3>4 DEF Due
  <2>3. QED BY <2>1, <2>2
<1>5. QED BY <1>1, <1>3, <1>4, UpStep

\* The VM deploys the app: its routes are set next.
LEMMA ObeyedUp ==
  ASSUME Base, Apart, Up, scope' = scope, NEW h \in Handlers, Obeyed(h)
  PROVE  Up'
<1>1. /\ req[h].pc = "Command" /\ ~At(h, "idle") /\ HoldsApp(h)
      /\ UNCHANGED <<live, inst, doms, addr, apps, routes>>
  BY DEF Obeyed, At, HoldsApp
<1>2. req[h].op = "deploy" /\ req[h].p \in live
  BY <1>1, OneProject, OpsAre DEF Up
<1>3. Goto(h, "Register") /\ Becomes(h, "deployed")
  BY <1>2 DEF Obeyed, Serves
<1>4. Keeping(h) /\ req'[h].pc = "Register"
  BY <1>3, Goes DEF Base, Places
<1>5. Turns(h) /\ req'[h].op = req[h].op /\ req'[h].p = req[h].p /\ req'[h].a = req[h].a
      /\ req'[h].o = req[h].o
  BY <1>4 DEF Keeping, Holding, GoesOn
<1>6. req[h].o = App(h)
  BY <1>1, <1>2 DEF Up, Steady, Working, OnOneApp, At
<1>7. Working(h)'
  BY <1>1, <1>2, <1>4, <1>5, <1>6 DEF Working, At, Serves, OnOneApp, App
<1>8. \A o, r : ~Owes(h, o, r)
  BY <1>1, <1>2, OwesNothing DEF Serves
<1>9. PICK x \in Objs : x = req[h].o /\ obj[x] \in Apps /\ Hostname(x) \in HostsOf(obj[x].name)
  BY <1>1, Holder DEF Up
<1>10. \A r : Owes(h, x, r)'
  BY <1>4, <1>5, <1>9 DEF Owes, At
<1>11. /\ \A o \in Objs \ {x} : obj'[o] = obj[o]
       /\ obj'[x].name = obj[x].name /\ obj'[x].host = obj[x].host
  <2> DEFINE y == [obj[x] EXCEPT !.phase = "deployed"]
  <2>1. y.name = obj[x].name /\ y.host = obj[x].host
    BY <1>9, PhaseOf
  <2>2. obj' = [obj EXCEPT ![x] = y]
    BY <1>3, <1>9 DEF Becomes
  <2> HIDE DEF y
  <2>3. obj'[x] = y /\ \A o \in Objs \ {x} : obj'[o] = obj[o]
    BY <2>2 DEF Base, TypeOK
  <2>4. QED BY <2>1, <2>3
<1>12. Hostname(x)' \in HostsOf(obj[x].name)
  BY <1>9, <1>11 DEF Hostname
<1>13. QED BY <1>1, <1>5, <1>7, <1>8, <1>10, <1>11, <1>12, ObjectStep

\* An update changes the app in place; unless it then goes on to the routes,
\* a deployed app keeps its hostname, its port and whether it is available.
LEMMA UpdateAppUp ==
  ASSUME Base, Apart, Up, scope' = scope, NEW h \in Handlers, NEW host \in Hostnames \cup {None},
         NEW avail \in BOOLEAN, NEW port \in Ports \cup {None}, UpdateApp(h, host, avail, port)
  PROVE  Up'
<1>1. /\ req[h].pc = "Update" /\ ~At(h, "idle") /\ HoldsApp(h)
      /\ UNCHANGED <<live, inst, doms, addr, routes>>
  BY DEF UpdateApp, At, HoldsApp
<1>2. req[h].op = "update" /\ req[h].p \in live /\ req[h].p \in Projects /\ req[h].a \in AppNames
  BY <1>1, OneProject, OpsAre DEF Up
<1>3. PICK x \in Objs : /\ x = req[h].o /\ obj[x] \in Apps /\ obj[x].name = req[h].a
                        /\ Hostname(x) \in HostsOf(req[h].a) /\ Hostname(x) \in Hostnames
  BY <1>1, <1>2, Holder, HoldsOne DEF Up
<1> DEFINE was == obj[x]
           y == [was EXCEPT !.host = host, !.avail = avail, !.port = port,
                            !.phase = IF port # was.port /\ was.phase = "deployed"
                                      THEN "changed" ELSE was.phase]
<1>4. x = App(h)
  BY <1>1, <1>2, <1>3 DEF Up, Steady, Working, OnOneApp, At
<1>5. /\ host \in scope.hosts[req[h].a] \cup {None} /\ obj' = [obj EXCEPT ![x] = y]
      /\ apps' = [apps EXCEPT ![req[h].p][req[h].a] = x]
      /\ \/ host = was.host /\ avail = was.avail /\ Answer(h)
         \/ req' = [req EXCEPT ![h].pc = "Remove", ![h].host = Hostname(x)]
  BY <1>3 DEF UpdateApp
<1>6. apps' = apps
  BY <1>2, <1>4, <1>5, SameEntry DEF Base, TypeOK, App
<1>7. \A o, r : ~Owes(h, o, r)
  BY <1>1, <1>2, OwesNothing DEF Serves
<1>8. /\ y \in Apps /\ y.name = was.name /\ y.host = host /\ y.avail = avail /\ y.port = port
      /\ y.phase = "deployed" => port = was.port /\ was.phase = "deployed"
  <2>1. was \in Apps /\ host \in Hostnames \cup {None}
    BY <1>3
  <2>2. QED BY <2>1 DEF Apps
<1>9. host = was.host /\ avail = was.avail /\ y.phase = "deployed" => y = was
  <2> HIDE DEF y
  <2>1. QED BY <1>3, <1>8 DEF Apps
<1>10. obj'[x] = y /\ \A o \in Objs \ {x} : obj'[o] = obj[o]
  <2> HIDE DEF y
  <2>1. QED BY <1>5 DEF Base, TypeOK
<1> HIDE DEF y
<1>11. obj'[x].name = obj[x].name /\ Hostname(x)' \in HostsOf(obj[x].name)
  BY <1>3, <1>5, <1>8, <1>10 DEF Hostname, HostsOf
<1>12. CASE req' = [req EXCEPT ![h].pc = "Remove", ![h].host = Hostname(x)]
  <2>1. GoesOn(h) /\ req'[h].pc = "Remove" /\ req'[h].host = Hostname(x) /\ req'[h].o = x
    BY <1>3, <1>12, TakesHost DEF Base
  <2>2. Turns(h) /\ req'[h].op = "update" /\ req'[h].p = req[h].p /\ req'[h].a = req[h].a
    BY <1>2, <2>1 DEF GoesOn
  <2>3. \A a \in AppNames : HostsOf(a)' = HostsOf(a)
    BY DEF HostsOf
  <2>4. Working(h)'
    BY <1>1, <1>2, <1>3, <1>4, <1>6, <2>1, <2>2, <2>3 DEF Working, At, Serves, OnOneApp, App
  <2>5. \A r : Owes(h, x, r)'
    BY <2>1, <2>2 DEF Owes, At, Serves
  <2>6. QED BY <1>1, <1>6, <1>7, <1>10, <1>11, <2>2, <2>4, <2>5, ObjectStep
<1>13. CASE host = was.host /\ avail = was.avail /\ Answer(h)
  <2>1. Turns(h) /\ req'[h].pc = "idle"
    BY <1>13, Answers DEF Base
  <2>2. Working(h)'
    BY <2>1 DEF Working, At
  <2>3. QED BY <1>1, <1>6, <1>7, <1>9, <1>10, <1>11, <1>13, <2>1, <2>2, ObjectStep
<1>14. QED BY <1>5, <1>12, <1>13

\* While a request removes routes, or is about to set them, it owes all those
\* it is about: those of its app, or those of all apps.
LEMMA OwesStill ==
  ASSUME NEW h \in Handlers, GoesOn(h), req[h].op \in {"update", "domains"},
         req[h].pc \in {"GetApps", "RemoveNext", "Remove", "Delete", "GetAddress"},
         req'[h].pc \in {"RemoveNext", "Remove", "Delete", "GetAddress"},
         req[h].op = "update" => req'[h].o = req[h].o /\ req'[h].pc # "RemoveNext"
  PROVE  \A o, r : Owes(h, o, r) => Owes(h, o, r)'
BY DEF Owes, GoesOn, At, Serves

LEMMA RemoveUp ==
  ASSUME Base, Apart, Up, scope' = scope, NEW h \in Handlers, Remove(h)
  PROVE  Up'
<1>1. /\ req[h].pc = "Remove" /\ At(h, "Remove") /\ ~At(h, "idle") /\ HoldsApp(h)
      /\ UNCHANGED <<live, inst, doms, addr, apps, obj, routes>>
  BY DEF Remove, At, HoldsApp
<1>2. /\ req[h].op \in {"update", "domains"} /\ req[h].p \in live
      /\ \A p \in live : p = req[h].p
  BY <1>1, OneProject, OpsAre DEF Up
<1>3. CASE Serves(h, "update") /\ doms[req[h].p] = {}
  <2>1. Answer(h)
    BY <1>3 DEF Remove
  <2>2. \A p \in live : doms[p] = {}
    BY <1>2, <1>3
  <2>3. QED BY <1>1, <2>1, <2>2, AnswerUp
<1>4. CASE ~(Serves(h, "update") /\ doms[req[h].p] = {})
  <2>1. PICK keys \in SUBSET RouteKeys : keys = RemovedKeys(h)
    BY <1>1, KeysType
  <2>2. req' = [req EXCEPT ![h].pc = "Delete", ![h].keys = keys]
    BY <1>4, <2>1 DEF Remove
  <2>3. Keeping(h) /\ req'[h].pc = "Delete" /\ req'[h].keys = keys
    BY <2>2, TakesKeys DEF Base
  <2>4. /\ Turns(h) /\ GoesOn(h) /\ req'[h].op = req[h].op /\ req'[h].p = req[h].p
        /\ req'[h].a = req[h].a /\ req'[h].o = req[h].o /\ req'[h].all = req[h].all
        /\ req'[h].left = req[h].left
    BY <2>3 DEF Keeping, Holding, GoesOn
  <2>5. /\ Hostname(req[h].o) \in HostsOf(obj[req[h].o].name)
        /\ req[h].op # "domains" => obj[req[h].o].name = req[h].a
    BY <1>1, Holder DEF Up
  <2>6. Working(h)
    BY DEF Up, Steady
  <2>7. \A r \in keys : r[1] \in HostsOf(obj[req[h].o].name)
    <3>1. CASE req[h].op = "update"
      <4>1. req[h].host \in HostsOf(req[h].a)
        BY <1>1, <2>6, <3>1 DEF Working, Serves
      <4>2. QED BY <2>1, <2>5, <3>1, <4>1 DEF RemovedKeys, RoutesFor, Serves
    <3>2. CASE req[h].op # "update"
      BY <2>1, <2>5, <3>2 DEF RemovedKeys, RoutesFor, Serves
    <3>3. QED BY <3>1, <3>2
  <2>8. \A a : HostsOf(a)' = HostsOf(a)
    BY DEF HostsOf
  <2>9. Working(h)'
    BY <1>1, <1>2, <2>3, <2>4, <2>6, <2>7, <2>8 DEF Working, At, Serves, OnOneApp, App, AppsOf
  <2>10. \A o, r : Owes(h, o, r) => Owes(h, o, r)'
    BY <1>1, <1>2, <2>3, <2>4, OwesStill
  <2>11. QED BY <1>1, <2>4, <2>9, <2>10, RequestStep
<1>5. QED BY <1>3, <1>4

\* A handler that goes on as it was but for where it is.
LEMMA WorksOn ==
  ASSUME Up, UNCHANGED <<scope, live, inst, doms, addr, apps, obj>>,
         NEW h \in Handlers, Keeping(h), ~At(h, "idle"),
         req[h].pc \notin {"GetApp", "UpdateDomains", "GetApps"},
         req'[h].pc \in {"RemoveNext", "RegisterNext", "GetAddress"}
  PROVE  Working(h)'
<1>1. Working(h)
  BY DEF Up, Steady
<1>2. /\ req'[h].op = req[h].op /\ req'[h].p = req[h].p /\ req'[h].a = req[h].a
      /\ req'[h].o = req[h].o /\ req'[h].all = req[h].all /\ req'[h].left = req[h].left
  BY DEF Keeping, Holding, GoesOn
<1>3. QED BY <1>1, <1>2 DEF Working, At, Serves, OnOneApp, App, AppsOf

LEMMA RemovedUp ==
  ASSUME Base, Apart, Up, scope' = scope, NEW h \in Handlers, Removed(h)
  PROVE  Up'
<1>1. /\ req[h].pc = "Delete" /\ ~At(h, "idle")
      /\ UNCHANGED <<live, inst, doms, addr, apps, obj, routes>>
  BY DEF Removed, At
<1>2. req[h].op \in {"update", "domains"}
  BY <1>1, OneProject, OpsAre DEF Up
<1>3. PICK pc \in {"GetAddress", "RemoveNext"} :
         /\ Goto(h, pc)
         /\ pc = "RemoveNext" => req[h].op = "domains"
  BY <1>2 DEF Removed, AfterRemoval, Serves
<1>4. Keeping(h) /\ req'[h].pc = pc
  BY <1>3, Goes DEF Base, Places
<1>5. Turns(h) /\ GoesOn(h) /\ req'[h].o = req[h].o
  BY <1>4 DEF Keeping, Holding, GoesOn
<1>6. Working(h)'
  BY <1>1, <1>4, WorksOn
<1>7. \A o, r : Owes(h, o, r) => Owes(h, o, r)'
  BY <1>1, <1>2, <1>3, <1>4, <1>5, OwesStill
<1>8. QED BY <1>1, <1>5, <1>6, <1>7, RequestStep

\* Who is about to set routes sets those of the app and the domains there are.
LEMMA RegisterUp ==
  ASSUME Base, Apart, Up, scope' = scope, NEW h \in Handlers, Register(h)
  PROVE  Up'
<1>1. /\ req[h].pc = "Register" /\ ~At(h, "idle") /\ HoldsApp(h)
      /\ UNCHANGED <<live, inst, doms, addr, apps, obj, routes>>
  BY DEF Register, At, HoldsApp
<1>2. /\ req[h].op \in {"deploy", "update", "domains"} /\ req[h].p \in live
      /\ req[h].p \in Projects /\ \A p \in live : p = req[h].p
  BY <1>1, OneProject DEF Up
<1>3. /\ req[h].o \in Objs /\ obj[req[h].o] \in Apps
      /\ Hostname(req[h].o) \in HostsOf(obj[req[h].o].name)
  BY <1>1, Holder DEF Up
<1>4. PICK keys \in SUBSET RouteKeys :
        keys = IF Routable(req[h].o) THEN RoutesFor(Hostname(req[h].o), doms[req[h].p]) ELSE {}
  BY <1>1, KeysType
<1>5. PICK to \in Backends \cup {None} :
        /\ to = IF Routable(req[h].o) THEN <<addr[req[h].p], obj[req[h].o].port>> ELSE None
        /\ Routable(req[h].o) => to \in {addr[req[h].p]} \X Ports
  <2>1. CASE Routable(req[h].o)
    <3>1. obj[req[h].o].port \in Ports
      BY <1>3, <2>1 DEF Routable, Apps
    <3>2. addr[req[h].p] \in Addrs \cup {None}
      BY <1>2 DEF Base, TypeOK
    <3>3. /\ <<addr[req[h].p], obj[req[h].o].port>> \in Backends
          /\ <<addr[req[h].p], obj[req[h].o].port>> \in {addr[req[h].p]} \X Ports
      BY <3>1, <3>2 DEF Backends
    <3>4. QED BY <2>1, <3>3
  <2>2. QED BY <2>1
<1>6. req' = [req EXCEPT ![h].pc = "Set", ![h].keys = keys, ![h].to = to]
  BY <1>4, <1>5 DEF Register
<1>7. Keeping(h) /\ req'[h].pc = "Set" /\ req'[h].keys = keys /\ req'[h].to = to
  BY <1>6, TakesRoutes DEF Base
<1>8. /\ Turns(h) /\ req'[h].op = req[h].op /\ req'[h].p = req[h].p
      /\ req'[h].a = req[h].a /\ req'[h].o = req[h].o /\ req'[h].all = req[h].all
      /\ req'[h].left = req[h].left
  BY <1>7 DEF Keeping, Holding, GoesOn
<1>9. Working(h)'
  <2>1. Working(h)
    BY DEF Up, Steady
  <2>2. keys # {} => to \in {addr[req[h].p]} \X Ports
    BY <1>4, <1>5
  <2>3. \A r \in keys : r[1] \in HostsOf(obj[req[h].o].name)
    BY <1>3, <1>4 DEF RoutesFor
  <2>4. \A a : HostsOf(a)' = HostsOf(a)
    BY DEF HostsOf
  <2>5. QED BY <1>1, <1>2, <1>7, <1>8, <2>1, <2>2, <2>3, <2>4
            DEF Working, At, Serves, OnOneApp, App, AppsOf
<1>10. ASSUME NEW p \in live, NEW o \in AppsOf(p), NEW d \in doms[p], Routable(o),
              NEW r, r = <<Hostname(o), d>>, Owes(h, o, r)
       PROVE  Owes(h, o, r)'
  <2>1. CASE o = req[h].o
    <3>1. r \in keys
      BY <1>2, <1>4, <1>10, <2>1 DEF RoutesFor
    <3>2. QED BY <1>7, <1>8, <2>1, <3>1 DEF Owes, At
  <2>2. CASE o # req[h].o
    <3>1. Serves(h, "domains") /\ o \in req[h].left
      BY <1>1, <1>10, <2>2 DEF Owes
    <3>2. QED BY <1>7, <1>8, <3>1 DEF Owes, Serves
  <2>3. QED BY <2>1, <2>2
<1>11. QED BY <1>1, <1>8, <1>9, <1>10, RequestStep

LEMMA RegisteredUp ==
  ASSUME Base, Apart, Up, scope' = scope, NEW h \in Handlers, Registered(h)
  PROVE  Up'
<1>1. /\ req[h].pc = "Set" /\ ~At(h, "idle") /\ req[h].keys = {}
      /\ UNCHANGED <<live, inst, doms, addr, apps, obj, routes>>
  BY DEF Registered, At
<1>2. CASE Serves(h, "domains")
  <2>1. Goto(h, "RegisterNext")
    BY <1>2 DEF Registered
  <2>2. Keeping(h) /\ req'[h].pc = "RegisterNext"
    BY <2>1, Goes DEF Base, Places
  <2>3. Turns(h) /\ req'[h].op = req[h].op /\ req'[h].left = req[h].left
    BY <2>2 DEF Keeping, Holding, GoesOn
  <2>4. Working(h)'
    BY <1>1, <2>2, WorksOn
  <2>5. \A o, r : Owes(h, o, r) => Owes(h, o, r)'
    BY <1>1, <1>2, <2>2, <2>3 DEF Owes, At, Serves
  <2>6. QED BY <1>1, <2>3, <2>4, <2>5, RequestStep
<1>3. CASE ~Serves(h, "domains")
  <2>1. Answer(h)
    BY <1>3 DEF Registered
  <2>2. \A o, r : ~Owes(h, o, r)
    BY <1>1, <1>3 DEF Owes, At
  <2>3. QED BY <1>1, <2>1, <2>2, AnswerUp
<1>4. QED BY <1>2, <1>3

LEMMA GetAddressUp ==
  ASSUME Base, Apart, Up, scope' = scope, NEW h \in Handlers, GetAddress(h)
  PROVE  Up'
<1>1. /\ req[h].pc = "GetAddress" /\ ~At(h, "idle")
      /\ UNCHANGED <<live, inst, doms, addr, apps, obj, routes>>
  BY DEF GetAddress, At
<1>2. /\ req[h].op \in {"update", "domains"} /\ req[h].p \in live
      /\ req[h].p \in inst /\ addr[req[h].p] # None /\ \A p \in live : p = req[h].p
  BY <1>1, OneProject, OpsAre DEF Up
<1>3. PICK pc \in {"RegisterNext", "Register"} :
         /\ pc = IF Serves(h, "domains") THEN "RegisterNext" ELSE "Register"
         /\ req' = [req EXCEPT ![h].left = req[h].all, ![h].pc = pc]
  BY <1>2 DEF GetAddress
<1>4. Holding(h) /\ req'[h].pc = pc /\ req'[h].all = req[h].all /\ req'[h].left = req[h].all
  BY <1>3, TakesAll DEF Base
<1>5. /\ Turns(h) /\ req'[h].op = req[h].op /\ req'[h].p = req[h].p
      /\ req'[h].a = req[h].a /\ req'[h].o = req[h].o
  BY <1>4 DEF Holding, GoesOn
<1>6. Working(h)
  BY DEF Up, Steady
<1>7. req[h].op = "domains" => req[h].all = AppsOf(req[h].p)
  BY <1>1, <1>6 DEF Working, At, Serves
<1>8. Working(h)'
  <2>1. CASE req[h].op = "domains"
    <3>1. req'[h].pc = "RegisterNext"
      BY <1>3, <1>4, <2>1 DEF Serves
    <3>2. QED BY <1>1, <1>2, <1>4, <1>5, <1>7, <2>1, <3>1
              DEF Working, At, Serves, OnOneApp, App, AppsOf
  <2>2. CASE req[h].op = "update"
    <3>1. req'[h].pc = "Register"
      BY <1>3, <1>4, <2>2 DEF Serves
    <3>2. req[h].o = App(h)
      BY <1>1, <1>6, <2>2 DEF Working, At, OnOneApp
    <3>3. QED BY <1>1, <1>2, <1>5, <2>2, <3>1, <3>2 DEF Working, At, Serves, OnOneApp, App
  <2>3. QED BY <1>2, <2>1, <2>2
<1>9. ASSUME NEW p \in live, NEW o \in AppsOf(p), NEW r, Owes(h, o, r)
      PROVE  Owes(h, o, r)'
  <2>1. CASE req[h].op = "domains"
    <3>1. o \in req[h].all
      BY <1>2, <1>7, <2>1
    <3>2. QED BY <1>3, <1>4, <1>5, <2>1, <3>1 DEF Owes, Serves
  <2>2. CASE req[h].op = "update"
    <3>1. req[h].o = o /\ req'[h].pc = "Register"
      BY <1>1, <1>3, <1>4, <1>9, <2>2 DEF Owes, At, Serves
    <3>2. QED BY <1>5, <3>1 DEF Owes, At
  <2>3. QED BY <1>2, <2>1, <2>2
<1>10. QED BY <1>1, <1>5, <1>8, <1>9, RequestStep

\* What a loop over routes keeps, whichever way it goes.
LEMMA KeyUp ==
  ASSUME Base, Up, NEW h \in Handlers, NEW r \in RouteKeys, r \in req[h].keys,
         req[h].pc \in {"Delete", "Set"}, req' = [req EXCEPT ![h].keys = @ \ {r}],
         UNCHANGED <<scope, live, inst, doms, addr, apps, obj>>
  PROVE  /\ Turns(h) /\ req'[h].pc = req[h].pc /\ req'[h].op = req[h].op
         /\ req'[h].o = req[h].o /\ req'[h].left = req[h].left
         /\ req'[h].keys = req[h].keys \ {r}
         /\ Working(h)' /\ r[1] \in HostsOf(obj[req[h].o].name)
         /\ req[h].pc = "Set" => req[h].to \in {addr[req[h].p]} \X Ports
<1>1. /\ Keeping(h) /\ req'[h].pc = req[h].pc
      /\ req'[h].keys = req[h].keys \ {r} /\ req'[h].to = req[h].to
  BY NextKey DEF Base
<1>2. /\ Turns(h) /\ req'[h].op = req[h].op /\ req'[h].p = req[h].p /\ req'[h].a = req[h].a
      /\ req'[h].o = req[h].o /\ req'[h].all = req[h].all /\ req'[h].left = req[h].left
  BY <1>1 DEF Keeping, Holding, GoesOn
<1>3. Working(h)
  BY DEF Up, Steady
<1>4. \A a : HostsOf(a)' = HostsOf(a)
  BY DEF HostsOf
<1>5. Working(h)'
  BY <1>1, <1>2, <1>3, <1>4 DEF Working, At, Serves, OnOneApp, App, AppsOf
<1>6. r[1] \in HostsOf(obj[req[h].o].name)
  BY <1>3 DEF Working, At
<1>7. req[h].pc = "Set" => req[h].to \in {addr[req[h].p]} \X Ports
  BY <1>3 DEF Working, At
<1>8. QED BY <1>1, <1>2, <1>5, <1>6, <1>7

\* The routes a request removes are of its app only, and it sets them again.
LEMMA DeleteRouteUp ==
  ASSUME Base, Apart, Up, scope' = scope, NEW h \in Handlers, NEW r \in RouteKeys,
         DeleteRoute(h, r)
  PROVE  Up'
<1>1. /\ req[h].pc = "Delete" /\ ~At(h, "idle") /\ HoldsApp(h) /\ r \in req[h].keys
      /\ req' = [req EXCEPT ![h].keys = @ \ {r}] /\ routes' = [routes EXCEPT ![r] = None]
      /\ UNCHANGED <<live, inst, doms, addr, apps, obj>>
  BY DEF DeleteRoute, At, HoldsApp
<1>2. /\ req[h].op \in {"update", "domains"} /\ \A p \in live : p = req[h].p
      /\ req[h].p \in Projects
  BY <1>1, OneProject, OpsAre DEF Up
<1>3. /\ Turns(h) /\ req'[h].pc = "Delete" /\ req'[h].op = req[h].op /\ req'[h].o = req[h].o
      /\ Working(h)' /\ r[1] \in HostsOf(obj[req[h].o].name)
  BY <1>1, KeyUp
<1>4. PICK a \in AppNames : req[h].o = apps[req[h].p][a] /\ obj[req[h].o].name = a
  BY <1>1, Holder DEF Up
<1>5. Lasts /\ Named'
  BY <1>1, SameObjects DEF Up
<1>6. ASSUME NEW p \in live, NEW o \in AppsOf(p), NEW d \in Domains, Deployed(p, o, d)'
      PROVE  \/ Due(h, p, o, d)'
             \/ Deployed(p, o, d) /\ Hostname(o)' = Hostname(o) /\ ~Due(h, p, o, d)
  <2>1. Deployed(p, o, d) /\ Hostname(o)' = Hostname(o)
    BY <1>1, <1>6 DEF Deployed, Routable, Hostname
  <2>2. PICK b \in AppNames : /\ o = apps[p][b] /\ apps[p][b] # None
                              /\ obj[o].name = b /\ Hostname(o) \in HostsOf(b)
    <3>1. PICK b \in AppNames : o = apps[p][b] /\ apps[p][b] # None
      BY <1>2, AppsOfType DEF Base
    <3>2. obj[o].name = b /\ Hostname(o) \in HostsOf(b)
      BY <3>1 DEF Up, Steady, Named
    <3>3. QED BY <3>1, <3>2
  <2>3. CASE req[h].op = "domains" \/ o = req[h].o
    <3>1. \A s : Owes(h, o, s)'
      BY <1>2, <1>3, <2>3 DEF Owes, Serves
    <3>2. QED BY <3>1 DEF Due
  <2>4. CASE req[h].op = "update" /\ o # req[h].o
    <3>1. a # b
      BY <1>2, <1>4, <2>2, <2>4
    <3>2. Hostname(o) # r[1]
      BY <1>3, <1>4, <2>2, <3>1 DEF Apart
    <3>3. routes'[<<Hostname(o), d>>] = routes[<<Hostname(o), d>>]
      BY <1>1, <3>2 DEF Base, TypeOK
    <3>4. RightRoute(p, o, d) => RightRoute(p, o, d)'
      BY <1>1, <2>1, <3>3 DEF RightRoute
    <3>5. ~Owes(h, o, <<Hostname(o), d>>)
      BY <1>1, <2>4 DEF Owes, At, Serves
    <3>6. QED BY <2>1, <3>4, <3>5 DEF Due
  <2>5. QED BY <1>2, <2>3, <2>4
<1>7. QED BY <1>3, <1>5, <1>6, UpStep

\* The routes a request sets lead to its VM.
LEMMA SetRouteUp ==
  ASSUME Base, Apart, Up, scope' = scope, NEW h \in Handlers, NEW r \in RouteKeys,
         SetRoute(h, r)
  PROVE  Up'
<1>1. /\ req[h].pc = "Set" /\ ~At(h, "idle") /\ HoldsApp(h) /\ r \in req[h].keys
      /\ req' = [req EXCEPT ![h].keys = @ \ {r}] /\ routes' = [routes EXCEPT ![r] = req[h].to]
      /\ UNCHANGED <<live, inst, doms, addr, apps, obj>>
  BY DEF SetRoute, At, HoldsApp
<1>2. \A p \in live : p = req[h].p /\ p \in Projects
  BY <1>1, OneProject DEF Up
<1>3. /\ Turns(h) /\ req'[h].pc = "Set" /\ req'[h].op = req[h].op /\ req'[h].o = req[h].o
      /\ req'[h].left = req[h].left /\ req'[h].keys = req[h].keys \ {r} /\ Working(h)'
      /\ req[h].to \in {addr[req[h].p]} \X Ports
  BY <1>1, KeyUp
<1>4. routes'[r] = req[h].to /\ \A s \in RouteKeys \ {r} : routes'[s] = routes[s]
  BY <1>1 DEF Base, TypeOK
<1>5. Lasts /\ Named'
  BY <1>1, SameObjects DEF Up
<1>6. ASSUME NEW p \in live, NEW o \in AppsOf(p), NEW d \in Domains, Deployed(p, o, d)'
      PROVE  \/ Due(h, p, o, d)'
             \/ Deployed(p, o, d) /\ Hostname(o)' = Hostname(o) /\ ~Due(h, p, o, d)
  <2>1. Deployed(p, o, d) /\ Hostname(o)' = Hostname(o)
    BY <1>1, <1>6 DEF Deployed, Routable, Hostname
  <2>2. o \in Objs /\ obj[o] \in Apps
    <3>1. o \in Objs
      BY <1>2, AppsOfType DEF Base
    <3>2. QED BY <1>2, <3>1 DEF Base, TypeOK, Reached, Used
  <2>3. PICK s \in RouteKeys : s = <<Hostname(o), d>>
    BY <2>2 DEF Hostname, Apps, RouteKeys
  <2>4. CASE s = r
    <3>1. routes'[s] \in {addr[p]} \X Ports
      BY <1>2, <1>3, <1>4, <2>4
    <3>2. obj[o].port \in Ports
      BY <2>1, <2>2 DEF Deployed, Routable, Apps
    <3>3. RightRoute(p, o, d)'
      BY <1>1, <2>1, <2>3, <3>1, <3>2 DEF RightRoute
    <3>4. QED BY <3>3 DEF Due
  <2>5. CASE s # r
    <3>1. RightRoute(p, o, d) => RightRoute(p, o, d)'
      BY <1>1, <1>4, <2>1, <2>3, <2>5 DEF RightRoute
    <3>2. Owes(h, o, s) => Owes(h, o, s)'
      BY <1>1, <1>3, <2>5 DEF Owes, At, Serves
    <3>3. s = <<Hostname(o)', d>>
      BY <2>1, <2>3
    <3>4. Due(h, p, o, d) => Due(h, p, o, d)'
      BY <2>3, <3>1, <3>2, <3>3 DEF Due, Owes
    <3>5. QED BY <2>1, <3>4
  <2>6. QED BY <2>4, <2>5
<1>7. QED BY <1>3, <1>5, <1>6, UpStep

\* With new domains the request owes every route of the project.
LEMMA UpdateDomainsUp ==
  ASSUME Base, Apart, Up, scope' = scope, NEW h \in Handlers, NEW D \in SUBSET scope.domains,
         UpdateDomains(h, D)
  PROVE  Up'
<1>1. /\ req[h].pc = "UpdateDomains" /\ ~At(h, "idle")
      /\ UNCHANGED <<live, inst, addr, apps, obj, routes>>
  BY DEF UpdateDomains, At
<1>2. /\ req[h].op = "domains" /\ req[h].p \in live /\ req[h].p \in Projects
  BY <1>1, OneProject, OpsAre DEF Up
<1>3. PICK old \in SUBSET Domains : old = doms[req[h].p]
  BY <1>2 DEF Base, TypeOK
<1>4. req' = [req EXCEPT ![h].pc = "GetApps", ![h].old = old]
  BY <1>2, <1>3 DEF UpdateDomains
<1>5. GoesOn(h) /\ req'[h].pc = "GetApps" /\ req'[h].left = req[h].left
  BY <1>4, TakesDomains DEF Base
<1>6. Turns(h) /\ req'[h].op = "domains" /\ req'[h].p = req[h].p
  BY <1>2, <1>5 DEF GoesOn
<1>7. Working(h)'
  <2>1. req[h].left \subseteq AppsOf(req[h].p)
    BY <1>1, <1>2 DEF Up, Steady, Working, Serves
  <2>2. QED BY <1>1, <1>2, <1>5, <1>6, <2>1 DEF Working, At, Serves, OnOneApp, AppsOf
<1>8. \A o, r : Owes(h, o, r)'
  BY <1>5, <1>6 DEF Owes, Serves
<1>9. Lasts /\ Named'
  BY <1>1, SameObjects DEF Up
<1>10. \A p, o, d : Due(h, p, o, d)'
  BY <1>8 DEF Due
<1>11. QED BY <1>6, <1>7, <1>9, <1>10, UpStep

LEMMA GetAppsUp ==
  ASSUME Base, Apart, Up, scope' = scope, NEW h \in Handlers, GetApps(h)
  PROVE  Up'
<1>1. /\ req[h].pc = "GetApps" /\ ~At(h, "idle")
      /\ UNCHANGED <<live, inst, doms, addr, apps, obj, routes>>
  BY DEF GetApps, At
<1>2. /\ req[h].op = "domains" /\ req[h].p \in live /\ req[h].p \in Projects
  BY <1>1, OneProject, OpsAre DEF Up
<1>3. PICK O \in SUBSET Objs : O = AppsOf(req[h].p)
  BY <1>2, AppsOfType DEF Base
<1>4. req' = [req EXCEPT ![h].pc = "RemoveNext", ![h].all = O, ![h].left = O]
  BY <1>3 DEF GetApps
<1>5. Holding(h) /\ req'[h].pc = "RemoveNext" /\ req'[h].all = O /\ req'[h].left = O
  BY <1>4, TakesApps DEF Base
<1>6. Turns(h) /\ req'[h].op = "domains" /\ req'[h].p = req[h].p
  BY <1>2, <1>5 DEF Holding, GoesOn
<1>7. Working(h)'
  BY <1>1, <1>2, <1>3, <1>5, <1>6 DEF Working, At, Serves, OnOneApp, AppsOf
<1>8. \A o, r : Owes(h, o, r)'
  BY <1>5, <1>6 DEF Owes, Serves
<1>9. QED BY <1>1, <1>6, <1>7, <1>8, RequestStep

LEMMA NextAppUp ==
  ASSUME Base, Apart, Up, scope' = scope, NEW h \in Handlers, NEW o \in Objs, NextApp(h, o)
  PROVE  Up'
<1>1. /\ req[h].pc \in {"RemoveNext", "RegisterNext"} /\ ~At(h, "idle") /\ o \in req[h].left
      /\ UNCHANGED <<live, inst, doms, addr, apps, obj, routes>>
  BY DEF NextApp, At
<1>2. req[h].op = "domains" /\ req[h].p \in live
  BY <1>1, OneProject, OpsAre DEF Up
<1>3. /\ GoesOn(h) /\ req'[h].o = o
      /\ req'[h].pc = IF At(h, "RemoveNext") THEN "Remove" ELSE "Register"
      /\ req'[h].all = req[h].all /\ req'[h].left = req[h].left \ {o}
  BY TakesNext DEF Base
<1>4. Turns(h) /\ req'[h].op = "domains" /\ req'[h].p = req[h].p
  BY <1>2, <1>3 DEF GoesOn
<1>5. req'[h].pc \in {"Remove", "Register"}
  BY <1>3
<1>6. req[h].all = AppsOf(req[h].p) /\ req[h].left \subseteq AppsOf(req[h].p)
  BY <1>1, <1>2 DEF Up, Steady, Working, At, Serves
<1>7. Working(h)'
  BY <1>1, <1>2, <1>3, <1>4, <1>5, <1>6 DEF Working, At, Serves, OnOneApp, AppsOf
<1>8. \A x, r : Owes(h, x, r) => Owes(h, x, r)'
  BY <1>1, <1>2, <1>3, <1>4 DEF Owes, At, Serves
<1>9. QED BY <1>1, <1>4, <1>7, <1>8, RequestStep

LEMMA LastAppUp ==
  ASSUME Base, Apart, Up, scope' = scope, NEW h \in Handlers, LastApp(h)
  PROVE  Up'
<1>1. /\ req[h].pc \in {"RemoveNext", "RegisterNext"} /\ ~At(h, "idle") /\ req[h].left = {}
      /\ UNCHANGED <<live, inst, doms, addr, apps, obj, routes>>
  BY DEF LastApp, At
<1>2. req[h].op = "domains" /\ req[h].p \in live
  BY <1>1, OneProject, OpsAre DEF Up
<1>3. CASE req[h].pc = "RegisterNext"
  <2>1. Answer(h)
    BY <1>3 DEF LastApp, At
  <2>2. \A o, r : ~Owes(h, o, r)
    BY <1>1, <1>2, <1>3 DEF Owes, At, Serves
  <2>3. QED BY <1>1, <2>1, <2>2, AnswerUp
<1>4. CASE req[h].pc = "RemoveNext"
  <2>1. Goto(h, "GetAddress")
    BY <1>2, <1>4 DEF LastApp, At, Serves
  <2>2. Keeping(h) /\ req'[h].pc = "GetAddress"
    BY <2>1, Goes DEF Base, Places
  <2>3. Turns(h) /\ GoesOn(h)
    BY <2>2 DEF Keeping, Holding, GoesOn
  <2>4. Working(h)'
    BY <1>1, <2>2, WorksOn
  <2>5. \A o, r : Owes(h, o, r) => Owes(h, o, r)'
    BY <1>2, <1>4, <2>2, <2>3, OwesStill
  <2>6. QED BY <1>1, <2>3, <2>4, <2>5, RequestStep
<1>5. QED BY <1>1, <1>3, <1>4

\* A server that restarts makes a route for every app that asks for one.
LEMMA RestartUp ==
  ASSUME Base, Apart, Up, scope' = scope, ServerRestarts
  PROVE  Up'
<1>1. /\ UNCHANGED <<live, inst, doms, addr, apps, obj, req>>
      /\ \A r \in RouteKeys : Rebuilt(r) # {} => routes'[r] \in Rebuilt(r)
  BY DEF ServerRestarts
<1>2. Steady'
  <2>1. \A h \in Handlers : Working(h)'
    BY <1>1 DEF Up, Steady, Working, At, Serves, OnOneApp, App, AppsOf, HostsOf
  <2>2. QED BY <1>1, <2>1 DEF Up, Steady, Named, Hostname, HostsOf
<1>3. ASSUME NEW p \in live, NEW a \in AppNames, NEW d \in Domains, NEW o, o = apps[p][a],
             Deployed(p, o, d)
      PROVE  RightRoute(p, o, d)'
  <2>1. p \in Projects /\ p \in inst /\ addr[p] # None /\ \A q \in live : q = p
    BY DEF Base, TypeOK, Up, Steady, Apart
  <2>2. o \in AppsOf(p) /\ o \in Objs
    BY <1>3, <2>1, AppsOfType DEF Base, Deployed
  <2>3. obj[o] \in Apps
    BY <2>1, <2>2 DEF Base, TypeOK, Reached, Used
  <2>4. PICK r \in RouteKeys : r = <<Hostname(o), d>>
    BY <2>3 DEF Hostname, Apps, RouteKeys
  <2>5. Routable(o) /\ d \in doms[p]
    BY <1>3 DEF Deployed
  <2>6. <<addr[p], obj[o].port>> \in Rebuilt(r)
    BY <2>1, <2>2, <2>4, <2>5 DEF Rebuilt
  <2>7. routes'[r] \in Rebuilt(r)
    BY <1>1, <2>6
  <2>8. PICK q \in live : \E x \in AppsOf(q) : /\ Routable(x)
                                               /\ routes'[r] = <<addr[q], obj[x].port>>
    BY <2>7 DEF Rebuilt
  <2>9. PICK x \in AppsOf(q) : Routable(x) /\ routes'[r] = <<addr[q], obj[x].port>>
    BY <2>8
  <2>10. q = p /\ x \in Objs /\ obj[x] \in Apps
    <3>1. q = p
      BY <2>1
    <3>2. x \in Objs
      BY <2>1, <3>1, AppsOfType DEF Base
    <3>3. QED BY <2>1, <3>1, <3>2 DEF Base, TypeOK, Reached, Used
  <2>11. obj[x].port \in Ports /\ obj[o].port \in Ports
    BY <2>3, <2>5, <2>9, <2>10 DEF Routable, Apps
  <2>12. routes'[r] \in {addr[p]} \X Ports
    BY <2>9, <2>10, <2>11
  <2>13. r = <<Hostname(o)', d>>
    BY <1>1, <2>4 DEF Hostname
  <2>14. QED BY <1>1, <2>11, <2>12, <2>13 DEF RightRoute
<1>4. RoutedOrOwed'
  BY <1>1, <1>3 DEF RoutedOrOwed, Deployed, Routable
<1>5. QED BY <1>2, <1>4 DEF Up

LEMMA NoStepUp ==
  ASSUME Up, UNCHANGED vars
  PROVE  Up'
<1>1. UNCHANGED <<scope, live, inst, doms, addr, apps, obj, routes, req>>
  BY DEF vars
<1>2. Lasts /\ Named'
  BY <1>1, SameObjects DEF Up
<1>3. ASSUME NEW h \in Handlers
      PROVE  Working(h)'
  <2>1. Working(h)
    BY DEF Up, Steady
  <2>2. QED BY <1>1, <2>1 DEF Working, At, Serves, OnOneApp, App, AppsOf, HostsOf
<1>4. Steady'
  BY <1>1, <1>2, <1>3 DEF Up, Steady
<1>5. ASSUME NEW p \in live, NEW a \in AppNames, NEW d \in Domains, NEW o, o = apps[p][a],
             Deployed(p, o, d)'
      PROVE  RightRoute(p, o, d)' \/ \E h \in Handlers : Owes(h, o, <<Hostname(o), d>>)'
  <2>1. Hostname(o)' = Hostname(o)
    BY <1>1 DEF Hostname
  <2>2. Deployed(p, o, d) /\ (RightRoute(p, o, d) => RightRoute(p, o, d)')
    BY <1>1, <1>5, <2>1 DEF Deployed, Routable, RightRoute
  <2>3. RightRoute(p, o, d) \/ \E h \in Handlers : Owes(h, o, <<Hostname(o), d>>)
    BY <1>5, <2>2 DEF Up, RoutedOrOwed
  <2>4. QED BY <1>1, <2>1, <2>2, <2>3 DEF Owes, At, Serves
<1>6. RoutedOrOwed'
  BY <1>1, <1>5 DEF RoutedOrOwed
<1>7. QED BY <1>4, <1>6 DEF Up

\* The apps there are at first have not been deployed, and none has the name of
\* another.
LEMMA InitUp == Init /\ Apart => Up
<1> SUFFICES ASSUME Init, Apart PROVE Up
  OBVIOUS
<1>1. \A h \in Handlers : Working(h)
  BY DEF Init, IdleReq, Working, At
<1>2. live = scope.projects /\ inst = live /\ \A p \in live : addr[p] # None
  BY DEF Init, Apart
<1>3. PICK own \in [live \X scope.defined -> Objs], port \in Ports :
        /\ \A x, y \in DOMAIN own : own[x] = own[y] => x = y
        /\ apps = [p \in Projects |-> [a \in AppNames |->
                     IF p \in live /\ a \in scope.defined THEN own[<<p, a>>] ELSE None]]
        /\ obj = [o \in Objs |->
                    IF \E x \in DOMAIN own : own[x] = o
                    THEN Default((CHOOSE x \in DOMAIN own : own[x] = o)[2], port)
                    ELSE Free]
  BY DEF Init
<1>4. ASSUME NEW p \in live, NEW a \in AppNames, NEW o, o = apps[p][a], o # None
      PROVE  obj[o] = Default(a, port)
  <2>1. p \in Projects
    BY DEF Init, ScopeRecords
  <2>2. <<p, a>> \in DOMAIN own /\ o = own[<<p, a>>] /\ o \in Objs
    BY <1>3, <1>4, <2>1
  <2>3. \A x \in DOMAIN own : own[x] = o => x = <<p, a>>
    BY <1>3, <2>2
  <2>4. PICK x : x = CHOOSE y \in DOMAIN own : own[y] = o
    OBVIOUS
  <2>5. x = <<p, a>>
    BY <2>2, <2>3, <2>4
  <2>6. obj[o] = Default(x[2], port)
    BY <1>3, <2>2, <2>4
  <2>7. QED BY <2>5, <2>6
<1>5. ASSUME NEW p \in live, NEW a \in AppNames, NEW o, o = apps[p][a], o # None
      PROVE  obj[o].name = a /\ obj[o].host = None /\ obj[o].phase = "new"
  <2>1. obj[o] = Default(a, port)
    BY <1>4, <1>5
  <2>2. QED BY <2>1 DEF Default
<1>6. Named
  BY <1>5 DEF Named, Hostname, HostsOf
<1>7. RoutedOrOwed
  BY <1>5 DEF RoutedOrOwed, Deployed
<1>8. QED BY <1>1, <1>2, <1>6, <1>7 DEF Up, Steady

LEMMA NextUp ==
  ASSUME Base, Apart, Up, [Next]_vars
  PROVE  Up'
<1>1. CASE UNCHANGED vars
  BY <1>1, NoStepUp
<1>2. CASE Next
  <2>1. scope' = scope
    BY <1>2 DEF Next
  <2>2. ASSUME NEW h \in Handlers, Acts(h)
        PROVE  Up'
    <3> USE <2>1
    <3>1. CASE Arrives(h)
      BY <3>1, ArrivalUp
    <3>2. CASE GetApp(h)
      BY <3>2, GetAppUp
    <3>3. CASE Defines(h)
      <4>1. PICK host \in Hostnames \cup {None}, avail \in BOOLEAN, port \in Ports \cup {None} :
                   \/ \E o \in Objs : CreateApp(h, o, host, avail, port)
                   \/ UpdateApp(h, host, avail, port)
        BY <3>3 DEF Defines
      <4>2. ASSUME NEW o, CreateApp(h, o, host, avail, port)
            PROVE  FALSE
        <5>1. req[h].op = "create" /\ ~At(h, "idle")
          BY <4>2 DEF CreateApp, Serves, At
        <5>2. QED BY <5>1, OneProject DEF Up
      <4>3. QED BY <4>1, <4>2, UpdateAppUp
    <3>4. CASE SetApp(h)
      BY <3>4, SetAppUp
    <3>5. CASE GetInstance(h) \/ Failed(h)
      BY <3>5, CommandUp
    <3>6. CASE Obeyed(h)
      BY <3>6, ObeyedUp
    <3>7. CASE Routing(h)
      BY <3>7, RemoveUp, RemovedUp, RegisterUp, RegisteredUp, DeleteRouteUp, SetRouteUp,
         GetAddressUp DEF Routing
    <3>8. CASE Reconciles(h)
      BY <3>8, UpdateDomainsUp, GetAppsUp, NextAppUp, LastAppUp DEF Reconciles
    <3>9. CASE Deletes(h)
      <4>1. req[h].pc \in {"DeleteApp", "DestroyInstance", "DeleteProject"} /\ ~At(h, "idle")
        BY <3>9 DEF Deletes, DeleteApp, DestroyInstance, DeleteProject, At
      <4>2. QED BY <4>1, OneProject, OpsAre DEF Up
    <3>10. QED BY <2>2, <3>1, <3>2, <3>3, <3>4, <3>5, <3>6, <3>7, <3>8, <3>9 DEF Acts
  <2>3. \A p \in Projects, ip \in Addrs : ~VMReady(p, ip)
    BY DEF VMReady, Apart
  <2>4. \/ \E h \in Handlers : Acts(h)
        \/ ServerRestarts
    BY <1>2, <2>3 DEF Next, Acts
  <2>5. QED BY <2>1, <2>2, <2>4, RestartUp
<1>3. QED BY <1>1, <1>2
-----------------------------------------------------------------------------
\* When requests come one at a time, every route is that of an app of a project
\* that asks for it, or one the request in hand is going to remove: what
\* removeAppRoutes, reconcileAppRoutes and reconcileRoutesOnDomainChange
\* (app_handlers.go, project_handlers.go) have to remove, with the hostname or
\* the domains that were, when the app or the domains have changed already.  When
\* requests keep routes up, however many at a time, every deployed app has its
\* routes or is owed them by a request that is going to set them.
THEOREM Invariant == Spec => []IInv
<1>1. IInv <=> Base /\ (scope.clients = 1 => One) /\ (Apart => Up)
  BY DEF IInv, OneByOneHolds, ApartHolds, One, Fit, Up, Steady
<1>2. Init => IInv
  BY <1>1, InitBase, InitOne, InitUp
<1>3. ASSUME IInv, [Next]_vars
      PROVE  IInv'
  <2>1. Base /\ (scope.clients = 1 => One) /\ (Apart => Up)
    BY <1>1, <1>3
  <2>2. scope' = scope
    BY <1>3 DEF Next, vars
  <2>3. Base'
    BY <1>3, <2>1, NextBase
  <2>4. scope'.clients = 1 => One'
    BY <1>3, <2>1, <2>2, NextOne
  <2>5. Apart' => Up'
    <3>1. Apart' => Apart
      BY <2>2 DEF Apart, HostsOf
    <3>2. QED BY <1>3, <2>1, <3>1, NextUp
  <2>6. (IInv <=> Base /\ (scope.clients = 1 => One) /\ (Apart => Up))'
    BY DEF IInv, OneByOneHolds, ApartHolds, One, Fit, Up, Steady
  <2>7. QED BY <2>3, <2>4, <2>5, <2>6
<1>4. QED BY <1>2, <1>3, PTL DEF Spec

\* Between requests that come one at a time every route is that of a project
\* that has the domain and an available app with the hostname: no route
\* outlives the app, the project, the hostname or the domain it was made for
\* (docs/concepts.md:111-112, proxy/routes.go, Server.RebuildRoutes).
THEOREM RoutesLeadToOwners == Spec => []RoutesHaveOwners
<1>1. IInv => RoutesHaveOwners
  <2> SUFFICES ASSUME IInv, scope.clients = 1, Quiet
               PROVE  \A r \in RouteKeys : routes[r] # None =>
                        \E p \in Projects, a \in AppNames : Owns(p, a, r)
    BY DEF RoutesHaveOwners
  <2>1. \A h \in Handlers : \A r \in RouteKeys : ~Doomed(h, r)
    BY IdleFits DEF Quiet, At
  <2>2. QED BY <2>1 DEF IInv, OneByOneHolds, NoStray
<1>2. QED BY <1>1, Invariant, PTL

\* When deployments, updates and domain changes of one project's apps are over,
\* in whatever order any number of them were served, every app that is deployed
\* and available is reached by its hostname under each of the project's domains
\* (docs/concepts.md:94-102; registerAppRoutes and reconcileAppRoutes in
\* app_handlers.go, reconcileRoutesOnDomainChange in project_handlers.go):
\* whoever removes the route of an app still owes it one.
THEOREM DeployedStaysRouted == Spec => []DeployedIsRouted
<1>1. IInv => DeployedIsRouted
  <2> SUFFICES ASSUME IInv, Apart, Quiet, NEW p \in live, NEW a \in AppNames, NEW d \in Domains,
                      Deployed(p, apps[p][a], d)
               PROVE  RightRoute(p, apps[p][a], d)
    BY DEF DeployedIsRouted
  <2>1. \A h \in Handlers : \A o, r : ~Owes(h, o, r)
    BY IdleWorks DEF Quiet, At
  <2>2. QED BY <2>1 DEF IInv, ApartHolds, RoutedOrOwed
<1>2. QED BY <1>1, Invariant, PTL
=============================================================================
