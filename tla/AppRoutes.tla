------------------------------ MODULE AppRoutes ------------------------------
(***************************************************************************)
(* Apps, their definitions in the state store and the routes that lead the *)
(* reverse proxy to them (internal/api/app_handlers.go, the handlers of    *)
(* internal/api/project_handlers.go that touch routes, internal/proxy/     *)
(* routes.go, Server.RebuildRoutes).                                       *)
(*                                                                         *)
(* A handler is a sequence of steps, one per call of the store, the        *)
(* runtime or the route table, each of which locks for itself only.  The   *)
(* store hands out pointers: an app is an OBJECT that the table of its     *)
(* project names, and a handler may hold one that the table has lost.      *)
(* Saving always succeeds here (ProjectLifecycle has saves that fail), so  *)
(* the server starts again with the store it ended with.                   *)
(* A scope says which projects, apps, hostnames and requests there are and  *)
(* how many requests are served at a time.                                 *)
(* NoDefaultHostname, ForgetNewRoutes and KeysOfNewHostname are faulty     *)
(* variants of the definitions that follow them.                           *)
(***************************************************************************)
EXTENDS Naturals, FiniteSets

CONSTANTS Projects,   \* projects
          AppNames,   \* app names, the same in every project
          Hostnames,  \* hostnames, an app's name among them
          Domains,    \* domains a project may have
          Addrs,      \* addresses of VMs
          Ports,      \* first host ports
          Objs,       \* app objects that are reachable at one time
          Handlers,   \* goroutines serving requests
          None,       \* no app, no instance, no port, no route
          Scopes      \* the bounds: one of these is chosen at the start

AllOps == {"create", "deploy", "update", "stop", "delete", "domains", "remove"}

\* vm: a command to a VM fails; address: a VM boots (again) with another
\* address, or had none yet; restart: the server restarts while idle.
AllFaults == {"vm", "address", "restart"}

\* projects: those created before, each with its VM; defined: the apps that
\* were, with its defaults; hosts: the hostnames clients give to an app;
\* domains: those they give to a project; clients: requests at a time.
ScopeRecords == [projects : SUBSET Projects, defined : SUBSET AppNames,
                 hosts : [AppNames -> SUBSET Hostnames], domains : SUBSET Domains,
                 clients : 1..Cardinality(Handlers), ops : SUBSET AllOps,
                 faults : SUBSET AllFaults]

ASSUME NamesAssumption == /\ AppNames \subseteq Hostnames
                          /\ None \notin Hostnames \cup Addrs \cup Ports \cup Objs
ASSUME ScopesAssumption == Scopes \subseteq ScopeRecords
ASSUME HandlersAssumption == IsFiniteSet(Handlers)

VARIABLES scope,        \* the bounds of this run
          live, inst,   \* keys of state.Projects; projects with an instance
          doms,         \* Project.Domains
          addr,         \* IPAddress of the instance objects
          apps,         \* state.Apps: project -> app name -> object
          obj,          \* the AppSpec objects
          routes,       \* the route table
          req           \* the request each handler serves

vars == <<scope, live, inst, doms, addr, apps, obj, routes, req>>

RouteKeys == Hostnames \X Domains
Backends  == (Addrs \cup {None}) \X Ports

Free == [free |-> TRUE]
Apps == [name : AppNames, host : Hostnames \cup {None}, avail : BOOLEAN,
         port : Ports \cup {None},
         phase : {"new", "deployed", "changed", "stopped"}]  \* in its VM

Default(a, port) == [name |-> a, host |-> None, avail |-> TRUE, port |-> port,
                     phase |-> "new"]

NoDefaultHostname(o) == obj[o].host

\* GetHostname: the app's name unless it has a hostname.
Hostname(o) == IF obj[o].host = None THEN obj[o].name ELSE obj[o].host

AppsOf(p) == {apps[p][a] : a \in AppNames} \ {None}

IdleReq == [pc |-> "idle", op |-> "stop", p |-> None, a |-> None, o |-> None,
            all |-> {}, left |-> {}, old |-> {}, host |-> None, keys |-> {},
            to |-> None]

Init == /\ scope \in Scopes
        /\ live = scope.projects /\ inst = scope.projects
        /\ doms \in [Projects -> SUBSET scope.domains]
        /\ \A p \in Projects \ live : doms[p] = {}
        /\ addr \in [Projects -> Addrs \cup {None}]
        /\ \A p, q \in Projects : addr[p] = addr[q] /\ p # q => addr[p] = None
        /\ "address" \notin scope.faults => \A p \in live : addr[p] # None
        /\ \A p \in Projects \ live : addr[p] = None
        /\ \E own \in [live \X scope.defined -> Objs], port \in Ports :
             /\ \A x, y \in DOMAIN own : own[x] = own[y] => x = y
             /\ apps = [p \in Projects |-> [a \in AppNames |->
                          IF p \in live /\ a \in scope.defined THEN own[<<p, a>>] ELSE None]]
             /\ obj = [o \in Objs |->
                         IF \E x \in DOMAIN own : own[x] = o
                         THEN Default((CHOOSE x \in DOMAIN own : own[x] = o)[2], port)
                         ELSE Free]
        /\ routes = [r \in RouteKeys |-> None]
        /\ req = [h \in Handlers |-> IdleReq]
-----------------------------------------------------------------------------
At(h, pc)   == req[h].pc = pc
Serves(h, op) == req[h].op = op
Goto(h, pc) == req' = [req EXCEPT ![h].pc = pc]
Answer(h)   == req' = [req EXCEPT ![h] = IdleReq]

App(h) == apps[req[h].p][req[h].a]

\* What became of the app a handler holds, in its VM.
Becomes(h, ph) == obj' = [obj EXCEPT ![req[h].o].phase = ph]

\* An object nobody reaches any more, to be allocated again.
Unreachable(o) == /\ \A p \in Projects : o \notin AppsOf(p)
                  /\ \A h \in Handlers : o \notin req[h].all \cup {req[h].o}

\* A request arrives, and the handler looks for its project.
Receive(h, op, p, a) ==
    /\ At(h, "idle") /\ p \in live
    /\ Cardinality({g \in Handlers : ~At(g, "idle")}) < scope.clients
    /\ req' = [req EXCEPT ![h] = [IdleReq EXCEPT
                 !.pc = CASE op = "domains" -> "UpdateDomains"
                          [] op = "remove"  -> "GetApps"
                          [] OTHER          -> "GetApp",
                 !.op = op, !.p = p, !.a = a]]
    /\ UNCHANGED <<live, inst, doms, addr, apps, obj, routes>>

\* Without the app there is nothing to do, with it nothing to create.  A
\* deployment saves the app only when it comes with an image.
GetApp(h) ==
    /\ At(h, "GetApp") /\ ~Serves(h, "create")
    /\ UNCHANGED <<live, inst, doms, addr, apps, obj, routes>>
    /\ \/ App(h) = None /\ Answer(h)
       \/ /\ App(h) # None
          /\ \E pc \in CASE Serves(h, "deploy") -> {"SetApp", "GetInstance"}
                         [] Serves(h, "update") -> {"Update"}
                         [] Serves(h, "stop")   -> {"GetInstance"}
                         [] Serves(h, "delete") -> {"Remove"} :
                req' = [req EXCEPT ![h].pc = pc, ![h].o = App(h)]

\* handleAppCreate: the name must be free, then the app is made.
CreateApp(h, o, host, avail, port) ==
    /\ At(h, "GetApp") /\ Serves(h, "create")
    /\ UNCHANGED <<live, inst, doms, addr, apps, routes>>
    /\ \/ App(h) # None /\ Answer(h) /\ UNCHANGED obj
       \/ /\ App(h) = None /\ Unreachable(o)
          /\ host \in scope.hosts[req[h].a] \cup {None}
          /\ obj' = [obj EXCEPT ![o] = [name |-> req[h].a, host |-> host,
                                        avail |-> avail, port |-> port,
                                        phase |-> "new"]]
          /\ req' = [req EXCEPT ![h].pc = "SetApp", ![h].o = o]

\* Store.SetApp: whatever the table holds under the app's name, and whether
\* or not there still is such a project.
SetApp(h) ==
    /\ At(h, "SetApp")
    /\ apps' = [apps EXCEPT ![req[h].p][req[h].a] = req[h].o]
    /\ IF Serves(h, "deploy") THEN Goto(h, "GetInstance") ELSE Answer(h)
    /\ UNCHANGED <<live, inst, doms, addr, obj, routes>>

\* handleAppUpdate changes the object in place, then SetApp.  The routes are
\* reconciled when the request has a hostname or an available flag.
UpdateApp(h, host, avail, port) ==
    LET o == req[h].o
        was == obj[o]
        reconcile == host # was.host \/ avail # was.avail
    IN  /\ At(h, "Update")
        /\ host \in scope.hosts[req[h].a] \cup {None}
        /\ obj' = [obj EXCEPT ![o] = [was EXCEPT
                     !.host = host, !.avail = avail, !.port = port,
                     !.phase = IF port # was.port /\ was.phase = "deployed"
                               THEN "changed" ELSE was.phase]]
        /\ apps' = [apps EXCEPT ![req[h].p][req[h].a] = o]
        /\ \/ ~reconcile /\ Answer(h)
           \/ req' = [req EXCEPT ![h].pc = "Remove", ![h].host = Hostname(o)]
        /\ UNCHANGED <<live, inst, doms, addr, routes>>
-----------------------------------------------------------------------------
(* Routes.  A loop over the domains of a project writes one route at a time *)
(* (RouteTable.Set, RouteTable.Delete); the domains are those the project   *)
(* had when the loop began.                                                 *)

RoutesFor(host, D) == {host} \X D

ForgetNewRoutes(h) == CASE Serves(h, "delete")  -> "GetInstance"
                        [] req[h].op \in {"stop", "update"} -> "idle"
                        [] OTHER -> "RemoveNext"
AfterRemoval(h) == CASE Serves(h, "update")  -> "GetAddress"
                     [] Serves(h, "stop")    -> "idle"
                     [] Serves(h, "delete")  -> "GetInstance"
                     [] OTHER                -> "RemoveNext"

\* removeAppRoutes, the removing half of reconcileAppRoutes, which knows the
\* hostname the app had, and that of reconcileRoutesOnDomainChange, which knows
\* the domains the project had.
KeysOfNewHostname(h) ==
    RoutesFor(Hostname(req[h].o),
              IF Serves(h, "domains") THEN req[h].old ELSE doms[req[h].p])
RemovedKeys(h) ==
    RoutesFor(IF Serves(h, "update") THEN req[h].host ELSE Hostname(req[h].o),
              IF Serves(h, "domains") THEN req[h].old ELSE doms[req[h].p])

\* The reconciliation of an app ends here when its project has no domains.
Remove(h) ==
    /\ At(h, "Remove")
    /\ IF Serves(h, "update") /\ doms[req[h].p] = {} THEN Answer(h)
       ELSE req' = [req EXCEPT ![h].pc = "Delete", ![h].keys = RemovedKeys(h)]
    /\ UNCHANGED <<live, inst, doms, addr, apps, obj, routes>>

DeleteRoute(h, r) ==
    /\ At(h, "Delete") /\ r \in req[h].keys
    /\ routes' = [routes EXCEPT ![r] = None]
    /\ req' = [req EXCEPT ![h].keys = @ \ {r}]
    /\ UNCHANGED <<live, inst, doms, addr, apps, obj>>

Removed(h) ==
    /\ At(h, "Delete") /\ req[h].keys = {}
    /\ IF AfterRemoval(h) = "idle" THEN Answer(h) ELSE Goto(h, AfterRemoval(h))
    /\ UNCHANGED <<live, inst, doms, addr, apps, obj, routes>>

\* registerAppRoutes: an app has routes when it is available and has a port.
Routable(o) == obj[o].avail /\ obj[o].port # None
Register(h) ==
    LET o == req[h].o IN
    /\ At(h, "Register")
    /\ req' = [req EXCEPT ![h].pc = "Set",
                 ![h].keys = IF Routable(o)
                             THEN RoutesFor(Hostname(o), doms[req[h].p]) ELSE {},
                 ![h].to = IF Routable(o) THEN <<addr[req[h].p], obj[o].port>>
                           ELSE None]
    /\ UNCHANGED <<live, inst, doms, addr, apps, obj, routes>>

SetRoute(h, r) ==
    /\ At(h, "Set") /\ r \in req[h].keys
    /\ routes' = [routes EXCEPT ![r] = req[h].to]
    /\ req' = [req EXCEPT ![h].keys = @ \ {r}]
    /\ UNCHANGED <<live, inst, doms, addr, apps, obj>>

Registered(h) ==
    /\ At(h, "Set") /\ req[h].keys = {}
    /\ IF Serves(h, "domains") THEN Goto(h, "RegisterNext") ELSE Answer(h)
    /\ UNCHANGED <<live, inst, doms, addr, apps, obj, routes>>

\* The registering half of a reconciliation needs an address.
GetAddress(h) ==
    /\ At(h, "GetAddress")
    /\ \/ /\ req[h].p \in inst /\ addr[req[h].p] # None
          /\ req' = [req EXCEPT ![h].left = req[h].all,
                       ![h].pc = IF Serves(h, "domains") THEN "RegisterNext"
                                 ELSE "Register"]
       \/ (req[h].p \notin inst \/ addr[req[h].p] = None) /\ Answer(h)
    /\ UNCHANGED <<live, inst, doms, addr, apps, obj, routes>>
-----------------------------------------------------------------------------
(* Commands to the VM.                                                      *)

\* A deletion goes on without an instance, the others need one.
GetInstance(h) ==
    /\ At(h, "GetInstance")
    /\ IF req[h].p \in inst THEN Goto(h, "Command")
       ELSE IF Serves(h, "delete") THEN Goto(h, "DeleteApp") ELSE Answer(h)
    /\ UNCHANGED <<live, inst, doms, addr, apps, obj, routes>>

\* Runtime.DeployApp, StopApp, RemoveApp reach the agent in the VM ...
Obeyed(h) ==
    /\ At(h, "Command") /\ req[h].p \in inst
    /\ CASE Serves(h, "deploy") -> Becomes(h, "deployed") /\ Goto(h, "Register")
         [] Serves(h, "stop")   -> Becomes(h, "stopped") /\ Goto(h, "Remove")
         [] Serves(h, "delete") -> Becomes(h, "new") /\ Goto(h, "DeleteApp")
    /\ UNCHANGED <<live, inst, doms, addr, apps, routes>>

\* ... or fail, which a deletion only logs.
Failed(h) ==
    /\ At(h, "Command")
    /\ "vm" \in scope.faults \/ req[h].p \notin inst
    /\ IF Serves(h, "delete") THEN Goto(h, "DeleteApp") ELSE Answer(h)
    /\ UNCHANGED <<live, inst, doms, addr, apps, obj, routes>>

\* Store.DeleteApp, by name.
DeleteApp(h) ==
    /\ At(h, "DeleteApp")
    /\ apps' = [apps EXCEPT ![req[h].p][req[h].a] = None]
    /\ Answer(h)
    /\ UNCHANGED <<live, inst, doms, addr, obj, routes>>
-----------------------------------------------------------------------------
(* Project handlers that touch routes.                                      *)

\* handleDomainsUpdate sets the domains, then UpdateProject, which fails when
\* the project is gone, then GetApps.
UpdateDomains(h, D) ==
    LET p == req[h].p IN
    /\ At(h, "UpdateDomains")
    /\ doms' = [doms EXCEPT ![p] = D]
    /\ IF p \in live
       THEN req' = [req EXCEPT ![h].pc = "GetApps", ![h].old = doms[p]]
       ELSE Answer(h)
    /\ UNCHANGED <<live, inst, addr, apps, obj, routes>>

GetApps(h) ==
    /\ At(h, "GetApps")
    /\ req' = [req EXCEPT ![h].pc = "RemoveNext", ![h].all = AppsOf(req[h].p),
                          ![h].left = AppsOf(req[h].p)]
    /\ UNCHANGED <<live, inst, doms, addr, apps, obj, routes>>

\* One app after the other, first to remove its routes, then to register them.
NextApp(h, o) ==
    /\ req[h].pc \in {"RemoveNext", "RegisterNext"} /\ o \in req[h].left
    /\ req' = [req EXCEPT ![h].left = @ \ {o}, ![h].o = o,
                 ![h].pc = IF @ = "RemoveNext" THEN "Remove" ELSE "Register"]
    /\ UNCHANGED <<live, inst, doms, addr, apps, obj, routes>>

LastApp(h) ==
    /\ req[h].pc \in {"RemoveNext", "RegisterNext"} /\ req[h].left = {}
    /\ \/ At(h, "RegisterNext") /\ Answer(h)
       \/ At(h, "RemoveNext") /\ Serves(h, "domains") /\ Goto(h, "GetAddress")
       \/ At(h, "RemoveNext") /\ Serves(h, "remove") /\ Goto(h, "DestroyInstance")
    /\ UNCHANGED <<live, inst, doms, addr, apps, obj, routes>>

\* Apps that are no longer in their VM.
Lost(O) == obj' = [o \in Objs |-> IF o \in O /\ obj[o].phase # "new"
                                  THEN [obj[o] EXCEPT !.phase = "stopped"]
                                  ELSE obj[o]]

\* handleProjectDelete destroys the VM, however that ends, and forgets it.
DestroyInstance(h) ==
    /\ At(h, "DestroyInstance")
    /\ inst' = inst \ {req[h].p}
    /\ Lost(AppsOf(req[h].p))
    /\ Goto(h, "DeleteProject")
    /\ UNCHANGED <<live, doms, addr, apps, routes>>

\* Store.DeleteProject forgets the project's apps with it.
DeleteProject(h) ==
    /\ At(h, "DeleteProject")
    /\ live' = live \ {req[h].p}
    /\ apps' = [apps EXCEPT ![req[h].p] = [a \in AppNames |-> None]]
    /\ Answer(h)
    /\ UNCHANGED <<inst, doms, addr, obj, routes>>
-----------------------------------------------------------------------------
(* The rest of the world.                                                   *)

\* A VM that boots (again) tells its address (waitReady); apps that nothing
\* restarts are gone.
VMReady(p, ip) ==
    /\ "address" \in scope.faults /\ p \in inst
    /\ \A q \in inst : addr[q] # ip
    /\ addr' = [addr EXCEPT ![p] = ip]
    /\ \E gone \in SUBSET AppsOf(p) : Lost(gone)
    /\ UNCHANGED <<live, inst, doms, apps, routes, req>>

\* RebuildRoutes: an empty table, then every app of every project that has an
\* instance with an address.  Of apps that share a route the last one wins.
Rebuilt(r) ==
    UNION {{<<addr[p], obj[o].port>> :
              o \in {x \in AppsOf(p) : Routable(x) /\ Hostname(x) = r[1]}} :
            p \in {q \in live \cap inst : addr[q] # None /\ r[2] \in doms[q]}}

ServerRestarts ==
    /\ "restart" \in scope.faults
    /\ \A h \in Handlers : At(h, "idle")
    /\ \E last \in [RouteKeys -> Backends \cup {None}] :
          /\ \A r \in RouteKeys : IF Rebuilt(r) = {} THEN last[r] = None
                                  ELSE last[r] \in Rebuilt(r)
          /\ routes' = last
    /\ UNCHANGED <<live, inst, doms, addr, apps, obj, req>>
-----------------------------------------------------------------------------
Arrives(h) == \E op \in scope.ops, p \in Projects, a \in AppNames : Receive(h, op, p, a)

Defines(h) == \E host \in Hostnames \cup {None}, avail \in BOOLEAN,
                 port \in Ports \cup {None} :
                 \/ \E o \in Objs : CreateApp(h, o, host, avail, port)
                 \/ UpdateApp(h, host, avail, port)

Routing(h) == \/ Remove(h) \/ Removed(h) \/ Register(h) \/ Registered(h)
              \/ \E r \in RouteKeys : DeleteRoute(h, r) \/ SetRoute(h, r)
              \/ GetAddress(h)

Deletes(h) == DeleteApp(h) \/ DestroyInstance(h) \/ DeleteProject(h)

Reconciles(h) == \/ \E D \in SUBSET scope.domains : UpdateDomains(h, D)
                 \/ GetApps(h) \/ \E o \in Objs : NextApp(h, o)
                 \/ LastApp(h)

Next == /\ \/ \E h \in Handlers :
                \/ Arrives(h) \/ GetApp(h) \/ Defines(h) \/ SetApp(h)
                \/ GetInstance(h) \/ Obeyed(h) \/ Failed(h)
                \/ Routing(h) \/ Reconciles(h) \/ Deletes(h)
           \/ \E p \in Projects, ip \in Addrs : VMReady(p, ip)
           \/ ServerRestarts
        /\ UNCHANGED scope

Spec == Init /\ [][Next]_vars
-----------------------------------------------------------------------------
(* Properties.                                                               *)

Request == [pc : {"idle", "GetApp", "SetApp", "Update", "Remove", "Delete",
                  "Register", "Set", "GetAddress", "GetInstance", "Command",
                  "DeleteApp", "UpdateDomains", "GetApps", "RemoveNext",
                  "RegisterNext", "DestroyInstance", "DeleteProject"},
            op : AllOps, p : Projects \cup {None}, a : AppNames \cup {None},
            o : Objs \cup {None}, all : SUBSET Objs, left : SUBSET Objs,
            old : SUBSET Domains, host : Hostnames \cup {None},
            keys : SUBSET RouteKeys, to : Backends \cup {None}]

\* Type invariant of the store, the route table and the handlers.
TypeOK == /\ scope \in Scopes
          /\ live \subseteq Projects /\ inst \subseteq Projects
          /\ doms \in [Projects -> SUBSET Domains]
          /\ addr \in [Projects -> Addrs \cup {None}]
          /\ apps \in [Projects -> [AppNames -> Objs \cup {None}]]
          /\ obj \in [Objs -> Apps \cup {Free}]
          /\ routes \in [RouteKeys -> Backends \cup {None}]
          /\ req \in [Handlers -> Request]

Quiet == \A h \in Handlers : At(h, "idle")

\* An app of a project that asks for this route.
Owns(p, a, r) == /\ p \in live /\ r[2] \in doms[p] /\ apps[p][a] # None
                 /\ obj[apps[p][a]].avail /\ Hostname(apps[p][a]) = r[1]

\* When requests come one at a time, every route between them is that of a
\* project that has the domain and an available app with the hostname: no route
\* outlives the app, the project, the hostname or the domain it was made for
\* (docs/concepts.md:111-112).
RoutesHaveOwners ==
    scope.clients = 1 /\ Quiet => \A r \in RouteKeys : routes[r] # None =>
        \E p \in Projects, a \in AppNames : Owns(p, a, r)

\* Requests that keep routes up: deployments, updates and domain changes of one
\* project at one address, whose apps cannot ask for one route.
HostsOf(a) == scope.hosts[a] \cup {a}
Apart == /\ \A p, q \in scope.projects : p = q
         /\ scope.ops \subseteq {"deploy", "update", "domains"}
         /\ "address" \notin scope.faults
         /\ \A a, b \in AppNames : a # b => HostsOf(a) \cap HostsOf(b) = {}

\* When the requests are over, in whatever order their steps came, every app
\* that was deployed with its present ports and is available is reached by
\* its present hostname under each of its project's present domains, at its
\* port unless ports change (docs/concepts.md:94-102).
RightRoute(p, o, d) ==
    LET to == routes[<<Hostname(o), d>>] IN
    to \in {addr[p]} \X Ports /\ ((\A q, r \in Ports : q = r) => to[2] = obj[o].port)
Deployed(p, o, d) == /\ o # None /\ d \in doms[p]
                     /\ obj[o].phase = "deployed" /\ Routable(o)
DeployedIsRouted ==
    Apart /\ Quiet => \A p \in live, a \in AppNames, d \in Domains :
        Deployed(p, apps[p][a], d) => RightRoute(p, apps[p][a], d)

\* docs/concepts.md:111: routes are "Removed when an app is stopped or
\* deleted": between requests no route leads to an app that was stopped.
StoppedIsUnrouted ==
    Quiet => \A r \in RouteKeys : routes[r] # None =>
        ~ \E p \in Projects, a \in AppNames :
            /\ Owns(p, a, r) /\ routes[r][1] = addr[p]
            /\ obj[apps[p][a]].phase = "stopped"
            /\ \A b \in AppNames \ {a} : ~Owns(p, b, r)
-----------------------------------------------------------------------------
(* The inductive invariant.                                                  *)

\* Where each kind of request may be.
OpsAt(pc) ==
    CASE pc = "GetApp"                       -> {"create", "deploy", "update", "stop", "delete"}
      [] pc = "SetApp"                       -> {"create", "deploy"}
      [] pc = "Update"                       -> {"update"}
      [] pc \in {"Remove", "Delete"}         -> {"update", "stop", "delete", "domains", "remove"}
      [] pc \in {"Register", "Set"}          -> {"deploy", "update", "domains"}
      [] pc = "GetAddress"                   -> {"update", "domains"}
      [] pc \in {"GetInstance", "Command"}   -> {"deploy", "stop", "delete"}
      [] pc = "DeleteApp"                    -> {"delete"}
      [] pc \in {"UpdateDomains", "RegisterNext"} -> {"domains"}
      [] pc \in {"GetApps", "RemoveNext"}    -> {"domains", "remove"}
      [] pc \in {"DestroyInstance", "DeleteProject"} -> {"remove"}
      [] OTHER                               -> AllOps

\* A request at a step that uses an app holds one.
HoldsApp(h) == \/ req[h].pc \in {"SetApp", "Update", "Remove", "Delete", "Register",
                                 "Set", "GetInstance", "Command", "DeleteApp"}
               \/ At(h, "GetAddress") /\ Serves(h, "update")

Requests == \A h \in Handlers :
    /\ req[h].op \in OpsAt(req[h].pc)
    /\ ~At(h, "idle") => req[h].p \in Projects /\ req[h].a \in AppNames
    /\ HoldsApp(h) => req[h].o # None
    /\ At(h, "Remove") /\ Serves(h, "update") => req[h].host # None

\* What a table or a handler names is an app.
Used(o)  == obj[o] # Free
Reached == /\ \A p \in Projects : \A o \in AppsOf(p) : Used(o)
           /\ \A h \in Handlers :
                 \A o \in (req[h].all \cup req[h].left \cup {req[h].o}) \ {None} : Used(o)

Base == TypeOK /\ Requests /\ Reached

\* One request at a time: the rest of the invariant.
Alone == \A g, h \in Handlers : At(g, "idle") \/ At(h, "idle") \/ g = h

\* Every app has an object of its own.
Distinct == \A p, q \in Projects, a, b \in AppNames :
               apps[p][a] # None /\ apps[p][a] = apps[q][b] => p = q /\ a = b

\* The project of a request is there, and what a handler holds is what the
\* table holds, but for an app that is being created.
OnOneApp(h) == req[h].op \in {"deploy", "update", "stop", "delete"} /\ ~At(h, "GetApp")
Creating(h) == Serves(h, "create") /\ At(h, "SetApp")
Current(h) ==
    ~At(h, "idle") =>
        /\ req[h].p \in live
        /\ OnOneApp(h) => req[h].o = App(h)
        /\ Creating(h) => App(h) = None /\ \A p \in Projects : req[h].o \notin AppsOf(p)
        /\ req[h].op \in {"domains", "remove"} =>
              /\ req[h].all \cup req[h].left \subseteq AppsOf(req[h].p)
              /\ req[h].pc \in {"Remove", "Delete", "Register", "Set"} =>
                    req[h].o \in AppsOf(req[h].p)

\* A request that removes an app or a project removes its routes first.
Cleared(p, o, but) == \A r \in RoutesFor(Hostname(o), doms[p]) \ but : routes[r] = None
Visited(h)  == IF Serves(h, "delete") THEN {req[h].o} ELSE AppsOf(req[h].p) \ req[h].left
Departing(h) ==
    /\ /\ req[h].op \in {"delete", "remove"}
       /\ req[h].pc \notin {"idle", "GetApp", "GetApps"}
       => \A o \in Visited(h) :
             \/ At(h, "Remove") /\ o = req[h].o
             \/ Cleared(req[h].p, o, IF At(h, "Delete") /\ o = req[h].o THEN req[h].keys ELSE {})
    /\ req[h].pc \in {"DestroyInstance", "DeleteProject"} => req[h].left = {}

\* Routes are set for an app that asks for them.
Registering(h) ==
    At(h, "Set") => \A r \in req[h].keys :
        obj[req[h].o].avail /\ r \in RoutesFor(Hostname(req[h].o), doms[req[h].p])

\* Routes that the request is still going to remove.
Doomed(h, r) ==
    \/ At(h, "Remove") /\ r \in RemovedKeys(h)
    \/ At(h, "Delete") /\ r \in req[h].keys
    \/ /\ Serves(h, "domains")
       /\ \E o \in CASE At(h, "GetApps") -> AppsOf(req[h].p)
                     [] req[h].pc \in {"RemoveNext", "Remove", "Delete"} -> req[h].left
                     [] OTHER -> {} :
             r \in RoutesFor(Hostname(o), req[h].old)

NoStray == \A r \in RouteKeys : routes[r] # None =>
              \/ \E p \in Projects, a \in AppNames : Owns(p, a, r)
              \/ \E h \in Handlers : Doomed(h, r)

OneByOneHolds ==
    scope.clients = 1 =>
        /\ Alone /\ Distinct /\ NoStray
        /\ \A h \in Handlers : Current(h) /\ Departing(h) /\ Registering(h)

\* Requests that keep routes up, any number of them at a time.  An app keeps its
\* object, and its hostnames are its own.
Named == \A p \in live, a \in AppNames : apps[p][a] # None =>
            obj[apps[p][a]].name = a /\ Hostname(apps[p][a]) \in HostsOf(a)

\* What a handler holds is what the table holds; the routes it removes or sets
\* are those of the app it is at.
Working(h) ==
    ~At(h, "idle") =>
        /\ req[h].op \in {"deploy", "update", "domains"} /\ req[h].p \in live
        /\ OnOneApp(h) => req[h].o = App(h)
        /\ Serves(h, "domains") =>
              /\ req[h].left \subseteq AppsOf(req[h].p)
              /\ req[h].pc \notin {"UpdateDomains", "GetApps"} =>
                    req[h].all = AppsOf(req[h].p)
              /\ req[h].pc \in {"Remove", "Delete", "Register", "Set"} =>
                    req[h].o \in AppsOf(req[h].p)
        /\ At(h, "Remove") /\ Serves(h, "update") => req[h].host \in HostsOf(req[h].a)
        /\ req[h].pc \in {"Delete", "Set"} =>
              \A r \in req[h].keys : r[1] \in HostsOf(obj[req[h].o].name)
        /\ At(h, "Set") /\ req[h].keys # {} => req[h].to \in {addr[req[h].p]} \X Ports

\* Requests that are still going to set a route of an app, as the app and the
\* domains are then.
Owes(h, o, r) ==
    \/ req[h].o = o /\ (At(h, "Register") \/ (At(h, "Set") /\ r \in req[h].keys))
    \/ req[h].o = o /\ Serves(h, "update") /\ req[h].pc \in {"Remove", "Delete", "GetAddress"}
    \/ /\ Serves(h, "domains")
       /\ \/ req[h].pc \in {"GetApps", "RemoveNext", "Remove", "Delete", "GetAddress"}
          \/ req[h].pc \in {"RegisterNext", "Register", "Set"} /\ o \in req[h].left

\* A deployed app is routed, or about to be.
RoutedOrOwed == \A p \in live, a \in AppNames, d \in Domains :
    LET o == apps[p][a] IN
    Deployed(p, o, d) => \/ RightRoute(p, o, d)
                         \/ \E h \in Handlers : Owes(h, o, <<Hostname(o), d>>)

ApartHolds ==
    Apart => /\ live \subseteq scope.projects /\ live \subseteq inst
             /\ \A p \in live : addr[p] # None
             /\ Named /\ RoutedOrOwed
             /\ \A h \in Handlers : Working(h)

IInv == Base /\ OneByOneHolds /\ ApartHolds
=============================================================================
