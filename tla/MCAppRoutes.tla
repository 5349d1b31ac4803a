---------------------------- MODULE MCAppRoutes ----------------------------
(* Instances of AppRoutes for TLC.  Domains and handlers are only compared   *)
(* for equality; so are objects, of which any unreachable one may be         *)
(* allocated, and projects, addresses and ports.  The sets of scopes are     *)
(* fixed points of permuting these.  What is left in an unreachable object   *)
(* is no part of the state, and what became of an app in its VM, which no    *)
(* action asks, only of those states a property asks it of.                  *)
EXTENDS AppRoutes, TLC

Symmetric == Permutations(Objs) \cup Permutations(Domains)
             \cup Permutations(Handlers) \cup Permutations(Projects)
             \cup Permutations(Addrs) \cup Permutations(Ports)

Reachable == <<scope, live, inst, doms, addr, apps, routes, req,
               [o \in Objs |-> IF Unreachable(o) THEN Free
                              ELSE IF Apart THEN obj[o] ELSE [obj[o] EXCEPT !.phase = "new"]]>>

\* Any app may be given any hostname: apps may share one.
Shared == [a \in AppNames |-> Hostnames]

\* Apps never share a hostname: the first may have a second one.
Exclusive == [a \in AppNames |->
                IF a = "a" THEN {h \in Hostnames : h \notin AppNames} ELSE {}]

\* One request at a time on two projects that may share a domain.
OneByOne == [projects : {Projects}, defined : {{}}, hosts : {Shared},
             domains : {{d} : d \in Domains}, clients : {1}, ops : {AllOps},
             faults : {AllFaults}]

\* Two at a time on one app: all three operations that route it with one
\* domain, and a deployment against each of the others with two.
TwoAtATime == [projects : {{p} : p \in Projects}, defined : {AppNames}, hosts : {Exclusive},
               domains : {{d} : d \in Domains}, clients : {2},
               ops : {{"deploy", "update", "domains"}}, faults : {{"vm", "restart"}}]
              \cup
              [projects : {{p} : p \in Projects}, defined : {AppNames}, hosts : {Exclusive},
               domains : {Domains}, clients : {2},
               ops : {{"deploy", "domains"}, {"deploy", "update"}},
               faults : {{"vm", "restart"}}]

Everything == OneByOne \cup TwoAtATime

\* One at a time, and nothing fails: an app is deployed and stopped, and its
\* project's domains change.
Stopping == [projects : {{p} : p \in Projects}, defined : {AppNames}, hosts : {Exclusive},
             domains : {{d} : d \in Domains}, clients : {1},
             ops : {{"deploy", "stop", "domains"}}, faults : {{}}]
=============================================================================
