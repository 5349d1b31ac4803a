------------------------- MODULE MCProjectLifecycle -------------------------
(* Instances of ProjectLifecycle for TLC.  Identifiers, names and handlers   *)
(* are only compared for equality: permuting each is a symmetry, of which    *)
(* the sets of scopes are fixed points.                                      *)
EXTENDS ProjectLifecycle, TLC

Symmetric == Permutations(Ids) \cup Permutations(Names) \cup Permutations(Handlers)

\* One request at a time and restarts in between.
Sequential == [names : {Names}, clients : {1}, creations : {3},
               faults : {{"restart"}}]

OneName == {{n} : n \in Names}

\* One request at a time and everything may fail; two names with the faults
\* that leave the store and the hypervisor apart.
Faulty == [names : OneName, clients : {1}, creations : {2},
           faults : {AllFaults \ {"restart"}}]
          \cup
          [names : {Names}, clients : {1}, creations : {2},
           faults : {{"save", "vm", "crash"}}]

\* Two requests at a time about one name, and crashes.
Concurrent == [names : OneName, clients : {2}, creations : {2}, faults : {{"crash"}}]

\* The same with nothing failing.
Overlapping == [names : OneName, clients : {2}, creations : {2}, faults : {{}}]

Everything == Sequential \cup Faulty \cup Concurrent
=============================================================================
