----------------------------- MODULE MCCommands -----------------------------
(* Instances of Commands for TLC.  Processes, apps, values and keys are only *)
(* compared for equality: permuting each is a symmetry.  The pure functions  *)
(* of Definitions are looked at by the same run.                             *)
EXTENDS Commands, Definitions

Symmetric == Permutations(Clients) \cup Permutations(Values) \cup Permutations(Keys)
             \cup Permutations(Apps)

\* What nobody will read: memories of processes that have ended.
Read == [w \in Clients \cup {Server} |-> IF Alive(w) THEN mem[w] ELSE Empty]
View == <<scope, begun, file, Read, up, key, keys, vm, cmd,
          {w \in fresh : Alive(w)}, told, raced>>

ProjectOps == {"create", "delete", "stop", "start", "restart", "edit", "project list",
               "project logs"}
EnvOps == {"env set", "env delete", "env list"}
AppOps == {"app create", "app edit", "app deploy", "app deploy image", "app stop",
           "app delete", "app list", "app info", "app logs", "push-image", "compose up",
           "compose down", "deploy"}

\* One command at a time about the project and its VM.
OnProjects == [worlds |-> {Empty, Running}, ops |-> ProjectOps, commands |-> 3,
               clients |-> 1, faults |-> {"outside", "server", "direct"}]

\* One command at a time about its environment and its apps.
OnApps == [worlds |-> {Running}, ops |-> EnvOps \cup (AppOps \ {"deploy"}), commands |-> 3,
           clients |-> 1, faults |-> {"outside"}]

\* Two of them, which may bring up a manifest and pass the server by.
InTurn == [worlds |-> {Running}, ops |-> EnvOps \cup AppOps, commands |-> 2,
           clients |-> 1, faults |-> {"outside", "direct"}]

\* Two at a time, interrupted, and the server stops and starts.
Overlapping == [worlds |-> {Empty, Running},
                ops |-> {"create", "delete", "project info", "stop", "edit", "env set",
                        "app create", "compose down"},
                commands |-> 2, clients |-> 2, faults |-> {"kill", "direct", "server"}]

\* A manifest brought up beside the environment, interrupted.
Deploying == [worlds |-> {Running}, ops |-> {"deploy", "env set"}, commands |-> 2,
              clients |-> 2, faults |-> {"kill", "direct"}]

\* Two at a time and a third after them.
ThenOne == [worlds |-> {Running}, ops |-> {"env set", "env list", "stop"}, commands |-> 3,
            clients |-> 2, faults |-> {"kill", "direct"}]

\* A value for the project, an app without one, and its deployment.
Inheriting == {[worlds |-> {Running}, ops |-> {"env set", "app create", "app deploy"},
                commands |-> 3, clients |-> 1, faults |-> {}]}

Everything == {OnProjects, OnApps, InTurn, Overlapping, Deploying, ThenOne}

\* Before the first command: files are resolved as specified.  Definitions has
\* no state: the initial state of one scope is enough (parser.go:193-242,
\* env.go:303-321).
ResolvedAtStart == scope = ThenOne /\ begun = 0 /\ ~up => ResolvedAsSpecified
=============================================================================
