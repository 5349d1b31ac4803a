-------------------------- MODULE MCProcessManager --------------------------
(* Instances of ProcessManager for TLC.  Entries, Pids and Apps only name    *)
(* things and no property compares them, so permuting each is a symmetry.    *)
(* What an unreferenced object still contains can influence nothing: two     *)
(* states that differ only there are one state to the model checker.         *)
EXTENDS ProcessManager, TLC

Symmetric == Permutations(Apps) \cup Permutations(Entries) \cup Permutations(Pids)

Reachable == <<processes, [e \in Entries |-> IF Garbage(e) THEN BlankEntry ELSE entry[e]],
               os, mon, mu, req, shut>>
=============================================================================
