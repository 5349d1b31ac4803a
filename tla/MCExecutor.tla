----------------------------- MODULE MCExecutor -----------------------------
(* Instances of Executor for TLC.  Apps, Pids and Versions only name things: *)
(* permuting each is a symmetry.                                             *)
EXTENDS Executor, TLC

Symmetric == Permutations(Apps) \cup Permutations(Pids) \cup Permutations(Versions)
=============================================================================
