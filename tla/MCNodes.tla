------------------------------- MODULE MCNodes -------------------------------
(* Instances of Nodes for TLC.  No symmetry: the run checks liveness.        *)
EXTENDS Nodes
=============================================================================
