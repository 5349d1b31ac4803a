--------------------------- MODULE AppSupervision ---------------------------
(***************************************************************************)
(* What GoShip Init promises about the process-mode apps of one VM, stated *)
(* without its goroutines, its mutex and its bookkeeping.  Every app has a *)
(* standing order (nothing known, keep it running, keep it down) and the   *)
(* set of operating-system processes that execute it.                      *)
(*                                                                         *)
(*   - a new process of an app appears only when none is left of the app;  *)
(*   - an app that was ordered down comes back only by a new deployment;   *)
(*   - an app is forgotten only when none of its processes is left.        *)
(*                                                                         *)
(* ProcessManager.tla is shown to implement this specification.            *)
(***************************************************************************)
EXTENDS Naturals

CONSTANTS Apps,   \* names of process-mode apps
          Pids    \* identifiers of operating-system processes

VARIABLES want,   \* the standing order for an app
          live    \* the processes that execute an app

vars == <<want, live>>

Orders == {"absent", "run", "down"}

TypeOK == /\ want \in [Apps -> Orders]
          /\ live \in [Apps -> SUBSET Pids]

Init == /\ want = [a \in Apps |-> "absent"]
        /\ live = [a \in Apps |-> {}]

\* A deployment starts the app, once whatever it replaces is gone.
Launch(a, p) == /\ live[a] = {}
                /\ want[a] # "run"
                /\ want' = [want EXCEPT ![a] = "run"]
                /\ live' = [live EXCEPT ![a] = {p}]

\* The supervisor brings back an app that is meant to run.
Relaunch(a, p) == /\ live[a] = {}
                  /\ want[a] = "run"
                  /\ live' = [live EXCEPT ![a] = {p}]
                  /\ UNCHANGED want

\* A process ends, for whatever reason.
Exit(a, p) == /\ p \in live[a]
              /\ live' = [live EXCEPT ![a] = @ \ {p}]
              /\ UNCHANGED want

\* An operator (or a redeployment, or a shutdown) orders the app down.
OrderDown(a) == /\ want[a] = "run"
                /\ want' = [want EXCEPT ![a] = "down"]
                /\ UNCHANGED live

\* Apps that are down are forgotten: one by Remove or by a deployment that
\* failed, all of them at once when the agent shuts down.
Forget(S) == /\ S # {}
             /\ \A a \in S : want[a] = "down" /\ live[a] = {}
             /\ want' = [a \in Apps |-> IF a \in S THEN "absent" ELSE want[a]]
             /\ UNCHANGED live

Next == \/ \E a \in Apps, p \in Pids : \/ Launch(a, p)
                                       \/ Relaunch(a, p)
                                       \/ Exit(a, p)
        \/ \E a \in Apps : OrderDown(a)
        \/ \E S \in SUBSET Apps : Forget(S)

Spec == Init /\ [][Next]_vars
=============================================================================
