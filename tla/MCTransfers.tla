----------------------------- MODULE MCTransfers -----------------------------
(* Instances of Transfers for TLC.  Clients are only compared for equality.  *)
(* A temporary file without a transfer is truncated before it is used again, *)
(* and once a client has left early nothing depends on "installed".          *)
EXTENDS Transfers, TLC

Symmetric == Permutations(Clients)

Relevant == <<kind, client, conns, wire, back, up, step, xfer, place, backup,
              gaveUp, IF xfer = None THEN None ELSE tmp,
              IF gaveUp THEN None ELSE installed>>
=============================================================================
