----------------------------- MODULE Installation -----------------------------
(***************************************************************************)
(* What the guest agent promises about a file that is installed in a VM,   *)
(* stated without commands, temporary files, renames and crashes between   *)
(* two of them.  There is the file that is installed, if only under the    *)
(* name of its backup, and the file on offer.                              *)
(*                                                                         *)
(*   - a file is replaced at once, by the whole of the file on offer;      *)
(*   - an offer is taken at most once; a newer one, a failure or a crash   *)
(*     withdraws it;                                                       *)
(*   - once there is a file there always is one.                           *)
(*                                                                         *)
(* Transfers.tla is shown to implement this specification.                 *)
(***************************************************************************)
CONSTANTS Files,   \* the files that clients send
          None,    \* no file
          Before   \* what may be installed at the start

VARIABLES current,   \* the file that is installed
          offer      \* the file on offer

vars == <<current, offer>>

Init == current \in Before /\ offer = None

Offer == /\ offer' \in Files
         /\ UNCHANGED current

Withdraw == /\ offer # None
            /\ offer' = None
            /\ UNCHANGED current

Take == /\ offer # None
        /\ current' = offer
        /\ offer' = None

Next == Offer \/ Withdraw \/ Take

Spec == Init /\ [][Next]_vars
=============================================================================
