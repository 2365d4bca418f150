----------------------------- MODULE RunRecord -----------------------------
(***************************************************************************)
(* What a run journal promises to whoever reads it: a run is recorded as   *)
(* Running, its owner gives it one ending, and a run whose owner is gone   *)
(* without one is recorded as interrupted.  Nothing is recorded after an   *)
(* ending, and nobody ends a run that still has its owner.                 *)
(***************************************************************************)

VARIABLES
    record,   \* what the journal says of the run
    owner     \* whether the run's owner is still there

Endings == {"Exited", "Canceled", "Failed"}

RecordTypeOK ==
    /\ record \in {"none", "Running", "Interrupted"} \union Endings
    /\ owner \in {"none", "present", "gone"}

Init == record = "none" /\ owner = "none"

Begin ==
    /\ record = "none"
    /\ record' = "Running" /\ owner' = "present"

End ==
    /\ record = "Running" /\ owner = "present"
    /\ record' \in Endings
    /\ UNCHANGED owner

Leave ==
    /\ owner = "present"
    /\ owner' = "gone"
    /\ UNCHANGED record

Interrupt ==
    /\ record = "Running" /\ owner = "gone"
    /\ record' = "Interrupted"
    /\ UNCHANGED owner

Next == Begin \/ End \/ Leave \/ Interrupt

Spec == Init /\ [][Next]_<<record, owner>>
=============================================================================
