------------------------------ MODULE Execution ------------------------------
(***************************************************************************)
(* What an execution promises to the registry that started it: its end is  *)
(* reported once, an exit is reported only when no process of the command  *)
(* runs any more, and the execution is over only after its report.         *)
(***************************************************************************)
VARIABLES
    tree,    \* the command's processes: "none" so far, "alive", or "gone"
    report,  \* the outcome the observer was told, or "none"
    over     \* the execution thread ended

vars == <<tree, report, over>>

Init == tree = "none" /\ report = "none" /\ over = FALSE

Launch ==
    /\ tree = "none" /\ report = "none"
    /\ tree' = "alive"
    /\ UNCHANGED <<report, over>>

Vanish ==
    /\ tree = "alive"
    /\ tree' = "gone"
    /\ UNCHANGED <<report, over>>

Report(outcome) ==
    /\ report = "none"
    /\ outcome = "Exited" => tree # "alive"
    /\ report' = outcome
    /\ UNCHANGED <<tree, over>>

\* The thread's end may close the last handle that keeps processes running.
End ==
    /\ report # "none" /\ ~over
    /\ over' = TRUE
    /\ tree' = tree \/ (tree = "alive" /\ tree' = "gone")
    /\ UNCHANGED report

Next == Launch \/ Vanish \/ Report("Exited") \/ Report("Failed") \/ End

Spec == Init /\ [][Next]_vars
=============================================================================
