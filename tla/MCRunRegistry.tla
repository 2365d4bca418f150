---------------------------- MODULE MCRunRegistry -----------------------------
(***************************************************************************)
(* Bounds for the model checker: a companion run takes part with the other *)
(* operations, when three compete for two slots and finished runs are      *)
(* pruned, or with the shutdown alone, which then joins a run that cannot  *)
(* be canceled; never with a user's cancel.                                *)
(***************************************************************************)
EXTENDS RunRegistry

CONSTANT Companions  \* the runs that are checked with fewer other threads

TakesPart(t) == pc[t] # "idle"

FewEnough ==
  (\E r \in Companions : TakesPart(r)) =>
      /\ \A c \in Cancelers : ~TakesPart(c)
      /\ \A s \in Shutdowners : TakesPart(s) => \A o \in Ops \ Companions : ~TakesPart(o)

\* Only first steps are cut off, and no fairness is assumed of those.
MCNext == Next /\ FewEnough'

MCSpec == Init /\ [][MCNext]_vars /\ Fairness
=============================================================================
