---------------------------- MODULE MCToolInstall ----------------------------
(***************************************************************************)
(* Starts for the model checker.  The installers are at one place, or they *)
(* share only the Entry, or only the version and so the cache.  An earlier *)
(* installation at one of the places may have been interrupted and may     *)
(* have left an archive; the other places are empty.  To bound the run     *)
(* there are backups only where both installers are at one place and the   *)
(* cache is empty, and a toolchain is not installed into two Entries.      *)
(***************************************************************************)
EXTENDS ToolInstall

CONSTANT MaxBackups  \* bound: backups an earlier installation left behind

Casting(meeting) ==
  CHOOSE c \in [Installers -> Places] : \A i, j \in Installers : i # j =>
    /\ (c[i].entry = c[j].entry) <=> (meeting \in {"place", "entry"})
    /\ (c[i].version = c[j].version) <=> (meeting \in {"place", "version"})

\* What there is at a place: its tree, its backups and its version's archive.
Start(k, c, tree, backups, archive) ==
  LET used == c[CHOOSE i \in Installers : TRUE] IN
  [kind |-> k, cast |-> c,
   target |-> [p \in Places |-> IF p = used THEN tree ELSE "none"],
   backup |-> [p \in Places |-> [b \in Backups |->
                 IF p = used /\ b \in backups THEN "whole" ELSE "none"]],
   cache |-> [v \in Versions |-> IF v = used.version THEN archive ELSE "none"]]

LeftBehind == {s \in SUBSET Backups : Cardinality(s) <= MaxBackups}

SampleStarts ==
       {Start(k, Casting("place"), t, b, "none") : k \in ToolKinds, t \in Trees, b \in LeftBehind}
  \cup {Start("archive", Casting(m), t, {}, a) :
           m \in {"place", "entry", "version"}, t \in Trees, a \in Archives}
  \cup {Start("toolchain", Casting("entry"), t, {}, "none") : t \in Trees}
=============================================================================
