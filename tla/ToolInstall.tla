------------------------------ MODULE ToolInstall ------------------------------
(***************************************************************************)
(* The installation of one managed tool into an Entry: under a lock per    *)
(* tool an interrupted installation is recovered, and if nothing valid is  *)
(* left the tool is staged and published.  An archive tool (bun, pwsh) is  *)
(* staged from an archive in a cache that all Entries share, under a lease *)
(* of its own; a toolchain (rust, msvc) is staged by its installer.        *)
(*                                                                         *)
(* A tree is a directory as validation sees it: its metadata, which is     *)
(* written last, and the files that metadata lists.  A removal that is cut *)
(* short leaves it as it was, or broken.                                   *)
(* Publication has a branch that preserves a target it finds; recovery     *)
(* leaves none and the lock is held, so the branch never runs              *)
(* (PublishFindsNoTarget) and is left out.                                 *)
(***************************************************************************)
EXTENDS Naturals, FiniteSetsExt

CONSTANTS Installers,  \* processes that install the tool
          Entries,     \* Entries, each with its own installations and lock
          Versions,    \* versions of the tool
          Stamps,      \* backups whose name tells when they were made
          Legacy,      \* backups of older releases, whose order is unknown
          Starts,      \* bound: who installs where, and what is there already
          FaultCases,  \* the faults that may happen: "crash", "io", "download",
                       \*   "wrong" (an archive that cannot be staged), "damage"
          Nobody, Nothing

Places == [entry: Entries, version: Versions]
Backups == Stamps \cup Legacy

ASSUME StampsAssumption == Stamps \subseteq Nat /\ IsFiniteSet(Stamps) /\ Legacy \cap Nat = {}
ASSUME NobodyAssumption == Nobody \notin Installers /\ Nothing \notin Versions

ToolKinds == {"archive", "toolchain"}
Trees == {"none", "broken", "whole"}
Archives == {"none", "bad", "wrong", "good"}

\* An earlier installation may have been interrupted anywhere, and may have
\* left an archive.
ASSUME StartsAssumption ==
  \A s \in Starts :
    s \in [kind: ToolKinds, cast: [Installers -> Places], target: [Places -> Trees],
          backup: [Places -> [Backups -> Trees]], cache: [Versions -> Archives]]

VARIABLES faults,     \* the faults that may still happen
          tool,       \* "archive" or "toolchain"
          cast,       \* the place each installer works at
          target,     \* the tree at each place
          backup,     \* the backups beside it
          selection,  \* the version "latest" stands for in an Entry
          cache,      \* the archive of each version
          lock,       \* the tool's lock in each Entry
          lease,      \* the lock of each version's cache
          op          \* what each installer does

disk == <<target, backup, selection>>
installVars == <<faults, tool, cast, target, backup, selection, cache, lock, lease, op>>

NoOp == [pc |-> "idle", latest |-> FALSE, valid |-> {}, tried |-> {},
         missing |-> FALSE, attempt |-> 0, staged |-> "none"]

Steps == {"idle", "locking", "inspect", "remove", "restore", "clean", "source",
          "lease", "ensure", "stage", "publish", "check", "finish"}

Operations == [pc: Steps, latest: BOOLEAN, valid: SUBSET Backups, tried: SUBSET Backups,
               missing: BOOLEAN, attempt: 0..1, staged: Trees]

InstallTypeOK ==
  /\ faults \subseteq (UNION FaultCases) \cup {"damaged"}
  /\ tool \in ToolKinds
  /\ cast \in [Installers -> Places]
  /\ target \in [Places -> Trees]
  /\ backup \in [Places -> [Backups -> Trees]]
  /\ selection \in [Entries -> Versions \cup {Nothing}]
  /\ cache \in [Versions -> Archives]
  /\ lock \in [Entries -> Installers \cup {Nobody}]
  /\ lease \in [Versions -> Installers \cup {Nobody}]
  /\ op \in [Installers -> Operations]

InstallInit ==
  /\ faults \in FaultCases
  /\ \E s \in Starts :
       /\ tool = s.kind /\ cast = s.cast /\ cache = s.cache
       /\ target = s.target /\ backup = s.backup
  /\ selection = [e \in Entries |-> Nothing]
  /\ lock = [e \in Entries |-> Nobody]
  /\ lease = [v \in Versions |-> Nobody]
  /\ op = [i \in Installers |-> NoOp]

At(i, l) == op[i].pc = l
Goto(i, l) == op' = [op EXCEPT ![i].pc = l]
Entry(i) == cast[i].entry
Version(i) == cast[i].version
Here(i) == target[cast[i]]

\* The call returns, with or without an error; its locks are dropped and what
\* it staged is removed.
Return(i) ==
  /\ op' = [op EXCEPT ![i] = NoOp]
  /\ lock' = [e \in Entries |-> IF lock[e] = i THEN Nobody ELSE lock[e]]
  /\ lease' = [v \in Versions |-> IF lease[v] = i THEN Nobody ELSE lease[v]]

Fails(i, fault) == fault \in faults /\ Return(i)
-----------------------------------------------------------------------------
(***************************************************************************)
(* The request.  "latest" means the selected version, or the newest        *)
(* release if none is selected yet.                                        *)
(***************************************************************************)
Request(i) ==
  /\ At(i, "idle")
  /\ \E latest \in BOOLEAN :
       /\ latest => tool = "archive" /\ selection[Entry(i)] \in {Nothing, Version(i)}
       /\ op' = [op EXCEPT ![i] = [NoOp EXCEPT !.pc = "locking", !.latest = latest]]
  /\ UNCHANGED <<faults, tool, cast, disk, cache, lock, lease>>

Acquire(i) ==
  /\ At(i, "locking")
  /\ lock' = [lock EXCEPT ![Entry(i)] = i]
  /\ Goto(i, "inspect")
  /\ UNCHANGED <<faults, tool, cast, disk, cache, lease>>

\* Seeded fault: each version of the tool has a lock of its own.
LockVersion(i) ==
  /\ \A j \in Installers \ {i} : lock[Entry(i)] = j => Version(j) # Version(i)
  /\ Acquire(i)

Lock(i) == lock[Entry(i)] = Nobody /\ Acquire(i)

LockTimeout(i) ==
  /\ At(i, "locking") /\ lock[Entry(i)] # Nobody
  /\ op' = [op EXCEPT ![i] = NoOp]
  /\ UNCHANGED <<faults, tool, cast, disk, cache, lock, lease>>
-----------------------------------------------------------------------------
(***************************************************************************)
(* Recovery: a valid target is kept.  An invalid one is removed and the    *)
(* newest valid backup takes its place.  Whatever is left is removed then. *)
(***************************************************************************)
\* Seeded fault: a target that is there is not validated.
InspectPresence(i) ==
  /\ At(i, "inspect")
  /\ op' = [op EXCEPT ![i] = [@ EXCEPT !.pc = IF Here(i) = "none" THEN "remove" ELSE "clean",
                                       !.valid = {b \in Backups : backup[cast[i]][b] = "whole"}]]
  /\ UNCHANGED <<faults, tool, cast, disk, cache, lock, lease>>

Inspect(i) ==
  /\ At(i, "inspect")
  /\ \/ /\ op' = [op EXCEPT ![i] = [@ EXCEPT
                     !.pc = IF Here(i) = "whole" THEN "clean" ELSE "remove",
                     !.valid = {b \in Backups : backup[cast[i]][b] = "whole"}]]
        /\ UNCHANGED <<lock, lease>>
     \/ Fails(i, "io")
  /\ UNCHANGED <<faults, tool, cast, disk, cache>>

\* Seeded fault: an invalid target is left for the publication to replace.
KeepInvalid(i) ==
  /\ At(i, "remove")
  /\ Goto(i, IF op[i].valid = {} THEN "clean" ELSE "restore")
  /\ UNCHANGED <<faults, tool, cast, disk, cache, lock, lease>>

RemoveInvalid(i) ==
  /\ At(i, "remove")
  /\ \/ /\ target' = [target EXCEPT ![cast[i]] = "none"]
        /\ Goto(i, "restore")
        /\ UNCHANGED <<lock, lease>>
     \/ Fails(i, "io") /\ UNCHANGED target
  /\ UNCHANGED <<faults, tool, cast, backup, selection, cache>>

\* Seeded fault: the backups are sorted the other way round.
SelectOldest(valid) ==
  IF valid \cap Stamps # {} THEN {Min(valid \cap Stamps)} ELSE valid

\* select_backup: the newest backup, or the only one without a readable time.
Select(valid) ==
  IF valid \cap Stamps # {} THEN {Max(valid \cap Stamps)} ELSE valid

\* Seeded fault: what is left is removed before the backup is restored.
RestoreLast(i) ==
  /\ At(i, "restore")
  /\ op' = [op EXCEPT ![i] = [@ EXCEPT !.pc = "clean", !.missing = TRUE]]
  /\ UNCHANGED <<faults, tool, cast, disk, cache, lock, lease>>

Restore(i) ==
  LET chosen == Select(op[i].valid) IN
  /\ At(i, "restore")
  /\ CASE chosen = {} ->
            /\ op' = [op EXCEPT ![i] = [@ EXCEPT !.pc = "clean", !.missing = TRUE]]
            /\ UNCHANGED <<disk, lock, lease>>
       [] Cardinality(chosen) > 1 -> Return(i) /\ UNCHANGED disk
       [] OTHER ->
            \E b \in chosen :
              \/ /\ target' = [target EXCEPT ![cast[i]] = backup[cast[i]][b]]
                 /\ backup' = [backup EXCEPT ![cast[i]][b] = "none"]
                 /\ IF backup[cast[i]][b] = "whole"
                    THEN Goto(i, "clean") /\ UNCHANGED <<lock, lease>>
                    ELSE Return(i)
                 /\ UNCHANGED selection
              \/ Fails(i, "io") /\ UNCHANGED disk
  /\ UNCHANGED <<faults, tool, cast, cache>>

Left(i) == {b \in Backups : backup[cast[i]][b] # "none"} \ op[i].tried

\* A backup that cannot be removed is a warning: its files go in the order of
\* the directory, and it is as it was, or broken.
CleanBackup(i) ==
  /\ At(i, "clean")
  /\ \E b \in Left(i) :
       /\ \E rest \in {"none"}
                     \cup {t \in {"broken", backup[cast[i]][b]} : "io" \in faults} :
            backup' = [backup EXCEPT ![cast[i]][b] = rest]
       /\ op' = [op EXCEPT ![i].tried = @ \cup {b}]
  /\ UNCHANGED <<faults, tool, cast, target, selection, cache, lock, lease>>

\* The work directories of every version are taken for interrupted ones.
CleanWork(i) ==
  /\ At(i, "clean") /\ Left(i) = {}
  /\ op' = [j \in Installers |->
              CASE j = i -> [op[i] EXCEPT !.pc = IF op[i].missing THEN "source" ELSE "finish"]
                [] j # i /\ Entry(j) = Entry(i) -> [op[j] EXCEPT !.staged = "none"]
                [] OTHER -> op[j]]
  /\ UNCHANGED <<faults, tool, cast, disk, cache, lock, lease>>
-----------------------------------------------------------------------------
(***************************************************************************)
(* Staging.  The archive stays open and leased until it is extracted; if   *)
(* that fails the cache is emptied and everything is tried once more.      *)
(***************************************************************************)
\* The fresh directories are made and filled.
Unpack(i) == op' = [op EXCEPT ![i] = [@ EXCEPT !.staged = "broken", !.pc = "stage"]]

Source(i) ==
  /\ At(i, "source")
  /\ \/ /\ IF tool = "archive" THEN Goto(i, "lease") ELSE Unpack(i)
        /\ UNCHANGED <<lock, lease>>
     \/ Fails(i, "download")
  /\ UNCHANGED <<faults, tool, cast, disk, cache>>

TakeLease(i) ==
  /\ At(i, "lease")
  /\ lease' = [lease EXCEPT ![Version(i)] = i]
  /\ Goto(i, "ensure")
  /\ UNCHANGED <<faults, tool, cast, disk, cache, lock>>

\* Seeded fault: the cache is locked per Entry.
LeaseInEntry(i) ==
  /\ \A j \in Installers \ {i} : lease[Version(i)] = j => Entry(j) # Entry(i)
  /\ TakeLease(i)

Lease(i) == lease[Version(i)] = Nobody /\ TakeLease(i)

LeaseTimeout(i) ==
  /\ At(i, "lease") /\ lease[Version(i)] # Nobody
  /\ Return(i)
  /\ UNCHANGED <<faults, tool, cast, disk, cache>>

\* An archive that is invalid is removed, one that is missing is downloaded;
\* what the download brings must be a valid archive as well.
Ensure(i) ==
  /\ At(i, "ensure")
  /\ \/ /\ cache[Version(i)] \in {"good", "wrong"}
        /\ Unpack(i)
        /\ UNCHANGED <<cache, lock, lease>>
     \/ /\ cache[Version(i)] \in {"none", "bad"}
        /\ \E a \in {"good"} \cup ({"wrong"} \cap faults) :
             cache' = [cache EXCEPT ![Version(i)] = a]
        /\ Unpack(i)
        /\ UNCHANGED <<lock, lease>>
     \/ /\ cache[Version(i)] \in {"none", "bad"}
        /\ cache' = [cache EXCEPT ![Version(i)] = "none"]
        /\ Fails(i, "download")
  /\ UNCHANGED <<faults, tool, cast, disk>>

Drop(i) == lease' = [lease EXCEPT ![Version(i)] = Nobody]

\* The staged files are probed and the metadata is written.
Stage(i) ==
  /\ At(i, "stage")
  /\ tool = "archive" => cache[Version(i)] = "good"
  /\ op' = [op EXCEPT ![i] = [@ EXCEPT !.staged = IF op[i].staged = "none" THEN "none" ELSE "whole",
                                       !.pc = "publish"]]
  /\ IF tool = "archive" THEN Drop(i) ELSE UNCHANGED lease
  /\ UNCHANGED <<faults, tool, cast, disk, cache, lock>>

StagingFails(i) ==
  /\ At(i, "stage")
  /\ "io" \in faults \/ (tool = "archive" /\ cache[Version(i)] # "good")

\* Clears the cache and drops the lease before the next attempt takes it again.
ClearCache(i) ==
  \/ /\ cache' = [cache EXCEPT ![Version(i)] = "none"]
     /\ op' = [op EXCEPT ![i] = [@ EXCEPT !.pc = "lease",
                                          !.staged = "none",
                                          !.attempt = op[i].attempt + 1]]
     /\ Drop(i) /\ UNCHANGED lock
  \/ Fails(i, "io") /\ UNCHANGED cache

\* Seeded fault: one retry too many.
RetryTwice(i) ==
  /\ StagingFails(i)
  /\ tool = "archive" /\ ClearCache(i)
  /\ UNCHANGED <<faults, tool, cast, disk>>

\* Seeded fault: the attempts are not counted.
RetryForever(i) ==
  /\ StagingFails(i)
  /\ IF tool = "archive"
     THEN /\ cache' = [cache EXCEPT ![Version(i)] = "none"]
          /\ op' = [op EXCEPT ![i] = [@ EXCEPT !.pc = "lease", !.staged = "none"]]
          /\ Drop(i) /\ UNCHANGED lock
     ELSE Return(i) /\ UNCHANGED cache
  /\ UNCHANGED <<faults, tool, cast, disk>>

Retry(i) ==
  /\ StagingFails(i)
  /\ IF tool = "archive" /\ op[i].attempt = 0
     THEN ClearCache(i)
     ELSE Return(i) /\ UNCHANGED cache
  /\ UNCHANGED <<faults, tool, cast, disk>>
-----------------------------------------------------------------------------
(***************************************************************************)
(* Publication: the staged tree is validated, renamed and validated again; *)
(* a published tree that is not valid is removed.                          *)
(***************************************************************************)
Publish(i) ==
  /\ At(i, "publish")
  /\ \/ /\ op[i].staged = "whole" /\ Here(i) = "none"
        /\ target' = [target EXCEPT ![cast[i]] = "whole"]
        /\ op' = [op EXCEPT ![i] = [@ EXCEPT !.staged = "none", !.pc = "check"]]
        /\ UNCHANGED <<lock, lease>>
     \/ /\ op[i].staged # "whole" \/ Here(i) # "none" \/ "io" \in faults
        /\ Return(i)
        /\ UNCHANGED target
  /\ UNCHANGED <<faults, tool, cast, backup, selection, cache>>

Check(i) ==
  /\ At(i, "check")
  /\ IF Here(i) = "whole"
     THEN Goto(i, "finish") /\ UNCHANGED <<target, lock, lease>>
     ELSE /\ Return(i)
          /\ \/ target' = [target EXCEPT ![cast[i]] = "none"]
             \/ "io" \in faults /\ UNCHANGED target
  /\ UNCHANGED <<faults, tool, cast, backup, selection, cache>>

\* Seeded fault: the selection file is replaced.
FinishReplacing(i) ==
  /\ At(i, "finish")
  /\ Return(i)
  /\ selection' = IF op[i].latest THEN [selection EXCEPT ![Entry(i)] = Version(i)]
                                  ELSE selection
  /\ UNCHANGED <<faults, tool, cast, target, backup, cache>>

\* The first "latest" selects its version; a different selection is an error.
Finish(i) ==
  /\ At(i, "finish")
  /\ Return(i)
  /\ \/ /\ op[i].latest /\ selection[Entry(i)] = Nothing
        /\ selection' = [selection EXCEPT ![Entry(i)] = Version(i)]
     \/ /\ ~op[i].latest \/ selection[Entry(i)] # Nothing \/ "io" \in faults
        /\ UNCHANGED selection
  /\ UNCHANGED <<faults, tool, cast, target, backup, cache>>

Step(i) ==
  \/ Lock(i) \/ LockTimeout(i) \/ Inspect(i) \/ RemoveInvalid(i) \/ Restore(i)
  \/ CleanBackup(i) \/ CleanWork(i) \/ Source(i) \/ Lease(i) \/ LeaseTimeout(i)
  \/ Ensure(i) \/ Stage(i) \/ Retry(i) \/ Publish(i) \/ Check(i)
  \/ Finish(i)
-----------------------------------------------------------------------------
\* The process ends; its handles, and with them its locks, are closed.
\* Bound: one crash.
Crash(i) ==
  /\ "crash" \in faults /\ ~At(i, "idle")
  /\ faults' = faults \ {"crash"}
  /\ Return(i)
  /\ UNCHANGED <<tool, cast, disk, cache>>

\* A file of an installation or of a backup is changed by something else.
Damage(p) ==
  /\ "damage" \in faults
  /\ faults' = (faults \ {"damage"}) \cup {"damaged"}
  /\ \/ /\ target[p] = "whole"
        /\ target' = [target EXCEPT ![p] = "broken"]
        /\ UNCHANGED backup
     \/ /\ \E b \in Backups : /\ backup[p][b] = "whole"
                             /\ backup' = [backup EXCEPT ![p][b] = "broken"]
        /\ UNCHANGED target
  /\ UNCHANGED <<tool, cast, selection, cache, lock, lease, op>>

InstallNext ==
  \/ \E i \in Installers : Request(i) \/ Step(i) \/ Crash(i)
  \/ \E p \in Places : Damage(p)

InstallSpec == InstallInit /\ [][InstallNext]_installVars
FairInstallSpec == InstallSpec /\ \A i \in Installers : WF_installVars(Step(i))
-----------------------------------------------------------------------------
Undamaged == "damaged" \notin faults
HasWhole(p) == target[p] = "whole" \/ \E b \in Backups : backup[p][b] = "whole"

\* Recovery and publication never give up the last valid tree of a version,
\* whether they succeed, fail or end half-way, as long as nobody else damages
\* the installation.
KeepsAnInstallation ==
  [][Undamaged' => \A p \in Places : HasWhole(p) => HasWhole(p)']_installVars

\* Of the backups that are valid and tell their time the newest one returns.
RestoresNewest ==
  [][\A p \in Places, b \in Stamps :
       (target[p] # "whole" /\ target'[p] = "whole" /\ backup[p][b] = "whole")
       => ~\E c \in Backups :
            /\ backup[p][c] = "whole" /\ backup'[p][c] = "none"
            /\ c \in Legacy \/ c < b]_installVars

\* Recovery removes interrupted work only: what a running installation has
\* staged disappears by its own steps.
StageIsPrivate ==
  [][\A i \in Installers :
       (op[i].staged # "none" /\ op'[i].staged = "none") => op'[i].pc # op[i].pc]_installVars

\* What the tool is staged from is not replaced, or removed, by an
\* installation of the same version into another Entry.
ArchiveIsKept ==
  [][\A i \in Installers :
       (tool = "archive" /\ op[i].pc = "stage" /\ op'[i].pc = "stage")
       => cache'[Version(i)] = cache[Version(i)]]_installVars

\* A publication never meets a target, so that nothing has to be preserved.
PublishFindsNoTarget ==
  \A i \in Installers : At(i, "publish") => Here(i) = "none"

\* What an installation reports as ready, recovered or installed is valid.
ReportedIsWhole ==
  \A i \in Installers : At(i, "finish") /\ Undamaged => Here(i) = "whole"

\* The version an Entry's "latest" stands for is never changed by a setup.
LatestIsStable ==
  [][\A e \in Entries : selection[e] # Nothing => selection'[e] = selection[e]]_installVars

\* Every installation returns: the locks are waited for a limited time and a
\* staging that fails is repeated once.
InstallReturns == \A i \in Installers : ~At(i, "idle") ~> At(i, "idle")

\* Besides the types: what is published and what is reported is valid.
InstallSafety == InstallTypeOK /\ PublishFindsNoTarget /\ ReportedIsWhole

\* No installation takes away what another one, or an earlier one, has made.
NothingIsLost ==
  KeepsAnInstallation /\ RestoresNewest /\ StageIsPrivate /\ ArchiveIsKept /\ LatestIsStable
=============================================================================
