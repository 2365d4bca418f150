--------------------------- MODULE RuntimeRelease ---------------------------
(***************************************************************************)
(* The releases of the Runtime in the stores of the Entries                *)
(* (runtime_release.rs, runtime_release/publication.rs): a release is      *)
(* cloned from the manager's store, selected, and cleaned up by            *)
(* runtime_cleanup_engine, each under the publication lock of the home     *)
(* (runtime_publication_lock.rs), while processes are launched from the    *)
(* selected release without any lock.                                      *)
(*                                                                         *)
(* A release directory is absent, whole or damaged; validation compares    *)
(* every digest, so it succeeds for a whole one only.                      *)
(***************************************************************************)
EXTENDS Naturals, FiniteSets

CONSTANTS Actors,       \* processes that publish, select and clean up
          Manager,      \* the store of the manager Entry, where clones come from
          Entries,      \* the stores of the other Entries
          Releases,
          Processes,    \* processes launched from releases
          Nobody,       \* holder of the free lock
          NoRelease,    \* content of a selector that does not exist
          FaultCases    \* the sets of faults a behaviour may meet

FaultKinds == {"crash", "copy", "rename", "remove", "publish", "damage"}

Stores == Entries \cup {Manager}

ASSUME ReleaseAssumption == /\ Manager \notin Entries
                            /\ Nobody \notin Actors
                            /\ NoRelease \notin Releases
                            /\ FaultCases \subseteq SUBSET FaultKinds

VARIABLES faults,       \* what may go wrong in this behaviour
          dir,          \* the release directories of each store
          selected,     \* the selector of each store
          lock,         \* who holds release-publish.lock
          op,           \* what each actor is doing
          proc          \* the launched processes

vars == <<faults, dir, selected, lock, op, proc>>

Idle == [kind |-> "none", pc |-> "idle", store |-> Manager,
         release |-> NoRelease, todo |-> {}]

Unborn == [pc |-> "idle", store |-> Manager, release |-> NoRelease,
           current |-> FALSE, moved |-> FALSE]

TypeOK ==
  /\ faults \subseteq FaultKinds
  /\ dir \in [Stores -> [Releases -> {"absent", "whole", "damaged"}]]
  /\ selected \in [Stores -> Releases \cup {NoRelease}]
  /\ lock \in Actors \cup {Nobody}
  /\ op \in [Actors -> [kind : {"none", "clone", "select", "cleanup"},
                        pc : {"idle", "locking", "begin", "copying", "staged",
                              "discarding", "publishing", "removing",
                              "isolating", "deleting"},
                        store : Stores,
                        release : Releases \cup {NoRelease},
                        todo : SUBSET Releases]]
  /\ proc \in [Processes -> [pc : {"idle", "located", "core", "host", "ended"},
                             store : Stores,
                             release : Releases \cup {NoRelease},
                             current : BOOLEAN,     \* its release was selected at its start
             moved : BOOLEAN]]      \* its directory is a tombstone now

Valid(s, r) == dir[s][r] = "whole"

Running(p) == proc[p].pc \in {"core", "host"}

\* Seeded fault: only Host processes are looked for.
InUseHosts(s, r) ==
  \E p \in Processes : /\ proc[p].pc = "host" /\ ~proc[p].moved
                       /\ proc[p].store = s /\ proc[p].release = r

\* The running processes whose image lies in the release's directory.
InUse(s, r) ==
  \E p \in Processes : /\ Running(p) /\ ~proc[p].moved
                       /\ proc[p].store = s /\ proc[p].release = r

\* A process runs in a directory that was renamed under it.
TombstoneInUse(s, r) ==
  \E p \in Processes : /\ Running(p) /\ proc[p].moved
                       /\ proc[p].store = s /\ proc[p].release = r

Init ==
  /\ faults \in FaultCases
  /\ dir = [s \in Stores |-> [r \in Releases |->
              IF s = Manager THEN "whole" ELSE "absent"]]
  /\ \E r \in Releases :
       selected = [s \in Stores |-> IF s = Manager THEN r ELSE NoRelease]
  /\ lock = Nobody
  /\ op = [a \in Actors |-> Idle]
  /\ proc = [p \in Processes |-> Unborn]
-----------------------------------------------------------------------------
(***************************************************************************)
(* The lock, and the end of an operation.                                  *)
(***************************************************************************)
\* What is asked for is chosen when the lock is there: nothing reads it before.
Request(a) == /\ op[a].pc = "idle"
              /\ op' = [op EXCEPT ![a].pc = "locking"]
              /\ UNCHANGED <<faults, dir, selected, lock, proc>>

Begin(a, k, s, r) ==
  /\ op[a].pc = "locking"
  /\ lock' = a
  /\ op' = [op EXCEPT ![a] = [kind |-> k, pc |-> "begin", store |-> s,
                              release |-> r, todo |-> {}]]
  /\ UNCHANGED <<faults, dir, selected, proc>>

\* Seeded fault: the lock file is opened for sharing.
LockShared(a) ==
  \/ \E s \in Entries, r \in Releases : Begin(a, "clone", s, r)
  \/ \E s \in Stores, r \in Releases : Begin(a, "select", s, r)
  \/ \E s \in Stores : Begin(a, "cleanup", s, NoRelease)

Lock(a) ==
  /\ lock = Nobody
  /\ \/ \E s \in Entries, r \in Releases : Begin(a, "clone", s, r)
     \/ \E s \in Stores, r \in Releases : Begin(a, "select", s, r)
     \/ \E s \in Stores : Begin(a, "cleanup", s, NoRelease)

\* Seeded fault: the lock is retried for ever.
LockTimeoutNever(a) == FALSE /\ UNCHANGED vars

LockTimeout(a) == /\ op[a].pc = "locking" /\ lock # Nobody
                  /\ op' = [op EXCEPT ![a] = Idle]
                  /\ UNCHANGED <<faults, dir, selected, lock, proc>>

\* The operation returns, with or without an error, and drops the lock.
Return(a) == op' = [op EXCEPT ![a] = Idle] /\ lock' = Nobody

Goto(a, l) == op' = [op EXCEPT ![a].pc = l] /\ UNCHANGED lock
-----------------------------------------------------------------------------
(***************************************************************************)
(* publish_clone_from: the source is validated, copied to a stage next to  *)
(* the target, validated there and renamed.                                *)
(***************************************************************************)
At(a, k, l) == op[a].kind = k /\ op[a].pc = l

\* An existing target is only validated.
BeginClone(a) ==
  LET s == op[a].store r == op[a].release IN
  /\ At(a, "clone", "begin")
  /\ IF Valid(Manager, r) /\ dir[s][r] = "absent"
     THEN Goto(a, "copying")
     ELSE Return(a)
  /\ UNCHANGED <<faults, dir, selected, proc>>

\* Seeded fault: the copies are made in the target itself.
CopyInPlace(a) ==
  /\ At(a, "clone", "copying")
  /\ dir' = [dir EXCEPT ![op[a].store][op[a].release] = "damaged"]
  /\ Goto(a, "staged")
  /\ UNCHANGED <<faults, selected, proc>>

\* The copies carry the digests of the source, or the stage is discarded.
Copy(a) ==
  /\ At(a, "clone", "copying")
  /\ \/ Valid(Manager, op[a].release) /\ Goto(a, "staged")
     \/ /\ "copy" \in faults \/ ~Valid(Manager, op[a].release)
        /\ Goto(a, "discarding")
  /\ UNCHANGED <<faults, dir, selected, proc>>

RenameStage(a) ==
  LET s == op[a].store r == op[a].release IN
  /\ At(a, "clone", "staged")
  /\ \/ /\ dir' = [dir EXCEPT ![s][r] = "whole"]
        /\ Return(a)
     \/ /\ "rename" \in faults
        /\ Goto(a, "discarding")
        /\ UNCHANGED dir
  /\ UNCHANGED <<faults, selected, proc>>

\* What cannot be removed stays behind as a hidden directory no one reads.
Discard(a) == /\ At(a, "clone", "discarding")
              /\ Return(a)
              /\ UNCHANGED <<faults, dir, selected, proc>>
-----------------------------------------------------------------------------
(***************************************************************************)
(* select: the release is validated and the selector replaced.             *)
(***************************************************************************)
CheckSelected(a) ==
  /\ At(a, "select", "begin")
  /\ IF Valid(op[a].store, op[a].release) THEN Goto(a, "publishing") ELSE Return(a)
  /\ UNCHANGED <<faults, dir, selected, proc>>

\* Seeded fault: the selector is truncated before it is written.
PublishNothing(a) ==
  /\ At(a, "select", "publishing")
  /\ selected' = [selected EXCEPT ![op[a].store] = {}]
  /\ Return(a)
  /\ UNCHANGED <<faults, dir, proc>>

PublishSelector(a) ==
  /\ At(a, "select", "publishing")
  /\ \/ selected' = [selected EXCEPT ![op[a].store] = op[a].release]
     \/ "publish" \in faults /\ UNCHANGED selected
  /\ Return(a)
  /\ UNCHANGED <<faults, dir, proc>>
-----------------------------------------------------------------------------
(***************************************************************************)
(* Cleanup: a plan from the selector and the running processes, which are  *)
(* looked up once more before each removal; a release is renamed to a      *)
(* tombstone before its files are deleted.                                 *)
(***************************************************************************)
\* Seeded fault: whatever the selector says, an unused release may go.
RemovableUnused(s) == {r \in Releases : Valid(s, r) /\ ~InUse(s, r)}

Removable(s) == {r \in Releases \ {selected[s]} : Valid(s, r) /\ ~InUse(s, r)}

\* A selected release that is not valid stops the cleanup.
BuildPlan(a) ==
  LET s == op[a].store IN
  /\ At(a, "cleanup", "begin")
  /\ IF selected[s] # NoRelease /\ Valid(s, selected[s])
     THEN /\ op' = [op EXCEPT ![a] = [@ EXCEPT !.pc = "removing", !.todo = Removable(s)]]
          /\ UNCHANGED lock
     ELSE Return(a)
  /\ UNCHANGED <<faults, dir, selected, proc>>

\* A preview, or the end of the plan.
EndPlan(a) == /\ At(a, "cleanup", "removing")
              /\ Return(a)
              /\ UNCHANGED <<faults, dir, selected, proc>>

LookAgain(a) ==
  /\ At(a, "cleanup", "removing")
  /\ \E r \in op[a].todo :
       IF InUse(op[a].store, r)
       THEN op' = [op EXCEPT ![a].todo = @ \ {r}]
       ELSE op' = [op EXCEPT ![a] = [@ EXCEPT !.todo = op[a].todo \ {r},
                                              !.release = r,
                                              !.pc = "isolating"]]
  /\ UNCHANGED <<faults, dir, selected, lock, proc>>

\* The rename fails when the directory changed or a process holds it.
Isolate(a) ==
  LET s == op[a].store r == op[a].release IN
  /\ At(a, "cleanup", "isolating")
  /\ \/ /\ Valid(s, r)
        /\ dir' = [dir EXCEPT ![s][r] = "absent"]
        /\ proc' = [p \in Processes |->
             IF Running(p) /\ proc[p].store = s /\ proc[p].release = r
             THEN [proc[p] EXCEPT !.moved = TRUE] ELSE proc[p]]
        /\ Goto(a, "deleting")
     \/ /\ "rename" \in faults \/ InUse(s, r) \/ ~Valid(s, r)
        /\ Return(a)
        /\ UNCHANGED <<dir, proc>>
  /\ UNCHANGED <<faults, selected>>

\* The image of a running process cannot be deleted; a tombstone that stays
\* behind ends the cleanup with an error.
Delete(a) ==
  /\ At(a, "cleanup", "deleting")
  /\ \/ /\ ~TombstoneInUse(op[a].store, op[a].release)
        /\ op' = [op EXCEPT ![a] = [@ EXCEPT !.pc = "removing", !.release = NoRelease]]
        /\ UNCHANGED lock
     \/ /\ "remove" \in faults \/ TombstoneInUse(op[a].store, op[a].release)
        /\ Return(a)
  /\ UNCHANGED <<faults, dir, selected, proc>>

Step(a) ==
  \/ Lock(a) \/ LockTimeout(a)
  \/ BeginClone(a) \/ Copy(a) \/ RenameStage(a) \/ Discard(a)
  \/ CheckSelected(a) \/ PublishSelector(a)
  \/ BuildPlan(a) \/ EndPlan(a) \/ LookAgain(a) \/ Isolate(a) \/ Delete(a)
-----------------------------------------------------------------------------
(***************************************************************************)
(* Processes: the Launcher reads the selector and starts the Core of that  *)
(* release, the Core validates its release and starts the Host next to it. *)
(***************************************************************************)
Locate(p, s) ==
  /\ proc[p].pc = "idle" /\ selected[s] # NoRelease
  /\ proc' = [proc EXCEPT ![p] = [pc |-> "located", store |-> s,
                                  release |-> selected[s], current |-> FALSE,
                                  moved |-> FALSE]]
  /\ UNCHANGED <<faults, dir, selected, lock, op>>

\* What remains of a launch that has failed or ended.
End(p) == proc' = [proc EXCEPT ![p] = Unborn]

StartCore(p) ==
  LET s == proc[p].store r == proc[p].release IN
  /\ proc[p].pc = "located"
  /\ IF dir[s][r] = "absent" THEN End(p)
     ELSE proc' = [proc EXCEPT ![p] = [@ EXCEPT !.pc = "core",
                                                !.current = (selected[s] = r)]]
  /\ UNCHANGED <<faults, dir, selected, lock, op>>

\* validate_running_release and validate_product look at a part of the
\* release, so they may miss damage; then the Host is started at the path.
StartHost(p) ==
  LET s == proc[p].store r == proc[p].release IN
  /\ proc[p].pc = "core"
  /\ \/ /\ dir[s][r] # "absent"
        /\ proc' = [proc EXCEPT ![p] = [@ EXCEPT !.pc = "host",
                                                 !.moved = FALSE,
                                                 !.current = proc[p].current \/ selected[s] = r]]
     \/ ~Valid(s, r) /\ End(p)
  /\ UNCHANGED <<faults, dir, selected, lock, op>>

EndProcess(p) == /\ Running(p) /\ End(p)
                 /\ UNCHANGED <<faults, dir, selected, lock, op>>
-----------------------------------------------------------------------------
(***************************************************************************)
(* The environment: an operation's process ends, a release is damaged.     *)
(***************************************************************************)
Crash(a) == /\ "crash" \in faults /\ op[a].pc # "idle"
            /\ op' = [op EXCEPT ![a] = Idle]
            /\ lock' = IF lock = a THEN Nobody ELSE lock
            /\ UNCHANGED <<faults, dir, selected, proc>>

\* Bound: one damage.
Damage(s, r) == /\ "damage" \in faults /\ Valid(s, r)
                /\ dir' = [dir EXCEPT ![s][r] = "damaged"]
                /\ faults' = faults \ {"damage"}
                /\ UNCHANGED <<selected, lock, op, proc>>

Next ==
  \/ \E a \in Actors : Request(a) \/ Step(a) \/ Crash(a)
  \/ \E p \in Processes : \/ \E s \in Stores : Locate(p, s)
                          \/ StartCore(p) \/ StartHost(p) \/ EndProcess(p)
  \/ \E s \in Stores, r \in Releases : Damage(s, r)

Spec == Init /\ [][Next]_vars

\* A started operation goes on, and its waiting for the lock is bounded.
FairSpec == Spec /\ \A a \in Actors : WF_vars(Step(a))
-----------------------------------------------------------------------------
(***************************************************************************)
(* Properties.                                                             *)
(***************************************************************************)
\* What a selector names can be launched: no cleanup, no crash and no failed
\* clone leaves a selector at a release that is missing or incomplete; only
\* damage from outside, when it has happened, does.
SelectedIsWhole ==
  \A s \in Stores : selected[s] # NoRelease =>
     \/ dir[s][selected[s]] = "whole"
     \/ "damage" \notin faults /\ dir[s][selected[s]] = "damaged"

\* A release appears in a store at once and complete: only damage from
\* outside makes one that validation refuses, a crash while cloning does not.
AppearsComplete ==
  [][\A s \in Stores, r \in Releases :
       dir[s][r] = "absent" /\ dir'[s][r] # "absent" => dir'[s][r] = "whole"]_vars

\* A process keeps its directory while it runs if its release was still
\* selected when it was started, whatever is selected and cleaned up
\* afterwards. (A process started from an outdated selector may lose it.)
RunningKeepsRelease ==
  \A p \in Processes : Running(p) /\ proc[p].current => ~proc[p].moved

\* What an operation has validated under the lock is not taken away before it
\* is done with it: the source of a clone while it is copied, the release that
\* is about to be selected.
ValidatedStays ==
  \A a \in Actors :
    /\ At(a, "clone", "copying") => dir[Manager][op[a].release] # "absent"
    /\ At(a, "select", "publishing") => dir[op[a].store][op[a].release] # "absent"

\* Every operation returns, also when others take the lock again and again.
PublicationReturns == \A a \in Actors : op[a].pc # "idle" ~> op[a].pc = "idle"

\* Besides the types: what somebody relies on is not cleaned up, be it selected,
\* running or validated.
ReleaseSafety == TypeOK /\ SelectedIsWhole /\ RunningKeepsRelease /\ ValidatedStays
=============================================================================
