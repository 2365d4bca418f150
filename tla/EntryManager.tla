---------------------------- MODULE EntryManager ----------------------------
(***************************************************************************)
(* Creation and migration of an Entry by manager processes                 *)
(* (entry_manager/mutation.rs) and changes of an Entry's settings          *)
(* (entry_config/mod.rs), which share the lock of the data directory       *)
(* (data_root/lock.rs), next to the updater of the manager's own release   *)
(* and Launcher.                                                           *)
(*                                                                         *)
(* A Launcher, its receipt and a release are represented by the generation *)
(* that published them.                                                    *)
(***************************************************************************)
EXTENDS Naturals

CONSTANTS Managers,     \* processes of the manager Entry
          Editors,      \* processes that change settings
          MaxGen,       \* bound: generations the updater publishes
          Settings, Values,
          Nobody,       \* holder of the free lock
          FaultCases,   \* the sets of faults a behaviour may meet
          Casts         \* bound: the sets of processes that work in a behaviour

FaultKinds == {"crash", "clone", "publish", "corrupt"}

ASSUME EntryAssumption == /\ MaxGen \in Nat \ {0}
                          /\ Managers \cap Editors = {}
                          /\ Nobody \notin Managers \cup Editors
                          /\ Values # {}
                          /\ FaultCases \subseteq SUBSET FaultKinds
                          /\ Casts \subseteq SUBSET (Managers \cup Editors)

VARIABLES faults,       \* what may go wrong in this behaviour
          cast,         \* the processes that work in this behaviour
          manager,      \* the manager's selector and root Launcher
          running,      \* the release each manager process runs
          settled,      \* processes started when no update was under way
          data,         \* the target's DataRoot
          launcher,     \* the target's Launcher file
          lock,         \* who holds _proj-entry.lock
          op,           \* the mutation of each manager process
          config,       \* the settings file
          edit          \* the change each editor makes

entryVars == <<manager, running, settled, data, launcher, op>>
configVars == <<config, edit>>
vars == <<faults, cast, lock, entryVars, configVars>>

Generations == 1..MaxGen
NoGen == 0              \* no file, or one that is not valid
OldLauncher == MaxGen + 1       \* the Launcher of the old layout

NoData == [there |-> FALSE, receipt |-> NoGen, selector |-> NoGen, legacy |-> FALSE]
NoOp == [kind |-> "none", pc |-> "idle", launcher |-> NoGen, release |-> NoGen]

\* A file that is missing reads as the default record, one that is not valid
\* has no record; the revision of a file is its content.
Default == CHOOSE v \in Values : TRUE
Files == [state : {"missing", "invalid", "ready"}, record : [Settings -> Values]]
NoFile == [state |-> "missing", record |-> [s \in Settings |-> Default]]
NoEdit == [kind |-> "none", pc |-> "idle", seen |-> NoFile, read |-> NoFile]

TypeOK ==
  /\ faults \subseteq FaultKinds
  /\ cast \subseteq Managers \cup Editors
  /\ manager \in [selector : Generations, launcher : Generations]
  /\ running \in [Managers -> Generations]
  /\ settled \subseteq Managers
  /\ data \in [there : BOOLEAN, receipt : {NoGen} \cup Generations,
               selector : {NoGen} \cup Generations, legacy : BOOLEAN]
  /\ launcher \in {NoGen} \cup Generations \cup {OldLauncher}
  /\ lock \in Managers \cup Editors \cup {Nobody}
  /\ op \in [Managers -> [kind : {"none", "create", "complete", "migrate"},
                          pc : {"idle", "locking", "inspect", "launcher",
                                "selector", "stage", "commit", "converge",
                                "receipt", "install", "verify"},
                          launcher : {NoGen} \cup Generations,
                          release : {NoGen} \cup Generations]]
  /\ config \in Files
  /\ edit \in [Editors -> [kind : {"none", "set", "conditional", "replace"},
                           pc : {"idle", "locking", "read", "commit"},
                           seen : Files, read : Files]]

\* inspect_target: what the files of the target amount to.
Status ==
  CASE ~data.there /\ launcher = NoGen -> "available"
    [] ~data.there /\ launcher # NoGen -> "conflict"
    [] OTHER ->
       LET launchable == data.receipt # NoGen /\ data.selector # NoGen IN
       CASE launchable /\ launcher = NoGen -> "incomplete"
         [] launchable /\ launcher = data.receipt -> "ready"
         [] OTHER -> IF data.legacy THEN "migration" ELSE "conflict"

\* A fresh home, or an Entry of the old layout with its old Launcher.
Init ==
  /\ faults \in FaultCases
  /\ cast \in Casts
  /\ manager = [selector |-> 1, launcher |-> 1]
  /\ running = [m \in Managers |-> 1]
  /\ settled = Managers
  /\ \/ data = NoData /\ launcher = NoGen
     \/ data = [NoData EXCEPT !.there = TRUE, !.legacy = TRUE] /\ launcher = OldLauncher
  /\ lock = Nobody
  /\ op = [m \in Managers |-> NoOp]
  /\ config = NoFile
  /\ edit = [e \in Editors |-> NoEdit]
-----------------------------------------------------------------------------
(***************************************************************************)
(* The lock: a hundred attempts at taking it, then an error.               *)
(***************************************************************************)
Request(m) ==
  /\ m \in cast /\ op[m].pc = "idle"
  /\ \E k \in {"create", "migrate"} :
       op' = [op EXCEPT ![m] = [NoOp EXCEPT !.kind = k, !.pc = "locking"]]
  /\ UNCHANGED <<faults, cast, lock, manager, running, settled, data, launcher, configVars>>

Acquire(m) == /\ op[m].pc = "locking"
              /\ lock' = m
              /\ op' = [op EXCEPT ![m].pc = "inspect"]
              /\ UNCHANGED <<faults, cast, manager, running, settled, data, launcher, configVars>>

Lock(m) == lock = Nobody /\ Acquire(m)

\* Seeded fault: the attempts are not counted.
LockTimeoutNever(m) == FALSE /\ UNCHANGED vars

LockTimeout(m) ==
  /\ op[m].pc = "locking" /\ lock # Nobody
  /\ op' = [op EXCEPT ![m] = NoOp]
  /\ UNCHANGED <<faults, cast, lock, manager, running, settled, data, launcher, configVars>>

At(m, l) == op[m].pc = l
Goto(m, l) == op' = [op EXCEPT ![m].pc = l] /\ UNCHANGED lock

\* The mutation returns, with or without an error, and drops the lock.
Return(m) == op' = [op EXCEPT ![m] = NoOp] /\ lock' = Nobody

Fails(m, kind) == kind \in faults /\ Return(m)
-----------------------------------------------------------------------------
(***************************************************************************)
(* The mutation: the target is inspected, the manager's Launcher and       *)
(* release are read, and the files of the target follow one by one.        *)
(***************************************************************************)
\* Seeded fault: an Entry that is complete is taken for an interrupted one.
InspectAgain(m) ==
  LET k == op[m].kind IN
  /\ At(m, "inspect")
  /\ IF k = "create" /\ Status \in {"incomplete", "ready"}
     THEN /\ op' = [op EXCEPT ![m] = [@ EXCEPT !.pc = "launcher", !.kind = "complete"]]
          /\ UNCHANGED lock
     ELSE IF Status = (IF k = "create" THEN "available" ELSE "migration")
     THEN Goto(m, "launcher") ELSE Return(m)
  /\ UNCHANGED <<faults, cast, manager, running, settled, data, launcher, configVars>>

Inspect(m) ==
  LET k == op[m].kind IN
  /\ At(m, "inspect")
  /\ CASE k = "create" /\ Status = "available" -> Goto(m, "launcher")
       [] k = "create" /\ Status = "incomplete" ->
            /\ op' = [op EXCEPT ![m] = [@ EXCEPT !.pc = "launcher", !.kind = "complete"]]
            /\ UNCHANGED lock
       [] k = "migrate" /\ Status = "migration" -> Goto(m, "launcher")
       [] OTHER -> Return(m)
  /\ UNCHANGED <<faults, cast, manager, running, settled, data, launcher, configVars>>

ReadLauncher(m) ==
  /\ At(m, "launcher")
  /\ op' = [op EXCEPT ![m] = [@ EXCEPT !.launcher = manager.launcher, !.pc = "selector"]]
  /\ UNCHANGED <<faults, cast, lock, manager, running, settled, data, launcher, configVars>>

Accept(m) ==
  op' = [op EXCEPT ![m] = [@ EXCEPT !.release = manager.selector,
                                    !.pc = IF op[m].kind = "create" THEN "stage" ELSE "converge"]]

\* Seeded fault: the selected release is taken, whatever this process runs.
ReadSelectorOnly(m) ==
  /\ At(m, "selector")
  /\ Accept(m)
  /\ UNCHANGED <<faults, cast, lock, manager, running, settled, data, launcher, configVars>>

\* A process of another release than the selected one must be restarted.
ReadSelector(m) ==
  /\ At(m, "selector")
  /\ IF manager.selector = running[m] THEN Accept(m) /\ UNCHANGED lock ELSE Return(m)
  /\ UNCHANGED <<faults, cast, manager, running, settled, data, launcher, configVars>>

\* The receipt and the release are prepared in a directory nobody reads.
PrepareStage(m) ==
  /\ At(m, "stage")
  /\ Goto(m, "commit") \/ Fails(m, "clone")
  /\ UNCHANGED <<faults, cast, manager, running, settled, data, launcher, configVars>>

\* Seeded fault: the DataRoot is committed before its release is selected.
CommitEmpty(m) ==
  /\ At(m, "commit")
  /\ data' = [NoData EXCEPT !.there = TRUE, !.receipt = op[m].launcher]
  /\ Goto(m, "converge")
  /\ UNCHANGED <<faults, cast, manager, running, settled, launcher, configVars>>

\* The stage is renamed to the DataRoot, which must not exist.
CommitStage(m) ==
  /\ At(m, "commit")
  /\ \/ /\ ~data.there
        /\ data' = [NoData EXCEPT !.there = TRUE, !.receipt = op[m].launcher,
                                  !.selector = op[m].release]
        /\ Goto(m, "install")
     \/ /\ data.there \/ "publish" \in faults
        /\ Return(m)
        /\ UNCHANGED data
  /\ UNCHANGED <<faults, cast, manager, running, settled, launcher, configVars>>

\* converge_unpublished_runtime: the release is cloned and selected unless it
\* is selected already.
Converge(m) ==
  /\ At(m, "converge")
  /\ \/ /\ data' = [data EXCEPT !.selector = op[m].release]
        /\ Goto(m, IF op[m].kind = "complete" THEN "receipt" ELSE "install")
     \/ /\ data.selector # op[m].release
        /\ Fails(m, "clone")
        /\ UNCHANGED data
  /\ UNCHANGED <<faults, cast, manager, running, settled, launcher, configVars>>

\* Seeded fault: the receipt of the first attempt is kept.
KeepReceipt(m) ==
  /\ At(m, "receipt")
  /\ Goto(m, IF op[m].kind = "complete" THEN "install" ELSE "verify")
  /\ UNCHANGED <<faults, cast, manager, running, settled, data, launcher, configVars>>

\* A completion refreshes the receipt before the Launcher is installed, a
\* migration afterwards.
PublishReceipt(m) ==
  /\ At(m, "receipt")
  /\ \/ /\ data' = [data EXCEPT !.receipt = op[m].launcher]
        /\ Goto(m, IF op[m].kind = "complete" THEN "install" ELSE "verify")
     \/ Fails(m, "publish") /\ UNCHANGED data
  /\ UNCHANGED <<faults, cast, manager, running, settled, launcher, configVars>>

\* A creation inspects the target once more before it installs the Launcher;
\* the rename replaces what is there.
InstallLauncher(m) ==
  /\ At(m, "install")
  /\ \/ /\ op[m].kind = "create" => Status = "incomplete"
        /\ launcher' = op[m].launcher
        /\ Goto(m, IF op[m].kind = "migrate" THEN "receipt" ELSE "verify")
     \/ /\ \/ op[m].kind = "create" /\ Status # "incomplete"
           \/ "publish" \in faults
        /\ Return(m)
        /\ UNCHANGED launcher
  /\ UNCHANGED <<faults, cast, manager, running, settled, data, configVars>>

\* An Entry that is not ready now is an error.
Verify(m) == /\ At(m, "verify")
             /\ Return(m)
             /\ UNCHANGED <<faults, cast, manager, running, settled, data, launcher, configVars>>

MutationStep(m) ==
  \/ Lock(m) \/ LockTimeout(m) \/ Inspect(m) \/ ReadLauncher(m) \/ ReadSelector(m)
  \/ PrepareStage(m) \/ CommitStage(m) \/ Converge(m) \/ PublishReceipt(m)
  \/ InstallLauncher(m) \/ Verify(m)
-----------------------------------------------------------------------------
(***************************************************************************)
(* Settings: one is set, one is set if the file is the one the caller saw, *)
(* or the whole record is replaced, which also repairs an invalid file.    *)
(***************************************************************************)
RequestEdit(e) ==
  /\ e \in cast /\ edit[e].pc = "idle"
  /\ \E k \in {"set", "conditional", "replace"} :
       edit' = [edit EXCEPT ![e] = [NoEdit EXCEPT
                  !.kind = k, !.pc = "locking",
                  !.seen = IF k = "conditional" THEN config ELSE NoFile]]
  /\ UNCHANGED <<faults, cast, lock, entryVars, config>>

AcquireEdit(e) ==
  /\ edit[e].pc = "locking"
  /\ lock' = e
  /\ edit' = [edit EXCEPT ![e].pc = "read"]
  /\ UNCHANGED <<faults, cast, entryVars, config>>

\* Seeded fault: the lock is not waited for.
LockEditShared(e) == AcquireEdit(e)

LockEdit(e) == lock = Nobody /\ AcquireEdit(e)

ReturnEdit(e) == edit' = [edit EXCEPT ![e] = NoEdit] /\ lock' = Nobody

EditTimeout(e) == /\ edit[e].pc = "locking" /\ lock # Nobody
                  /\ edit' = [edit EXCEPT ![e] = NoEdit]
                  /\ UNCHANGED <<faults, cast, lock, entryVars, config>>

\* An update of an invalid file, or of another revision, is refused.
ReadConfig(e) ==
  LET k == edit[e].kind IN
  /\ edit[e].pc = "read"
  /\ IF \/ k # "replace" /\ config.state = "invalid"
        \/ k = "conditional" /\ config # edit[e].seen
     THEN ReturnEdit(e)
     ELSE /\ edit' = [edit EXCEPT ![e] = [@ EXCEPT !.pc = "commit", !.read = config]]
          /\ UNCHANGED lock
  /\ UNCHANGED <<faults, cast, entryVars, config>>

Ready(r) == [state |-> "ready", record |-> r]

\* Seeded fault: the file is written in place and left half written.
CommitHalf(e) ==
  /\ edit[e].pc = "commit"
  /\ config' = [state |-> "half", record |-> edit[e].read.record]
  /\ ReturnEdit(e)
  /\ UNCHANGED <<faults, cast, entryVars>>

CommitConfig(e) ==
  /\ edit[e].pc = "commit"
  /\ \/ /\ edit[e].kind = "replace"
        /\ \E r \in [Settings -> Values] : config' = Ready(r)
     \/ /\ edit[e].kind # "replace"
        /\ \E s \in Settings, v \in Values :
             config' = Ready([edit[e].read.record EXCEPT ![s] = v])
     \/ "publish" \in faults /\ UNCHANGED config
  /\ ReturnEdit(e)
  /\ UNCHANGED <<faults, cast, entryVars>>

EditStep(e) == LockEdit(e) \/ EditTimeout(e) \/ ReadConfig(e) \/ CommitConfig(e)

\* The file is written by hand; bound: once.
Corrupt == /\ "corrupt" \in faults
           /\ faults' = faults \ {"corrupt"}
           /\ config' = [NoFile EXCEPT !.state = "invalid"]
           /\ UNCHANGED <<cast, lock, entryVars, edit>>
-----------------------------------------------------------------------------
(***************************************************************************)
(* The updater, starts and crashes of the processes.                       *)
(***************************************************************************)
\* The supported order (mutation.rs:253): the publication replaces the
\* selector, then the root Launcher is deployed.
UpdateSelector ==
  /\ manager.selector = manager.launcher /\ manager.selector < MaxGen
  /\ manager' = [manager EXCEPT !.selector = @ + 1]
  /\ UNCHANGED <<faults, cast, lock, running, settled, data, launcher, op, configVars>>

UpdateLauncher ==
  /\ manager.launcher < manager.selector
  /\ manager' = [manager EXCEPT !.launcher = manager.selector]
  /\ UNCHANGED <<faults, cast, lock, running, settled, data, launcher, op, configVars>>

\* A manager process is started from the selected release.
Start(m) ==
  /\ m \in cast /\ op[m].pc = "idle"
  /\ running' = [running EXCEPT ![m] = manager.selector]
  /\ settled' = IF manager.selector = manager.launcher THEN settled \cup {m}
                                                       ELSE settled \ {m}
  /\ UNCHANGED <<faults, cast, lock, manager, data, launcher, op, configVars>>

Unlock(x) == lock' = IF lock = x THEN Nobody ELSE lock

Crash(m) == /\ "crash" \in faults /\ op[m].pc # "idle"
            /\ op' = [op EXCEPT ![m] = NoOp]
            /\ Unlock(m)
            /\ UNCHANGED <<faults, cast, manager, running, settled, data, launcher, configVars>>

CrashEdit(e) == /\ "crash" \in faults /\ edit[e].pc # "idle"
                /\ edit' = [edit EXCEPT ![e] = NoEdit]
                /\ Unlock(e)
                /\ UNCHANGED <<faults, cast, entryVars, config>>

Next ==
  \/ \E m \in Managers : Request(m) \/ MutationStep(m) \/ Start(m) \/ Crash(m)
  \/ \E e \in Editors : RequestEdit(e) \/ EditStep(e) \/ CrashEdit(e)
  \/ UpdateSelector \/ UpdateLauncher \/ Corrupt

Spec == Init /\ [][Next]_vars

\* A mutation or change that has started goes on; its waiting is bounded.
FairSpec == /\ Spec
            /\ \A m \in Managers : WF_vars(MutationStep(m))
            /\ \A e \in Editors : WF_vars(EditStep(e))
-----------------------------------------------------------------------------
(***************************************************************************)
(* Properties.                                                             *)
(***************************************************************************)
\* Wherever a creation or a migration stops, by an error or a crash, what it
\* leaves can be completed: no state of the target is a conflict.
NeverConflict == Status # "conflict"

\* A mutation that reaches its last inspection has made the Entry ready, also
\* when it completes what a process of another generation has begun.
CommitsReady == \A m \in Managers : At(m, "verify") => Status = "ready"

\* A process that was started outside an update never publishes a Launcher of
\* one generation with a release of another, whatever the updater does while
\* it reads them one after the other.
PublishesOneGeneration ==
  \A m \in settled :
    At(m, "verify") => data.selector = launcher

\* A ready Entry is left alone.
ReadyIsKept == [][Status = "ready" => UNCHANGED <<data, launcher>>]_vars

\* A change of one setting keeps the others as they are in the file it
\* replaces, and a conditional one replaces the file its caller has seen,
\* unless someone damages the file by hand meanwhile.
UpdatesAreIsolated ==
  [][\A e \in Editors :
       (/\ edit[e].pc = "commit" /\ edit[e].kind # "replace"
        /\ config' # config /\ config.state # "invalid" /\ config'.state = "ready")
       =>
          /\ \E s \in Settings : \A t \in Settings \ {s} :
               config'.record[t] = config.record[t]
          /\ edit[e].kind = "conditional" => config = edit[e].seen]_vars

\* Every mutation and every change returns, although others take the lock
\* again and again.
MutationReturns ==
  /\ \A m \in Managers : op[m].pc # "idle" ~> op[m].pc = "idle"
  /\ \A e \in Editors : edit[e].pc # "idle" ~> edit[e].pc = "idle"

\* Besides the types: a creation ends in a ready Entry of one generation, by
\* whomever it is completed.
EntrySafety == TypeOK /\ NeverConflict /\ CommitsReady /\ PublishesOneGeneration

\* Nobody overwrites what another has written: a ready Entry, other settings.
NothingIsOverwritten == ReadyIsKept /\ UpdatesAreIsolated
=============================================================================
