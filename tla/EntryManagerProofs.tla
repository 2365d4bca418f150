------------------------- MODULE EntryManagerProofs -------------------------
(***************************************************************************)
(* Theorems about the creation and migration of an Entry and the changes   *)
(* of its settings, for any number of processes, generations and settings  *)
(* and every combination of faults.                                        *)
(*                                                                         *)
(* The argument: whoever is past its wait holds the lock of the data       *)
(* directory, so only one process writes the files of the target.  What    *)
(* they amount to between two holders never is a conflict (TargetInv), and *)
(* at each place of a mutation it is known which of them have been written *)
(* by it (TargetAt).  A process that was started outside an update runs a  *)
(* generation that the manager's Launcher has reached already; if it is    *)
(* still selected after the Launcher was read, the Launcher that was read  *)
(* is of that generation (GenerationInv).                                  *)
(***************************************************************************)
EXTENDS EntryManager, TLAPS

Waiting(m) == op[m].pc \in {"idle", "locking"}
EditWaiting(e) == edit[e].pc \in {"idle", "locking"}

\* Only the holder of the lock is past its wait, for what it was asked.
LockInv ==
  /\ \A m \in Managers :
       /\ ~Waiting(m) => lock = m
       /\ op[m].pc = "locking" => op[m].kind \in {"create", "migrate"}
  /\ \A e \in Editors : ~EditWaiting(e) => lock = e

Launchable == data.receipt # NoGen /\ data.selector # NoGen

\* The files of the target, whoever has stopped writing them: a receipt is
\* published for a selected release, and the Launcher matches the receipt
\* unless the Entry is of the old layout.
TargetInv ==
  /\ ~data.there => data = NoData /\ launcher = NoGen
  /\ data.receipt # NoGen => data.selector # NoGen
  /\ data.there /\ ~data.legacy => Launchable /\ launcher \in {NoGen, data.receipt}

\* What the target is at each place of a mutation.
Early == {"launcher", "selector", "stage", "commit"}
TargetAt(m) ==
  /\ op[m].kind = "create" /\ op[m].pc \in Early
       => ~data.there /\ launcher = NoGen
  /\ op[m].kind = "complete" /\ op[m].pc # "verify"
       => data.there /\ Launchable /\ launcher = NoGen
  /\ op[m].kind = "migrate" /\ op[m].pc \in {"launcher", "selector", "converge", "install"}
       => data.there /\ data.legacy /\ (data.receipt = NoGen \/ launcher # data.receipt)
  /\ op[m].kind = "migrate" /\ op[m].pc = "receipt"
       => data.there /\ data.legacy /\ launcher = op[m].launcher
  /\ op[m].pc \in {"install", "receipt", "verify"}
       => data.there /\ data.selector = op[m].release
  /\ op[m].pc = "install" /\ op[m].kind # "migrate"
       => data.receipt = op[m].launcher /\ launcher = NoGen
  /\ op[m].pc = "verify" => data.receipt = op[m].launcher /\ launcher = op[m].launcher

\* The places of each kind of mutation, and what it has read.
KindInv(m) ==
  /\ op[m].kind # "none"
  /\ op[m].pc = "inspect" => op[m].kind # "complete"
  /\ op[m].pc \in {"stage", "commit"} => op[m].kind = "create"
  /\ op[m].pc \in {"converge", "receipt"} => op[m].kind # "create"
  /\ op[m].pc \notin {"inspect", "launcher"} => op[m].launcher \in Generations
  /\ op[m].pc \notin {"inspect", "launcher", "selector"}
       => op[m].release \in Generations

\* The generations a process that was started outside an update can read.
GenerationInv(m) ==
  m \in settled =>
    /\ op[m].pc = "selector"
         => running[m] <= op[m].launcher /\ op[m].launcher <= manager.launcher
    /\ ~Waiting(m) /\ op[m].pc \notin {"inspect", "launcher", "selector"}
         => op[m].release = op[m].launcher

ManagerInv ==
  /\ manager.launcher <= manager.selector
  /\ \A m \in settled : running[m] <= manager.launcher

\* An update replaces the file it has read, which is the one its caller has
\* seen, unless someone damages the file by hand.
EditInv(e) ==
  edit[e].pc = "commit" =>
    /\ config = edit[e].read \/ config.state = "invalid"
    /\ edit[e].kind = "conditional" => edit[e].read = edit[e].seen

EntryInv ==
  /\ TypeOK
  /\ LockInv /\ TargetInv /\ ManagerInv
  /\ \A m \in Managers : /\ ~Waiting(m) => KindInv(m) /\ TargetAt(m)
                         /\ GenerationInv(m)
  /\ \A e \in Editors : EditInv(e)

\* The sets of the type invariant.
Places == {"idle", "locking", "inspect", "launcher", "selector", "stage",
           "commit", "converge", "receipt", "install", "verify"}

Mutations == [kind : {"none", "create", "complete", "migrate"},
              pc : Places,
              launcher : {NoGen} \cup Generations,
              release : {NoGen} \cup Generations]

Targets == [there : BOOLEAN, receipt : {NoGen} \cup Generations,
            selector : {NoGen} \cup Generations, legacy : BOOLEAN]

Edits == [kind : {"none", "set", "conditional", "replace"},
          pc : {"idle", "locking", "read", "commit"},
          seen : Files, read : Files]

OthersOK ==
  /\ faults \subseteq FaultKinds
  /\ cast \subseteq Managers \cup Editors
  /\ manager \in [selector : Generations, launcher : Generations]
  /\ running \in [Managers -> Generations]
  /\ settled \subseteq Managers
  /\ lock \in Managers \cup Editors \cup {Nobody}

TypeParts ==
  /\ OthersOK
  /\ data \in Targets
  /\ launcher \in {NoGen} \cup Generations \cup {OldLauncher}
  /\ op \in [Managers -> Mutations]
  /\ config \in Files
  /\ edit \in [Editors -> Edits]

LEMMA Typed == TypeOK <=> TypeParts
  BY DEF TypeOK, TypeParts, OthersOK, Mutations, Targets, Edits, Places

\* What inspect_target reports, status by status.
StatusMeans ==
  LET old == ~Launchable \/ launcher \notin {NoGen, data.receipt} IN
  /\ Status = "available" <=> ~data.there /\ launcher = NoGen
  /\ Status = "incomplete" <=> data.there /\ Launchable /\ launcher = NoGen
  /\ Status = "ready" <=> /\ data.there /\ Launchable
                          /\ launcher = data.receipt
  /\ Status = "migration" <=> data.there /\ data.legacy /\ old
  /\ Status = "conflict" <=> \/ ~data.there /\ launcher # NoGen
                             \/ data.there /\ ~data.legacy /\ old

LEMMA StatusLemma == StatusMeans
<1>1. CASE ~data.there
  BY <1>1 DEF StatusMeans, Status
<1>2. CASE data.there /\ Launchable /\ launcher = NoGen
  BY <1>2 DEF StatusMeans, Status, Launchable
<1>3. CASE data.there /\ Launchable /\ launcher # NoGen /\ launcher = data.receipt
  BY <1>3 DEF StatusMeans, Status, Launchable
<1>4. CASE data.there /\ (~Launchable \/ launcher \notin {NoGen, data.receipt})
  BY <1>4 DEF StatusMeans, Status, Launchable
<1>. QED BY <1>1, <1>2, <1>3, <1>4 DEF Launchable
---------------------------------------------------------------------------
(* The invariant is inductive *)

LEMMA DefaultIsValue == Default \in Values
  BY EntryAssumption DEF Default

LEMMA InitInv == Init => EntryInv
<1>. SUFFICES ASSUME Init PROVE EntryInv
  OBVIOUS
<1>. USE EntryAssumption DEF Init
<1>1. NoFile \in Files
  BY DefaultIsValue DEF NoFile, Files
<1>2. NoEdit \in Edits /\ NoOp \in Mutations
  BY <1>1 DEF NoEdit, Edits, NoOp, Mutations, Places
<1>3. 1 \in Generations
  BY DEF Generations
<1>4. NoData \in Targets /\ [NoData EXCEPT !.there = TRUE, !.legacy = TRUE] \in Targets
  BY DEF NoData, Targets
<1>5. /\ data.legacy = data.there
      /\ data.receipt = NoGen /\ data.selector = NoGen
      /\ ~data.there => data = NoData /\ launcher = NoGen
  <2>1. CASE data = NoData /\ launcher = NoGen
    BY <2>1 DEF NoData
  <2>2. CASE data = [NoData EXCEPT !.there = TRUE, !.legacy = TRUE]
    BY <2>2 DEF NoData
  <2>. QED BY <2>1, <2>2
<1>6. TypeOK
  BY <1>1, <1>2, <1>3, <1>4, Typed DEF TypeParts, OthersOK
<1>7. \A m \in Managers : Waiting(m)
  BY DEF Waiting, NoOp
<1>8. \A e \in Editors : EditWaiting(e) /\ EditInv(e)
  BY DEF EditWaiting, NoEdit, EditInv
<1>9. LockInv /\ TargetInv /\ ManagerInv
  <2>1. LockInv
    BY <1>7, <1>8 DEF LockInv, NoOp
  <2>2. TargetInv
    BY <1>5 DEF TargetInv
  <2>3. ManagerInv
    BY DEF ManagerInv
  <2>. QED BY <2>1, <2>2, <2>3
<1>10. \A m \in Managers : GenerationInv(m)
  BY <1>7 DEF GenerationInv, Waiting
<1>. QED BY <1>6, <1>7, <1>8, <1>9, <1>10 DEF EntryInv

---------------------------------------------------------------------------
(* Mutations *)

\* The other mutations keep their place; the lock is kept, or returned.
Alone(m) ==
  /\ op' \in [Managers -> Mutations]
  /\ \A n \in Managers \ {m} : op'[n] = op[n]
  /\ op'[m].pc # "locking"
  /\ \/ lock' = lock
     \/ lock' = Nobody /\ Waiting(m)'

LEMMA Moved ==
    ASSUME op \in [Managers -> Mutations], NEW m \in Managers,
           NEW l \in Places \ {"locking"}, Goto(m, l)
    PROVE  /\ Alone(m)
           /\ op'[m].pc = l
           /\ op'[m].kind = op[m].kind
           /\ op'[m].launcher = op[m].launcher
           /\ op'[m].release = op[m].release
  BY DEF Goto, Alone, Mutations

LEMMA Returned ==
    ASSUME op \in [Managers -> Mutations], NEW m \in Managers, Return(m)
    PROVE  Alone(m) /\ Waiting(m)'
<1>1. NoOp \in Mutations
  BY DEF NoOp, Mutations, Places
<1>. QED BY <1>1 DEF Return, Alone, Waiting, NoOp

\* Only the mutation that holds the lock writes the target.
LEMMA HolderKeepsInv ==
    ASSUME EntryInv, NEW m \in Managers, ~Waiting(m), Alone(m),
           UNCHANGED <<faults, cast, manager, running, settled, configVars>>,
           data' \in Targets,
           launcher' \in {NoGen} \cup Generations \cup {OldLauncher},
           TargetInv',
           ~Waiting(m)' => KindInv(m)' /\ TargetAt(m)' /\ GenerationInv(m)'
    PROVE  EntryInv'
<1>1. TypeParts /\ LockInv
  BY Typed DEF EntryInv
<1>2. lock = m
  BY <1>1 DEF LockInv
<1>3. TypeOK'
  BY <1>1, <1>2 DEF Alone, TypeParts, TypeOK, OthersOK, Targets, Mutations,
     Places, Edits, configVars
<1>4. \A n \in Managers \ {m} : Waiting(n) /\ Waiting(n)'
  BY <1>1, <1>2 DEF LockInv, Waiting, Alone
<1>5. \A n \in Managers : Waiting(n)' => GenerationInv(n)'
  BY DEF GenerationInv, Waiting
<1>6. \A e \in Editors : EditWaiting(e)'
  BY <1>1, <1>2, EntryAssumption DEF LockInv, EditWaiting, configVars
<1>7. LockInv'
  BY <1>1, <1>2, <1>4, <1>6 DEF LockInv, Alone
<1>8. ManagerInv' /\ \A e \in Editors : EditInv(e)'
  BY <1>6 DEF EntryInv, ManagerInv, EditInv, EditWaiting
<1>. QED BY <1>3, <1>4, <1>5, <1>7, <1>8 DEF EntryInv

\* A step of a mutation that holds the lock.
LEMMA HolderStep ==
    ASSUME EntryInv, NEW m \in Managers, ~Waiting(m), MutationStep(m)
    PROVE  EntryInv'
<1>. USE DEF At
<1>1. /\ TargetInv /\ ManagerInv /\ KindInv(m) /\ TargetAt(m)
      /\ GenerationInv(m)
  BY DEF EntryInv
<1>2. TypeParts
  BY Typed DEF EntryInv
<1>3. op \in [Managers -> Mutations] /\ op[m] \in Mutations /\ data \in Targets
  BY <1>2 DEF TypeParts
<1>4. ASSUME Return(m), UNCHANGED <<data, launcher>>,
             UNCHANGED <<faults, cast, manager, running, settled, configVars>>
      PROVE  EntryInv'
  <2>1. TargetInv'
    BY <1>1, <1>4 DEF TargetInv, Launchable
  <2>. QED BY <1>2, <1>3, <1>4, <2>1, Returned, HolderKeepsInv DEF TypeParts
<1>5. ASSUME Inspect(m) PROVE EntryInv'
  <2>1. UNCHANGED <<faults, cast, manager, running, settled, data, launcher, configVars>>
    BY <1>5 DEF Inspect
  <2>2. CASE Return(m)
    BY <1>4, <2>1, <2>2
  <2>3. ASSUME NEW k \in {"create", "complete", "migrate"},
               k = "create" => Status = "available" /\ op[m].kind = "create",
               k = "complete" => Status = "incomplete",
               k = "migrate" => Status = "migration" /\ op[m].kind = "migrate",
               op' = [op EXCEPT ![m] = [op[m] EXCEPT !.pc = "launcher", !.kind = k]],
               UNCHANGED lock
        PROVE  EntryInv'
    <3>1. [op[m] EXCEPT !.pc = "launcher", !.kind = k] \in Mutations
      BY <1>3 DEF Mutations, Places
    <3>2. /\ Alone(m) /\ op'[m].pc = "launcher" /\ op'[m].kind = k
      BY <1>3, <2>3, <3>1 DEF Alone, Mutations
    <3>3. TargetInv'
      BY <1>1, <2>1 DEF TargetInv, Launchable
    <3>4. KindInv(m)' /\ GenerationInv(m)'
      BY <3>2 DEF KindInv, GenerationInv
    <3>5. TargetAt(m)'
      BY <1>1, <2>1, <2>3, <3>2, StatusLemma
      DEF TargetInv, TargetAt, StatusMeans, Launchable, Early
    <3>. QED BY <1>2, <2>1, <3>2, <3>3, <3>4, <3>5, HolderKeepsInv DEF TypeParts
  <2>4. \/ Return(m)
        \/ op[m].kind = "create" /\ Status = "available" /\ Goto(m, "launcher")
        \/ op[m].kind = "migrate" /\ Status = "migration" /\ Goto(m, "launcher")
        \/ /\ Status = "incomplete"
           /\ op' = [op EXCEPT ![m] = [@ EXCEPT !.pc = "launcher", !.kind = "complete"]]
           /\ UNCHANGED lock
    BY <1>5 DEF Inspect
  <2>5. ASSUME Goto(m, "launcher")
        PROVE  /\ op' = [op EXCEPT ![m] = [op[m] EXCEPT !.pc = "launcher",
                                                        !.kind = op[m].kind]]
               /\ UNCHANGED lock
    BY <1>3, <2>5 DEF Goto, Mutations
  <2>6. ASSUME op' = [op EXCEPT ![m] = [@ EXCEPT !.pc = "launcher", !.kind = "complete"]]
        PROVE  op' = [op EXCEPT ![m] = [op[m] EXCEPT !.pc = "launcher",
                                                     !.kind = "complete"]]
    BY <1>3, <2>6 DEF Mutations
  <2>. QED BY <2>2, <2>3, <2>4, <2>5, <2>6
<1>6. ASSUME ReadLauncher(m) PROVE EntryInv'
  <2>1. UNCHANGED <<faults, cast, lock, manager, running, settled, data, launcher, configVars>>
    BY <1>6 DEF ReadLauncher
  <2>2. op' = [op EXCEPT ![m] = [op[m] EXCEPT !.launcher = manager.launcher,
                                              !.pc = "selector"]]
    BY <1>3, <1>6 DEF ReadLauncher
  <2>3. [op[m] EXCEPT !.launcher = manager.launcher, !.pc = "selector"] \in Mutations
    BY <1>2, <1>3 DEF Mutations, Places, TypeParts, OthersOK
  <2>4. /\ Alone(m) /\ op'[m].pc = "selector" /\ op'[m].kind = op[m].kind
        /\ op'[m].launcher = manager.launcher /\ manager.launcher \in Generations
        /\ op[m].pc = "launcher"
    BY <1>2, <1>3, <1>6, <2>1, <2>2, <2>3
    DEF ReadLauncher, Alone, Mutations, TypeParts, OthersOK
  <2>5. TargetInv'
    BY <1>1, <2>1 DEF TargetInv, Launchable
  <2>6. KindInv(m)'
    BY <1>1, <2>4 DEF KindInv
  <2>7. GenerationInv(m)'
    BY <1>1, <2>1, <2>4 DEF GenerationInv, ManagerInv, Generations
  <2>8. TargetAt(m)'
    BY <1>1, <2>1, <2>4 DEF TargetAt, Launchable, Early
  <2>. QED BY <1>2, <2>1, <2>4, <2>5, <2>6, <2>7, <2>8, HolderKeepsInv
           DEF TypeParts
<1>7. ASSUME ReadSelector(m) PROVE EntryInv'
  <2>1. UNCHANGED <<faults, cast, manager, running, settled, data, launcher, configVars>>
    BY <1>7 DEF ReadSelector
  <2>2. CASE Return(m)
    BY <1>4, <2>1, <2>2
  <2>3. CASE manager.selector = running[m] /\ Accept(m) /\ UNCHANGED lock
    <3>. DEFINE l == IF op[m].kind = "create" THEN "stage" ELSE "converge"
    <3>1. op' = [op EXCEPT ![m] = [op[m] EXCEPT !.release = manager.selector,
                                                !.pc = l]]
      BY <1>3, <2>3 DEF Accept
    <3>2. [op[m] EXCEPT !.release = manager.selector, !.pc = l] \in Mutations
      BY <1>2, <1>3 DEF Mutations, Places, TypeParts, OthersOK
    <3>3. /\ Alone(m) /\ op'[m].pc = l /\ op'[m].kind = op[m].kind
          /\ op'[m].launcher = op[m].launcher
          /\ op'[m].release = manager.selector
          /\ manager.selector \in Generations
          /\ op[m].pc = "selector"
      BY <1>2, <1>3, <1>7, <2>3, <3>1, <3>2
      DEF ReadSelector, Alone, Mutations, TypeParts, OthersOK
    <3>4. TargetInv'
      BY <1>1, <2>1 DEF TargetInv, Launchable
    <3>5. KindInv(m)'
      BY <1>1, <3>3 DEF KindInv
    <3>6. m \in settled => op[m].launcher = manager.selector
      <4>1. /\ manager.selector \in Nat /\ manager.launcher \in Nat
            /\ op[m].launcher \in Nat
        BY <1>1, <1>2, <3>3, EntryAssumption
        DEF TypeParts, OthersOK, Generations, KindInv
      <4>. QED BY <1>1, <2>3, <3>3, <4>1 DEF GenerationInv, ManagerInv
    <3>7. GenerationInv(m)'
      BY <2>1, <3>3, <3>6 DEF GenerationInv
    <3>8. TargetAt(m)'
      BY <1>1, <2>1, <3>3 DEF TargetAt, Launchable, Early, KindInv
    <3>. QED BY <1>2, <2>1, <3>3, <3>4, <3>5, <3>7, <3>8, HolderKeepsInv
             DEF TypeParts
  <2>. QED BY <1>7, <2>2, <2>3 DEF ReadSelector
<1>8. ASSUME PrepareStage(m) PROVE EntryInv'
  <2>1. UNCHANGED <<faults, cast, manager, running, settled, data, launcher, configVars>>
    BY <1>8 DEF PrepareStage
  <2>2. CASE Goto(m, "commit")
    <3>1. /\ Alone(m) /\ op'[m].pc = "commit" /\ op'[m].kind = op[m].kind
          /\ op'[m].launcher = op[m].launcher /\ op'[m].release = op[m].release
      BY <1>3, <2>2, Moved DEF Places
    <3>2. TargetInv'
      BY <1>1, <2>1 DEF TargetInv, Launchable
    <3>3. KindInv(m)' /\ GenerationInv(m)' /\ TargetAt(m)'
      BY <1>1, <1>8, <2>1, <3>1
      DEF PrepareStage, KindInv, GenerationInv, TargetAt, Launchable, Early,
          Waiting
    <3>. QED BY <1>2, <2>1, <3>1, <3>2, <3>3, HolderKeepsInv DEF TypeParts
  <2>. QED BY <1>4, <1>8, <2>1, <2>2 DEF PrepareStage, Fails
<1>9. ASSUME CommitStage(m) PROVE EntryInv'
  <2>1. UNCHANGED <<faults, cast, manager, running, settled, launcher, configVars>>
    BY <1>9 DEF CommitStage
  <2>2. CASE /\ data' = [NoData EXCEPT !.there = TRUE,
                           !.receipt = op[m].launcher, !.selector = op[m].release]
             /\ Goto(m, "install")
    <3>1. /\ Alone(m) /\ op'[m].pc = "install" /\ op'[m].kind = op[m].kind
          /\ op'[m].launcher = op[m].launcher /\ op'[m].release = op[m].release
      BY <1>3, <2>2, Moved DEF Places
    <3>2. /\ op[m].pc = "commit" /\ op[m].kind = "create" /\ launcher = NoGen
          /\ op[m].launcher \in Generations /\ op[m].release \in Generations
      BY <1>1, <1>9 DEF CommitStage, KindInv, TargetAt, Early
    <3>3. /\ data' \in Targets /\ data'.there /\ ~data'.legacy
          /\ data'.receipt = op[m].launcher /\ data'.selector = op[m].release
      BY <2>2, <3>2 DEF NoData, Targets
    <3>4. op[m].launcher # NoGen /\ op[m].release # NoGen
      BY <3>2 DEF Generations, NoGen
    <3>5. TargetInv'
      BY <2>1, <3>2, <3>3, <3>4 DEF TargetInv, Launchable
    <3>6. KindInv(m)' /\ GenerationInv(m)'
      BY <1>1, <2>1, <3>1, <3>2 DEF KindInv, GenerationInv, Waiting
    <3>7. TargetAt(m)'
      BY <2>1, <3>1, <3>2, <3>3 DEF TargetAt, Early
    <3>. QED BY <1>2, <2>1, <3>1, <3>3, <3>5, <3>6, <3>7, HolderKeepsInv
             DEF TypeParts
  <2>. QED BY <1>4, <1>9, <2>1, <2>2 DEF CommitStage
<1>10. ASSUME Converge(m) PROVE EntryInv'
  <2>1. UNCHANGED <<faults, cast, manager, running, settled, launcher, configVars>>
    BY <1>10 DEF Converge
  <2>2. CASE /\ data' = [data EXCEPT !.selector = op[m].release]
             /\ Goto(m, IF op[m].kind = "complete" THEN "receipt" ELSE "install")
    <3>. DEFINE l == IF op[m].kind = "complete" THEN "receipt" ELSE "install"
    <3>1. /\ Alone(m) /\ op'[m].pc = l /\ op'[m].kind = op[m].kind
          /\ op'[m].launcher = op[m].launcher /\ op'[m].release = op[m].release
      BY <1>3, <2>2, Moved DEF Places
    <3>2. /\ op[m].pc = "converge" /\ op[m].kind \in {"complete", "migrate"}
          /\ op[m].launcher \in Generations /\ op[m].release \in Generations
      BY <1>1, <1>3, <1>10 DEF Converge, KindInv, Mutations
    <3>3. /\ data' \in Targets /\ data'.there = data.there
          /\ data'.legacy = data.legacy /\ data'.receipt = data.receipt
          /\ data'.selector = op[m].release
      BY <1>3, <2>2, <3>2 DEF Targets
    <3>4. op[m].launcher # NoGen /\ op[m].release # NoGen
      BY <3>2 DEF Generations, NoGen
    <3>5. data.there
      BY <1>1, <3>2 DEF TargetAt
    <3>6. TargetInv'
      BY <1>1, <2>1, <3>3, <3>4, <3>5 DEF TargetInv, Launchable
    <3>7. KindInv(m)' /\ GenerationInv(m)'
      BY <1>1, <2>1, <3>1, <3>2 DEF KindInv, GenerationInv, Waiting
    <3>8. TargetAt(m)'
      BY <1>1, <2>1, <3>1, <3>2, <3>3, <3>4 DEF TargetAt, Early, Launchable
    <3>. QED BY <1>2, <2>1, <3>1, <3>3, <3>6, <3>7, <3>8, HolderKeepsInv
             DEF TypeParts
  <2>. QED BY <1>4, <1>10, <2>1, <2>2 DEF Converge, Fails
<1>11. ASSUME PublishReceipt(m) PROVE EntryInv'
  <2>1. UNCHANGED <<faults, cast, manager, running, settled, launcher, configVars>>
    BY <1>11 DEF PublishReceipt
  <2>2. CASE /\ data' = [data EXCEPT !.receipt = op[m].launcher]
             /\ Goto(m, IF op[m].kind = "complete" THEN "install" ELSE "verify")
    <3>. DEFINE l == IF op[m].kind = "complete" THEN "install" ELSE "verify"
    <3>1. /\ Alone(m) /\ op'[m].pc = l /\ op'[m].kind = op[m].kind
          /\ op'[m].launcher = op[m].launcher /\ op'[m].release = op[m].release
      BY <1>3, <2>2, Moved DEF Places
    <3>2. /\ op[m].pc = "receipt" /\ op[m].kind \in {"complete", "migrate"}
          /\ op[m].launcher \in Generations /\ op[m].release \in Generations
      BY <1>1, <1>3, <1>11 DEF PublishReceipt, KindInv, Mutations
    <3>3. /\ data' \in Targets /\ data'.there = data.there
          /\ data'.legacy = data.legacy /\ data'.selector = data.selector
          /\ data'.receipt = op[m].launcher
      BY <1>3, <2>2, <3>2 DEF Targets
    <3>4. op[m].launcher # NoGen /\ op[m].release # NoGen
      BY <3>2 DEF Generations, NoGen
    <3>5. data.there /\ data.selector = op[m].release
      BY <1>1, <3>2 DEF TargetAt
    <3>6. TargetInv'
      BY <1>1, <2>1, <3>2, <3>3, <3>4, <3>5 DEF TargetInv, Launchable, TargetAt
    <3>7. KindInv(m)' /\ GenerationInv(m)'
      BY <1>1, <2>1, <3>1, <3>2 DEF KindInv, GenerationInv, Waiting
    <3>8. TargetAt(m)'
      BY <1>1, <2>1, <3>1, <3>2, <3>3, <3>4, <3>5 DEF TargetAt, Early, Launchable
    <3>. QED BY <1>2, <2>1, <3>1, <3>3, <3>6, <3>7, <3>8, HolderKeepsInv
             DEF TypeParts
  <2>. QED BY <1>4, <1>11, <2>1, <2>2 DEF PublishReceipt, Fails
<1>12. ASSUME InstallLauncher(m) PROVE EntryInv'
  <2>1. UNCHANGED <<faults, cast, manager, running, settled, data, configVars>>
    BY <1>12 DEF InstallLauncher
  <2>2. CASE /\ launcher' = op[m].launcher
             /\ Goto(m, IF op[m].kind = "migrate" THEN "receipt" ELSE "verify")
    <3>. DEFINE l == IF op[m].kind = "migrate" THEN "receipt" ELSE "verify"
    <3>1. /\ Alone(m) /\ op'[m].pc = l /\ op'[m].kind = op[m].kind
          /\ op'[m].launcher = op[m].launcher /\ op'[m].release = op[m].release
      BY <1>3, <2>2, Moved DEF Places
    <3>2. /\ op[m].pc = "install" /\ op[m].kind \in {"create", "complete", "migrate"}
          /\ op[m].launcher \in Generations /\ op[m].release \in Generations
      BY <1>1, <1>3, <1>12 DEF InstallLauncher, KindInv, Mutations
    <3>3. op[m].launcher # NoGen /\ op[m].release # NoGen
      BY <3>2 DEF Generations, NoGen
    <3>4. data.there /\ data.selector = op[m].release
      BY <1>1, <3>2 DEF TargetAt
    <3>5. TargetInv'
      BY <1>1, <2>1, <2>2, <3>2, <3>3, <3>4 DEF TargetInv, Launchable, TargetAt
    <3>6. KindInv(m)' /\ GenerationInv(m)'
      BY <1>1, <2>1, <3>1, <3>2 DEF KindInv, GenerationInv, Waiting
    <3>7. TargetAt(m)'
      BY <1>1, <2>1, <2>2, <3>1, <3>2, <3>3, <3>4 DEF TargetAt, Early, Launchable
    <3>. QED BY <1>2, <2>1, <2>2, <3>1, <3>2, <3>5, <3>6, <3>7, HolderKeepsInv
             DEF TypeParts
  <2>. QED BY <1>4, <1>12, <2>1, <2>2 DEF InstallLauncher
<1>13. ASSUME Verify(m) PROVE EntryInv'
  BY <1>4, <1>13 DEF Verify
<1>. QED BY <1>5, <1>6, <1>7, <1>8, <1>9, <1>10, <1>11, <1>12, <1>13
         DEF MutationStep, Lock, Acquire, LockTimeout, Waiting

\* A mutation that begins or ends its wait, or crashes, leaves the files alone.
LEMMA WaiterStep ==
    ASSUME EntryInv, NEW m \in Managers,
           Request(m) \/ Lock(m) \/ LockTimeout(m) \/ Start(m) \/ Crash(m)
    PROVE  EntryInv'
<1>1. /\ TypeParts /\ LockInv /\ TargetInv /\ ManagerInv
  BY Typed DEF EntryInv
<1>2. UNCHANGED <<faults, cast, manager, data, launcher, configVars>>
  BY DEF Request, Lock, Acquire, LockTimeout, Start, Crash
<1>3. /\ op' \in [Managers -> Mutations]
      /\ \A n \in Managers \ {m} : op'[n] = op[n]
      /\ ~Waiting(m)'
           => op'[m].pc = "inspect" /\ op'[m].kind \in {"create", "migrate"}
      /\ op'[m].pc = "locking" => op'[m].kind \in {"create", "migrate"}
      /\ running' \in [Managers -> Generations] /\ settled' \subseteq Managers
      /\ \A n \in Managers \ {m} : /\ running'[n] = running[n]
                                   /\ n \in settled' <=> n \in settled
      /\ m \in settled' => \/ m \in settled /\ running'[m] = running[m]
                           \/ running'[m] = manager.launcher
      /\ \/ lock' = lock /\ (Waiting(m)' \/ op'[m] = op[m])
         \/ lock = Nobody /\ lock' = m
         \/ lock = m /\ lock' = Nobody /\ Waiting(m)'
      /\ ~Waiting(m)' => op[m].pc = "locking"
  <2>1. /\ op \in [Managers -> Mutations] /\ running \in [Managers -> Generations]
        /\ settled \subseteq Managers /\ manager.selector \in Generations
    BY <1>1 DEF TypeParts, OthersOK
  <2>2. NoOp \in Mutations
    BY DEF NoOp, Mutations, Places
  <2>3. CASE Request(m)
    <3>. PICK k \in {"create", "migrate"} :
           op' = [op EXCEPT ![m] = [NoOp EXCEPT !.kind = k, !.pc = "locking"]]
      BY <2>3 DEF Request
    <3>1. [NoOp EXCEPT !.kind = k, !.pc = "locking"] \in Mutations
      BY DEF NoOp, Mutations, Places
    <3>2. /\ [NoOp EXCEPT !.kind = k, !.pc = "locking"].pc = "locking"
          /\ [NoOp EXCEPT !.kind = k, !.pc = "locking"].kind = k
      BY DEF NoOp
    <3>. QED BY <2>1, <2>3, <3>1, <3>2 DEF Request, Waiting
  <2>4. CASE Lock(m)
    BY <1>1, <2>1, <2>4 DEF LockInv, Lock, Acquire, Waiting, Mutations, Places
  <2>5. CASE LockTimeout(m)
    BY <2>1, <2>2, <2>5 DEF LockTimeout, Waiting, NoOp
  <2>6. CASE Start(m)
    BY <1>1, <2>1, <2>6 DEF Start, Waiting, LockInv
  <2>7. CASE Crash(m)
    BY <1>1, <2>1, <2>2, <2>7 DEF LockInv, Crash, Unlock, Waiting, NoOp
  <2>. QED BY <2>3, <2>4, <2>5, <2>6, <2>7
<1>4. TypeOK'
  BY <1>1, <1>2, <1>3 DEF TypeParts, TypeOK, OthersOK, Targets, Mutations,
     Places, Edits, configVars
<1>5. LockInv'
  BY <1>1, <1>2, <1>3, EntryAssumption DEF LockInv, Waiting, EditWaiting, configVars
<1>6. TargetInv'
  BY <1>1, <1>2 DEF TargetInv, Launchable
<1>7. manager.launcher \in Nat
  BY <1>1, EntryAssumption DEF TypeParts, OthersOK, Generations
<1>8. ManagerInv'
  <2>1. manager'.launcher <= manager'.selector
    BY <1>1, <1>2 DEF ManagerInv
  <2>2. ASSUME NEW n \in Managers, n \in settled'
        PROVE  running'[n] <= manager.launcher
    BY <1>1, <1>3, <1>7, <2>2 DEF ManagerInv
  <2>. QED BY <1>2, <1>3, <2>1, <2>2 DEF ManagerInv
<1>9. ASSUME NEW n \in Managers
      PROVE  /\ ~Waiting(n)' => KindInv(n)' /\ TargetAt(n)'
             /\ GenerationInv(n)'
  <2>1. CASE n # m
    BY <1>2, <1>3, <2>1 DEF EntryInv, Waiting, KindInv, TargetAt, Launchable,
       GenerationInv
  <2>2. CASE n = m
    BY <1>3, <2>2 DEF Waiting, KindInv, TargetAt, GenerationInv, Early
  <2>. QED BY <2>1, <2>2
<1>10. \A e \in Editors : EditInv(e)'
  BY <1>2 DEF EntryInv, EditInv, configVars
<1>. QED BY <1>4, <1>5, <1>6, <1>8, <1>9, <1>10 DEF EntryInv

---------------------------------------------------------------------------
(* Settings, the updater *)

\* A change of the settings leaves the Entry alone.
LEMMA EditKeepsInv ==
    ASSUME EntryInv, NEW e \in Editors,
           RequestEdit(e) \/ EditStep(e) \/ CrashEdit(e)
    PROVE  EntryInv'
<1>1. /\ TypeParts /\ LockInv /\ TargetInv /\ ManagerInv /\ EditInv(e)
  BY Typed DEF EntryInv
<1>2. UNCHANGED <<faults, cast, entryVars>>
  BY DEF RequestEdit, EditStep, LockEdit, AcquireEdit, EditTimeout, ReadConfig,
     CommitConfig, CrashEdit
<1>3. NoFile \in Files
  BY DefaultIsValue DEF NoFile, Files
<1>4. NoEdit \in Edits
  BY <1>3 DEF NoEdit, Edits
<1>5. edit \in [Editors -> Edits] /\ edit[e] \in Edits /\ config \in Files
  BY <1>1 DEF TypeParts
<1>6. /\ config' \in Files
      /\ edit' \in [Editors -> Edits]
      /\ \A d \in Editors \ {e} : edit'[d] = edit[d]
      /\ EditInv(e)'
      /\ \/ lock' = lock /\ (EditWaiting(e)' \/ lock = e)
         \/ lock = Nobody /\ lock' = e
         \/ lock' = Nobody /\ EditWaiting(e)' /\ lock = e
      /\ config' # config => lock = e
  <2>1. CASE RequestEdit(e)
    <3>. PICK k \in {"set", "conditional", "replace"} :
           edit' = [edit EXCEPT ![e] = [NoEdit EXCEPT
                      !.kind = k, !.pc = "locking",
                      !.seen = IF k = "conditional" THEN config ELSE NoFile]]
      BY <2>1 DEF RequestEdit
    <3>. DEFINE new == [NoEdit EXCEPT
                          !.kind = k, !.pc = "locking",
                          !.seen = IF k = "conditional" THEN config ELSE NoFile]
    <3>1. new \in Edits /\ new.pc = "locking"
      BY <1>3, <1>5 DEF NoEdit, Edits
    <3>2. edit' = [edit EXCEPT ![e] = new] /\ UNCHANGED <<lock, config>>
      BY <2>1 DEF RequestEdit
    <3>. QED BY <1>5, <3>1, <3>2 DEF EditWaiting, EditInv
  <2>2. CASE LockEdit(e)
    BY <1>5, <2>2 DEF LockEdit, AcquireEdit, EditWaiting, EditInv, Edits
  <2>3. CASE EditTimeout(e)
    BY <1>4, <1>5, <2>3 DEF EditTimeout, EditWaiting, EditInv, NoEdit
  <2>4. ASSUME ~EditWaiting(e), ReturnEdit(e), config' \in Files PROVE <1>6
    BY <1>1, <1>4, <1>5, <2>4 DEF ReturnEdit, EditWaiting, EditInv, NoEdit, LockInv
  <2>5. CASE ReadConfig(e)
    <3>1. CASE ReturnEdit(e)
      BY <1>5, <2>4, <2>5, <3>1 DEF ReadConfig, EditWaiting
    <3>2. CASE /\ edit' = [edit EXCEPT ![e] = [@ EXCEPT !.pc = "commit", !.read = config]]
               /\ edit[e].kind = "conditional" => config = edit[e].seen
               /\ UNCHANGED lock
      <4>1. [edit[e] EXCEPT !.pc = "commit", !.read = config] \in Edits
        BY <1>5 DEF Edits
      <4>2. edit' = [edit EXCEPT ![e] = [edit[e] EXCEPT !.pc = "commit", !.read = config]]
        BY <1>5, <3>2 DEF Edits
      <4>3. /\ edit'[e].read = config /\ edit'[e].seen = edit[e].seen
            /\ edit'[e].kind = edit[e].kind
        BY <1>5, <4>2 DEF Edits
      <4>4. lock = e /\ UNCHANGED config
        BY <1>1, <2>5 DEF ReadConfig, LockInv, EditWaiting
      <4>. QED BY <1>5, <3>2, <4>1, <4>2, <4>3, <4>4 DEF EditInv
    <3>. QED BY <2>5, <3>1, <3>2 DEF ReadConfig
  <2>6. CASE CommitConfig(e)
    <3>1. edit[e].read.record \in [Settings -> Values]
      BY <1>5 DEF Edits, Files
    <3>2. ASSUME NEW r \in [Settings -> Values] PROVE Ready(r) \in Files
      BY DEF Ready, Files
    <3>3. config' \in Files
      BY <1>5, <2>6, <3>1, <3>2 DEF CommitConfig
    <3>. QED BY <2>4, <2>6, <3>3 DEF CommitConfig, EditWaiting
  <2>7. CASE CrashEdit(e)
    BY <1>1, <1>4, <1>5, <2>7
    DEF CrashEdit, Unlock, EditWaiting, EditInv, NoEdit, LockInv
  <2>. QED BY <2>1, <2>2, <2>3, <2>5, <2>6, <2>7 DEF EditStep
<1>7. TypeOK'
  BY <1>1, <1>2, <1>6 DEF TypeParts, TypeOK, OthersOK, Targets, Mutations,
     Places, Edits, entryVars
<1>8. LockInv'
  BY <1>1, <1>2, <1>6, EntryAssumption DEF LockInv, Waiting, EditWaiting, entryVars
<1>9. TargetInv' /\ ManagerInv'
  BY <1>1, <1>2 DEF TargetInv, Launchable, ManagerInv, entryVars
<1>10. \A m \in Managers : /\ ~Waiting(m)' => KindInv(m)' /\ TargetAt(m)'
                           /\ GenerationInv(m)'
  BY <1>2 DEF EntryInv, Waiting, KindInv, TargetAt, Launchable, GenerationInv,
     entryVars
<1>11. \A d \in Editors : EditInv(d)'
  <2>1. ASSUME NEW d \in Editors, d # e PROVE EditInv(d)'
    BY <1>1, <1>6, <2>1 DEF EntryInv, EditInv, LockInv, EditWaiting
  <2>. QED BY <1>6, <2>1
<1>. QED BY <1>7, <1>8, <1>9, <1>10, <1>11 DEF EntryInv

\* The settings are damaged by hand: no change that is under way can replace
\* them by anything but what it has read, or is invalid now.
LEMMA CorruptKeepsInv == ASSUME EntryInv, Corrupt PROVE EntryInv'
<1>1. TypeParts
  BY Typed DEF EntryInv
<1>2. /\ config' \in Files /\ config'.state = "invalid"
      /\ faults' \subseteq faults /\ UNCHANGED <<cast, lock, entryVars, edit>>
  BY DefaultIsValue DEF Corrupt, NoFile, Files
<1>3. TypeOK'
  BY <1>1, <1>2 DEF TypeParts, TypeOK, OthersOK, Targets, Mutations, Places,
     Edits, entryVars
<1>4. LockInv' /\ TargetInv' /\ ManagerInv'
  BY <1>2 DEF EntryInv, LockInv, Waiting, EditWaiting, TargetInv, Launchable,
     ManagerInv, entryVars
<1>5. \A m \in Managers : /\ ~Waiting(m)' => KindInv(m)' /\ TargetAt(m)'
                          /\ GenerationInv(m)'
  BY <1>2 DEF EntryInv, Waiting, KindInv, TargetAt, Launchable, GenerationInv,
     entryVars
<1>6. \A e \in Editors : EditInv(e)'
  BY <1>2 DEF EntryInv, EditInv
<1>. QED BY <1>3, <1>4, <1>5, <1>6 DEF EntryInv

\* The updater moves both generations upwards, the selector first.
LEMMA UpdateKeepsInv ==
    ASSUME EntryInv, UpdateSelector \/ UpdateLauncher PROVE EntryInv'
<1>1. TypeParts /\ ManagerInv
  BY Typed DEF EntryInv
<1>2. UNCHANGED <<faults, cast, lock, running, settled, data, launcher, op, configVars>>
  BY DEF UpdateSelector, UpdateLauncher
<1>3. manager \in [selector : Generations, launcher : Generations]
  BY <1>1 DEF TypeParts, OthersOK
<1>4. /\ manager' \in [selector : Generations, launcher : Generations]
      /\ manager'.launcher <= manager'.selector
      /\ manager.launcher <= manager'.launcher
  <2>1. CASE UpdateSelector
    BY <1>3, <2>1, EntryAssumption DEF UpdateSelector, Generations
  <2>2. CASE UpdateLauncher
    BY <1>3, <2>2, EntryAssumption DEF UpdateLauncher, Generations
  <2>. QED BY <2>1, <2>2
<1>5. manager.launcher \in Nat /\ manager'.launcher \in Nat
  BY <1>3, <1>4, EntryAssumption DEF Generations
<1>6. TypeOK'
  BY <1>1, <1>2, <1>4 DEF TypeParts, TypeOK, OthersOK, Targets, Mutations,
     Places, Edits, configVars
<1>7. ManagerInv'
  <2>1. \A m \in settled : running[m] \in Nat
    BY <1>1, EntryAssumption DEF TypeParts, OthersOK, Generations
  <2>. QED BY <1>1, <1>2, <1>4, <1>5, <2>1 DEF ManagerInv
<1>8. LockInv' /\ TargetInv' /\ \A e \in Editors : EditInv(e)'
  BY <1>2 DEF EntryInv, LockInv, Waiting, EditWaiting, TargetInv, Launchable,
     EditInv, configVars
<1>9. \A m \in Managers : ~Waiting(m)' => KindInv(m)' /\ TargetAt(m)'
  BY <1>2 DEF EntryInv, Waiting, KindInv, TargetAt, Launchable
<1>10. ASSUME NEW m \in Managers PROVE GenerationInv(m)'
  <2>1. op[m].launcher \in Nat
    BY <1>1, EntryAssumption DEF TypeParts, Mutations, Generations, NoGen
  <2>. QED BY <1>2, <1>4, <1>5, <2>1 DEF EntryInv, GenerationInv, Waiting
<1>. QED BY <1>6, <1>7, <1>8, <1>9, <1>10 DEF EntryInv

LEMMA StepInv == EntryInv /\ [Next]_vars => EntryInv'
<1>. SUFFICES ASSUME EntryInv, [Next]_vars PROVE EntryInv'
  OBVIOUS
<1>1. ASSUME NEW m \in Managers, MutationStep(m) PROVE EntryInv'
  <2>1. CASE Lock(m) \/ LockTimeout(m)
    BY <2>1, WaiterStep
  <2>2. CASE ~Waiting(m)
    BY <1>1, <2>2, HolderStep
  <2>. QED BY <1>1, <2>1, <2>2
           DEF MutationStep, Waiting, At, Inspect, ReadLauncher, ReadSelector,
               PrepareStage, CommitStage, Converge, PublishReceipt,
               InstallLauncher, Verify
<1>2. CASE UNCHANGED vars
  <2>1. UNCHANGED <<faults, cast, lock, manager, running, settled, data,
                    launcher, op, config, edit>>
    BY <1>2 DEF vars, entryVars, configVars
  <2>. QED BY <2>1 DEF EntryInv, TypeOK, LockInv, TargetInv, ManagerInv, Waiting,
           EditWaiting, KindInv, TargetAt, GenerationInv, EditInv, Launchable
<1>. QED BY <1>1, <1>2, WaiterStep, EditKeepsInv, CorruptKeepsInv,
            UpdateKeepsInv DEF Next

THEOREM Invariance == Spec => []EntryInv
  BY InitInv, StepInv, PTL DEF Spec
---------------------------------------------------------------------------
(* The theorems *)

\* Mutations, updates, changes of the settings and their faults keep the types
\* of the files and of the processes' records.
THEOREM EntryTypes == Spec => []TypeOK
<1>1. EntryInv => TypeOK
  BY DEF EntryInv
<1>. QED BY <1>1, Invariance, PTL

\* Wherever a creation or a migration stops, what it leaves can be completed.
THEOREM NothingConflicts == Spec => []NeverConflict
<1>1. EntryInv => NeverConflict
  BY StatusLemma DEF EntryInv, TargetInv, StatusMeans, NeverConflict
<1>. QED BY <1>1, Invariance, PTL

\* A creation or a migration that comes to its end leaves an Entry that is
\* ready and, if its process was started outside an update, of one generation.
THEOREM EntriesAreSound == Spec => []EntrySafety
<1>1. ASSUME EntryInv, NEW m \in Managers, At(m, "verify")
      PROVE  Status = "ready" /\ (m \in settled => data.selector = launcher)
  <2>1. KindInv(m) /\ TargetAt(m) /\ GenerationInv(m) /\ ~Waiting(m)
    BY <1>1 DEF EntryInv, At, Waiting
  <2>2. /\ data.there /\ data.receipt = launcher
        /\ data.receipt # NoGen /\ data.selector # NoGen
    BY <1>1, <2>1 DEF At, KindInv, TargetAt, Generations, NoGen
  <2>3. Status = "ready"
    BY <2>2, StatusLemma DEF StatusMeans, Launchable
  <2>4. m \in settled => data.selector = launcher
    BY <1>1, <2>1 DEF At, TargetAt, GenerationInv
  <2>. QED BY <2>3, <2>4
<1>2. EntryInv => CommitsReady /\ PublishesOneGeneration
  BY <1>1 DEF EntryInv, TypeOK, CommitsReady, PublishesOneGeneration
<1>3. EntryInv => TypeOK
  BY DEF EntryInv
<1>. QED BY <1>2, <1>3, Invariance, NothingConflicts, PTL DEF EntrySafety

\* A ready Entry is left alone, and a change of the settings replaces the file
\* it has read.
THEOREM NothingIsLost == Spec => NothingIsOverwritten
<1>1. ASSUME EntryInv, [Next]_vars, Status = "ready"
      PROVE  UNCHANGED <<data, launcher>>
  <2>1. data.there /\ Launchable /\ launcher = data.receipt /\ launcher # NoGen
    BY <1>1, StatusLemma DEF StatusMeans, Launchable
  <2>2. ASSUME NEW m \in Managers, \/ CommitStage(m) \/ Converge(m)
                                   \/ PublishReceipt(m) \/ InstallLauncher(m)
        PROVE  UNCHANGED <<data, launcher>>
    <3>1. /\ TargetAt(m) /\ KindInv(m) /\ data \in Targets /\ op[m] \in Mutations
      BY <1>1, <2>2, Typed DEF EntryInv, Waiting, CommitStage, Converge,
         PublishReceipt, InstallLauncher, At, TypeParts
    <3>2. CASE CommitStage(m)
      BY <2>1, <3>1, <3>2 DEF CommitStage
    <3>3. CASE Converge(m)
      BY <2>1, <3>1, <3>3 DEF Converge, At, KindInv, TargetAt, Launchable, Mutations
    <3>4. CASE InstallLauncher(m)
      BY <2>1, <3>1, <3>4
      DEF InstallLauncher, At, KindInv, TargetAt, Launchable, Mutations
    <3>5. CASE PublishReceipt(m)
      <4>1. op[m].launcher = data.receipt
        BY <2>1, <3>1, <3>5
        DEF PublishReceipt, At, KindInv, TargetAt, Launchable, Mutations
      <4>2. [data EXCEPT !.receipt = op[m].launcher] = data
        BY <3>1, <4>1 DEF Targets
      <4>. QED BY <3>5, <4>2 DEF PublishReceipt
    <3>. QED BY <2>2, <3>2, <3>3, <3>4, <3>5
  <2>3. ASSUME NEW m \in Managers,
               \/ Request(m) \/ Start(m) \/ Crash(m) \/ Lock(m)
               \/ LockTimeout(m) \/ Inspect(m) \/ ReadLauncher(m)
               \/ ReadSelector(m) \/ PrepareStage(m) \/ Verify(m)
        PROVE  UNCHANGED <<data, launcher>>
    BY <2>3 DEF Request, Start, Crash, Lock, Acquire, LockTimeout, Inspect,
       ReadLauncher, ReadSelector, PrepareStage, Verify
  <2>4. ASSUME NEW e \in Editors, RequestEdit(e) \/ EditStep(e) \/ CrashEdit(e)
        PROVE  UNCHANGED <<data, launcher>>
    BY <2>4 DEF RequestEdit, EditStep, LockEdit, AcquireEdit, EditTimeout,
       ReadConfig, CommitConfig, CrashEdit, entryVars
  <2>5. CASE UpdateSelector \/ UpdateLauncher \/ Corrupt \/ UNCHANGED vars
    BY <2>5 DEF UpdateSelector, UpdateLauncher, Corrupt, vars, entryVars
  <2>. QED BY <1>1, <2>2, <2>3, <2>4, <2>5 DEF Next, MutationStep
<1>2. ASSUME EntryInv, [Next]_vars, NEW e \in Editors,
             edit[e].pc = "commit", edit[e].kind # "replace", config' # config,
             config.state # "invalid", config'.state = "ready"
      PROVE  /\ \E s \in Settings : \A t \in Settings \ {s} :
                  config'.record[t] = config.record[t]
             /\ edit[e].kind = "conditional" => config = edit[e].seen
  <2>1. TypeParts /\ LockInv /\ EditInv(e) /\ lock = e
    BY <1>2, Typed DEF EntryInv, LockInv, EditWaiting
  <2>2. CommitConfig(e)
    <3>1. \E d \in Editors : CommitConfig(d)
      <4>1. ASSUME NEW m \in Managers,
                   Request(m) \/ MutationStep(m) \/ Start(m) \/ Crash(m)
            PROVE  UNCHANGED config
        BY <4>1 DEF Request, MutationStep, Start, Crash, Lock, Acquire,
           LockTimeout, Inspect, ReadLauncher, ReadSelector, PrepareStage,
           CommitStage, Converge, PublishReceipt, InstallLauncher, Verify,
           configVars
      <4>2. ASSUME NEW d \in Editors,
                   RequestEdit(d) \/ EditStep(d) \/ CrashEdit(d)
            PROVE  UNCHANGED config \/ CommitConfig(d)
        BY <4>2 DEF RequestEdit, EditStep, LockEdit, AcquireEdit, EditTimeout,
           ReadConfig, CrashEdit
      <4>3. CASE UpdateSelector \/ UpdateLauncher \/ UNCHANGED vars
        BY <1>2, <4>3 DEF UpdateSelector, UpdateLauncher, vars, configVars
      <4>4. ~Corrupt
        BY <1>2 DEF Corrupt, NoFile
      <4>. QED BY <1>2, <4>1, <4>2, <4>3, <4>4 DEF Next
    <3>2. \A d \in Editors \ {e} : ~CommitConfig(d)
      BY <2>1 DEF CommitConfig, LockInv, EditWaiting
    <3>. QED BY <3>1, <3>2
  <2>3. config = edit[e].read
    BY <1>2, <2>1 DEF EditInv
  <2>4. PICK s \in Settings, v \in Values :
          config' = Ready([config.record EXCEPT ![s] = v])
    BY <1>2, <2>2, <2>3 DEF CommitConfig
  <2>5. config.record \in [Settings -> Values]
    BY <2>1 DEF TypeParts, Files
  <2>6. \A t \in Settings \ {s} : config'.record[t] = config.record[t]
    BY <2>4, <2>5 DEF Ready
  <2>. QED BY <1>2, <2>1, <2>3, <2>6 DEF EditInv
<1>3. EntryInv /\ [Next]_vars =>
        [Status = "ready" => UNCHANGED <<data, launcher>>]_vars
  BY <1>1
<1>4. EntryInv /\ [Next]_vars =>
        [\A e \in Editors :
           (/\ edit[e].pc = "commit" /\ edit[e].kind # "replace"
            /\ config' # config /\ config.state # "invalid" /\ config'.state = "ready")
           => /\ \E s \in Settings : \A t \in Settings \ {s} :
                   config'.record[t] = config.record[t]
              /\ edit[e].kind = "conditional" => config = edit[e].seen]_vars
  BY <1>2
<1>5. Spec => ReadyIsKept
  BY <1>3, Invariance, PTL DEF Spec, ReadyIsKept
<1>6. Spec => UpdatesAreIsolated
  BY <1>4, Invariance, PTL DEF Spec, UpdatesAreIsolated
<1>. QED BY <1>5, <1>6 DEF NothingIsOverwritten
=============================================================================
