------------------------ MODULE RuntimeReleaseProofs ------------------------
(***************************************************************************)
(* Theorems about the releases, for any number of operations, stores,      *)
(* releases and processes and every combination of faults.                 *)
(*                                                                         *)
(* The argument: an operation past its wait holds the lock (LockInv), so   *)
(* what it has validated, and the selector its plan was made from, only    *)
(* it can change (HoldsInv).  A removal is of a release the selector does  *)
(* not name, and no process that runs it was started from the selector     *)
(* (IsolateInv): one that was would have been seen by LookAgain, and one   *)
(* started since cannot have found the release selected.                   *)
(***************************************************************************)
EXTENDS RuntimeRelease, TLAPS

Waiting(a) == op[a].pc \in {"idle", "locking"}

\* Only the holder of the lock is past its wait.
LockInv == \A a \in Actors : ~Waiting(a) => lock = a

\* Damage happens once, and only from outside.
DamageInv ==
  \A s \in Stores, r \in Releases :
    dir[s][r] = "damaged" => "damage" \notin faults

\* A selector names a release that is there.
SelectedInv ==
  \A s \in Stores : selected[s] # NoRelease => dir[s][selected[s]] # "absent"

\* The places of each kind of operation, and what it has been asked for.
KindInv(a) ==
  /\ op[a].pc \in {"copying", "staged", "discarding"} => op[a].kind = "clone"
  /\ op[a].pc = "publishing" => op[a].kind = "select"
  /\ op[a].pc \in {"removing", "isolating", "deleting"} => op[a].kind = "cleanup"
  /\ op[a].kind \in {"clone", "select"} => op[a].release \in Releases

\* What it relies on is still there.
HoldsInv(a) ==
  /\ op[a].pc = "copying" => dir[Manager][op[a].release] # "absent"
  /\ op[a].pc = "publishing" => dir[op[a].store][op[a].release] # "absent"
  /\ op[a].pc \in {"removing", "isolating", "deleting"}
       => selected[op[a].store] \in Releases \ op[a].todo

\* What it is about to remove is neither selected nor run by a process that
\* was started from the selector.
IsolateInv(a) ==
  op[a].pc = "isolating" =>
    /\ op[a].release \in Releases \ {selected[op[a].store]}
    /\ \A p \in Processes :
         /\ Running(p) /\ proc[p].store = op[a].store
         /\ proc[p].release = op[a].release
         => ~proc[p].current

OperationInv(a) == KindInv(a) /\ HoldsInv(a) /\ IsolateInv(a)

\* A directory that was renamed under a process is not one it was started
\* from the selector.
LaunchInv ==
  \A p \in Processes : proc[p].moved => Running(p) /\ ~proc[p].current

ReleaseInv ==
  /\ TypeOK
  /\ LockInv /\ DamageInv /\ SelectedInv /\ LaunchInv
  /\ \A a \in Actors : ~Waiting(a) => OperationInv(a)

\* The sets of the type invariant.
Places == {"idle", "locking", "begin", "copying", "staged", "discarding",
           "publishing", "removing", "isolating", "deleting"}

Operations == [kind : {"none", "clone", "select", "cleanup"},
               pc : Places,
               store : Stores,
               release : Releases \cup {NoRelease},
               todo : SUBSET Releases]

StoresOK ==
  /\ faults \subseteq FaultKinds
  /\ dir \in [Stores -> [Releases -> {"absent", "whole", "damaged"}]]
  /\ selected \in [Stores -> Releases \cup {NoRelease}]

ProcessesOK ==
  proc \in [Processes -> [pc : {"idle", "located", "core", "host", "ended"},
                          store : Stores,
                          release : Releases \cup {NoRelease},
                          current : BOOLEAN,
                          moved : BOOLEAN]]

LEMMA TypeParts ==
    TypeOK <=> /\ StoresOK
               /\ lock \in Actors \cup {Nobody}
               /\ op \in [Actors -> Operations]
               /\ ProcessesOK
  BY DEF TypeOK, StoresOK, ProcessesOK, Operations, Places
---------------------------------------------------------------------------
(* The invariant is inductive *)

LEMMA InitInv == Init => ReleaseInv
<1>. SUFFICES ASSUME Init PROVE ReleaseInv
  OBVIOUS
<1>. USE ReleaseAssumption DEF Init, Stores, Idle, Unborn, Running, Waiting
<1>1. TypeOK
  BY DEF TypeOK
<1>2. LockInv /\ DamageInv /\ SelectedInv /\ LaunchInv
  BY DEF LockInv, DamageInv, SelectedInv, LaunchInv
<1>3. \A a \in Actors : Waiting(a)
  OBVIOUS
<1>. QED BY <1>1, <1>2, <1>3 DEF ReleaseInv

---------------------------------------------------------------------------
(* Operations *)

\* The others keep their place; the lock is the operation's, or it has ended.
Alone(a) ==
  /\ op' \in [Actors -> Operations]
  /\ \A b \in Actors \ {a} : op'[b] = op[b]
  /\ \/ lock' = lock
     \/ lock' = Nobody /\ Waiting(a)'

\* The operation's record after a step to another place.
LEMMA Moved ==
    ASSUME op \in [Actors -> Operations], NEW a \in Actors, NEW l \in Places,
           Goto(a, l)
    PROVE  /\ Alone(a)
           /\ op'[a].pc = l
           /\ op'[a].kind = op[a].kind
           /\ op'[a].store = op[a].store
           /\ op'[a].release = op[a].release
           /\ op'[a].todo = op[a].todo
  BY DEF Goto, Alone, Operations

\* An operation that returns.
LEMMA Returned ==
    ASSUME op \in [Actors -> Operations], NEW a \in Actors, Return(a)
    PROVE  Alone(a) /\ Waiting(a)'
<1>1. Idle \in Operations
  BY DEF Idle, Operations, Places, Stores
<1>. QED BY <1>1 DEF Return, Alone, Waiting, Idle

\* Only the operation that holds the lock can invalidate what operations hold.
LEMMA HolderKeepsInv ==
    ASSUME ReleaseInv, NEW a \in Actors, ~Waiting(a), Alone(a),
           StoresOK', ProcessesOK',
           DamageInv', SelectedInv', LaunchInv',
           ~Waiting(a)' => OperationInv(a)'
    PROVE  ReleaseInv'
<1>1. TypeOK /\ LockInv
  BY DEF ReleaseInv
<1>2. lock = a
  BY <1>1 DEF LockInv
<1>3. TypeOK'
  BY <1>1, <1>2 DEF Alone, TypeOK, StoresOK, ProcessesOK, Operations, Places
<1>4. \A b \in Actors \ {a} : Waiting(b) /\ Waiting(b)'
  BY <1>1, <1>2 DEF LockInv, Waiting, Alone
<1>5. LockInv'
  BY <1>2, <1>4 DEF LockInv, Alone
<1>. QED BY <1>3, <1>4, <1>5 DEF ReleaseInv

\* A step of an operation that holds the lock.
LEMMA HolderStep ==
    ASSUME ReleaseInv, NEW a \in Actors, ~Waiting(a), Step(a)
    PROVE  ReleaseInv'
<1>. USE DEF At, Valid, KindInv, HoldsInv, IsolateInv, OperationInv
<1>1. /\ TypeOK /\ LockInv /\ DamageInv /\ SelectedInv
      /\ LaunchInv /\ OperationInv(a)
  BY DEF ReleaseInv
<1>2. StoresOK /\ ProcessesOK /\ op \in [Actors -> Operations]
  BY <1>1, TypeParts
<1>3. ASSUME BeginClone(a) PROVE ReleaseInv'
  <2>1. Alone(a) /\ StoresOK' /\ ProcessesOK'
    BY <1>3, <1>2, Moved, Returned DEF BeginClone, StoresOK, ProcessesOK, Places
  <2>2. DamageInv' /\ SelectedInv' /\ LaunchInv'
    BY <1>3, <1>1 DEF BeginClone, DamageInv, SelectedInv, LaunchInv,
       Running
  <2>3. ~Waiting(a)' => OperationInv(a)'
    BY <1>3, <1>1, <1>2, Moved, Returned DEF BeginClone, Operations, Places
  <2>. QED BY <2>1, <2>2, <2>3, HolderKeepsInv
<1>4. ASSUME Copy(a) PROVE ReleaseInv'
  <2>1. Alone(a) /\ StoresOK' /\ ProcessesOK'
    BY <1>4, <1>2, Moved, Returned DEF Copy, StoresOK, ProcessesOK, Places
  <2>2. DamageInv' /\ SelectedInv' /\ LaunchInv'
    BY <1>4, <1>1 DEF Copy, DamageInv, SelectedInv, LaunchInv,
       Running
  <2>3. ~Waiting(a)' => OperationInv(a)'
    BY <1>4, <1>1, <1>2, Moved, Returned DEF Copy, Operations, Places
  <2>. QED BY <2>1, <2>2, <2>3, HolderKeepsInv
<1>5. ASSUME RenameStage(a) PROVE ReleaseInv'
  <2>1. op[a].store \in Stores /\ op[a].release \in Releases
    BY <1>5, <1>1, <1>2 DEF RenameStage, Operations
  <2>2. CASE UNCHANGED dir /\ Goto(a, "discarding")
    <3>1. Alone(a) /\ StoresOK' /\ ProcessesOK'
      BY <1>5, <1>2, <2>2, Moved DEF RenameStage, StoresOK, ProcessesOK, Places
    <3>2. DamageInv' /\ SelectedInv' /\ LaunchInv'
      BY <1>5, <1>1, <2>2 DEF RenameStage, DamageInv, SelectedInv,
         LaunchInv, Running
    <3>3. OperationInv(a)'
      BY <1>5, <1>1, <1>2, <2>2, Moved DEF RenameStage, Places
    <3>. QED BY <3>1, <3>2, <3>3, HolderKeepsInv
  <2>3. CASE /\ dir' = [dir EXCEPT ![op[a].store][op[a].release] = "whole"]
             /\ Return(a)
    <3>1. Alone(a) /\ Waiting(a)'
      BY <1>2, <2>3, Returned
    <3>2. StoresOK' /\ ProcessesOK'
      BY <1>5, <1>2, <2>1, <2>3 DEF RenameStage, StoresOK, ProcessesOK
    <3>3. DamageInv' /\ SelectedInv' /\ LaunchInv'
      BY <1>5, <1>1, <1>2, <2>1, <2>3 DEF RenameStage, DamageInv, SelectedInv,
         LaunchInv, Running, StoresOK
    <3>. QED BY <3>1, <3>2, <3>3, HolderKeepsInv
  <2>. QED BY <1>5, <2>2, <2>3 DEF RenameStage
<1>6. ASSUME Discard(a) PROVE ReleaseInv'
  <2>1. Alone(a) /\ StoresOK' /\ ProcessesOK'
    BY <1>6, <1>2, Returned DEF Discard, StoresOK, ProcessesOK, Places
  <2>2. DamageInv' /\ SelectedInv' /\ LaunchInv'
    BY <1>6, <1>1 DEF Discard, DamageInv, SelectedInv, LaunchInv,
       Running
  <2>3. ~Waiting(a)' => OperationInv(a)'
    BY <1>6, <1>1, <1>2, Returned DEF Discard, Operations, Places
  <2>. QED BY <2>1, <2>2, <2>3, HolderKeepsInv
<1>7. ASSUME CheckSelected(a) PROVE ReleaseInv'
  <2>1. Alone(a) /\ StoresOK' /\ ProcessesOK'
    BY <1>7, <1>2, Moved, Returned DEF CheckSelected, StoresOK, ProcessesOK, Places
  <2>2. DamageInv' /\ SelectedInv' /\ LaunchInv'
    BY <1>7, <1>1 DEF CheckSelected, DamageInv, SelectedInv, LaunchInv,
       Running
  <2>3. ~Waiting(a)' => OperationInv(a)'
    BY <1>7, <1>1, <1>2, Moved, Returned DEF CheckSelected, Operations, Places
  <2>. QED BY <2>1, <2>2, <2>3, HolderKeepsInv
<1>8. ASSUME PublishSelector(a) PROVE ReleaseInv'
  <2>1. op[a].store \in Stores /\ op[a].release \in Releases
    BY <1>8, <1>1, <1>2 DEF PublishSelector, Operations
  <2>2. Alone(a) /\ Waiting(a)'
    BY <1>8, <1>2, Returned DEF PublishSelector
  <2>3. StoresOK' /\ ProcessesOK'
    BY <1>8, <1>2, <2>1 DEF PublishSelector, StoresOK, ProcessesOK
  <2>4. DamageInv' /\ SelectedInv' /\ LaunchInv'
    BY <1>8, <1>1, <1>2, <2>1 DEF PublishSelector, DamageInv, SelectedInv,
       LaunchInv, Running, StoresOK
  <2>. QED BY <2>2, <2>3, <2>4, HolderKeepsInv
<1>9. ASSUME BuildPlan(a) PROVE ReleaseInv'
  <2>1. StoresOK' /\ ProcessesOK'
    BY <1>9, <1>2 DEF BuildPlan, StoresOK, ProcessesOK
  <2>2. DamageInv' /\ SelectedInv' /\ LaunchInv'
    BY <1>9, <1>1 DEF BuildPlan, DamageInv, SelectedInv, LaunchInv, Running
  <2>3. CASE Return(a)
    BY <1>2, <2>1, <2>2, <2>3, Returned, HolderKeepsInv
  <2>4. ASSUME selected[op[a].store] # NoRelease, UNCHANGED lock,
               op' = [op EXCEPT ![a] = [@ EXCEPT !.pc = "removing",
                                                 !.todo = Removable(op[a].store)]]
        PROVE  ReleaseInv'
    <3>1. /\ Removable(op[a].store) \subseteq Releases
          /\ selected[op[a].store] \notin Removable(op[a].store)
      BY DEF Removable
    <3>2. /\ Alone(a)
          /\ op'[a] = [op[a] EXCEPT !.pc = "removing",
                                    !.todo = Removable(op[a].store)]
      <4>1. [op[a] EXCEPT !.pc = "removing", !.todo = Removable(op[a].store)]
              \in Operations
        BY <1>2, <3>1 DEF Operations, Places
      <4>2. op' = [op EXCEPT ![a] = [op[a] EXCEPT !.pc = "removing",
                                         !.todo = Removable(op[a].store)]]
        BY <1>2, <2>4
      <4>. QED BY <1>2, <2>4, <4>1, <4>2 DEF Alone
    <3>3. OperationInv(a)'
      BY <1>9, <1>1, <1>2, <2>4, <3>1, <3>2 DEF BuildPlan, Operations, StoresOK
    <3>. QED BY <2>1, <2>2, <3>2, <3>3, HolderKeepsInv
  <2>. QED BY <1>9, <2>3, <2>4 DEF BuildPlan
<1>10. ASSUME EndPlan(a) PROVE ReleaseInv'
  <2>1. Alone(a) /\ StoresOK' /\ ProcessesOK'
    BY <1>10, <1>2, Returned DEF EndPlan, StoresOK, ProcessesOK, Places
  <2>2. DamageInv' /\ SelectedInv' /\ LaunchInv'
    BY <1>10, <1>1 DEF EndPlan, DamageInv, SelectedInv, LaunchInv,
       Running
  <2>3. ~Waiting(a)' => OperationInv(a)'
    BY <1>10, <1>1, <1>2, Returned DEF EndPlan, Operations, Places
  <2>. QED BY <2>1, <2>2, <2>3, HolderKeepsInv
<1>11. ASSUME LookAgain(a) PROVE ReleaseInv'
  <2>1. StoresOK' /\ ProcessesOK'
    BY <1>11, <1>2 DEF LookAgain, StoresOK, ProcessesOK
  <2>2. DamageInv' /\ SelectedInv' /\ LaunchInv'
    BY <1>11, <1>1 DEF LookAgain, DamageInv, SelectedInv, LaunchInv, Running
  <2>. PICK r \in op[a].todo :
         IF InUse(op[a].store, r)
         THEN op' = [op EXCEPT ![a].todo = @ \ {r}]
         ELSE op' = [op EXCEPT ![a] = [@ EXCEPT !.todo = op[a].todo \ {r},
                                                !.release = r,
                                                !.pc = "isolating"]]
    BY <1>11 DEF LookAgain
  <2>3. r \in Releases /\ op[a] \in Operations
    BY <1>2 DEF Operations
  <2>4. CASE InUse(op[a].store, r)
    <3>1. Alone(a) /\ op'[a] = [op[a] EXCEPT !.todo = @ \ {r}]
      BY <1>11, <1>2, <2>4 DEF LookAgain, Alone, Operations
    <3>2. OperationInv(a)'
      BY <1>11, <1>1, <2>3, <3>1 DEF LookAgain, Operations
    <3>. QED BY <2>1, <2>2, <3>1, <3>2, HolderKeepsInv
  <2>5. CASE ~InUse(op[a].store, r)
    <3>1. /\ Alone(a)
          /\ op'[a] = [op[a] EXCEPT !.todo = @ \ {r}, !.release = r,
                                    !.pc = "isolating"]
      <4> DEFINE o == [op[a] EXCEPT !.todo = @ \ {r}, !.release = r, !.pc = "isolating"]
      <4>1. o \in Operations
        BY <2>3 DEF Operations, Places
      <4>2. op' = [op EXCEPT ![a] = o]
        BY <1>2, <2>5
      <4>. HIDE DEF o
      <4>3. /\ op'[a] = o /\ op' \in [Actors -> Operations] /\ UNCHANGED lock
            /\ \A b \in Actors \ {a} : op'[b] = op[b]
        BY <1>11, <1>2, <4>1, <4>2 DEF LookAgain
      <4>. QED BY <4>3 DEF Alone, o
    <3>2. \A p \in Processes :
            Running(p) /\ proc[p].store = op[a].store /\ proc[p].release = r
            => ~proc[p].current
      BY <1>1, <2>5 DEF InUse, LaunchInv
    <3>3. OperationInv(a)'
      BY <1>11, <1>1, <2>3, <3>1, <3>2 DEF LookAgain, Operations, Running
    <3>. QED BY <2>1, <2>2, <3>1, <3>3, HolderKeepsInv
  <2>. QED BY <2>4, <2>5
<1>12. ASSUME Isolate(a) PROVE ReleaseInv'
  <2>1. op[a].store \in Stores /\ op[a].release \in Releases
    BY <1>12, <1>1, <1>2 DEF Isolate, Operations
  <2>2. CASE Return(a) /\ UNCHANGED <<dir, proc>>
    <3>1. Alone(a) /\ Waiting(a)'
      BY <1>2, <2>2, Returned
    <3>2. StoresOK' /\ ProcessesOK'
      BY <1>12, <1>2, <2>2 DEF Isolate, StoresOK, ProcessesOK
    <3>3. DamageInv' /\ SelectedInv' /\ LaunchInv'
      BY <1>12, <1>1, <2>2 DEF Isolate, DamageInv, SelectedInv,
         LaunchInv, Running
    <3>. QED BY <3>1, <3>2, <3>3, HolderKeepsInv
  <2>3. CASE /\ dir' = [dir EXCEPT ![op[a].store][op[a].release] = "absent"]
             /\ proc' = [p \in Processes |->
                  IF Running(p) /\ proc[p].store = op[a].store
                     /\ proc[p].release = op[a].release
                  THEN [proc[p] EXCEPT !.moved = TRUE] ELSE proc[p]]
             /\ Goto(a, "deleting")
    <3>1. /\ Alone(a) /\ op'[a].pc = "deleting" /\ op'[a].kind = op[a].kind
          /\ op'[a].store = op[a].store /\ op'[a].todo = op[a].todo
      BY <1>2, <2>3, Moved DEF Places
    <3>2. StoresOK'
      BY <1>12, <1>2, <2>1, <2>3 DEF Isolate, StoresOK
    <3>3. ProcessesOK'
      BY ZenonT(30), <1>2, <2>3 DEF ProcessesOK
    <3>4. DamageInv'
      BY <1>12, <1>1, <1>2, <2>1, <2>3 DEF Isolate, DamageInv, StoresOK
    <3>5. SelectedInv'
      BY <1>12, <1>1, <1>2, <2>1, <2>3 DEF Isolate, SelectedInv, StoresOK
    <3>6. LaunchInv'
      BY <1>12, <1>1, <1>2, <2>3
      DEF Isolate, LaunchInv, Running, ProcessesOK
    <3>7. OperationInv(a)'
      BY <1>12, <1>1, <3>1 DEF Isolate
    <3>. QED BY <3>1, <3>2, <3>3, <3>4, <3>5, <3>6, <3>7, HolderKeepsInv
  <2>. QED BY <1>12, <2>2, <2>3 DEF Isolate
<1>13. ASSUME Delete(a) PROVE ReleaseInv'
  <2>1. StoresOK' /\ ProcessesOK'
    BY <1>13, <1>2 DEF Delete, StoresOK, ProcessesOK
  <2>2. DamageInv' /\ SelectedInv' /\ LaunchInv'
    BY <1>13, <1>1 DEF Delete, DamageInv, SelectedInv, LaunchInv, Running
  <2>3. CASE Return(a)
    BY <1>2, <2>1, <2>2, <2>3, Returned, HolderKeepsInv
  <2>4. ASSUME UNCHANGED lock,
               op' = [op EXCEPT ![a] = [@ EXCEPT !.pc = "removing", !.release = NoRelease]]
        PROVE  ReleaseInv'
    <3>1. /\ Alone(a)
          /\ op'[a] = [op[a] EXCEPT !.pc = "removing", !.release = NoRelease]
      <4>1. [op[a] EXCEPT !.pc = "removing", !.release = NoRelease] \in Operations
        BY <1>2 DEF Operations, Places
      <4>2. op' = [op EXCEPT ![a] = [op[a] EXCEPT !.pc = "removing",
                                                  !.release = NoRelease]]
        BY <1>2, <2>4
      <4>. QED BY <1>2, <2>4, <4>1, <4>2 DEF Alone
    <3>2. OperationInv(a)'
      BY <1>13, <1>1, <1>2, <3>1 DEF Delete, Operations
    <3>. QED BY <2>1, <2>2, <3>1, <3>2, HolderKeepsInv
  <2>. QED BY <1>13, <2>3, <2>4 DEF Delete
<1>. QED BY <1>3, <1>4, <1>5, <1>6, <1>7, <1>8, <1>9, <1>10, <1>11, <1>12,
              <1>13 DEF Step, Lock, LockTimeout, Begin, Waiting

\* An operation that begins or ends its wait, or crashes, changes no release:
\* one that has taken the lock has only been asked for something.
LEMMA WaiterStep ==
    ASSUME ReleaseInv, NEW a \in Actors,
           Request(a) \/ Crash(a) \/ LockTimeout(a) \/ Lock(a)
    PROVE  ReleaseInv'
<1>1. TypeOK /\ LockInv /\ DamageInv /\ SelectedInv /\ LaunchInv
  BY DEF ReleaseInv
<1>2. StoresOK /\ ProcessesOK /\ op \in [Actors -> Operations]
  BY <1>1, TypeParts
<1>3. UNCHANGED <<faults, dir, selected, proc>>
  BY DEF Request, Crash, LockTimeout, Lock, Begin
<1>4. StoresOK' /\ ProcessesOK' /\ DamageInv' /\ SelectedInv' /\ LaunchInv'
  BY <1>1, <1>2, <1>3 DEF StoresOK, ProcessesOK, DamageInv, SelectedInv,
     LaunchInv, Running
<1>5. ASSUME op' \in [Actors -> Operations],
             \A b \in Actors \ {a} : op'[b] = op[b],
             lock' \in Actors \cup {Nobody}, LockInv',
             ~Waiting(a)' => OperationInv(a)'
      PROVE  ReleaseInv'
  <2>1. TypeOK'
    BY <1>4, <1>5 DEF TypeOK, StoresOK, ProcessesOK, Operations, Places
  <2>2. \A b \in Actors \ {a} : ~Waiting(b)' => OperationInv(b)'
    BY <1>3, <1>5 DEF ReleaseInv, Waiting, OperationInv, KindInv, HoldsInv,
       IsolateInv, Running
  <2>. QED BY <1>4, <1>5, <2>1, <2>2 DEF ReleaseInv
<1>6. CASE Lock(a)
  <2>. PICK k \in {"clone", "select", "cleanup"}, s \in Stores,
            r \in Releases \cup {NoRelease} :
         /\ Begin(a, k, s, r) /\ lock = Nobody
         /\ k # "cleanup" => r \in Releases
    BY <1>6 DEF Lock, Stores
  <2>1. /\ op' \in [Actors -> Operations]
        /\ \A b \in Actors \ {a} : op'[b] = op[b]
        /\ op'[a] = [kind |-> k, pc |-> "begin", store |-> s, release |-> r,
                     todo |-> {}]
        /\ lock' = a
    BY <1>2 DEF Begin, Operations, Places
  <2>2. LockInv'
    BY <1>1, <2>1, ReleaseAssumption DEF LockInv, Waiting
  <2>3. OperationInv(a)'
    BY <2>1 DEF OperationInv, KindInv, HoldsInv, IsolateInv
  <2>. QED BY <1>5, <2>1, <2>2, <2>3
<1>7. CASE Request(a)
  <2>1. /\ op' \in [Actors -> Operations]
        /\ \A b \in Actors \ {a} : op'[b] = op[b]
        /\ Waiting(a)' /\ lock' = lock
    BY <1>2, <1>7 DEF Request, Operations, Places, Waiting
  <2>. QED BY <1>1, <1>5, <2>1 DEF LockInv, Waiting, TypeOK
<1>8. CASE LockTimeout(a) \/ Crash(a)
  <2>1. Idle \in Operations
    BY DEF Idle, Operations, Places, Stores
  <2>2. /\ op' \in [Actors -> Operations]
        /\ \A b \in Actors \ {a} : op'[b] = op[b]
        /\ Waiting(a)' /\ lock' \in {lock, Nobody}
        /\ lock # a => lock' = lock
    BY <1>2, <1>8, <2>1 DEF LockTimeout, Crash, Waiting, Idle
  <2>. QED BY <1>1, <1>5, <2>2 DEF LockInv, Waiting, TypeOK
<1>. QED BY <1>6, <1>7, <1>8

---------------------------------------------------------------------------
(* Processes and damage *)

\* A process starts from what the selector names, or from a release that has
\* been selected before, and then it does not count as started from it.
LEMMA ProcessKeepsInv ==
    ASSUME ReleaseInv, NEW p \in Processes,
           \/ \E s \in Stores : Locate(p, s)
           \/ StartCore(p) \/ StartHost(p) \/ EndProcess(p)
    PROVE  ReleaseInv'
<1>. USE DEF Running
<1>1. TypeOK /\ LockInv /\ DamageInv /\ SelectedInv /\ LaunchInv
  BY DEF ReleaseInv
<1>2. StoresOK /\ ProcessesOK
  BY <1>1, TypeParts
<1>3. UNCHANGED <<faults, dir, selected, lock, op>>
  BY DEF Locate, StartCore, StartHost, EndProcess
<1>4. /\ ProcessesOK'
      /\ \A q \in Processes \ {p} : proc'[q] = proc[q]
      /\ proc'[p].moved => proc'[p] = proc[p]
      /\ Running(p)' =>
           /\ proc'[p].store = proc[p].store /\ proc'[p].release = proc[p].release
           /\ \/ proc'[p].current = FALSE
              \/ Running(p) /\ proc[p].current
              \/ proc'[p].release = selected[proc'[p].store]
  <2>1. CASE \E s \in Stores : Locate(p, s)
    BY <1>2, <2>1 DEF Locate, ProcessesOK, StoresOK
  <2>2. CASE StartCore(p)
    <3>1. CASE End(p)
      BY <1>2, <3>1 DEF End, Unborn, ProcessesOK, Stores
    <3>2. CASE proc' = [proc EXCEPT ![p] = [@ EXCEPT !.pc = "core",
                                                     !.current =
                                        (selected[proc[p].store] = proc[p].release)]]
      <4>1. proc' = [proc EXCEPT ![p] = [proc[p] EXCEPT !.pc = "core",
                       !.current = (selected[proc[p].store] = proc[p].release)]]
        BY <1>2, <3>2 DEF ProcessesOK
      <4>. QED BY <1>1, <1>2, <2>2, <4>1 DEF StartCore, ProcessesOK, LaunchInv
    <3>. QED BY <2>2, <3>1, <3>2 DEF StartCore
  <2>3. CASE StartHost(p)
    <3>1. CASE End(p)
      BY <1>2, <3>1 DEF End, Unborn, ProcessesOK, Stores
    <3>2. CASE proc' = [proc EXCEPT ![p] = [@ EXCEPT
                 !.pc = "host", !.moved = FALSE,
                 !.current = proc[p].current \/ selected[proc[p].store] = proc[p].release]]
      <4>1. proc' = [proc EXCEPT ![p] = [proc[p] EXCEPT !.pc = "host",
                 !.moved = FALSE,
                 !.current = proc[p].current \/ selected[proc[p].store] = proc[p].release]]
        BY <1>2, <3>2 DEF ProcessesOK
      <4>. QED BY <1>2, <2>3, <4>1 DEF StartHost, ProcessesOK
    <3>. QED BY <2>3, <3>1, <3>2 DEF StartHost
  <2>4. CASE EndProcess(p)
    BY <1>2, <2>4 DEF EndProcess, End, Unborn, ProcessesOK, Stores
  <2>. QED BY <2>1, <2>2, <2>3, <2>4
<1>5. TypeOK'
  BY <1>1, <1>3, <1>4 DEF TypeOK, ProcessesOK
<1>6. LockInv' /\ DamageInv' /\ SelectedInv'
  BY <1>1, <1>3 DEF LockInv, DamageInv, SelectedInv, Waiting
<1>7. LaunchInv'
  BY <1>1, <1>3, <1>4 DEF LaunchInv
<1>8. ASSUME NEW a \in Actors, ~Waiting(a)' PROVE OperationInv(a)'
  <2>1. OperationInv(a)
    BY <1>3, <1>8 DEF ReleaseInv, Waiting
  <2>2. KindInv(a)' /\ HoldsInv(a)'
    BY <1>3, <2>1 DEF OperationInv, KindInv, HoldsInv
  <2>3. IsolateInv(a)'
    BY <1>3, <1>4, <2>1 DEF OperationInv, IsolateInv
  <2>. QED BY <2>2, <2>3 DEF OperationInv
<1>. QED BY <1>5, <1>6, <1>7, <1>8 DEF ReleaseInv

\* Damage leaves a release where it is, and is remembered.
LEMMA DamageKeepsInv ==
    ASSUME ReleaseInv, NEW s \in Stores, NEW r \in Releases, Damage(s, r)
    PROVE  ReleaseInv'
<1>1. TypeOK /\ LockInv /\ DamageInv /\ SelectedInv /\ LaunchInv
  BY DEF ReleaseInv
<1>2. StoresOK /\ op \in [Actors -> Operations]
  BY <1>1, TypeParts
<1>3. /\ dir' \in [Stores -> [Releases -> {"absent", "whole", "damaged"}]]
      /\ \A t \in Stores, q \in Releases :
           dir'[t][q] = "absent" <=> dir[t][q] = "absent"
  BY <1>2 DEF Damage, Valid, StoresOK
<1>4. UNCHANGED <<selected, lock, op, proc>> /\ faults' = faults \ {"damage"}
  BY DEF Damage
<1>5. TypeOK'
  BY <1>1, <1>3, <1>4 DEF TypeOK
<1>6. LockInv' /\ DamageInv' /\ LaunchInv'
  BY <1>1, <1>4 DEF LockInv, DamageInv, LaunchInv, Waiting, Running
<1>7. SelectedInv'
  BY <1>1, <1>2, <1>3, <1>4 DEF SelectedInv, StoresOK
<1>8. ASSUME NEW a \in Actors, ~Waiting(a)' PROVE OperationInv(a)'
  <2>1. OperationInv(a) /\ op[a] \in Operations
    BY <1>2, <1>4, <1>8 DEF ReleaseInv, Waiting
  <2>2. KindInv(a)' /\ IsolateInv(a)'
    BY <1>4, <2>1 DEF OperationInv, KindInv, IsolateInv, Running
  <2>3. HoldsInv(a)'
    BY <1>3, <1>4, <2>1 DEF OperationInv, KindInv, HoldsInv, Operations, Stores
  <2>. QED BY <2>2, <2>3 DEF OperationInv
<1>. QED BY <1>5, <1>6, <1>7, <1>8 DEF ReleaseInv

LEMMA StepInv == ReleaseInv /\ [Next]_vars => ReleaseInv'
<1>. SUFFICES ASSUME ReleaseInv, [Next]_vars PROVE ReleaseInv'
  OBVIOUS
<1>1. ASSUME NEW a \in Actors, Request(a) \/ Step(a) \/ Crash(a)
      PROVE  ReleaseInv'
  BY <1>1, HolderStep, WaiterStep
  DEF Step, At, Waiting, BeginClone, Copy, RenameStage, Discard, CheckSelected,
      PublishSelector, BuildPlan, EndPlan, LookAgain, Isolate, Delete
<1>2. CASE UNCHANGED vars
  BY <1>2 DEF vars, ReleaseInv, TypeOK, LockInv, DamageInv, SelectedInv,
     LaunchInv, OperationInv, KindInv, HoldsInv, IsolateInv,
     Waiting, Running
<1>. QED BY <1>1, <1>2, ProcessKeepsInv, DamageKeepsInv DEF Next

THEOREM Invariance == Spec => []ReleaseInv
  BY InitInv, StepInv, PTL DEF Spec
---------------------------------------------------------------------------
(* The theorems *)

\* Whatever an operation, a process or a fault does, the releases, selectors,
\* operations and processes keep their types.
THEOREM ReleaseTypes == Spec => []TypeOK
<1>1. ReleaseInv => TypeOK
  BY DEF ReleaseInv
<1>. QED BY <1>1, Invariance, PTL

\* A selector names a whole release, unless that one was damaged from outside:
\* no interrupted clone, failed selection or cleanup leaves a selector behind
\* that cannot be launched.
THEOREM SelectionIsWhole == Spec => []SelectedIsWhole
<1>1. ReleaseInv => SelectedIsWhole
  BY TypeParts DEF ReleaseInv, SelectedIsWhole, SelectedInv, DamageInv, StoresOK
<1>. QED BY <1>1, Invariance, PTL

\* A process that was started from the selector keeps its directory while it
\* runs, whatever is selected and cleaned up meanwhile.
THEOREM RunningIsKept == Spec => []RunningKeepsRelease
<1>1. ReleaseInv => RunningKeepsRelease
  BY DEF ReleaseInv, LaunchInv, RunningKeepsRelease
<1>. QED BY <1>1, Invariance, PTL

\* What is relied on is not cleaned up: what is selected, what runs, what an
\* operation has validated.
THEOREM ReleasesAreSafe == Spec => []ReleaseSafety
<1>1. ReleaseInv => ValidatedStays
  BY DEF ReleaseInv, ValidatedStays, At, Waiting, OperationInv, HoldsInv
<1>2. ReleaseInv => TypeOK
  BY DEF ReleaseInv
<1>. QED BY <1>1, <1>2, Invariance, SelectionIsWhole, RunningIsKept, PTL
        DEF ReleaseSafety

\* A release appears in a store complete, by one step.
THEOREM ReleasesAppearWhole == Spec => AppearsComplete
<1>1. ASSUME ReleaseInv, [Next]_vars, NEW s \in Stores, NEW r \in Releases,
             dir[s][r] = "absent", dir'[s][r] # "absent"
      PROVE  dir'[s][r] = "whole"
  <2>. USE <1>1
  <2>1. StoresOK /\ op \in [Actors -> Operations]
    BY TypeParts DEF ReleaseInv
  <2>2. CASE \E a \in Actors : RenameStage(a)
    BY <2>1, <2>2 DEF RenameStage, StoresOK, Operations
  <2>3. CASE \E a \in Actors : Isolate(a)
    BY <2>1, <2>3 DEF Isolate, Valid, StoresOK, Operations
  <2>4. CASE \E t \in Stores, q \in Releases : Damage(t, q)
    BY <2>1, <2>4 DEF Damage, Valid, StoresOK
  <2>5. ASSUME NEW a \in Actors, Request(a) \/ Step(a) \/ Crash(a)
        PROVE  UNCHANGED dir \/ RenameStage(a) \/ Isolate(a)
    BY <2>5 DEF Request, Step, Crash, Lock, Begin, LockTimeout, BeginClone, Copy,
       Discard, CheckSelected, PublishSelector, BuildPlan, EndPlan, LookAgain,
       Delete
  <2>6. CASE UNCHANGED dir
    BY <2>6
  <2>7. ASSUME NEW p \in Processes, \/ \E t \in Stores : Locate(p, t)
                                    \/ StartCore(p) \/ StartHost(p)
                                    \/ EndProcess(p)
        PROVE  UNCHANGED dir
    BY <2>7 DEF Locate, StartCore, StartHost, EndProcess
  <2>. QED BY <2>2, <2>3, <2>4, <2>5, <2>6, <2>7 DEF Next, vars
<1>2. ReleaseInv /\ [Next]_vars =>
        [\A s \in Stores, r \in Releases :
           dir[s][r] = "absent" /\ dir'[s][r] # "absent" => dir'[s][r] = "whole"]_vars
  BY <1>1
<1>. QED BY <1>2, Invariance, PTL DEF Spec, AppearsComplete
=============================================================================
