-------------------------- MODULE ContextStoreProofs -------------------------
(***************************************************************************)
(* Theorems about the Context store, for any number of processes, Contexts *)
(* and commands and every order of deaths and failures.                    *)
(*                                                                         *)
(* The argument: between the taking of the lock and its release there is   *)
(* one process (HolderInv), so what a step has read under the lock is what *)
(* the next one finds (PlaceInv).  The stored version tells which layout   *)
(* and which schema the records have (VersionInv), and a migration that    *)
(* has nothing left to do has visited every record of the earlier one.     *)
(* With that the files implement ContextRecords: a command takes effect    *)
(* with the rename or removal of its document, and a migration never.      *)
(***************************************************************************)
EXTENDS ContextStore, TLAPS

\* The places at which a process has the lock.
Migrating == {"upgrade", "upgradeCommit", "move", "removeFlat"}
Using == {"lock", "locked", "commit", "removeDirectory", "read", "list"}
Holding == {"prepare", "opened", "locked", "commit", "removeDirectory"} \union Migrating

\* The holder of the lock is at one of those places, or about to return.
HolderInv ==
    /\ OneWriter
    /\ \A p \in Processes : lock = p => pc[p] \in Holding \union {"return"}

\* What the version says of the files.
VersionInv ==
    /\ \A i \in Ids : docs[i] # None => i \in dirs
    /\ version # "v2" => \A i \in dirs : docs[i] # None
    /\ version # None => \A i \in Ids : flat[i] = None
    /\ version # "v1" => \A i \in Ids : docs[i] # None => docs[i].schema = "v2"

\* What is left to migrate, and what a process has read, at each of its places.
PlaceInv(p) ==
    /\ pc[p] \in {"upgrade", "upgradeCommit"} =>
         /\ version = "v1" /\ todo[p] \subseteq dirs
         /\ \A i \in dirs : docs[i].schema = "v1" => i \in todo[p]
    /\ pc[p] \in {"move", "removeFlat"} =>
         /\ version = None
         /\ \A i \in Ids : flat[i] # None <=> i \in todo[p]
    /\ pc[p] \in Using \union {"opened"} => version = "v2"
    /\ pc[p] = "upgradeCommit" =>
         work[p] \in todo[p] /\ draft[p] = docs[work[p]].record
    /\ pc[p] = "removeFlat" => work[p] \in todo[p] /\ docs[work[p]] # None

\* A process works on the Context of its command, and answers at its end.
CommandInv(p) ==
    /\ pc[p] = "idle" <=> call[p] = Records!Idle
    /\ pc[p] # "idle" => call[p] \in Records!Calls
    /\ pc[p] \in Using => work[p] = call[p].id
    /\ pc[p] \in {"read", "list"} <=> pc[p] \in Using /\ call[p].op \in Records!Reads
    /\ pc[p] = "list" => call[p].op = "list"
    /\ pc[p] = "commit" =>
         LET record == docs[work[p]].record IN
         /\ call[p].op \in Records!Changes /\ docs[work[p]] # None
         /\ Records!Verdict(call[p].op, record, p) = "ok"
         /\ draft[p] = Records!Changed(call[p].op, record, p)
    /\ pc[p] = "removeDirectory" =>
         call[p].op = "delete" /\ docs[work[p]] = None /\ work[p] \in dirs \ litter
    /\ IF pc[p] = "return" THEN answer[p] \in Answers \ {"deleted"}
       ELSE IF pc[p] = "removeDirectory" THEN answer[p] = "deleted"
       ELSE answer[p] = None
    /\ pc[p] \notin {"list", "return"} => seen[p] = Records!NothingSeen
    /\ pc[p] = "list" => \A i \in Ids : seen[p][i] = Unread <=> i \in todo[p]

ResultsOK ==
    /\ call \in [Processes -> Records!Calls \union {Records!Idle}]
    /\ seen \in [Processes -> [Ids -> Records!Record \union {None, Unread}]]
    /\ answer \in [Processes -> Answers \union {None}]

ContextInv ==
    /\ TypeOK /\ ResultsOK
    /\ HolderInv /\ VersionInv
    /\ \A p \in Processes : PlaceInv(p) /\ CommandInv(p)

\* The sets of the type invariant.
DiskOK ==
    /\ version \in {None, "v1", "v2"}
    /\ flat \in [Ids -> Docs \union {None}] /\ docs \in [Ids -> Docs \union {None}]
    /\ litter \subseteq dirs /\ dirs \subseteq Ids

LocalOK ==
    /\ pc \in [Processes -> Labels]
    /\ todo \in [Processes -> SUBSET Ids] /\ work \in [Processes -> Ids \union {None}]
    /\ draft \in [Processes -> Records!Record \union {None}]

BoundsOK == calls \in 0 .. MaxCalls /\ faults \in 0 .. MaxFaults

LEMMA TypeParts ==
    TypeOK <=> DiskOK /\ lock \in Processes \union {None} /\ LocalOK /\ BoundsOK
  BY DEF TypeOK, DiskOK, LocalOK, BoundsOK
---------------------------------------------------------------------------
(* The invariant is inductive *)

\* What a change does to a record of the Context.
LEMMA ChangedTyped ==
    ASSUME NEW op \in Records!Changes, NEW record \in Records!Record,
           NEW p \in Processes
    PROVE  Records!Changed(op, record, p) \in Records!Record
<1>1. [record EXCEPT !.notes = @ \union {p}] \in Records!Record
  BY DEF Records!Record
<1>2. [record EXCEPT !.notes = @ \ {Old}] \in Records!Record
  BY DEF Records!Record
<1>3. [record EXCEPT !.prompt = p] \in Records!Record
  BY DEF Records!Record
<1>. QED BY <1>1, <1>2, <1>3 DEF Records!Changed, Records!Changes

LEMMA VerdictTyped ==
    ASSUME NEW op, NEW record, NEW p
    PROVE  Records!Verdict(op, record, p) \in {"absent", "limit", "ok"}
  BY DEF Records!Verdict

LEMMA EmptyTyped == Records!Empty \in Records!Record
  BY DEF Records!Empty, Records!Record

LEMMA DocTyped ==
    ASSUME NEW record \in Records!Record, NEW schema \in {"v1", "v2"}
    PROVE  /\ Doc(schema, record) \in Docs /\ Doc(schema, record) # None
           /\ Doc(schema, record).record = record
           /\ Doc(schema, record).schema = schema
  BY ValueAssumption DEF Doc, Docs

LEMMA IdleIsNoCall == Records!Idle \notin Records!Calls
  BY DEF Records!Idle, Records!Calls, Records!Ops, Records!Changes, Records!Reads

\* The other processes keep what is theirs.
Alone(p) ==
    /\ LocalOK' /\ ResultsOK'
    /\ \A q \in Processes \ {p} :
         /\ pc'[q] = pc[q] /\ todo'[q] = todo[q] /\ work'[q] = work[q]
         /\ draft'[q] = draft[q] /\ call'[q] = call[q] /\ seen'[q] = seen[q]
         /\ answer'[q] = answer[q]

\* The lock is taken and released with the places at which it is held.
LockStep(p) ==
    \/ lock' = lock /\ lock = p /\ pc'[p] \in Holding \union {"return"}
    \/ lock' = lock /\ lock # p /\ pc'[p] \notin Holding
    \/ lock = None /\ lock' = p /\ pc'[p] \in Holding
    \/ lock = p /\ lock' = None /\ pc'[p] \notin Holding

\* Only the holder of the lock changes the files, and never to an older version.
DiskStep(p) ==
    /\ DiskOK' /\ VersionInv' /\ BoundsOK'
    /\ lock = p \/ UNCHANGED <<version, flat, docs, dirs>>
    /\ version = "v2" => version' = "v2"
    /\ litter' = litter \/ lock = p

LEMMA StepKeepsInv ==
    ASSUME ContextInv, NEW p \in Processes, Alone(p), LockStep(p), DiskStep(p),
           PlaceInv(p)', CommandInv(p)'
    PROVE  ContextInv'
<1>1. LocalOK /\ HolderInv /\ lock \in Processes \union {None}
  BY TypeParts DEF ContextInv
<1>2. TypeOK' /\ ResultsOK'
  BY <1>1 DEF Alone, LockStep, DiskStep, TypeOK, DiskOK, LocalOK, BoundsOK
<1>3. HolderInv'
  BY <1>1, BoundAssumption DEF Alone, LockStep, HolderInv, OneWriter, Holding, Migrating
<1>4. ASSUME NEW q \in Processes \ {p} PROVE PlaceInv(q)' /\ CommandInv(q)'
  <2>1. PlaceInv(q) /\ CommandInv(q)
    BY DEF ContextInv
  <2>2. pc[q] \in Holding => UNCHANGED <<disk>>
    BY <1>1, <1>4 DEF DiskStep, HolderInv, OneWriter, Holding, Migrating, disk
  <2>3. PlaceInv(q)'
    BY <2>1, <2>2 DEF Alone, DiskStep, PlaceInv, Holding, Migrating, Using, disk
  <2>4. CommandInv(q)'
    BY <2>1, <2>2 DEF Alone, DiskStep, CommandInv, Holding, Migrating, Using, disk
  <2>. QED BY <2>3, <2>4
<1>. QED BY <1>2, <1>3, <1>4 DEF ContextInv, DiskStep

\* The opening of the store keeps the invariant.
LEMMA OpeningKeepsInv ==
    ASSUME ContextInv, NEW p \in Processes, OpenStep(p)
    PROVE  ContextInv' /\ Alone(p)
<1>1. /\ DiskOK /\ LocalOK /\ ResultsOK /\ BoundsOK /\ HolderInv /\ VersionInv
      /\ PlaceInv(p) /\ CommandInv(p) /\ lock \in Processes \union {None}
  BY TypeParts DEF ContextInv
<1>2. /\ pc[p] \in Holding => lock = p
      /\ lock = p => pc[p] \in Holding \union {"return"}
  BY <1>1 DEF HolderInv, OneWriter, Holding, Migrating
<1>. USE BoundAssumption DEF disk, local, result, bounds, Goto, Answered, Answers
<1>3. CASE Acquire(p)
  <2>1. Alone(p)
    BY <1>3, <1>1, <1>2 DEF Acquire, Alone, LocalOK, ResultsOK, Labels
  <2>2. LockStep(p)
    BY <1>3, <1>1, <1>2 DEF Acquire, LockStep, LocalOK, Holding, Migrating
  <2>3. DiskStep(p)
    BY <1>3, <1>1, <1>2 DEF Acquire, DiskStep, DiskOK, VersionInv, BoundsOK
  <2>4. PlaceInv(p)'
    BY <1>3, <1>1, <1>2 DEF Acquire, PlaceInv, Using, LocalOK
  <2>5. CommandInv(p)'
    BY <1>3, <1>1, <1>2 DEF Acquire, CommandInv, Using, LocalOK, ResultsOK
  <2>. QED BY <2>1, <2>2, <2>3, <2>4, <2>5, StepKeepsInv
<1>4. CASE GiveUp(p)
  <2>1. Alone(p)
    BY <1>4, <1>1, <1>2 DEF GiveUp, Alone, LocalOK, ResultsOK, Labels
  <2>2. LockStep(p)
    BY <1>4, <1>1, <1>2 DEF GiveUp, LockStep, LocalOK, Holding, Migrating
  <2>3. DiskStep(p)
    BY <1>4, <1>1, <1>2 DEF GiveUp, DiskStep, DiskOK, VersionInv, BoundsOK
  <2>4. PlaceInv(p)'
    BY <1>4, <1>1, <1>2 DEF GiveUp, PlaceInv, Using, LocalOK
  <2>5. CommandInv(p)'
    BY <1>4, <1>1, <1>2 DEF GiveUp, CommandInv, Using, LocalOK, ResultsOK
  <2>. QED BY <2>1, <2>2, <2>3, <2>4, <2>5, StepKeepsInv
<1>5. CASE Prepare(p)
  <2>1. Alone(p)
    BY <1>5, <1>1, <1>2 DEF Prepare, Alone, LocalOK, ResultsOK, Labels, DiskOK
  <2>2. LockStep(p)
    BY <1>5, <1>1, <1>2 DEF Prepare, LockStep, LocalOK, Holding, Migrating
  <2>3. DiskStep(p)
    BY <1>5, <1>1, <1>2 DEF Prepare, DiskStep, DiskOK, VersionInv, BoundsOK
  <2>4. PlaceInv(p)'
    BY <1>5, <1>1, <1>2 DEF Prepare, PlaceInv, Using, LocalOK, DiskOK,
       VersionInv
  <2>5. CommandInv(p)'
    BY <1>5, <1>1, <1>2 DEF Prepare, CommandInv, Using, LocalOK, ResultsOK
  <2>. QED BY <2>1, <2>2, <2>3, <2>4, <2>5, StepKeepsInv
<1>6. CASE PublishVersion(p)
  <2>1. Alone(p)
    BY <1>6, <1>1, <1>2 DEF PublishVersion, Alone, LocalOK, ResultsOK, Labels
  <2>2. LockStep(p)
    BY <1>6, <1>1, <1>2 DEF PublishVersion, LockStep, LocalOK, Holding,
       Migrating
  <2>3. DiskStep(p)
    <3>1. pc[p] \in {"upgrade", "move"} /\ todo[p] = {} /\ lock = p
      BY <1>2, <1>6 DEF PublishVersion, Holding, Migrating
    <3>2. \A i \in Ids : docs[i] # None => docs[i].schema = "v2"
      <4>1. CASE pc[p] = "upgrade"
        BY <1>1, <3>1, <4>1 DEF PlaceInv, VersionInv, DiskOK, Docs
      <4>2. CASE pc[p] = "move"
        BY <1>1, <4>2, ValueAssumption DEF PlaceInv, VersionInv
      <4>. QED BY <3>1, <4>1, <4>2
    <3>3. \A i \in Ids : flat[i] = None
      BY <1>1, <3>1, ValueAssumption DEF PlaceInv, VersionInv, LocalOK
    <3>. QED BY <1>1, <1>6, <3>1, <3>2, <3>3, ValueAssumption
             DEF PublishVersion, DiskStep, DiskOK, VersionInv, BoundsOK
  <2>4. PlaceInv(p)'
    BY <1>6, <1>1, <1>2 DEF PublishVersion, PlaceInv, Using, LocalOK
  <2>5. CommandInv(p)'
    BY <1>6, <1>1, <1>2 DEF PublishVersion, CommandInv, Using, LocalOK,
       ResultsOK
  <2>. QED BY <2>1, <2>2, <2>3, <2>4, <2>5, StepKeepsInv
<1>7. CASE Opened(p)
  <2>1. Alone(p)
    BY <1>7, <1>1, <1>2 DEF Opened, Alone, LocalOK, ResultsOK, Labels,
       CommandInv, Records!Calls
  <2>2. LockStep(p)
    BY <1>7, <1>1, <1>2 DEF Opened, LockStep, LocalOK, Holding, Migrating
  <2>3. DiskStep(p)
    BY <1>7, <1>1, <1>2 DEF Opened, DiskStep, DiskOK, VersionInv, BoundsOK
  <2>4. PlaceInv(p)'
    BY <1>7, <1>1, <1>2 DEF Opened, PlaceInv, Using, LocalOK
  <2>5. CommandInv(p)'
    BY <1>7, <1>1, <1>2, IdleIsNoCall DEF Opened, CommandInv, Using, LocalOK,
       ResultsOK, Records!Calls, Records!Ops
  <2>. QED BY <2>1, <2>2, <2>3, <2>4, <2>5, StepKeepsInv
<1>8. CASE UpgradeNext(p)
  <2>1. Alone(p)
    <3>1. PICK i \in todo[p] : /\ work' = [work EXCEPT ![p] = i]
                               /\ draft' = [draft EXCEPT ![p] = docs[i].record]
                               /\ pc' = [pc EXCEPT ![p] = "upgradeCommit"]
      BY <1>8 DEF UpgradeNext
    <3>2. i \in Ids /\ docs[i] \in Docs
      BY <1>1, <1>8 DEF UpgradeNext, PlaceInv, VersionInv, DiskOK, LocalOK
    <3>3. docs[i].record \in Records!Record
      BY <3>2 DEF Docs
    <3>. QED BY <1>1, <1>8, <3>1, <3>2, <3>3
             DEF UpgradeNext, Alone, LocalOK, ResultsOK, Labels
  <2>2. LockStep(p)
    BY <1>8, <1>1, <1>2 DEF UpgradeNext, LockStep, LocalOK, Holding, Migrating
  <2>3. DiskStep(p)
    BY <1>8, <1>1, <1>2 DEF UpgradeNext, DiskStep, DiskOK, VersionInv,
       BoundsOK
  <2>4. PlaceInv(p)'
    BY <1>8, <1>1, <1>2 DEF UpgradeNext, PlaceInv, Using, LocalOK
  <2>5. CommandInv(p)'
    BY <1>8, <1>1, <1>2 DEF UpgradeNext, CommandInv, Using, LocalOK, ResultsOK
  <2>. QED BY <2>1, <2>2, <2>3, <2>4, <2>5, StepKeepsInv
<1>9. CASE UpgradeCommit(p)
  <2>1. Alone(p)
    BY <1>9, <1>1, <1>2 DEF UpgradeCommit, Published, Alone, LocalOK,
       ResultsOK, Labels
  <2>2. LockStep(p)
    BY <1>9, <1>1, <1>2 DEF UpgradeCommit, Published, LockStep, LocalOK,
       Holding, Migrating
  <2>3. DiskStep(p)
    <3>1. work[p] \in dirs /\ work[p] \in Ids /\ version = "v1"
      BY <1>1, <1>9 DEF UpgradeCommit, PlaceInv, DiskOK, LocalOK
    <3>2. docs[work[p]] \in Docs /\ draft[p] = docs[work[p]].record
      BY <1>1, <1>9, <3>1 DEF UpgradeCommit, PlaceInv, VersionInv, DiskOK
    <3>3. Doc("v2", draft[p]) \in Docs /\ Doc("v2", draft[p]) # None
      BY <3>2, DocTyped DEF Docs
    <3>. QED BY <1>1, <1>2, <1>9, <3>1, <3>3
             DEF UpgradeCommit, Published, DiskStep, DiskOK, VersionInv, BoundsOK,
                 Holding, Migrating
  <2>4. PlaceInv(p)'
    <3>1. work[p] \in dirs /\ work[p] \in Ids /\ version = "v1"
      BY <1>1, <1>9 DEF UpgradeCommit, PlaceInv, DiskOK, LocalOK
    <3>2. Doc("v2", draft[p]).schema = "v2"
      BY DEF Doc
    <3>. QED BY <1>1, <1>9, <3>1, <3>2
             DEF UpgradeCommit, Published, PlaceInv, Using, DiskOK, LocalOK
  <2>5. CommandInv(p)'
    BY <1>9, <1>1, <1>2 DEF UpgradeCommit, Published, CommandInv, Using,
       LocalOK, ResultsOK
  <2>. QED BY <2>1, <2>2, <2>3, <2>4, <2>5, StepKeepsInv
<1>10. CASE MoveNext(p)
  <2>1. Alone(p)
    <3>1. PICK i \in todo[p] :
             \/ /\ pc' = [pc EXCEPT ![p] = "return"] /\ UNCHANGED work
                /\ answer' = [answer EXCEPT ![p] = "conflict"]
             \/ /\ pc' = [pc EXCEPT ![p] = "removeFlat"] /\ UNCHANGED answer
                /\ work' = [work EXCEPT ![p] = i]
      BY <1>10 DEF MoveNext
    <3>2. i \in Ids
      BY <1>1, <3>1 DEF LocalOK
    <3>3. UNCHANGED <<todo, draft, call, seen>>
      BY <1>10 DEF MoveNext
    <3>4. CASE UNCHANGED work
      BY <1>1, <3>1, <3>3, <3>4 DEF Alone, LocalOK, ResultsOK, Labels
    <3>5. CASE /\ pc' = [pc EXCEPT ![p] = "removeFlat"] /\ UNCHANGED answer
               /\ work' = [work EXCEPT ![p] = i]
      BY <1>1, <3>2, <3>3, <3>5 DEF Alone, LocalOK, ResultsOK, Labels
    <3>. QED BY <3>1, <3>4, <3>5
  <2>2. LockStep(p)
    BY <1>10, <1>1, <1>2 DEF MoveNext, Published, LockStep, LocalOK, Holding,
       Migrating
  <2>3. DiskStep(p)
    <3>1. PICK i \in todo[p] :
             \/ UNCHANGED <<dirs, docs>>
             \/ /\ docs' = [docs EXCEPT ![i] = Doc("v2", flat[i].record)]
                /\ dirs' = dirs \union {i}
      BY <1>10 DEF MoveNext, Published
    <3>2. i \in Ids /\ flat[i] \in Docs /\ version = None
      BY <1>1, <1>10 DEF MoveNext, PlaceInv, DiskOK, LocalOK
    <3>3. Doc("v2", flat[i].record) \in Docs /\ Doc("v2", flat[i].record) # None
          /\ Doc("v2", flat[i].record).schema = "v2"
      BY <3>2, DocTyped DEF Docs
    <3>. QED BY <1>1, <1>2, <1>10, <3>1, <3>2, <3>3, ValueAssumption
             DEF MoveNext, DiskStep, DiskOK, VersionInv, BoundsOK, Holding, Migrating
  <2>4. PlaceInv(p)'
    <3>1. PICK i \in todo[p] :
             \/ pc' = [pc EXCEPT ![p] = "return"]
             \/ /\ docs' = [docs EXCEPT ![i] = Doc("v2", flat[i].record)]
                /\ work' = [work EXCEPT ![p] = i]
                /\ pc' = [pc EXCEPT ![p] = "removeFlat"]
      BY <1>10 DEF MoveNext, Published
    <3>2. i \in Ids /\ flat[i] \in Docs /\ version = None
      BY <1>1, <1>10 DEF MoveNext, PlaceInv, DiskOK, LocalOK
    <3>3. Doc("v2", flat[i].record) # None
      BY <3>2, DocTyped DEF Docs
    <3>. QED BY <1>1, <1>10, <3>1, <3>2, <3>3
             DEF MoveNext, PlaceInv, Using, DiskOK, LocalOK
  <2>5. CommandInv(p)'
    BY <1>10, <1>1, <1>2 DEF MoveNext, Published, CommandInv, Using, LocalOK,
       ResultsOK
  <2>. QED BY <2>1, <2>2, <2>3, <2>4, <2>5, StepKeepsInv
<1>11. CASE RemoveFlat(p)
  <2>1. Alone(p)
    BY <1>11, <1>1, <1>2 DEF RemoveFlat, Alone, LocalOK, ResultsOK, Labels
  <2>2. LockStep(p)
    BY <1>11, <1>1, <1>2 DEF RemoveFlat, LockStep, LocalOK, Holding, Migrating
  <2>3. DiskStep(p)
    BY <1>11, <1>1, <1>2 DEF RemoveFlat, DiskStep, DiskOK, VersionInv,
       BoundsOK, PlaceInv, LocalOK, Holding, Migrating
  <2>4. PlaceInv(p)'
    BY <1>11, <1>1, <1>2, ValueAssumption DEF RemoveFlat, PlaceInv, Using,
       LocalOK, DiskOK
  <2>5. CommandInv(p)'
    BY <1>11, <1>1, <1>2 DEF RemoveFlat, CommandInv, Using, LocalOK, ResultsOK
  <2>. QED BY <2>1, <2>2, <2>3, <2>4, <2>5, StepKeepsInv
<1>. QED BY <1>3, <1>4, <1>5, <1>6, <1>7, <1>8, <1>9, <1>10, <1>11
         DEF OpenStep

\* A change under the lock keeps it.
LEMMA ChangeKeepsInv ==
    ASSUME ContextInv, NEW p \in Processes, 
           \/ Create(p) \/ ReadForChange(p) \/ Commit(p)
           \/ RemoveDocument(p) \/ RemoveDirectory(p)
    PROVE  ContextInv' /\ Alone(p)
<1>1. /\ DiskOK /\ LocalOK /\ ResultsOK /\ BoundsOK /\ HolderInv /\ VersionInv
      /\ PlaceInv(p) /\ CommandInv(p) /\ lock \in Processes \union {None}
  BY TypeParts DEF ContextInv
<1>2. /\ pc[p] \in Holding => lock = p
      /\ lock = p => pc[p] \in Holding \union {"return"}
  BY <1>1 DEF HolderInv, OneWriter, Holding, Migrating
<1>. USE BoundAssumption DEF disk, local, result, bounds, Goto, Answered, Answers
<1>3. CASE Create(p)
  <2>1. Alone(p)
    BY <1>3, <1>1, <1>2 DEF Create, Published, Holds, Alone, LocalOK,
       ResultsOK, Labels
  <2>2. LockStep(p)
    BY <1>3, <1>1, <1>2 DEF Create, Published, Holds, LockStep, LocalOK,
       Holding, Migrating
  <2>3. DiskStep(p)
    <3>1. call[p] \in Records!Calls /\ work[p] = call[p].id /\ call[p].op = "new"
      BY <1>1, <1>3 DEF Create, Holds, CommandInv, Using
    <3>2. work[p] \in Ids /\ version = "v2"
      BY <1>1, <1>3, <3>1 DEF Create, Holds, PlaceInv, Using, Records!Calls
    <3>3. Doc("v2", Records!Empty) \in Docs /\ Doc("v2", Records!Empty) # None
          /\ Doc("v2", Records!Empty).schema = "v2"
      BY EmptyTyped, DocTyped
    <3>. QED BY <1>1, <1>2, <1>3, <3>2, <3>3, ValueAssumption
             DEF Create, Published, Holds, DiskStep, DiskOK, VersionInv, BoundsOK, Holding, Migrating
  <2>4. PlaceInv(p)'
    BY <1>3, <1>1, <1>2 DEF Create, Published, Holds, PlaceInv, Using, LocalOK
  <2>5. CommandInv(p)'
    BY <1>3, <1>1, <1>2 DEF Create, Published, Holds, CommandInv, Using,
       LocalOK, ResultsOK
  <2>. QED BY <2>1, <2>2, <2>3, <2>4, <2>5, StepKeepsInv
<1>4. CASE ReadForChange(p)
  <2>1. Alone(p)
    <3>1. call[p] \in Records!Calls /\ work[p] = call[p].id /\ call[p].op \in Records!Changes
      BY <1>1, <1>4 DEF ReadForChange, Holds, CommandInv, Using
    <3>2. docs[work[p]] # None => docs[work[p]] \in Docs
      BY <1>1, <3>1 DEF DiskOK, Records!Calls, Records!Changes
    <3>3. docs[work[p]] # None
            => Records!Changed(call[p].op, docs[work[p]].record, p) \in Records!Record
      BY <3>1, <3>2, ChangedTyped DEF Docs
    <3>4. Records!Verdict(call[p].op, docs[work[p]].record, p) \in {"absent", "limit", "ok"}
      BY VerdictTyped
    <3>5. UNCHANGED <<todo, work, call, seen>>
      BY <1>4 DEF ReadForChange
    <3>6. CASE UNCHANGED answer
      <4>1. /\ draft' = [draft EXCEPT ![p] =
                           Records!Changed(call[p].op, docs[work[p]].record, p)]
            /\ pc' = [pc EXCEPT ![p] = "commit"]
        BY <1>1, <1>4, <3>6, <3>4, ValueAssumption DEF ReadForChange, Holds, CommandInv, ResultsOK
      <4>2. docs[work[p]] # None
        BY <1>1, <1>4, <3>6, ValueAssumption DEF ReadForChange, Holds, CommandInv, Using, ResultsOK
      <4>. QED BY <1>1, <3>3, <3>5, <3>6, <4>1, <4>2 DEF Alone, LocalOK, ResultsOK, Labels
    <3>7. CASE UNCHANGED draft /\ pc' = [pc EXCEPT ![p] = "return"]
               /\ \E a \in {"missing", "unsupported", "absent", "limit"} :
                     answer' = [answer EXCEPT ![p] = a]
      BY <1>1, <3>5, <3>7 DEF Alone, LocalOK, ResultsOK, Labels
    <3>. QED BY <1>1, <1>4, <3>4, <3>6, <3>7 DEF ReadForChange
  <2>2. LockStep(p)
    BY <1>4, <1>1, <1>2 DEF ReadForChange, Holds, LockStep, LocalOK, Holding,
       Migrating
  <2>3. DiskStep(p)
    BY <1>4, <1>1, <1>2 DEF ReadForChange, Holds, DiskStep, DiskOK,
       VersionInv, BoundsOK
  <2>4. PlaceInv(p)'
    BY <1>4, <1>1, <1>2 DEF ReadForChange, Holds, PlaceInv, Using, LocalOK
  <2>5. CommandInv(p)'
    <3>1. Records!Verdict(call[p].op, docs[work[p]].record, p) \in {"absent", "limit", "ok"}
      BY VerdictTyped
    <3>. QED BY <1>1, <1>4, <3>1
             DEF ReadForChange, Holds, CommandInv, Using, LocalOK, ResultsOK
  <2>. QED BY <2>1, <2>2, <2>3, <2>4, <2>5, StepKeepsInv
<1>5. CASE Commit(p)
  <2>1. Alone(p)
    BY <1>5, <1>1, <1>2 DEF Commit, Published, Alone, LocalOK, ResultsOK,
       Labels
  <2>2. LockStep(p)
    BY <1>5, <1>1, <1>2 DEF Commit, Published, LockStep, LocalOK, Holding,
       Migrating
  <2>3. DiskStep(p)
    <3>1. call[p] \in Records!Calls /\ work[p] = call[p].id /\ call[p].op \in Records!Changes
          /\ docs[work[p]] # None /\ version = "v2"
      BY <1>1, <1>5 DEF Commit, CommandInv, PlaceInv, Using
    <3>2. work[p] \in Ids /\ draft[p] \in Records!Record
      <4>1. work[p] \in Ids
        BY <3>1 DEF Records!Calls, Records!Changes
      <4>2. docs[work[p]].record \in Records!Record
        BY <1>1, <3>1, <4>1 DEF DiskOK, Docs
      <4>. QED BY <1>1, <1>5, <3>1, <4>1, <4>2, ChangedTyped DEF Commit, CommandInv
    <3>3. Doc("v2", draft[p]) \in Docs /\ Doc("v2", draft[p]) # None
          /\ Doc("v2", draft[p]).schema = "v2"
      BY <3>2, DocTyped
    <3>. QED BY <1>1, <1>2, <1>5, <3>1, <3>2, <3>3
             DEF Commit, Published, DiskStep, DiskOK, VersionInv, BoundsOK, Holding
  <2>4. PlaceInv(p)'
    BY <1>5, <1>1, <1>2 DEF Commit, Published, PlaceInv, Using, LocalOK
  <2>5. CommandInv(p)'
    BY <1>5, <1>1, <1>2 DEF Commit, Published, CommandInv, Using, LocalOK,
       ResultsOK
  <2>. QED BY <2>1, <2>2, <2>3, <2>4, <2>5, StepKeepsInv
<1>6. CASE RemoveDocument(p)
  <2>1. Alone(p)
    BY <1>6, <1>1, <1>2 DEF RemoveDocument, Holds, Alone, LocalOK, ResultsOK,
       Labels
  <2>2. LockStep(p)
    BY <1>6, <1>1, <1>2 DEF RemoveDocument, Holds, LockStep, LocalOK, Holding,
       Migrating
  <2>3. DiskStep(p)
    <3>1. version = "v2"
      BY <1>1, <1>6 DEF RemoveDocument, Holds, PlaceInv, Using
    <3>. QED BY <1>1, <1>2, <1>6, <3>1, ValueAssumption
             DEF RemoveDocument, Holds, DiskStep, DiskOK, VersionInv, BoundsOK, Holding
  <2>4. PlaceInv(p)'
    BY <1>6, <1>1, <1>2 DEF RemoveDocument, Holds, PlaceInv, Using, LocalOK
  <2>5. CommandInv(p)'
    <3>1. call[p].op = "delete"
      BY <1>6 DEF RemoveDocument, Holds
    <3>. QED BY <1>1, <1>6, <3>1
             DEF RemoveDocument, Holds, CommandInv, Using, LocalOK, ResultsOK, DiskOK, Records!Reads
  <2>. QED BY <2>1, <2>2, <2>3, <2>4, <2>5, StepKeepsInv
<1>7. CASE RemoveDirectory(p)
  <2>1. Alone(p)
    BY <1>7, <1>1, <1>2 DEF RemoveDirectory, Alone, LocalOK, ResultsOK, Labels
  <2>2. LockStep(p)
    BY <1>7, <1>1, <1>2 DEF RemoveDirectory, LockStep, LocalOK, Holding,
       Migrating
  <2>3. DiskStep(p)
    <3>1. version = "v2" /\ docs[work[p]] = None /\ work[p] \notin litter
      BY <1>1, <1>7 DEF RemoveDirectory, PlaceInv, CommandInv, Using
    <3>. QED BY <1>1, <1>2, <1>7, <3>1
             DEF RemoveDirectory, DiskStep, DiskOK, VersionInv, BoundsOK, Holding
  <2>4. PlaceInv(p)'
    BY <1>7, <1>1, <1>2 DEF RemoveDirectory, PlaceInv, Using, LocalOK
  <2>5. CommandInv(p)'
    BY <1>7, <1>1, <1>2 DEF RemoveDirectory, CommandInv, Using, LocalOK,
       ResultsOK
  <2>. QED BY <2>1, <2>2, <2>3, <2>4, <2>5, StepKeepsInv
<1>. QED BY <1>3, <1>4, <1>5, <1>6, <1>7

\* Reading keeps it.
LEMMA ReadKeepsInv ==
    ASSUME ContextInv, NEW p \in Processes, 
           ReadOne(p) \/ ListDirectories(p) \/ ListNext(p) \/ EndList(p)
    PROVE  ContextInv' /\ Alone(p)
<1>1. /\ DiskOK /\ LocalOK /\ ResultsOK /\ BoundsOK /\ HolderInv /\ VersionInv
      /\ PlaceInv(p) /\ CommandInv(p) /\ lock \in Processes \union {None}
  BY TypeParts DEF ContextInv
<1>2. /\ pc[p] \in Holding => lock = p
      /\ lock = p => pc[p] \in Holding \union {"return"}
  BY <1>1 DEF HolderInv, OneWriter, Holding, Migrating
<1>. USE BoundAssumption DEF disk, local, result, bounds, Goto, Answered, Answers
<1>3. CASE ReadOne(p)
  <2>1. Alone(p)
    <3>1. call[p] \in Records!Calls /\ work[p] = call[p].id /\ call[p].op = "show"
      BY <1>1, <1>3 DEF ReadOne, CommandInv, Using
    <3>2. work[p] \in Ids
      BY <3>1 DEF Records!Calls
    <3>3. docs[work[p]] # None => docs[work[p]].record \in Records!Record
      BY <1>1, <3>2 DEF DiskOK, Docs
    <3>4. /\ seen' \in [Processes -> [Ids -> Records!Record \union {None, Unread}]]
          /\ \A q \in Processes \ {p} : seen'[q] = seen[q]
      <4>1. CASE UNCHANGED seen
        BY <1>1, <4>1 DEF ResultsOK
      <4>2. CASE docs[work[p]] # None
                 /\ seen' = [seen EXCEPT ![p][work[p]] = docs[work[p]].record]
        BY <1>1, <3>2, <3>3, <4>2 DEF ResultsOK
      <4>. QED BY <1>3, <4>1, <4>2 DEF ReadOne
    <3>5. \/ answer' = [answer EXCEPT ![p] = "missing"]
          \/ answer' = [answer EXCEPT ![p] = "unsupported"]
          \/ answer' = [answer EXCEPT ![p] = "ok"]
      BY <1>3 DEF ReadOne
    <3>6. pc' = [pc EXCEPT ![p] = "return"]
      BY <1>3 DEF ReadOne
    <3>7. UNCHANGED <<todo, work, draft, call>>
      BY <1>3 DEF ReadOne
    <3>. QED BY <1>1, <3>4, <3>5, <3>6, <3>7
             DEF Alone, LocalOK, ResultsOK, Labels
  <2>2. LockStep(p)
    BY <1>3, <1>1, <1>2 DEF ReadOne, LockStep, LocalOK, Holding, Migrating
  <2>3. DiskStep(p)
    BY <1>3, <1>1, <1>2 DEF ReadOne, DiskStep, DiskOK, VersionInv, BoundsOK
  <2>4. PlaceInv(p)'
    BY <1>3, <1>1, <1>2 DEF ReadOne, PlaceInv, Using, LocalOK
  <2>5. CommandInv(p)'
    BY <1>3, <1>1, <1>2 DEF ReadOne, CommandInv, Using, LocalOK, ResultsOK
  <2>. QED BY <2>1, <2>2, <2>3, <2>4, <2>5, StepKeepsInv
<1>4. CASE ListDirectories(p)
  <2>1. Alone(p)
    BY <1>4, <1>1, <1>2 DEF ListDirectories, Alone, LocalOK, ResultsOK,
       Labels, DiskOK
  <2>2. LockStep(p)
    BY <1>4, <1>1, <1>2 DEF ListDirectories, LockStep, LocalOK, Holding,
       Migrating
  <2>3. DiskStep(p)
    BY <1>4, <1>1, <1>2 DEF ListDirectories, DiskStep, DiskOK, VersionInv,
       BoundsOK
  <2>4. PlaceInv(p)'
    BY <1>4, <1>1, <1>2 DEF ListDirectories, PlaceInv, Using, LocalOK
  <2>5. CommandInv(p)'
    <3>1. seen[p] = Records!NothingSeen
      BY <1>1, <1>4 DEF ListDirectories, CommandInv
    <3>2. \A i \in Ids : seen'[p][i] = IF i \in dirs THEN Unread ELSE None
      BY <1>1, <1>4, <3>1 DEF ListDirectories, ResultsOK, Records!NothingSeen
    <3>3. \A i \in Ids : seen'[p][i] = Unread <=> i \in todo'[p]
      BY <1>1, <1>4, <3>2, ValueAssumption DEF ListDirectories, LocalOK
    <3>. QED BY <1>1, <1>4, <3>3
             DEF ListDirectories, CommandInv, Using, LocalOK, ResultsOK, Records!Reads
  <2>. QED BY <2>1, <2>2, <2>3, <2>4, <2>5, StepKeepsInv
<1>5. CASE ListNext(p)
  <2>1. Alone(p)
    <3>1. PICK i \in todo[p] :
             \/ /\ pc' = [pc EXCEPT ![p] = "return"] /\ UNCHANGED <<todo, seen>>
                /\ answer' = [answer EXCEPT ![p] = "missing"]
             \/ /\ pc' = [pc EXCEPT ![p] = "return"] /\ UNCHANGED <<todo, seen>>
                /\ answer' = [answer EXCEPT ![p] = "unsupported"]
             \/ /\ docs[i] # None /\ UNCHANGED <<pc, answer>>
                /\ seen' = [seen EXCEPT ![p][i] = docs[i].record]
                /\ todo' = [todo EXCEPT ![p] = @ \ {i}]
      BY <1>5 DEF ListNext
    <3>2. i \in Ids
      BY <1>1, <3>1 DEF LocalOK
    <3>3. docs[i] # None => docs[i].record \in Records!Record
      BY <1>1, <3>2 DEF DiskOK, Docs
    <3>4. /\ seen' \in [Processes -> [Ids -> Records!Record \union {None, Unread}]]
          /\ \A q \in Processes \ {p} : seen'[q] = seen[q]
      <4>1. CASE UNCHANGED seen
        BY <1>1, <4>1 DEF ResultsOK
      <4>2. CASE docs[i] # None /\ seen' = [seen EXCEPT ![p][i] = docs[i].record]
        BY <1>1, <3>2, <3>3, <4>2 DEF ResultsOK
      <4>. QED BY <3>1, <4>1, <4>2
    <3>5. UNCHANGED <<work, draft, call>>
      BY <1>5 DEF ListNext
    <3>6. CASE UNCHANGED <<todo, seen>>
      BY <1>1, <3>1, <3>4, <3>5, <3>6 DEF Alone, LocalOK, ResultsOK, Labels
    <3>7. CASE todo' = [todo EXCEPT ![p] = @ \ {i}] /\ UNCHANGED <<pc, answer>>
      BY <1>1, <3>4, <3>5, <3>7 DEF Alone, LocalOK, ResultsOK, Labels
    <3>. QED BY <3>1, <3>6, <3>7
  <2>2. LockStep(p)
    BY <1>5, <1>1, <1>2 DEF ListNext, LockStep, LocalOK, Holding, Migrating
  <2>3. DiskStep(p)
    BY <1>5, <1>1, <1>2 DEF ListNext, DiskStep, DiskOK, VersionInv, BoundsOK
  <2>4. PlaceInv(p)'
    BY <1>5, <1>1, <1>2 DEF ListNext, PlaceInv, Using, LocalOK
  <2>5. CommandInv(p)'
    <3>1. PICK i \in todo[p] :
             \/ /\ pc' = [pc EXCEPT ![p] = "return"] /\ UNCHANGED <<todo, seen>>
                /\ answer' = [answer EXCEPT ![p] = "missing"]
             \/ /\ pc' = [pc EXCEPT ![p] = "return"] /\ UNCHANGED <<todo, seen>>
                /\ answer' = [answer EXCEPT ![p] = "unsupported"]
             \/ /\ docs[i] # None /\ UNCHANGED <<pc, answer>>
                /\ seen' = [seen EXCEPT ![p][i] = docs[i].record]
                /\ todo' = [todo EXCEPT ![p] = @ \ {i}]
      BY <1>5 DEF ListNext
    <3>2. i \in Ids
      BY <1>1, <3>1 DEF LocalOK
    <3>3. docs[i] # None => docs[i].record # Unread
      BY <1>1, <3>2, ValueAssumption DEF DiskOK, Docs
    <3>. QED BY <1>1, <1>5, <3>1, <3>2, <3>3
             DEF ListNext, CommandInv, Using, LocalOK, ResultsOK
  <2>. QED BY <2>1, <2>2, <2>3, <2>4, <2>5, StepKeepsInv
<1>6. CASE EndList(p)
  <2>1. Alone(p)
    BY <1>6, <1>1, <1>2 DEF EndList, Alone, LocalOK, ResultsOK, Labels
  <2>2. LockStep(p)
    BY <1>6, <1>1, <1>2 DEF EndList, LockStep, LocalOK, Holding, Migrating
  <2>3. DiskStep(p)
    BY <1>6, <1>1, <1>2 DEF EndList, DiskStep, DiskOK, VersionInv, BoundsOK
  <2>4. PlaceInv(p)'
    BY <1>6, <1>1, <1>2 DEF EndList, PlaceInv, Using, LocalOK
  <2>5. CommandInv(p)'
    BY <1>6, <1>1, <1>2 DEF EndList, CommandInv, Using, LocalOK, ResultsOK
  <2>. QED BY <2>1, <2>2, <2>3, <2>4, <2>5, StepKeepsInv
<1>. QED BY <1>3, <1>4, <1>5, <1>6

\* The beginning and the end of a process keep it.
LEMMA EndKeepsInv ==
    ASSUME ContextInv, NEW p \in Processes, 
           \/ \E c \in Records!Calls : Begin(p, c)
           \/ Return(p) \/ Die(p) \/ Fail(p)
    PROVE  ContextInv' /\ Alone(p)
<1>1. /\ DiskOK /\ LocalOK /\ ResultsOK /\ BoundsOK /\ HolderInv /\ VersionInv
      /\ PlaceInv(p) /\ CommandInv(p) /\ lock \in Processes \union {None}
  BY TypeParts DEF ContextInv
<1>2. /\ pc[p] \in Holding => lock = p
      /\ lock = p => pc[p] \in Holding \union {"return"}
  BY <1>1 DEF HolderInv, OneWriter, Holding, Migrating
<1>. USE BoundAssumption DEF disk, local, result, bounds, Goto, Answered, Answers
<1>3. CASE Return(p)
  <2>1. Alone(p)
    BY <1>3, <1>1, <1>2 DEF Return, Leave, Alone, LocalOK, ResultsOK, Labels,
       Records!NothingSeen
  <2>2. LockStep(p)
    BY <1>3, <1>1, <1>2 DEF Return, Leave, LockStep, LocalOK, Holding,
       Migrating
  <2>3. DiskStep(p)
    BY <1>3, <1>1, <1>2 DEF Return, Leave, DiskStep, DiskOK, VersionInv,
       BoundsOK
  <2>4. PlaceInv(p)'
    BY <1>3, <1>1, <1>2 DEF Return, Leave, PlaceInv, Using, LocalOK
  <2>5. CommandInv(p)'
    BY <1>3, <1>1, <1>2 DEF Return, Leave, CommandInv, Using, LocalOK,
       ResultsOK
  <2>. QED BY <2>1, <2>2, <2>3, <2>4, <2>5, StepKeepsInv
<1>4. CASE Die(p)
  <2>1. Alone(p)
    BY <1>4, <1>1, <1>2 DEF Die, Leave, Fault, LeaveTemporary, Alone, LocalOK,
       ResultsOK, Labels, Records!NothingSeen
  <2>2. LockStep(p)
    BY <1>4, <1>1, <1>2 DEF Die, Leave, Fault, LeaveTemporary, LockStep,
       LocalOK, Holding, Migrating
  <2>3. DiskStep(p)
    <3>1. pc[p] \in {"commit", "upgradeCommit"} => lock = p /\ work[p] \in dirs
      <4>1. pc[p] = "upgradeCommit" => work[p] \in dirs
        BY <1>1 DEF PlaceInv
      <4>2. pc[p] = "commit" => work[p] \in Ids /\ docs[work[p]] # None
        BY <1>1 DEF CommandInv, Using, Records!Calls, Records!Changes
      <4>. QED BY <1>1, <1>2, <4>1, <4>2 DEF VersionInv, Holding, Migrating
    <3>. QED BY <1>1, <1>2, <1>4, <3>1
             DEF Die, Leave, Fault, LeaveTemporary, DiskStep, DiskOK, VersionInv, BoundsOK
  <2>4. PlaceInv(p)'
    BY <1>4, <1>1, <1>2 DEF Die, Leave, Fault, LeaveTemporary, PlaceInv,
       Using, LocalOK
  <2>5. CommandInv(p)'
    BY <1>4, <1>1, <1>2 DEF Die, Leave, Fault, LeaveTemporary, CommandInv,
       Using, LocalOK, ResultsOK
  <2>. QED BY <2>1, <2>2, <2>3, <2>4, <2>5, StepKeepsInv
<1>5. CASE Fail(p)
  <2>1. Alone(p)
    BY <1>5, <1>1, <1>2 DEF Fail, Fault, LeaveTemporary, Holds, Alone,
       LocalOK, ResultsOK, Labels
  <2>2. LockStep(p)
    BY <1>5, <1>1, <1>2 DEF Fail, Fault, LeaveTemporary, Holds, LockStep,
       LocalOK, Holding, Migrating
  <2>3. DiskStep(p)
    <3>1. pc[p] \in {"commit", "upgradeCommit"} => lock = p /\ work[p] \in dirs
      <4>1. pc[p] = "upgradeCommit" => work[p] \in dirs
        BY <1>1 DEF PlaceInv
      <4>2. pc[p] = "commit" => work[p] \in Ids /\ docs[work[p]] # None
        BY <1>1 DEF CommandInv, Using, Records!Calls, Records!Changes
      <4>. QED BY <1>1, <1>2, <4>1, <4>2 DEF VersionInv, Holding, Migrating
    <3>. QED BY <1>1, <1>2, <1>5, <3>1
             DEF Fail, Fault, LeaveTemporary, DiskStep, DiskOK, VersionInv, BoundsOK
  <2>4. PlaceInv(p)'
    BY <1>5, <1>1, <1>2 DEF Fail, Fault, LeaveTemporary, Holds, PlaceInv,
       Using, LocalOK
  <2>5. CommandInv(p)'
    BY <1>5, <1>1, <1>2 DEF Fail, Fault, LeaveTemporary, Holds, CommandInv,
       Using, LocalOK, ResultsOK
  <2>. QED BY <2>1, <2>2, <2>3, <2>4, <2>5, StepKeepsInv
<1>6. CASE \E c \in Records!Calls : Begin(p, c)
  <2>1. Alone(p)
    BY <1>6, <1>1, <1>2 DEF Begin, Alone, LocalOK, ResultsOK, Labels
  <2>2. LockStep(p)
    BY <1>6, <1>1, <1>2 DEF Begin, LockStep, LocalOK, Holding, Migrating
  <2>3. DiskStep(p)
    BY <1>6, <1>1, <1>2 DEF Begin, DiskStep, DiskOK, VersionInv, BoundsOK
  <2>4. PlaceInv(p)'
    BY <1>6, <1>1, <1>2 DEF Begin, PlaceInv, Using, LocalOK
  <2>5. CommandInv(p)'
    <3>1. PICK c \in Records!Calls : Begin(p, c)
      BY <1>6
    <3>. QED BY <1>1, <3>1, IdleIsNoCall
             DEF Begin, CommandInv, Using, LocalOK, ResultsOK
  <2>. QED BY <2>1, <2>2, <2>3, <2>4, <2>5, StepKeepsInv
<1>. QED BY <1>3, <1>4, <1>5, <1>6

LEMMA StepInv ==
    ASSUME ContextInv, NEW p \in Processes,
           \/ \E c \in Records!Calls : Begin(p, c)
           \/ Step(p) \/ Die(p) \/ Fail(p)
    PROVE  ContextInv' /\ Alone(p)
  BY OpeningKeepsInv, ChangeKeepsInv, ReadKeepsInv, EndKeepsInv DEF Step

\* What the records found at the start are.
LegacyOK(ids, schemas, found) ==
    /\ Filled(found) \in [Ids -> Docs \union {None}]
    /\ \A i \in Ids : IF i \in ids
                      THEN Filled(found)[i] # None /\ Filled(found)[i].schema \in schemas
                      ELSE Filled(found)[i] = None

LEMMA LegacyTyped ==
    ASSUME NEW ids \in SUBSET Ids, NEW schemas \in SUBSET {"v1", "v2"},
           NEW found \in Legacy(ids, schemas)
    PROVE  LegacyOK(ids, schemas, found)
<1>1. [Records!Empty EXCEPT !.notes = {Old}] \in Records!Record
  BY DEF Records!Empty, Records!Record
<1> DEFINE old(s) == Doc(s, [Records!Empty EXCEPT !.notes = {Old}])
<1>2. \A s \in schemas : old(s) \in Docs /\ old(s) # None /\ old(s).schema = s
  BY <1>1, DocTyped
<1>3. found \in [ids -> {old(s) : s \in schemas}]
  BY DEF Legacy
<1>. HIDE DEF old
<1>4. \A i \in ids : found[i] \in Docs /\ found[i] # None /\ found[i].schema \in schemas
  BY <1>2, <1>3
<1>. QED BY <1>3, <1>4 DEF Filled, LegacyOK

LEMMA NothingTyped ==
    Nothing \in [Ids -> Docs \union {None}] /\ \A i \in Ids : Nothing[i] = None
  BY DEF Nothing

\* What the files may be at the start.
InitialFiles ==
    /\ DiskOK /\ litter = {}
    /\ version = None => dirs = {} /\ \A i \in Ids : docs[i] = None
    /\ version # None => \A i \in Ids : flat[i] = None /\ (docs[i] # None <=> i \in dirs)
    /\ version = "v2" => \A i \in dirs : docs[i].schema = "v2"

LEMMA InitFiles == Init => InitialFiles
<1>. SUFFICES ASSUME Init PROVE InitialFiles
  OBVIOUS
<1>1. PICK ids \in SUBSET Ids :
         \/ /\ version = None
            /\ \E found \in Legacy(ids, {"v1", "v2"}) : flat = Filled(found)
            /\ dirs = {} /\ docs = Nothing
         \/ /\ version = "v1"
            /\ \E found \in Legacy(ids, {"v1"}) : docs = Filled(found)
            /\ dirs = ids /\ flat = Nothing
         \/ /\ version = "v2"
            /\ \E found \in Legacy(ids, {"v2"}) : docs = Filled(found)
            /\ dirs = ids /\ flat = Nothing
  BY DEF Init
<1>2. litter = {}
  BY DEF Init
<1>3. CASE version = None /\ dirs = {} /\ docs = Nothing
  <2>1. PICK found \in Legacy(ids, {"v1", "v2"}) : flat = Filled(found)
    BY <1>1, <1>3, ValueAssumption
  <2>2. flat \in [Ids -> Docs \union {None}]
    <3>1. {"v1", "v2"} \in SUBSET {"v1", "v2"}
      OBVIOUS
    <3>2. LegacyOK(ids, {"v1", "v2"}, found)
      BY <3>1, LegacyTyped
    <3>. QED BY <2>1, <3>2 DEF LegacyOK
  <2>. QED BY <1>2, <1>3, <2>2, NothingTyped, ValueAssumption DEF InitialFiles, DiskOK
<1>4. ASSUME NEW v \in {"v1", "v2"}, version = v, dirs = ids, flat = Nothing,
             NEW found \in Legacy(ids, {v}), docs = Filled(found)
      PROVE  InitialFiles
  <2>1. /\ docs \in [Ids -> Docs \union {None}]
        /\ \A i \in Ids : IF i \in ids THEN docs[i] # None /\ docs[i].schema = v
                          ELSE docs[i] = None
    <3>1. {v} \in SUBSET {"v1", "v2"}
      BY <1>4
    <3>2. LegacyOK(ids, {v}, found)
      BY <1>4, <3>1, LegacyTyped
    <3>. QED BY <1>4, <3>2 DEF LegacyOK
  <2>. QED BY <1>2, <1>4, <2>1, NothingTyped, ValueAssumption DEF InitialFiles, DiskOK
<1>. QED BY <1>1, <1>3, <1>4

LEMMA InitInv == Init => ContextInv
<1>. SUFFICES ASSUME Init PROVE ContextInv
  OBVIOUS
<1>1. InitialFiles
  BY InitFiles
<1>. USE BoundAssumption, ValueAssumption
<1>2. TypeOK
  BY <1>1 DEF Init, InitialFiles, DiskOK, TypeOK, Labels
<1>3. ResultsOK
  BY DEF Init, ResultsOK, Records!NothingSeen
<1>4. HolderInv
  BY DEF Init, HolderInv, OneWriter
<1>5. VersionInv
  BY <1>1 DEF InitialFiles, VersionInv, DiskOK
<1>6. ASSUME NEW p \in Processes PROVE PlaceInv(p) /\ CommandInv(p)
  BY <1>6 DEF Init, PlaceInv, CommandInv, Using, Records!Idle
<1>. QED BY <1>2, <1>3, <1>4, <1>5, <1>6 DEF ContextInv

\* The invariant of every behaviour.
THEOREM Invariance == Spec => []ContextInv
<1>1. ContextInv /\ [Next]_vars => ContextInv'
  <2>. SUFFICES ASSUME ContextInv, [Next]_vars PROVE ContextInv'
    OBVIOUS
  <2>1. CASE UNCHANGED vars
    BY <2>1 DEF ContextInv, TypeOK, ResultsOK, HolderInv, OneWriter, VersionInv,
                PlaceInv, CommandInv, vars, disk, local, result, bounds
  <2>2. CASE Quiescent
    BY <2>1, <2>2 DEF Quiescent
  <2>. QED BY <2>1, <2>2, StepInv DEF Next
<1>. QED BY <1>1, InitInv, PTL DEF Spec

\* The store's state has its types.
THEOREM ContextTypes == Spec => []TypeOK
<1>1. ContextInv => TypeOK
  BY DEF ContextInv
<1>. QED BY <1>1, Invariance, PTL

\* Whoever has opened the store finds every record migrated, and two processes
\* never change it at the same time.
THEOREM ContextsAreSafe == Spec => []ContextSafety
<1>1. ContextInv => MigratedBeforeUse
  <2>. SUFFICES ASSUME ContextInv, NEW p \in Processes, pc[p] \in Using
                PROVE  /\ version = "v2"
                       /\ \A i \in Ids : flat[i] = None
                                         /\ (docs[i] # None => docs[i].schema = "v2")
    BY DEF MigratedBeforeUse, Using
  <2>. QED BY ValueAssumption DEF ContextInv, PlaceInv, VersionInv
<1>2. ContextInv => ContextSafety
  BY <1>1 DEF ContextInv, HolderInv, ContextSafety
<1>. QED BY <1>2, Invariance, PTL

---------------------------------------------------------------------------
(* The files implement ContextRecords *)

\* What the steps of ContextRecords are about.
abstract == <<Logical, Damaged, call, seen, answer>>

LEMMA LogicalTyped ==
    ASSUME ContextInv
    PROVE  /\ Logical \in [Ids -> Records!Record \union {None}]
           /\ \A i \in Ids : docs[i] # None => docs[i].record \in Records!Record
           /\ \A i \in Ids : flat[i] # None => flat[i].record \in Records!Record
           /\ None \notin Records!Record /\ Unread \notin Records!Record
<1>1. DiskOK
  BY TypeParts DEF ContextInv
<1>. QED BY <1>1, ValueAssumption DEF Logical, DiskOK, Docs

\* After the migration the records are those of the present layout.
LEMMA LogicalMigrated ==
    ASSUME ContextInv, version = "v2"
    PROVE  \A i \in Ids : /\ Logical[i] = IF docs[i] # None THEN docs[i].record ELSE None
                          /\ Logical[i] = None <=> docs[i] = None
                          /\ flat[i] = None
                          /\ docs[i] # None => docs[i].schema = "v2" /\ i \in dirs
<1>1. VersionInv
  BY DEF ContextInv
<1>2. \A i \in Ids : flat[i] = None /\ (docs[i] # None => docs[i].schema = "v2" /\ i \in dirs)
  BY <1>1, ValueAssumption DEF VersionInv
<1>. QED BY <1>2, LogicalTyped DEF Logical

\* The damage, when the only process that may be at work on a directory is known.
HarmedBut(i, label, busy) ==
    \/ i \in litter
    \/ i \in dirs /\ docs[i] = None /\ ~(label = "removeDirectory" /\ busy = i)
    \/ i \in dirs /\ flat[i] # None /\ ~(label = "removeFlat" /\ busy = i)

LEMMA HolderDamage ==
    ASSUME ContextInv, ContextInv', NEW p \in Processes, lock = p, Alone(p)
    PROVE  /\ Damaged \subseteq Ids /\ Damaged' \subseteq Ids
           /\ \A i \in Ids : i \in Damaged <=> HarmedBut(i, pc[p], work[p])
           /\ \A i \in Ids : i \in Damaged' <=> HarmedBut(i, pc[p], work[p])'
<1>1. DiskOK /\ DiskOK' /\ HolderInv
  BY TypeParts DEF ContextInv, TypeOK, DiskOK
<1>2. \A q \in Processes \ {p} : /\ pc[q] \notin {"removeDirectory", "removeFlat"}
                                 /\ pc'[q] \notin {"removeDirectory", "removeFlat"}
  BY <1>1 DEF HolderInv, OneWriter, Alone
<1>3. ASSUME NEW label \in {"removeDirectory", "removeFlat"}
      PROVE  /\ Busy(label) = IF pc[p] = label THEN {work[p]} ELSE {}
             /\ Busy(label)' = IF pc'[p] = label THEN {work'[p]} ELSE {}
  BY <1>2 DEF Busy
<1>. QED BY <1>1, <1>3 DEF Damaged, HarmedBut, DiskOK

\* A step that changes no file and is not about one changes nothing that is seen.
LEMMA QuietStep ==
    ASSUME NEW p \in Processes, Alone(p), UNCHANGED <<flat, dirs, docs, litter>>,
           pc[p] \notin {"removeDirectory", "removeFlat"},
           pc'[p] \notin {"removeDirectory", "removeFlat"}
    PROVE  UNCHANGED <<Logical, Damaged>>
<1>1. Logical' = Logical
  BY DEF Logical
<1>2. ASSUME NEW label \in {"removeDirectory", "removeFlat"} PROVE Busy(label)' = Busy(label)
  BY DEF Busy, Alone
<1>3. Damaged' = Damaged
  BY <1>2 DEF Damaged
<1>. QED BY <1>1, <1>3

\* What a step that ends a command early may damage.
LEMMA EndDamage ==
    ASSUME ContextInv, ContextInv', NEW p \in Processes, Alone(p),
           UNCHANGED <<flat, dirs, docs>>,
           pc'[p] \notin {"removeDirectory", "removeFlat"},
           LeaveTemporary(p) \/ UNCHANGED litter
    PROVE  /\ Logical' = Logical
           /\ \E D \in {{}} \union {{i} : i \in Ids} : Damaged' = Damaged \union D
           /\ pc[p] = "removeDirectory" => Damaged' = Damaged \union {work[p]}
<1>1. Logical' = Logical
  BY DEF Logical
<1>2. DiskOK /\ DiskOK' /\ HolderInv /\ PlaceInv(p) /\ CommandInv(p) /\ LocalOK
  BY TypeParts DEF ContextInv, TypeOK, DiskOK
<1>3. CASE lock # p
  <2>1. pc[p] \notin Holding
    BY <1>2, <1>3 DEF HolderInv, OneWriter, Holding, Migrating
  <2>2. litter' = litter
    BY <2>1 DEF LeaveTemporary, Holding, Migrating
  <2>3. Damaged' = Damaged
    BY <2>1, <2>2, QuietStep DEF Holding, Migrating
  <2>. QED BY <1>1, <2>1, <2>3 DEF Holding, Migrating
<1>4. CASE lock = p
  <2>1. /\ Damaged \subseteq Ids /\ Damaged' \subseteq Ids
        /\ \A i \in Ids : i \in Damaged <=> HarmedBut(i, pc[p], work[p])
        /\ \A i \in Ids : i \in Damaged' <=> HarmedBut(i, pc[p], work[p])'
    BY <1>4, HolderDamage
  <2>2. CASE pc[p] \in {"removeDirectory", "removeFlat"}
    <3>1. work[p] \in Ids /\ work[p] \in dirs /\ litter' = litter
          /\ (pc[p] = "removeDirectory" => docs[work[p]] = None)
          /\ (pc[p] = "removeFlat" => flat[work[p]] # None)
      BY <1>2, <2>2 DEF PlaceInv, CommandInv, LeaveTemporary, LocalOK, DiskOK, ContextInv,
                        VersionInv
    <3>2. Damaged' = Damaged \union {work[p]}
      BY <2>1, <2>2, <3>1 DEF HarmedBut
    <3>. QED BY <1>1, <3>1, <3>2
  <2>3. CASE litter' = litter \union {work[p]} /\ pc[p] \in {"commit", "upgradeCommit"}
    <3>1. Damaged' = Damaged \union {work[p]}
      BY <1>2, <2>1, <2>3 DEF HarmedBut, DiskOK
    <3>2. work[p] \in Ids
      BY <1>2, <2>3 DEF DiskOK
    <3>. QED BY <1>1, <2>3, <3>1, <3>2
  <2>4. CASE litter' = litter /\ pc[p] \notin {"removeDirectory", "removeFlat"}
    <3>1. Damaged' = Damaged
      BY <2>4, QuietStep
    <3>. QED BY <1>1, <2>4, <3>1
  <2>. QED BY <2>2, <2>3, <2>4 DEF LeaveTemporary
<1>. QED BY <1>3, <1>4

\* The promises' step of one process, or nothing that shows.
Implements(p) ==
    \/ Records!Create(p) \/ Records!Change(p) \/ Records!Delete(p) \/ Records!EndDelete(p)
    \/ Records!Show(p) \/ Records!ListSome(p) \/ Records!EndList(p)
    \/ Records!Refuse(p) \/ Records!Fail(p)
    \/ Records!Begin(p) \/ Records!Return(p) \/ Records!Die(p)
    \/ UNCHANGED abstract

LEMMA PlaceFacts ==
    ASSUME ContextInv, NEW p \in Processes
    PROVE  /\ DiskOK /\ LocalOK /\ ResultsOK /\ HolderInv /\ VersionInv
           /\ PlaceInv(p) /\ CommandInv(p)
           /\ pc[p] \in Holding => lock = p
           /\ pc[p] \in {"open", "lock", "read", "list", "idle"} => lock # p
           /\ pc[p] \notin {"idle", "return", "removeDirectory"} =>
                 answer[p] = None /\ call[p].op \in Records!Ops
           /\ call[p] \in Records!Calls => call[p].id \in Ids \/ call[p].op = "list"
           /\ lock # None => lock \in Processes /\ call[lock] # Records!Idle
<1>1. /\ DiskOK /\ LocalOK /\ ResultsOK /\ HolderInv /\ VersionInv
      /\ PlaceInv(p) /\ CommandInv(p) /\ lock \in Processes \union {None}
  BY TypeParts DEF ContextInv
<1>2. \A q \in Processes : pc[q] \in Holding \union {"return"} => call[q] # Records!Idle
  <2>. SUFFICES ASSUME NEW q \in Processes PROVE pc[q] # "idle" => call[q] # Records!Idle
    BY DEF Holding, Migrating
  <2>1. CommandInv(q)
    BY DEF ContextInv
  <2>. QED BY <2>1, Zenon DEF CommandInv
<1>3. /\ pc[p] \in Holding => lock = p
      /\ pc[p] \in {"open", "lock", "read", "list", "idle"} => lock # p
  BY <1>1 DEF HolderInv, OneWriter, Holding, Migrating
<1>4. lock # None => lock \in Processes /\ call[lock] # Records!Idle
  BY <1>1, <1>2 DEF HolderInv
<1>5. call[p] \in Records!Calls
        => call[p].op \in Records!Ops /\ (call[p].id \in Ids \/ call[p].op = "list")
  BY DEF Records!Calls, Records!Ops, Records!Reads
<1>. QED BY <1>1, <1>3, <1>4, <1>5 DEF CommandInv

\* Opening the store shows only in a refusal: a migration changes no record.
LEMMA OpeningImplements ==
    ASSUME ContextInv, NEW p \in Processes, OpenStep(p)
    PROVE  Implements(p)
<1>1. /\ DiskOK /\ LocalOK /\ ResultsOK /\ HolderInv /\ VersionInv
      /\ PlaceInv(p) /\ CommandInv(p)
      /\ pc[p] \in Holding => lock = p
      /\ pc[p] \in {"open", "lock", "read", "list", "idle"} => lock # p
      /\ pc[p] \notin {"idle", "return", "removeDirectory"} =>
            answer[p] = None /\ call[p].op \in Records!Ops
      /\ lock # None => lock \in Processes /\ call[lock] # Records!Idle
  BY PlaceFacts
<1>2. ContextInv' /\ Alone(p)
  BY StepInv DEF Step
<1>. USE DEF disk, local, result, bounds, Goto, Answered
<1>3. CASE \/ Acquire(p) \/ Prepare(p) \/ PublishVersion(p) \/ Opened(p) \/ UpgradeNext(p)
  <2>1. /\ UNCHANGED <<flat, dirs, docs, litter, call, seen, answer>>
        /\ pc[p] \notin {"removeDirectory", "removeFlat"}
        /\ pc'[p] \notin {"removeDirectory", "removeFlat"}
    BY <1>1, <1>3 DEF Acquire, Prepare, PublishVersion, Opened, UpgradeNext, LocalOK
  <2>. QED BY <1>2, <2>1, QuietStep DEF Implements, abstract
<1>4. CASE GiveUp(p)
  <2>1. /\ UNCHANGED <<flat, dirs, docs, litter, call, seen>>
        /\ pc[p] \in {"open", "lock"} /\ pc'[p] = "return"
    BY <1>1, <1>4 DEF GiveUp, LocalOK
  <2>2. UNCHANGED <<Logical, Damaged>>
    BY <1>2, <2>1, QuietStep
  <2>3. \E q \in Processes \ {p} : call[q] # Records!Idle
    BY <1>1, <1>4, <2>1 DEF GiveUp
  <2>4. Records!Refuse(p)
    BY <1>1, <1>4, <2>1, <2>2, <2>3 DEF GiveUp, Records!Refuse, Records!Asked, Records!Answer
  <2>. QED BY <2>4 DEF Implements
<1>5. CASE UpgradeCommit(p)
  <2>1. /\ UNCHANGED <<flat, dirs, litter, call, seen, answer>>
        /\ docs' = [docs EXCEPT ![work[p]] = Doc("v2", docs[work[p]].record)]
        /\ pc[p] = "upgradeCommit" /\ pc'[p] = "upgrade"
        /\ work[p] \in Ids /\ docs[work[p]] # None /\ lock = p
    BY <1>1, <1>5 DEF UpgradeCommit, Published, PlaceInv, VersionInv, DiskOK, LocalOK,
                      Holding, Migrating
  <2>2. /\ Doc("v2", docs[work[p]].record) # None
        /\ Doc("v2", docs[work[p]].record).record = docs[work[p]].record
    BY <2>1, LogicalTyped, DocTyped
  <2>3. Logical' = Logical
    BY <1>1, <2>1, <2>2 DEF Logical, DiskOK
  <2>4. Damaged' = Damaged
    <3>1. \A i \in Ids : HarmedBut(i, pc[p], work[p]) <=> HarmedBut(i, pc[p], work[p])'
      BY <1>1, <2>1, <2>2 DEF HarmedBut, DiskOK
    <3>. QED BY <1>2, <2>1, <3>1, HolderDamage
  <2>. QED BY <2>1, <2>3, <2>4 DEF Implements, abstract
<1>6. CASE MoveNext(p)
  <2>1. PICK i \in todo[p] :
          \/ i \in dirs /\ Answered(p, "conflict") /\ UNCHANGED <<dirs, docs, work>>
          \/ /\ i \notin dirs /\ UNCHANGED answer
             /\ docs' = [docs EXCEPT ![i] = Doc("v2", flat[i].record)]
             /\ dirs' = dirs \union {i}
             /\ work' = [work EXCEPT ![p] = i]
             /\ pc' = [pc EXCEPT ![p] = "removeFlat"]
    BY <1>6 DEF MoveNext, Published
  <2>2. /\ UNCHANGED <<flat, litter, call, seen>>
        /\ pc[p] = "move" /\ lock = p /\ i \in Ids /\ flat[i] # None
    BY <1>1, <1>6, <2>1 DEF MoveNext, PlaceInv, LocalOK, Holding, Migrating
  <2>3. CASE i \in dirs
    <3>1. Answered(p, "conflict") /\ UNCHANGED <<dirs, docs>>
      BY <2>1, <2>3
    <3>2. pc'[p] = "return"
      BY <1>1, <3>1 DEF LocalOK
    <3>3. UNCHANGED <<Logical, Damaged>>
      BY <1>2, <2>2, <3>1, <3>2, QuietStep
    <3>4. i \in Damaged
      BY <1>2, <2>2, <2>3, HolderDamage DEF HarmedBut
    <3>5. Records!Refuse(p)
      BY <1>1, <2>2, <3>1, <3>3, <3>4 DEF Records!Refuse, Records!Asked, Records!Answer
    <3>. QED BY <3>5 DEF Implements
  <2>4. CASE i \notin dirs
    <3>1. /\ UNCHANGED answer
          /\ docs' = [docs EXCEPT ![i] = Doc("v2", flat[i].record)]
          /\ dirs' = dirs \union {i}
          /\ work' = [work EXCEPT ![p] = i]
          /\ pc' = [pc EXCEPT ![p] = "removeFlat"]
      BY <2>1, <2>4
    <3>2. /\ Doc("v2", flat[i].record) # None
          /\ Doc("v2", flat[i].record).record = flat[i].record
      BY <2>2, LogicalTyped, DocTyped
    <3>3. docs[i] = None /\ i \notin litter
      BY <1>1, <2>2, <2>4 DEF VersionInv, DiskOK
    <3>4. Logical' = Logical
      BY <1>1, <2>2, <3>1, <3>2, <3>3 DEF Logical, DiskOK
    <3>5. pc'[p] = "removeFlat" /\ work'[p] = i
      BY <1>1, <3>1 DEF LocalOK
    <3>6. \A j \in Ids : HarmedBut(j, pc[p], work[p]) <=> HarmedBut(j, pc[p], work[p])'
      BY <1>1, <2>2, <2>4, <3>1, <3>2, <3>3, <3>5 DEF HarmedBut, DiskOK
    <3>7. Damaged' = Damaged
      BY <1>2, <2>2, <3>6, HolderDamage
    <3>. QED BY <2>2, <3>1, <3>4, <3>7 DEF Implements, abstract
  <2>. QED BY <2>3, <2>4
<1>7. CASE RemoveFlat(p)
  <2>1. /\ UNCHANGED <<dirs, docs, litter, call, seen, answer>>
        /\ flat' = [flat EXCEPT ![work[p]] = None]
        /\ pc[p] = "removeFlat" /\ pc'[p] = "move"
        /\ work[p] \in Ids /\ docs[work[p]] # None /\ lock = p
    BY <1>1, <1>7 DEF RemoveFlat, PlaceInv, DiskOK, LocalOK, Holding, Migrating
  <2>2. Logical' = Logical
    BY <1>1, <2>1 DEF Logical, DiskOK
  <2>3. Damaged' = Damaged
    <3>1. \A i \in Ids : HarmedBut(i, pc[p], work[p]) <=> HarmedBut(i, pc[p], work[p])'
      BY <1>1, <2>1 DEF HarmedBut, DiskOK
    <3>. QED BY <1>2, <2>1, <3>1, HolderDamage
  <2>. QED BY <2>1, <2>2, <2>3 DEF Implements, abstract
<1>. QED BY <1>3, <1>4, <1>5, <1>6, <1>7 DEF OpenStep

\* A record is created.
LEMMA CreateImplements ==
    ASSUME ContextInv, NEW p \in Processes, Create(p)
    PROVE  Implements(p)
<1>1. /\ DiskOK /\ LocalOK /\ ResultsOK /\ HolderInv /\ VersionInv
      /\ PlaceInv(p) /\ CommandInv(p)
      /\ pc[p] \in Holding => lock = p
      /\ pc[p] \in {"open", "lock", "read", "list", "idle"} => lock # p
      /\ pc[p] \notin {"idle", "return", "removeDirectory"} =>
            answer[p] = None /\ call[p].op \in Records!Ops
      /\ call[p] \in Records!Calls => call[p].id \in Ids \/ call[p].op = "list"
  BY PlaceFacts
<1>2. ContextInv' /\ Alone(p)
  BY StepInv DEF Step
<1>. USE DEF disk, local, result, bounds, Goto, Answered
<1> DEFINE i == work[p]
<1>3. /\ UNCHANGED <<version, flat, litter, work, call, seen>>
      /\ pc[p] = "locked" /\ pc'[p] = "return" /\ lock = p
      /\ i = call[p].id /\ i \in Ids /\ call[p].op = "new" /\ answer[p] = None
      /\ version = "v2"
  BY <1>1 DEF Create, Holds, CommandInv, PlaceInv, Using, LocalOK, Holding
<1>. HIDE DEF i
<1>4. /\ Logical[i] = IF docs[i] # None THEN docs[i].record ELSE None
      /\ Logical[i] = None <=> docs[i] = None
      /\ docs[i] # None => i \in dirs
      /\ \A j \in Ids : flat[j] = None
  BY <1>3, LogicalMigrated
<1>5. CASE i \in dirs
  <2>1. UNCHANGED <<dirs, docs>> /\ answer' = [answer EXCEPT ![p] = "exists"]
    BY <1>5 DEF Create, i
  <2>2. UNCHANGED <<Logical, Damaged>>
    BY <1>2, <1>3, <2>1, QuietStep
  <2>3. Logical[i] # None \/ i \in Damaged
    BY <1>2, <1>3, <1>4, <1>5, HolderDamage DEF HarmedBut
  <2>4. Records!Refuse(p)
    BY <1>3, <2>1, <2>2, <2>3
       DEF Records!Refuse, Records!Asked, Records!Answer, Records!Mine
  <2>. QED BY <2>4 DEF Implements
<1>6. CASE i \notin dirs
  <2>1. /\ docs' = [docs EXCEPT ![i] = Doc("v2", Records!Empty)]
        /\ dirs' = dirs \union {i}
        /\ answer' = [answer EXCEPT ![p] = "ok"]
    BY <1>6 DEF Create, Published, i
  <2>2. Doc("v2", Records!Empty) # None /\ Doc("v2", Records!Empty).record = Records!Empty
    BY DocTyped, EmptyTyped
  <2>3. Logical' = [Logical EXCEPT ![i] = Records!Empty]
    BY <1>1, <1>3, <2>1, <2>2 DEF Logical, DiskOK
  <2>4. \A j \in Ids : HarmedBut(j, pc[p], work[p]) <=> HarmedBut(j, pc[p], work[p])'
    BY <1>1, <1>3, <1>4, <1>6, <2>1, <2>2 DEF HarmedBut, DiskOK
  <2>5. Damaged' = Damaged
    BY <1>2, <1>3, <2>4, HolderDamage
  <2>6. Records!Create(p)
    BY <1>3, <1>4, <1>6, <2>1, <2>3, <2>5
       DEF Records!Create, Records!Asked, Records!Answer, Records!Mine
  <2>. QED BY <2>6 DEF Implements
<1>. QED BY <1>5, <1>6

\* A record is read to be changed, and the change is refused or prepared.
LEMMA ReadForChangeImplements ==
    ASSUME ContextInv, NEW p \in Processes, ReadForChange(p)
    PROVE  Implements(p)
<1>1. /\ DiskOK /\ LocalOK /\ ResultsOK /\ HolderInv /\ VersionInv
      /\ PlaceInv(p) /\ CommandInv(p)
      /\ pc[p] \in Holding => lock = p
      /\ pc[p] \in {"open", "lock", "read", "list", "idle"} => lock # p
      /\ pc[p] \notin {"idle", "return", "removeDirectory"} =>
            answer[p] = None /\ call[p].op \in Records!Ops
      /\ call[p] \in Records!Calls => call[p].id \in Ids \/ call[p].op = "list"
  BY PlaceFacts
<1>2. ContextInv' /\ Alone(p)
  BY StepInv DEF Step
<1>. USE DEF disk, local, result, bounds, Goto, Answered
<1> DEFINE i == work[p]
<1>3. /\ UNCHANGED <<version, flat, dirs, docs, litter, work, call, seen>>
      /\ pc[p] = "locked" /\ pc'[p] \in {"commit", "return"}
      /\ i = call[p].id /\ call[p].op \in Records!Changes /\ answer[p] = None
      /\ version = "v2"
  BY <1>1 DEF ReadForChange, Holds, CommandInv, PlaceInv, Using, LocalOK
<1>4. i \in Ids
  BY <1>1, <1>3 DEF CommandInv, Records!Changes
<1>. HIDE DEF i
<1>5. /\ Logical[i] = IF docs[i] # None THEN docs[i].record ELSE None
      /\ Logical[i] = None <=> docs[i] = None
      /\ docs[i] # None => docs[i].schema = "v2"
  BY <1>3, <1>4, LogicalMigrated
<1>6. UNCHANGED <<Logical, Damaged>>
  BY <1>2, <1>3, QuietStep
<1>7. CASE UNCHANGED answer
  BY <1>3, <1>6, <1>7 DEF Implements, abstract
<1>8. CASE docs[i] = None /\ answer' = [answer EXCEPT ![p] = "missing"]
  <2>1. Records!Refuse(p)
    BY <1>3, <1>5, <1>6, <1>8
       DEF Records!Refuse, Records!Asked, Records!Answer, Records!Mine
  <2>. QED BY <2>1 DEF Implements
<1>9. CASE /\ docs[i] # None
           /\ Records!Verdict(call[p].op, docs[i].record, p) # "ok"
           /\ answer' = [answer EXCEPT ![p] =
                           Records!Verdict(call[p].op, docs[i].record, p)]
  <2>1. Records!Refuse(p)
    BY <1>3, <1>5, <1>6, <1>9
       DEF Records!Refuse, Records!Asked, Records!Answer, Records!Mine
  <2>. QED BY <2>1 DEF Implements
<1>10. CASE docs[i] = None
  <2>1. answer' = [answer EXCEPT ![p] = "missing"]
    BY <1>10 DEF ReadForChange, i
  <2>. QED BY <1>8, <1>10, <2>1
<1>11. CASE docs[i] # None
  <2>1. \/ UNCHANGED answer
        \/ /\ Records!Verdict(call[p].op, docs[i].record, p) # "ok"
           /\ answer' = [answer EXCEPT ![p] =
                            Records!Verdict(call[p].op, docs[i].record, p)]
    BY <1>5, <1>11 DEF ReadForChange, i
  <2>. QED BY <1>7, <1>9, <1>11, <2>1
<1>. QED BY <1>10, <1>11

\* A changed record replaces the old one.
LEMMA CommitImplements ==
    ASSUME ContextInv, NEW p \in Processes, Commit(p)
    PROVE  Implements(p)
<1>1. /\ DiskOK /\ LocalOK /\ ResultsOK /\ HolderInv /\ VersionInv
      /\ PlaceInv(p) /\ CommandInv(p)
      /\ pc[p] \in Holding => lock = p
      /\ pc[p] \in {"open", "lock", "read", "list", "idle"} => lock # p
      /\ pc[p] \notin {"idle", "return", "removeDirectory"} =>
            answer[p] = None /\ call[p].op \in Records!Ops
      /\ call[p] \in Records!Calls => call[p].id \in Ids \/ call[p].op = "list"
  BY PlaceFacts
<1>2. ContextInv' /\ Alone(p)
  BY StepInv DEF Step
<1>. USE DEF disk, local, result, bounds, Goto, Answered
<1> DEFINE i == work[p]
             changed == Records!Changed(call[p].op, docs[i].record, p)
<1>3. /\ UNCHANGED <<version, flat, dirs, litter, work, call, seen>>
      /\ pc[p] = "commit" /\ pc'[p] = "return" /\ lock = p
      /\ i = call[p].id /\ call[p].op \in Records!Changes /\ answer[p] = None
      /\ docs[i] # None /\ version = "v2"
      /\ Records!Verdict(call[p].op, docs[i].record, p) = "ok"
      /\ docs' = [docs EXCEPT ![i] = Doc("v2", changed)]
      /\ answer' = [answer EXCEPT ![p] = "ok"]
  BY <1>1 DEF Commit, Published, CommandInv, PlaceInv, Using, LocalOK, Holding
<1>4. i \in Ids
  BY <1>1, <1>3 DEF CommandInv, Records!Changes
<1>. HIDE DEF i
<1>5. /\ Logical[i] = docs[i].record /\ Logical[i] # None
      /\ docs[i].record \in Records!Record
  BY <1>3, <1>4, LogicalMigrated, LogicalTyped
<1>6. Doc("v2", changed) # None /\ Doc("v2", changed).record = changed
  BY <1>3, <1>5, DocTyped, ChangedTyped
<1>7. Logical' = [Logical EXCEPT ![i] = changed]
  <2>. HIDE DEF changed
  <2>. QED BY <1>1, <1>3, <1>4, <1>6 DEF Logical, DiskOK
<1>8. \A j \in Ids : HarmedBut(j, pc[p], work[p]) <=> HarmedBut(j, pc[p], work[p])'
  BY <1>1, <1>3, <1>4, <1>6 DEF HarmedBut, DiskOK
<1>9. Damaged' = Damaged
  BY <1>2, <1>3, <1>8, HolderDamage
<1>10. Records!Change(p)
  BY <1>3, <1>5, <1>7, <1>9
     DEF Records!Change, Records!Asked, Records!Answer, Records!Mine
<1>. QED BY <1>10 DEF Implements

\* A document is removed.
LEMMA RemoveDocumentImplements ==
    ASSUME ContextInv, NEW p \in Processes, RemoveDocument(p)
    PROVE  Implements(p)
<1>1. /\ DiskOK /\ LocalOK /\ ResultsOK /\ HolderInv /\ VersionInv
      /\ PlaceInv(p) /\ CommandInv(p)
      /\ pc[p] \in Holding => lock = p
      /\ pc[p] \in {"open", "lock", "read", "list", "idle"} => lock # p
      /\ pc[p] \notin {"idle", "return", "removeDirectory"} =>
            answer[p] = None /\ call[p].op \in Records!Ops
      /\ call[p] \in Records!Calls => call[p].id \in Ids \/ call[p].op = "list"
  BY PlaceFacts
<1>2. ContextInv' /\ Alone(p)
  BY StepInv DEF Step
<1>. USE DEF disk, local, result, bounds, Goto, Answered
<1> DEFINE i == work[p]
<1>3. /\ UNCHANGED <<version, flat, dirs, litter, work, call, seen>>
      /\ pc[p] = "locked" /\ lock = p
      /\ i = call[p].id /\ i \in Ids /\ call[p].op = "delete" /\ answer[p] = None
      /\ version = "v2"
  BY <1>1 DEF RemoveDocument, Holds, CommandInv, PlaceInv, Using, LocalOK, Holding
<1>. HIDE DEF i
<1>4. /\ Logical[i] = IF docs[i] # None THEN docs[i].record ELSE None
      /\ Logical[i] = None <=> docs[i] = None
      /\ docs[i] # None => i \in dirs
      /\ \A j \in Ids : flat[j] = None
  BY <1>3, LogicalMigrated
<1>5. CASE UNCHANGED docs
  <2>1. pc'[p] = "return"
    BY <1>1, <1>3, <1>5, ValueAssumption DEF RemoveDocument, LocalOK, DiskOK, i
  <2>2. UNCHANGED <<Logical, Damaged>>
    BY <1>2, <1>3, <1>5, <2>1, QuietStep
  <2>3. \/ i \notin dirs /\ answer' = [answer EXCEPT ![p] = "missing"]
        \/ /\ i \in dirs /\ (i \in litter \/ docs[i] = None)
           /\ answer' = [answer EXCEPT ![p] = "unexpected"]
    BY <1>1, <1>3, <1>5, ValueAssumption DEF RemoveDocument, LocalOK, DiskOK, i
  <2>4. i \in dirs /\ (i \in litter \/ docs[i] = None) => i \in Damaged
    BY <1>2, <1>3, HolderDamage DEF HarmedBut
  <2>5. Records!Refuse(p)
    BY <1>3, <1>4, <2>2, <2>3, <2>4
       DEF Records!Refuse, Records!Asked, Records!Answer, Records!Mine
  <2>. QED BY <2>5 DEF Implements
<1>6. CASE /\ i \in dirs \ litter /\ docs[i] # None
           /\ docs' = [docs EXCEPT ![i] = None]
           /\ answer' = [answer EXCEPT ![p] = "deleted"]
           /\ pc' = [pc EXCEPT ![p] = "removeDirectory"]
  <2>1. Logical' = [Logical EXCEPT ![i] = None]
    BY <1>1, <1>3, <1>4, <1>6 DEF Logical, DiskOK
  <2>2. pc'[p] = "removeDirectory" /\ work'[p] = i
    BY <1>1, <1>3, <1>6 DEF LocalOK, i
  <2>3. \A j \in Ids : HarmedBut(j, pc[p], work[p]) <=> HarmedBut(j, pc[p], work[p])'
    BY <1>1, <1>3, <1>4, <1>6, <2>2 DEF HarmedBut, DiskOK
  <2>4. Damaged' = Damaged
    BY <1>2, <1>3, <2>3, HolderDamage
  <2>5. Records!Delete(p)
    BY <1>3, <1>4, <1>6, <2>1, <2>4
       DEF Records!Delete, Records!Asked, Records!Answer, Records!Mine
  <2>. QED BY <2>5 DEF Implements
<1>. QED BY <1>5, <1>6 DEF RemoveDocument, i

\* A directory is removed.
LEMMA RemoveDirectoryImplements ==
    ASSUME ContextInv, NEW p \in Processes, RemoveDirectory(p)
    PROVE  Implements(p)
<1>1. /\ DiskOK /\ LocalOK /\ ResultsOK /\ HolderInv /\ VersionInv
      /\ PlaceInv(p) /\ CommandInv(p)
      /\ pc[p] \in Holding => lock = p
      /\ pc[p] \in {"open", "lock", "read", "list", "idle"} => lock # p
      /\ pc[p] \notin {"idle", "return", "removeDirectory"} =>
            answer[p] = None /\ call[p].op \in Records!Ops
      /\ call[p] \in Records!Calls => call[p].id \in Ids \/ call[p].op = "list"
  BY PlaceFacts
<1>2. ContextInv' /\ Alone(p)
  BY StepInv DEF Step
<1>. USE DEF disk, local, result, bounds, Goto, Answered
<1> DEFINE i == work[p]
<1>3. /\ UNCHANGED <<version, flat, docs, litter, work, call, seen>>
      /\ pc[p] = "removeDirectory" /\ pc'[p] = "return" /\ lock = p
      /\ answer[p] = "deleted" /\ i \in dirs \ litter
      /\ dirs' = dirs \ {i} /\ answer' = [answer EXCEPT ![p] = "ok"]
  BY <1>1 DEF RemoveDirectory, CommandInv, LocalOK, Holding
<1>. HIDE DEF i
<1>4. Logical' = Logical
  BY <1>3 DEF Logical
<1>5. \A j \in Ids : flat[j] = None
  BY <1>1, <1>3, LogicalMigrated DEF PlaceInv, Using
<1>6. \A j \in Ids : HarmedBut(j, pc[p], work[p]) <=> HarmedBut(j, pc[p], work[p])'
  BY <1>1, <1>3, <1>5 DEF HarmedBut, DiskOK, i
<1>7. Damaged' = Damaged
  BY <1>2, <1>3, <1>6, HolderDamage
<1>8. Records!EndDelete(p)
  BY <1>3, <1>4, <1>7 DEF Records!EndDelete, Records!Answer
<1>. QED BY <1>8 DEF Implements

\* A record is shown.
LEMMA ReadOneImplements ==
    ASSUME ContextInv, NEW p \in Processes, ReadOne(p)
    PROVE  Implements(p)
<1>1. /\ DiskOK /\ LocalOK /\ ResultsOK /\ HolderInv /\ VersionInv
      /\ PlaceInv(p) /\ CommandInv(p)
      /\ pc[p] \in Holding => lock = p
      /\ pc[p] \in {"open", "lock", "read", "list", "idle"} => lock # p
      /\ pc[p] \notin {"idle", "return", "removeDirectory"} =>
            answer[p] = None /\ call[p].op \in Records!Ops
      /\ call[p] \in Records!Calls => call[p].id \in Ids \/ call[p].op = "list"
  BY PlaceFacts
<1>2. ContextInv' /\ Alone(p)
  BY StepInv DEF Step
<1>. USE DEF disk, local, result, bounds, Goto, Answered
<1> DEFINE i == work[p]
<1>3. /\ UNCHANGED <<version, flat, dirs, docs, litter, work, call>>
      /\ pc[p] = "read" /\ pc'[p] = "return"
      /\ i = call[p].id /\ i \in Ids /\ call[p].op = "show" /\ answer[p] = None
      /\ version = "v2"
  BY <1>1 DEF ReadOne, CommandInv, PlaceInv, Using, LocalOK
<1>. HIDE DEF i
<1>4. /\ Logical[i] = IF docs[i] # None THEN docs[i].record ELSE None
      /\ Logical[i] = None <=> docs[i] = None
      /\ docs[i] # None => docs[i].schema = "v2"
  BY <1>3, LogicalMigrated
<1>5. UNCHANGED <<Logical, Damaged>>
  BY <1>2, <1>3, QuietStep
<1>6. CASE docs[i] = None
  <2>1. answer' = [answer EXCEPT ![p] = "missing"] /\ UNCHANGED seen
    BY <1>6 DEF ReadOne, i
  <2>2. Records!Refuse(p)
    BY <1>3, <1>4, <1>5, <1>6, <2>1
       DEF Records!Refuse, Records!Asked, Records!Answer, Records!Mine
  <2>. QED BY <2>2 DEF Implements
<1>7. CASE docs[i] # None
  <2>1. /\ answer' = [answer EXCEPT ![p] = "ok"]
        /\ seen' = [seen EXCEPT ![p][i] = docs[i].record]
    BY <1>4, <1>7 DEF ReadOne, i
  <2>2. Records!Show(p)
    BY <1>3, <1>4, <1>5, <1>7, <2>1
       DEF Records!Show, Records!Asked, Records!Answer, Records!Mine
  <2>. QED BY <2>2 DEF Implements
<1>. QED BY <1>6, <1>7

\* The names of the records that are there are found.
LEMMA ListDirectoriesImplements ==
    ASSUME ContextInv, NEW p \in Processes, ListDirectories(p)
    PROVE  Implements(p)
<1>1. /\ DiskOK /\ LocalOK /\ ResultsOK /\ HolderInv /\ VersionInv
      /\ PlaceInv(p) /\ CommandInv(p)
      /\ pc[p] \in Holding => lock = p
      /\ pc[p] \in {"open", "lock", "read", "list", "idle"} => lock # p
      /\ pc[p] \notin {"idle", "return", "removeDirectory"} =>
            answer[p] = None /\ call[p].op \in Records!Ops
      /\ call[p] \in Records!Calls => call[p].id \in Ids \/ call[p].op = "list"
  BY PlaceFacts
<1>2. ContextInv' /\ Alone(p)
  BY StepInv DEF Step
<1>. USE DEF disk, local, result, bounds, Goto, Answered
<1>3. /\ UNCHANGED <<version, flat, dirs, docs, litter, work, call, answer>>
      /\ pc[p] = "read" /\ pc'[p] = "list"
      /\ call[p].op = "list" /\ answer[p] = None /\ version = "v2"
      /\ seen[p] = Records!NothingSeen
      /\ seen' = [seen EXCEPT ![p] = [i \in Ids |-> IF i \in dirs THEN seen[p][i] ELSE None]]
  BY <1>1 DEF ListDirectories, CommandInv, PlaceInv, Using, LocalOK, ResultsOK
<1>4. UNCHANGED <<Logical, Damaged>>
  BY <1>2, <1>3, QuietStep
<1> DEFINE S == Ids \ dirs
<1>5. S \in SUBSET {i \in Ids : seen[p][i] = Unread}
  BY <1>3 DEF Records!NothingSeen
<1>6. \A i \in Ids : i \in S => Logical[i] = None
  BY <1>3, LogicalMigrated
<1>7. [i \in Ids |-> IF i \in dirs THEN seen[p][i] ELSE None]
        = [i \in Ids |-> IF i \in S THEN Logical[i] ELSE seen[p][i]]
  BY <1>6
<1>8. Records!ListSome(p)
  <2>. HIDE DEF S
  <2>1. seen' = [seen EXCEPT ![p] = [i \in Ids |-> IF i \in S THEN Logical[i] ELSE @[i]]]
    BY <1>3, <1>7
  <2>. QED BY <1>3, <1>4, <1>5, <2>1 DEF Records!ListSome, Records!Asked
<1>. QED BY <1>8 DEF Implements

\* The next document of a list is read.
LEMMA ListNextImplements ==
    ASSUME ContextInv, NEW p \in Processes, ListNext(p)
    PROVE  Implements(p)
<1>1. /\ DiskOK /\ LocalOK /\ ResultsOK /\ HolderInv /\ VersionInv
      /\ PlaceInv(p) /\ CommandInv(p)
      /\ pc[p] \in Holding => lock = p
      /\ pc[p] \in {"open", "lock", "read", "list", "idle"} => lock # p
      /\ pc[p] \notin {"idle", "return", "removeDirectory"} =>
            answer[p] = None /\ call[p].op \in Records!Ops
      /\ call[p] \in Records!Calls => call[p].id \in Ids \/ call[p].op = "list"
  BY PlaceFacts
<1>2. ContextInv' /\ Alone(p)
  BY StepInv DEF Step
<1>. USE DEF disk, local, result, bounds, Goto, Answered
<1>3. /\ UNCHANGED <<version, flat, dirs, docs, litter, work, call>>
      /\ pc[p] = "list" /\ call[p].op = "list" /\ answer[p] = None /\ version = "v2"
      /\ seen[p] \in [Ids -> Records!Record \union {None, Unread}]
      /\ \A i \in Ids : seen[p][i] = Unread <=> i \in todo[p]
  BY <1>1 DEF ListNext, CommandInv, PlaceInv, Using, ResultsOK
<1>4. PICK i \in todo[p] :
         IF docs[i] = None
         THEN Answered(p, "missing") /\ UNCHANGED <<todo, seen>>
         ELSE IF docs[i].schema # "v2"
         THEN Answered(p, "unsupported") /\ UNCHANGED <<todo, seen>>
         ELSE /\ seen' = [seen EXCEPT ![p][i] = docs[i].record]
              /\ todo' = [todo EXCEPT ![p] = @ \ {i}]
              /\ UNCHANGED <<pc, answer>>
  BY DEF ListNext
<1>5. i \in Ids /\ seen[p][i] = Unread
  BY <1>1, <1>3, <1>4 DEF LocalOK
<1>6. /\ Logical[i] = IF docs[i] # None THEN docs[i].record ELSE None
      /\ Logical[i] = None <=> docs[i] = None
      /\ docs[i] # None => docs[i].schema = "v2"
  BY <1>3, <1>5, LogicalMigrated
<1>7. pc'[p] \in {"list", "return"}
  BY <1>1, <1>3, <1>4 DEF LocalOK
<1>8. UNCHANGED <<Logical, Damaged>>
  BY <1>2, <1>3, <1>7, QuietStep
<1>9. CASE docs[i] = None
  <2>1. answer' = [answer EXCEPT ![p] = "missing"] /\ UNCHANGED seen
    BY <1>4, <1>9
  <2>2. Records!Refuse(p)
    BY <1>3, <1>5, <1>6, <1>8, <1>9, <2>1
       DEF Records!Refuse, Records!Asked, Records!Answer
  <2>. QED BY <2>2 DEF Implements
<1>10. CASE docs[i] # None
  <2>1. seen' = [seen EXCEPT ![p][i] = docs[i].record] /\ UNCHANGED answer
    BY <1>4, <1>6, <1>10
  <2>2. [seen[p] EXCEPT ![i] = docs[i].record]
          = [j \in Ids |-> IF j \in {i} THEN Logical[j] ELSE seen[p][j]]
    BY <1>3, <1>5, <1>6, <1>10
  <2>3. seen' = [seen EXCEPT ![p] = [j \in Ids |-> IF j \in {i} THEN Logical[j] ELSE @[j]]]
    BY <2>1, <2>2
  <2>4. {i} \in SUBSET {j \in Ids : seen[p][j] = Unread}
    BY <1>5
  <2>5. Records!ListSome(p)
    BY <1>3, <1>8, <2>1, <2>3, <2>4 DEF Records!ListSome, Records!Asked
  <2>. QED BY <2>5 DEF Implements
<1>. QED BY <1>9, <1>10

\* A list ends, a process begins, and it returns.
LEMMA EndListImplements ==
    ASSUME ContextInv, NEW p \in Processes, EndList(p)
    PROVE  Implements(p)
<1>1. /\ DiskOK /\ LocalOK /\ ResultsOK /\ HolderInv /\ VersionInv
      /\ PlaceInv(p) /\ CommandInv(p)
      /\ pc[p] \in Holding => lock = p
      /\ pc[p] \in {"open", "lock", "read", "list", "idle"} => lock # p
      /\ pc[p] \notin {"idle", "return", "removeDirectory"} =>
            answer[p] = None /\ call[p].op \in Records!Ops
      /\ call[p] \in Records!Calls => call[p].id \in Ids \/ call[p].op = "list"
  BY PlaceFacts
<1>2. ContextInv' /\ Alone(p)
  BY StepInv DEF Step
<1>. USE DEF disk, local, result, bounds, Goto, Answered
<1>3. /\ UNCHANGED <<flat, dirs, docs, litter, call, seen>>
      /\ pc[p] = "list" /\ pc'[p] = "return" /\ call[p].op = "list" /\ answer[p] = None
      /\ answer' = [answer EXCEPT ![p] = "ok"]
      /\ \A i \in Ids : seen[p][i] # Unread
  BY <1>1 DEF EndList, CommandInv, LocalOK
<1>4. UNCHANGED <<Logical, Damaged>>
  BY <1>2, <1>3, QuietStep
<1>5. Records!EndList(p)
  BY <1>3, <1>4 DEF Records!EndList, Records!Asked, Records!Answer
<1>. QED BY <1>5 DEF Implements

LEMMA BeginImplements ==
    ASSUME ContextInv, NEW p \in Processes, \E c \in Records!Calls : Begin(p, c)
    PROVE  Implements(p)
<1>1. /\ DiskOK /\ LocalOK /\ ResultsOK /\ HolderInv /\ VersionInv
      /\ PlaceInv(p) /\ CommandInv(p)
      /\ pc[p] \in Holding => lock = p
      /\ pc[p] \in {"open", "lock", "read", "list", "idle"} => lock # p
      /\ pc[p] \notin {"idle", "return", "removeDirectory"} =>
            answer[p] = None /\ call[p].op \in Records!Ops
      /\ call[p] \in Records!Calls => call[p].id \in Ids \/ call[p].op = "list"
  BY PlaceFacts
<1>2. ContextInv' /\ Alone(p)
  BY StepInv
<1>. USE DEF disk, local, result, bounds, Goto, Answered
<1>3. PICK c \in Records!Calls : Begin(p, c)
  OBVIOUS
<1>4. /\ UNCHANGED <<flat, dirs, docs, litter, seen, answer>>
      /\ pc[p] = "idle" /\ pc'[p] = "open" /\ call[p] = Records!Idle
      /\ call' = [call EXCEPT ![p] = c]
  BY <1>1, <1>3 DEF Begin, CommandInv, LocalOK
<1>5. UNCHANGED <<Logical, Damaged>>
  BY <1>2, <1>4, QuietStep
<1>6. Records!Begin(p)
  BY <1>3, <1>4, <1>5 DEF Records!Begin
<1>. QED BY <1>6 DEF Implements

LEMMA ReturnImplements ==
    ASSUME ContextInv, NEW p \in Processes, Return(p)
    PROVE  Implements(p)
<1>1. /\ DiskOK /\ LocalOK /\ ResultsOK /\ HolderInv /\ VersionInv
      /\ PlaceInv(p) /\ CommandInv(p)
      /\ pc[p] \in Holding => lock = p
      /\ pc[p] \in {"open", "lock", "read", "list", "idle"} => lock # p
      /\ pc[p] \notin {"idle", "return", "removeDirectory"} =>
            answer[p] = None /\ call[p].op \in Records!Ops
      /\ call[p] \in Records!Calls => call[p].id \in Ids \/ call[p].op = "list"
  BY PlaceFacts
<1>2. ContextInv' /\ Alone(p)
  BY StepInv DEF Step
<1>. USE DEF disk, local, result, bounds, Goto, Answered
<1>3. /\ UNCHANGED <<flat, dirs, docs, litter>>
      /\ pc[p] = "return" /\ pc'[p] = "idle" /\ answer[p] \notin {None, "deleted"}
      /\ call' = [call EXCEPT ![p] = Records!Idle]
      /\ seen' = [seen EXCEPT ![p] = Records!NothingSeen]
      /\ answer' = [answer EXCEPT ![p] = None]
  BY <1>1, ValueAssumption DEF Return, Leave, CommandInv, LocalOK
<1>4. UNCHANGED <<Logical, Damaged>>
  BY <1>2, <1>3, QuietStep
<1>5. Records!Return(p)
  BY <1>3, <1>4 DEF Records!Return, Records!Leave
<1>. QED BY <1>5 DEF Implements

\* A process dies, or an operation of it fails.
LEMMA DieImplements ==
    ASSUME ContextInv, NEW p \in Processes, Die(p)
    PROVE  Implements(p)
<1>1. /\ DiskOK /\ LocalOK /\ ResultsOK /\ HolderInv /\ VersionInv
      /\ PlaceInv(p) /\ CommandInv(p)
      /\ pc[p] \in Holding => lock = p
      /\ pc[p] \in {"open", "lock", "read", "list", "idle"} => lock # p
      /\ pc[p] \notin {"idle", "return", "removeDirectory"} =>
            answer[p] = None /\ call[p].op \in Records!Ops
      /\ call[p] \in Records!Calls => call[p].id \in Ids \/ call[p].op = "list"
  BY PlaceFacts
<1>2. ContextInv' /\ Alone(p)
  BY StepInv DEF Step
<1>. USE DEF disk, local, result, bounds, Goto, Answered
<1>3. /\ UNCHANGED <<flat, dirs, docs>> /\ LeaveTemporary(p)
      /\ pc[p] # "idle" /\ pc'[p] = "idle"
      /\ call' = [call EXCEPT ![p] = Records!Idle]
      /\ seen' = [seen EXCEPT ![p] = Records!NothingSeen]
      /\ answer' = [answer EXCEPT ![p] = None]
  BY <1>1 DEF Die, Leave, LocalOK
<1>4. call[p] # Records!Idle
  BY <1>1, <1>3 DEF CommandInv
<1>5. /\ Logical' = Logical
      /\ \E D \in {{}} \union {{i} : i \in Ids} : Damaged' = Damaged \union D
  BY <1>2, <1>3, EndDamage
<1>6. Records!Die(p)
  BY <1>3, <1>4, <1>5 DEF Records!Die, Records!Leave, Records!DamageOne
<1>. QED BY <1>6 DEF Implements

LEMMA FailImplements ==
    ASSUME ContextInv, NEW p \in Processes, Fail(p)
    PROVE  Implements(p)
<1>1. /\ DiskOK /\ LocalOK /\ ResultsOK /\ HolderInv /\ VersionInv
      /\ PlaceInv(p) /\ CommandInv(p)
      /\ pc[p] \in Holding => lock = p
      /\ pc[p] \in {"open", "lock", "read", "list", "idle"} => lock # p
      /\ pc[p] \notin {"idle", "return", "removeDirectory"} =>
            answer[p] = None /\ call[p].op \in Records!Ops
      /\ call[p] \in Records!Calls => call[p].id \in Ids \/ call[p].op = "list"
  BY PlaceFacts
<1>2. ContextInv' /\ Alone(p)
  BY StepInv DEF Step
<1>. USE DEF disk, local, result, bounds, Goto, Answered
<1>3. /\ UNCHANGED <<flat, dirs, docs, call, seen>>
      /\ LeaveTemporary(p) \/ UNCHANGED litter
      /\ pc[p] \notin {"idle", "return"} /\ pc'[p] = "return"
      /\ answer' = [answer EXCEPT ![p] = "failed"]
  BY <1>1 DEF Fail, Holds, LocalOK
<1>4. /\ Logical' = Logical
      /\ \E D \in {{}} \union {{i} : i \in Ids} : Damaged' = Damaged \union D
      /\ pc[p] = "removeDirectory" => Damaged' = Damaged \union {work[p]}
  BY <1>2, <1>3, EndDamage
<1>5. CASE pc[p] = "removeDirectory"
  <2>1. answer[p] = "deleted" /\ work[p] = call[p].id
    BY <1>1, <1>5 DEF CommandInv, Using
  <2>2. Records!EndDelete(p)
    BY <1>3, <1>4, <1>5, <2>1 DEF Records!EndDelete, Records!Answer
  <2>. QED BY <2>2 DEF Implements
<1>6. CASE pc[p] # "removeDirectory"
  <2>1. Records!Fail(p)
    BY <1>1, <1>3, <1>4, <1>6
       DEF Records!Fail, Records!Asked, Records!Answer, Records!DamageOne
  <2>. QED BY <2>1 DEF Implements
<1>. QED BY <1>5, <1>6

LEMMA StepImplements ==
    ASSUME ContextInv, [Next]_vars
    PROVE  Records!Next \/ UNCHANGED abstract
<1>1. CASE UNCHANGED vars
  BY <1>1 DEF vars, disk, local, result, bounds, abstract, Logical, Damaged, Busy
<1>2. CASE Quiescent
  BY <1>1, <1>2 DEF Quiescent
<1>3. ASSUME NEW p \in Processes,
             \/ \E c \in Records!Calls : Begin(p, c)
             \/ Step(p) \/ Die(p) \/ Fail(p)
      PROVE  Records!Next \/ UNCHANGED abstract
  <2>1. Implements(p)
    BY <1>3, OpeningImplements, CreateImplements, ReadForChangeImplements, CommitImplements,
       RemoveDocumentImplements, RemoveDirectoryImplements, ReadOneImplements,
       ListDirectoriesImplements, ListNextImplements, EndListImplements, BeginImplements,
       ReturnImplements, DieImplements, FailImplements DEF Step
  <2>. QED BY <2>1 DEF Implements, Records!Next
<1>. QED BY <1>1, <1>2, <1>3 DEF Next

LEMMA InitImplements == Init => Records!Init
<1>. SUFFICES ASSUME Init PROVE Records!Init
  OBVIOUS
<1>1. InitialFiles /\ ContextInv
  BY InitFiles, InitInv
<1>2. Logical \in [Ids -> Records!Record \union {None}]
  BY <1>1, LogicalTyped
<1>3. Damaged = {}
  BY <1>1 DEF InitialFiles, DiskOK, Damaged
<1>. QED BY <1>2, <1>3 DEF Init, Records!Init

\* The files implement the Contexts: whatever other commands, migrations, deaths
\* and failures a command meets, it takes effect at one moment or not at all, no
\* record is lost, and every refusal is true.
THEOREM ContextsAreImplemented == Spec => ImplementsRecords
<1>1. ContextInv /\ [Next]_vars => [Records!Next]_<<Logical, Damaged, call, seen, answer>>
  BY StepImplements DEF abstract
<1>. QED BY <1>1, InitImplements, Invariance, PTL DEF Spec, ImplementsRecords, Records!Spec
=============================================================================
