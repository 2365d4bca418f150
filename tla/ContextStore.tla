---------------------------- MODULE ContextStore ----------------------------
(***************************************************************************)
(* The store of the Context module (system/context: storage.rs, store.rs,  *)
(* locking.rs, atomic_file.rs).  Each command is a process of its own: it  *)
(* opens the store, which migrates the records of earlier versions under   *)
(* the domain lock, releases the lock, and performs its operation, under   *)
(* the lock again if it changes something.  Readers take no lock.          *)
(*                                                                         *)
(* A Context is a directory with one document.  A process may die between  *)
(* any two steps (the system then releases its lock), and a publication or *)
(* the removal of a directory may fail.                                    *)
(***************************************************************************)
EXTENDS Integers, FiniteSets

CONSTANTS
    Ids, Processes, Old, MaxNotes, None, Unread,  \* as in ContextRecords
    Named,       \* bound: the Contexts that commands name; the others are met by
                 \* lists and migrations
    MaxCalls,    \* bound: commands given
    MaxFaults    \* bound: processes that die, and operations that fail

ASSUME BoundAssumption ==
    /\ MaxNotes \in Nat /\ MaxCalls \in Nat /\ MaxFaults \in Nat
    /\ Named \subseteq Ids
    /\ None \notin Ids \union Processes /\ Old \notin Processes

VARIABLES
    version,     \* state/version: None, "v1" or "v2"
    flat,        \* documents of the flat layout, in the module's DataRoot
    dirs,        \* the directories in state/contexts
    docs,        \* the documents in them
    litter,      \* directories with a temporary file nobody will rename
    lock,        \* who has _locks/context.lock open
    pc,
    todo,        \* the Contexts a migration or a list has still to visit
    work,        \* the Context a process is working on
    draft,       \* the record it is about to publish
    call, seen, answer,
    calls, faults

disk == <<version, flat, dirs, docs, litter>>
local == <<todo, work, draft>>
result == <<seen, answer>>
bounds == <<calls, faults>>
vars == <<disk, lock, pc, local, call, result, bounds>>

\* What the records are, whatever layout they are stored in.
Logical == [i \in Ids |-> IF docs[i] # None THEN docs[i].record
                          ELSE IF flat[i] # None THEN flat[i].record
                          ELSE None]

\* Busy(label): the Contexts somebody is working on in that step.
Busy(label) == {work[p] : p \in {q \in Processes : pc[q] = label}}
Damaged == litter \union {i \in dirs : docs[i] = None /\ i \notin Busy("removeDirectory")}
                  \union {i \in dirs : flat[i] # None /\ i \notin Busy("removeFlat")}

Records == INSTANCE ContextRecords WITH records <- Logical, damaged <- Damaged

Doc(schema, record) == [schema |-> schema, record |-> record]
Docs == [schema : {"v1", "v2"}, record : Records!Record]

Answers == {"ok", "busy", "conflict", "exists", "missing", "unsupported", "absent",
            "limit", "unexpected", "deleted", "failed"}

\* What stands for the absence of a value is none.
ASSUME ValueAssumption ==
    /\ None \notin {"v1", "v2"} /\ None \notin Answers
    /\ None \notin Docs /\ None \notin Records!Record
    /\ Unread \notin Records!Record /\ Unread # None

Goto(p, label) == pc' = [pc EXCEPT ![p] = label]
Answered(p, a) == answer' = [answer EXCEPT ![p] = a] /\ Goto(p, "return")
Published(i, record) == docs' = [docs EXCEPT ![i] = Doc("v2", record)]

---------------------------------------------------------------------------
(* The lock, and the opening of the store *)

Begin(p, c) ==
    /\ pc[p] = "idle" /\ calls < MaxCalls
    /\ c.id \in Named \union {None}
    /\ calls' = calls + 1
    /\ call' = [call EXCEPT ![p] = c]
    /\ work' = [work EXCEPT ![p] = c.id]
    /\ Goto(p, "open")
    /\ UNCHANGED <<disk, lock, todo, draft, result, faults>>

\* Seeded fault of the lock: the file is opened with sharing.
AcquireShared(p) ==
    /\ pc[p] \in {"open", "lock"}
    /\ lock' = p
    /\ Goto(p, IF pc[p] = "open" THEN "prepare" ELSE "locked")
    /\ UNCHANGED <<disk, local, call, result, bounds>>

\* ContextLock::acquire.
Acquire(p) ==
    /\ pc[p] \in {"open", "lock"} /\ lock = None
    /\ lock' = p
    /\ Goto(p, IF pc[p] = "open" THEN "prepare" ELSE "locked")
    /\ UNCHANGED <<disk, local, call, result, bounds>>

\* The attempts of ContextLock::acquire are used up.
GiveUp(p) ==
    /\ pc[p] \in {"open", "lock"} /\ lock # None
    /\ Answered(p, "busy")
    /\ UNCHANGED <<disk, lock, local, call, seen, bounds>>

\* Seeded fault of prepare_context_state: the version is published first.
PrepareVersionFirst(p) ==
    /\ pc[p] = "prepare"
    /\ version' = "v2"
    /\ todo' = [todo EXCEPT ![p] = IF version = "v1" THEN dirs
                                   ELSE {i \in Ids : flat[i] # None}]
    /\ Goto(p, CASE version = "v2" -> "opened"
                 [] version = "v1" -> "upgrade"
                 [] OTHER          -> "move")
    /\ UNCHANGED <<flat, dirs, docs, litter, lock, work, draft, call, result, bounds>>

\* prepare_context_state: which migration the stored version calls for.
Prepare(p) ==
    /\ pc[p] = "prepare"
    /\ todo' = [todo EXCEPT ![p] = IF version = "v1" THEN dirs
                                   ELSE {i \in Ids : flat[i] # None}]
    /\ Goto(p, CASE version = "v2" -> "opened"
                 [] version = "v1" -> "upgrade"
                 [] OTHER          -> "move")
    /\ UNCHANGED <<disk, lock, work, draft, call, result, bounds>>

\* migrate_v1_state_records: each record is read as the version it has, and a
\* temporary file with its new form is written beside it ...
UpgradeNext(p) ==
    /\ pc[p] = "upgrade"
    /\ \E i \in todo[p] :
         /\ work' = [work EXCEPT ![p] = i]
         /\ draft' = [draft EXCEPT ![p] = docs[i].record]
         /\ Goto(p, "upgradeCommit")
    /\ UNCHANGED <<disk, lock, todo, call, result, bounds>>

\* Seeded fault of the migration: it starts again after every record.
UpgradeCommitAgain(p) ==
    /\ pc[p] = "upgradeCommit"
    /\ Published(work[p], draft[p])
    /\ Goto(p, "upgrade")
    /\ UNCHANGED <<version, flat, dirs, litter, lock, local, call, result, bounds>>

\* ... and replaces it.
UpgradeCommit(p) ==
    /\ pc[p] = "upgradeCommit"
    /\ Published(work[p], draft[p])
    /\ todo' = [todo EXCEPT ![p] = @ \ {work[p]}]
    /\ Goto(p, "upgrade")
    /\ UNCHANGED <<version, flat, dirs, litter, lock, work, draft, call, result, bounds>>

\* migrate_flat_records: a record is staged and renamed into the state tree
\* (publish_new_record), unless the tree has one of that name ...
MoveNext(p) ==
    /\ pc[p] = "move"
    /\ \E i \in todo[p] :
         IF i \in dirs
         THEN /\ Answered(p, "conflict")
              /\ UNCHANGED <<dirs, docs, work>>
         ELSE /\ Published(i, flat[i].record)
              /\ dirs' = dirs \union {i}
              /\ work' = [work EXCEPT ![p] = i]
              /\ Goto(p, "removeFlat")
              /\ UNCHANGED answer
    /\ UNCHANGED <<version, flat, litter, lock, todo, draft, call, seen, bounds>>

\* ... and the old one is deleted; an empty directory it may leave is ignored.
RemoveFlat(p) ==
    /\ pc[p] = "removeFlat"
    /\ flat' = [flat EXCEPT ![work[p]] = None]
    /\ todo' = [todo EXCEPT ![p] = @ \ {work[p]}]
    /\ Goto(p, "move")
    /\ UNCHANGED <<version, dirs, docs, litter, lock, work, draft, call, result, bounds>>

\* publish_state_version, when every record was migrated.
PublishVersion(p) ==
    /\ pc[p] \in {"upgrade", "move"} /\ todo[p] = {}
    /\ version' = "v2"
    /\ Goto(p, "opened")
    /\ UNCHANGED <<flat, dirs, docs, litter, lock, local, call, result, bounds>>

\* The lock of ContextStore::open is dropped.
Opened(p) ==
    /\ pc[p] = "opened"
    /\ lock' = None
    /\ work' = [work EXCEPT ![p] = call[p].id]
    /\ Goto(p, IF call[p].op \in Records!Reads THEN "read" ELSE "lock")
    /\ UNCHANGED <<disk, todo, draft, call, result, bounds>>

---------------------------------------------------------------------------
(* The operations that change a Context, under the lock *)

Holds(p, ops) == pc[p] = "locked" /\ call[p].op \in ops

\* create: publish_new_record.
Create(p) ==
    /\ Holds(p, {"new"})
    /\ IF work[p] \in dirs
       THEN Answered(p, "exists") /\ UNCHANGED <<dirs, docs>>
       ELSE /\ Published(work[p], Records!Empty)
            /\ dirs' = dirs \union {work[p]}
            /\ Answered(p, "ok")
    /\ UNCHANGED <<version, flat, litter, lock, local, call, seen, bounds>>

\* update: read_record, the change, and the temporary file of publish_record.
ReadForChange(p) ==
    LET doc == docs[work[p]]
        verdict == IF doc = None THEN "missing"
                   ELSE IF doc.schema # "v2" THEN "unsupported"
                   ELSE Records!Verdict(call[p].op, doc.record, p)
    IN
    /\ Holds(p, Records!Changes)
    /\ IF verdict # "ok"
       THEN Answered(p, verdict) /\ UNCHANGED draft
       ELSE /\ draft' = [draft EXCEPT ![p] = Records!Changed(call[p].op, doc.record, p)]
            /\ Goto(p, "commit")
            /\ UNCHANGED answer
    /\ UNCHANGED <<disk, lock, todo, work, call, seen, bounds>>

\* update: the temporary file replaces the document.
Commit(p) ==
    /\ pc[p] = "commit"
    /\ Published(work[p], draft[p])
    /\ Answered(p, "ok")
    /\ UNCHANGED <<version, flat, dirs, litter, lock, local, call, seen, bounds>>

\* delete_record: the document must be all there is, and is removed ...
RemoveDocument(p) ==
    LET i == work[p] IN
    /\ Holds(p, {"delete"})
    /\ IF i \notin dirs
       THEN Answered(p, "missing") /\ UNCHANGED docs
       ELSE IF i \in litter \/ docs[i] = None
       THEN Answered(p, "unexpected") /\ UNCHANGED docs
       ELSE /\ docs' = [docs EXCEPT ![i] = None]
            /\ answer' = [answer EXCEPT ![p] = "deleted"]
            /\ Goto(p, "removeDirectory")
    /\ UNCHANGED <<version, flat, dirs, litter, lock, local, call, seen, bounds>>

\* ... and then its directory.
RemoveDirectory(p) ==
    /\ pc[p] = "removeDirectory"
    /\ dirs' = dirs \ {work[p]}
    /\ Answered(p, "ok")
    /\ UNCHANGED <<version, flat, docs, litter, lock, local, call, seen, bounds>>

---------------------------------------------------------------------------
(* The operations that only read, without the lock *)

\* read: show and render.
ReadOne(p) ==
    LET doc == docs[work[p]] IN
    /\ pc[p] = "read" /\ call[p].op = "show"
    /\ IF doc = None
       THEN Answered(p, "missing") /\ UNCHANGED seen
       ELSE IF doc.schema # "v2"
       THEN Answered(p, "unsupported") /\ UNCHANGED seen
       ELSE Answered(p, "ok") /\ seen' = [seen EXCEPT ![p][work[p]] = doc.record]
    /\ UNCHANGED <<disk, lock, local, call, bounds>>

\* list: resource_directories finds the names ...
ListDirectories(p) ==
    /\ pc[p] = "read" /\ call[p].op = "list"
    /\ todo' = [todo EXCEPT ![p] = dirs]
    /\ seen' = [seen EXCEPT ![p] = [i \in Ids |-> IF i \in dirs THEN @[i] ELSE None]]
    /\ Goto(p, "list")
    /\ UNCHANGED <<disk, lock, work, draft, call, answer, bounds>>

\* ... and the documents are read one after the other.
ListNext(p) ==
    /\ pc[p] = "list"
    /\ \E i \in todo[p] :
         IF docs[i] = None
         THEN Answered(p, "missing") /\ UNCHANGED <<todo, seen>>
         ELSE IF docs[i].schema # "v2"
         THEN Answered(p, "unsupported") /\ UNCHANGED <<todo, seen>>
         ELSE /\ seen' = [seen EXCEPT ![p][i] = docs[i].record]
              /\ todo' = [todo EXCEPT ![p] = @ \ {i}]
              /\ UNCHANGED <<pc, answer>>
    /\ UNCHANGED <<disk, lock, work, draft, call, bounds>>

EndList(p) ==
    /\ pc[p] = "list" /\ todo[p] = {}
    /\ Answered(p, "ok")
    /\ UNCHANGED <<disk, lock, local, call, seen, bounds>>

---------------------------------------------------------------------------
(* The end of a process, and what may go wrong *)

\* A process that ends has no lock and no state any more.
Leave(p) ==
    /\ lock' = IF lock = p THEN None ELSE lock
    /\ todo' = [todo EXCEPT ![p] = {}]
    /\ work' = [work EXCEPT ![p] = None]
    /\ draft' = [draft EXCEPT ![p] = None]
    /\ call' = [call EXCEPT ![p] = Records!Idle]
    /\ seen' = [seen EXCEPT ![p] = Records!NothingSeen]
    /\ answer' = [answer EXCEPT ![p] = None]
    /\ Goto(p, "idle")

Return(p) == pc[p] = "return" /\ Leave(p) /\ UNCHANGED <<disk, bounds>>

Fault == faults < MaxFaults /\ faults' = faults + 1

\* A temporary file was written, and nobody is left to rename it.
LeaveTemporary(p) ==
    litter' = IF pc[p] \in {"commit", "upgradeCommit"} THEN litter \union {work[p]} ELSE litter

Die(p) ==
    /\ pc[p] # "idle" /\ Fault
    /\ LeaveTemporary(p)
    /\ Leave(p)
    /\ UNCHANGED <<version, flat, dirs, docs, calls>>

\* A file or a directory cannot be created, written, renamed or removed: a
\* temporary file is removed if it could not be written, and stays if it could
\* not be renamed.
Fail(p) ==
    /\ \/ pc[p] \in {"commit", "upgradeCommit", "removeFlat", "removeDirectory", "move"}
       \/ Holds(p, {"new"})
       \/ pc[p] = "upgrade" /\ todo[p] = {}
    /\ Fault
    /\ LeaveTemporary(p) \/ UNCHANGED litter
    /\ Answered(p, "failed")
    /\ UNCHANGED <<version, flat, dirs, docs, lock, local, call, seen, calls>>

---------------------------------------------------------------------------
(* The specification *)

\* Contexts of the present layout are found with their version, those of the
\* flat layout without one; either may be of the first schema.
Legacy(ids, schemas) == [ids -> {Doc(s, [Records!Empty EXCEPT !.notes = {Old}]) : s \in schemas}]
Nothing == [i \in Ids |-> None]
Filled(documents) == [i \in Ids |-> IF i \in DOMAIN documents THEN documents[i] ELSE None]

Init ==
    /\ \E ids \in SUBSET Ids :
         \/ /\ version = None
            /\ \E found \in Legacy(ids, {"v1", "v2"}) : flat = Filled(found)
            /\ dirs = {} /\ docs = Nothing
         \/ /\ version = "v1"
            /\ \E found \in Legacy(ids, {"v1"}) : docs = Filled(found)
            /\ dirs = ids /\ flat = Nothing
         \/ /\ version = "v2"
            /\ \E found \in Legacy(ids, {"v2"}) : docs = Filled(found)
            /\ dirs = ids /\ flat = Nothing
    /\ litter = {} /\ lock = None
    /\ pc = [p \in Processes |-> "idle"]
    /\ todo = [p \in Processes |-> {}]
    /\ work = [p \in Processes |-> None]
    /\ draft = [p \in Processes |-> None]
    /\ call = [p \in Processes |-> Records!Idle]
    /\ seen = [p \in Processes |-> Records!NothingSeen]
    /\ answer = [p \in Processes |-> None]
    /\ calls = 0 /\ faults = 0

OpenStep(p) ==
    \/ Acquire(p) \/ GiveUp(p)
    \/ Prepare(p) \/ PublishVersion(p) \/ Opened(p)
    \/ UpgradeNext(p) \/ UpgradeCommit(p)
    \/ MoveNext(p) \/ RemoveFlat(p)

Step(p) ==
    \/ OpenStep(p)
    \/ Create(p) \/ ReadForChange(p) \/ Commit(p)
    \/ RemoveDocument(p) \/ RemoveDirectory(p)
    \/ ReadOne(p) \/ ListDirectories(p) \/ ListNext(p) \/ EndList(p)
    \/ Return(p)

\* All the commands were given.
Quiescent ==
    /\ \A p \in Processes : pc[p] = "idle"
    /\ calls = MaxCalls
    /\ UNCHANGED vars

Next ==
    \/ \E p \in Processes :
         \/ \E c \in Records!Calls : Begin(p, c)
         \/ Step(p) \/ Die(p) \/ Fail(p)
    \/ Quiescent

Spec == Init /\ [][Next]_vars

\* A process that runs goes on; it need neither be started nor fail.
FairSpec == Spec /\ \A p \in Processes : WF_vars(Step(p))
---------------------------------------------------------------------------
(* Properties *)

Labels == {"idle", "open", "prepare", "upgrade", "upgradeCommit", "move", "removeFlat",
           "opened", "lock", "locked", "commit", "removeDirectory", "read", "list", "return"}

TypeOK ==
    /\ version \in {None, "v1", "v2"}
    /\ flat \in [Ids -> Docs \union {None}] /\ docs \in [Ids -> Docs \union {None}]
    /\ litter \subseteq dirs /\ dirs \subseteq Ids
    /\ lock \in Processes \union {None}
    /\ pc \in [Processes -> Labels]
    /\ todo \in [Processes -> SUBSET Ids] /\ work \in [Processes -> Ids \union {None}]
    /\ draft \in [Processes -> Records!Record \union {None}]
    /\ calls \in 0 .. MaxCalls /\ faults \in 0 .. MaxFaults

\* Whoever has opened the store finds every record migrated, although opening
\* gives up the lock before the operation takes it again.
MigratedBeforeUse ==
    (\E p \in Processes : pc[p] \in {"lock", "locked", "commit", "removeDirectory", "read", "list"})
        => /\ version = "v2"
           /\ \A i \in Ids : flat[i] = None /\ (docs[i] # None => docs[i].schema = "v2")

\* Two processes never change the store at the same time.
OneWriter ==
    \A p \in Processes :
        pc[p] \in {"prepare", "upgrade", "upgradeCommit", "move", "removeFlat", "opened",
                   "locked", "commit", "removeDirectory"} => lock = p

ContextSafety == TypeOK /\ MigratedBeforeUse /\ OneWriter

\* The files implement the Contexts: commands are atomic whatever other
\* commands, migrations, deaths and failures they meet, no record is lost, and
\* refusals are true unless a fault damaged the Context.
ImplementsRecords == Records!Spec

\* Every command returns, or its process dies.
CommandReturns == \A p \in Processes : pc[p] = "open" ~> pc[p] = "idle"
=============================================================================
