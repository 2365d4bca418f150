----------------------------- MODULE RunJournal -----------------------------
(***************************************************************************)
(* The journal directory of one command run (run_journal): the process     *)
(* that executes the run creates it, appends events and publishes the      *)
(* ending; readers in any process read it and, when the writer's lease on  *)
(* the owner lock file is gone, reconcile it as interrupted.               *)
(*                                                                         *)
(* A step is one file operation, or several that no other process can      *)
(* tell apart.  All of a file's events take one unit of its size limit.    *)
(* Processes may end between any two steps, file operations may fail, and  *)
(* the machine may lose power, as far as faults allows.                    *)
(***************************************************************************)
EXTENDS Integers, Sequences

CONSTANTS
    Writer,       \* the process that executes the run
    Readers,      \* calls of read_run, read_run_history, read_run_directory
    Nobody,
    FileLimit,    \* MAX_EVENTS_FILE_BYTES, in events
    MaxSequence,  \* bound on the events a run produces
    FaultCases    \* the combinations of faults that may happen

FaultKinds == {"create", "append", "publish", "crash", "power"}

ASSUME ProcessAssumption ==
    /\ Writer \notin Readers
    /\ Nobody \notin Readers \union {Writer}

ASSUME BoundAssumption ==
    /\ FileLimit \in Nat /\ MaxSequence \in Nat
    /\ FaultCases \subseteq SUBSET FaultKinds

VARIABLES
    faults,      \* which faults happen
    visible,     \* the work directory was renamed to the run's directory
    stored,      \* _state.json: its status and event count
    events,      \* events.jsonl: the sequence number of each complete line
    tail,        \* events.jsonl ends with an incomplete line
    synced,      \* the number of lines that survive a power loss
    lockFile,    \* the owner lock file exists
    holder,      \* the process that has it open; share mode 0 admits one
    truncated,   \* Writer.state.truncated
    sequence,    \* Writer.next_sequence
    writeError,  \* Writer.write_error
    pc,          \* where each process is
    seen,        \* the state each reader has read
    answer       \* how each reader's last read_run ended

files == <<visible, stored, events, tail, synced>>
lock == <<lockFile, holder>>
memory == <<truncated, sequence, writeError>>
reading == <<seen, answer>>
vars == <<faults, files, lock, memory, pc, reading>>

Processes == Readers \union {Writer}
Endings == {"Exited", "Canceled", "Failed"}
TerminalStatus == Endings \union {"Interrupted"}
State(status, count) == [status |-> status, count |-> count]

Goto(p, label) == pc' = [pc EXCEPT ![p] = label]

\* A line holds the event its place calls for; 0 is a line that is no event.
Contiguous == \A i \in DOMAIN events : events[i] = i

CloseLock == holder' = Nobody /\ UNCHANGED lockFile

---------------------------------------------------------------------------
(* RunJournal::start *)

\* An error before the rename closes and removes the lock file.
AbortStart ==
    /\ "create" \in faults
    /\ holder' = Nobody /\ lockFile' = FALSE
    /\ Goto(Writer, "done")
    /\ UNCHANGED <<files, memory, reading>>

CreateOwner ==
    /\ pc[Writer] = "idle"
    /\ lockFile' = TRUE /\ holder' = Writer
    /\ Goto(Writer, "prepare")
    /\ UNCHANGED <<files, memory, reading>>

\* The work directory with an empty events file and the Running state.
Prepare ==
    /\ pc[Writer] = "prepare"
    /\ \/ /\ stored' = State("Running", 0)
          /\ Goto(Writer, "rename")
          /\ UNCHANGED <<visible, events, tail, synced, lock, memory, reading>>
       \/ AbortStart

PublishDirectory ==
    /\ pc[Writer] = "rename"
    /\ \/ /\ visible' = TRUE
          /\ Goto(Writer, "open")
          /\ UNCHANGED <<stored, events, tail, synced, lock, memory, reading>>
       \/ AbortStart

\* An error after the rename leaves a Running journal that nobody owns.
OpenEvents ==
    /\ pc[Writer] = "open"
    /\ \/ Goto(Writer, "ready") /\ UNCHANGED lock
       \/ "create" \in faults /\ Goto(Writer, "done") /\ CloseLock
    /\ UNCHANGED <<files, memory, reading>>

---------------------------------------------------------------------------
(* Writer::append and Writer::finish *)

HasRoom == ~truncated /\ Len(events) < FileLimit

MayAppend == pc[Writer] = "ready" /\ sequence < MaxSequence /\ ~writeError

AppendEvent ==
    /\ MayAppend /\ HasRoom
    /\ sequence' = sequence + 1
    /\ events' = Append(events, IF tail THEN 0 ELSE sequence + 1)
    /\ tail' = FALSE
    /\ UNCHANGED <<visible, stored, synced, lock, truncated, writeError, pc,
                   reading>>

\* The write failed, possibly after a part of the line.
FailAppend ==
    /\ MayAppend /\ HasRoom
    /\ "append" \in faults
    /\ sequence' = sequence + 1
    /\ tail' = TRUE \/ UNCHANGED tail
    /\ writeError' = TRUE
    /\ UNCHANGED <<visible, stored, events, synced, lock, truncated, pc, reading>>

\* The first event without room publishes the truncation, the others are
\* only counted.
DropEvent ==
    /\ MayAppend /\ ~HasRoom
    /\ sequence' = sequence + 1
    /\ truncated' = TRUE
    /\ \/ ~truncated /\ stored' = State("Running", Len(events)) /\ UNCHANGED writeError
       \/ ~truncated /\ "publish" \in faults /\ writeError' = TRUE /\ UNCHANGED stored
       \/ truncated /\ UNCHANGED <<stored, writeError>>
    /\ UNCHANGED <<visible, events, tail, synced, lock, pc, reading>>

\* Seeded fault of finish: the events are not synced before the publication.
FinishUnsynced(ending) ==
    /\ pc[Writer] = "ready"
    /\ stored' = State(ending, Len(events))
    /\ Goto(Writer, "close")
    /\ UNCHANGED <<visible, events, tail, synced, lock, memory, reading>>

\* finish: sync the events and publish the ending, which is Failed if an event
\* or the sync failed.
Finish(ending) ==
    /\ pc[Writer] = "ready"
    /\ \/ /\ synced' = Len(events)
          /\ stored' = State(IF writeError THEN "Failed" ELSE ending, Len(events))
       \/ /\ "append" \in faults
          /\ stored' = State("Failed", Len(events))
          /\ UNCHANGED synced
    /\ Goto(Writer, "close")
    /\ UNCHANGED <<visible, events, tail, lock, memory, reading>>

\* The publication failed: the writer stays as it is and may finish again.
FailFinish ==
    /\ pc[Writer] = "ready" /\ "publish" \in faults
    /\ synced' = Len(events)
    /\ UNCHANGED <<visible, stored, events, tail, lock, memory, pc, reading>>

---------------------------------------------------------------------------
(* RunOwnerLease::release, by the writer and by a reconciling reader *)

ReleaseOwner(p) ==
    /\ pc[p] = "close"
    /\ CloseLock
    /\ Goto(p, "remove")
    /\ UNCHANGED <<files, memory, reading>>

\* Seeded fault: the removal is tried before the file is closed.
RemoveOwnerTooEarly(p, afterwards) ==
    /\ pc[p] = "remove"
    /\ Goto(p, afterwards)
    /\ UNCHANGED <<files, lock, memory, reading>>

\* The removal fails if another process has opened the file meanwhile.
RemoveOwner(p, afterwards) ==
    /\ pc[p] = "remove"
    /\ IF holder = Nobody THEN lockFile' = FALSE ELSE UNCHANGED lockFile
    /\ UNCHANGED holder
    /\ Goto(p, afterwards)
    /\ UNCHANGED <<files, memory, reading>>

---------------------------------------------------------------------------
(* read_reconciled_state *)

\* Seeded fault: an unfinished run is taken for abandoned without its lease.
StartReadWithoutLease(r) ==
    /\ pc[r] = "idle" /\ visible
    /\ seen' = [seen EXCEPT ![r] = stored]
    /\ Goto(r, IF stored.status = "Running" THEN "scan" ELSE "events")
    /\ UNCHANGED <<files, lock, memory, answer>>

\* The run's directory exists, and its state is read.
StartRead(r) ==
    /\ pc[r] = "idle" /\ visible
    /\ seen' = [seen EXCEPT ![r] = stored]
    /\ Goto(r, IF stored.status = "Running" THEN "acquire" ELSE "events")
    /\ UNCHANGED <<files, lock, memory, answer>>

\* Seeded faults: the file is opened although somebody has it open; the mere
\* existence of the file counts as an owner.
OpenOwnerShared(r) ==
    /\ pc[r] = "acquire"
    /\ IF lockFile
       THEN holder' = r /\ Goto(r, "reread")
       ELSE holder' = holder /\ Goto(r, "create")
    /\ UNCHANGED <<files, lockFile, memory, reading>>

OpenOwnerByExistence(r) ==
    /\ pc[r] = "acquire"
    /\ Goto(r, IF lockFile THEN "events" ELSE "create")
    /\ UNCHANGED <<files, lock, memory, reading>>

\* try_acquire: open the existing lock file, unless somebody has it open.
OpenOwner(r) ==
    /\ pc[r] = "acquire"
    /\ IF lockFile /\ holder = Nobody
       THEN holder' = r /\ Goto(r, "reread")
       ELSE holder' = holder /\ Goto(r, IF lockFile THEN "events" ELSE "create")
    /\ UNCHANGED <<files, lockFile, memory, reading>>

\* There was no lock file: create it, unless another process was faster.
CreateMissingOwner(r) ==
    /\ pc[r] = "create"
    /\ IF lockFile
       THEN Goto(r, "events") /\ UNCHANGED lock
       ELSE lockFile' = TRUE /\ holder' = r /\ Goto(r, "reread")
    /\ UNCHANGED <<files, memory, reading>>

\* Seeded fault: the state read before the lease is trusted.
SkipReread(r) ==
    /\ pc[r] = "reread"
    /\ Goto(r, "scan")
    /\ UNCHANGED <<files, lock, memory, reading>>

\* The state is read again under the lease.
Reread(r) ==
    /\ pc[r] = "reread"
    /\ seen' = [seen EXCEPT ![r] = stored]
    /\ Goto(r, IF stored.status = "Running" THEN "scan" ELSE "close")
    /\ UNCHANGED <<files, lock, memory, answer>>

\* The events are read; an error drops the lease and leaves the lock file.
Scan(r) ==
    /\ pc[r] = "scan"
    /\ IF Contiguous /\ seen[r].count <= Len(events)
       THEN /\ seen' = [seen EXCEPT ![r] = State("Running", Len(events))]
            /\ Goto(r, "repair")
            /\ UNCHANGED <<holder, answer>>
       ELSE /\ answer' = [answer EXCEPT ![r] = "invalid"]
            /\ holder' = Nobody
            /\ Goto(r, "idle")
            /\ UNCHANGED seen
    /\ UNCHANGED <<files, lockFile, memory>>

\* Seeded faults: the stream is synced with its incomplete line, which is cut
\* off only then; the incomplete line stays.
RepairAfterSync(r) ==
    /\ pc[r] = "repair"
    /\ synced' = Len(events) + (IF tail THEN 1 ELSE 0)
    /\ events' = IF tail THEN SubSeq(events, 1, seen[r].count) ELSE events
    /\ tail' = FALSE
    /\ Goto(r, "publish")
    /\ UNCHANGED <<visible, stored, lock, memory, reading>>

RepairNothing(r) ==
    /\ pc[r] = "repair"
    /\ Goto(r, "publish")
    /\ UNCHANGED <<files, lock, memory, reading>>

\* sync_complete_event_stream: cut the incomplete line off, sync the others.
Repair(r) ==
    /\ pc[r] = "repair"
    /\ events' = IF tail THEN SubSeq(events, 1, seen[r].count) ELSE events
    /\ tail' = FALSE
    /\ synced' = Len(events')
    /\ Goto(r, "publish")
    /\ UNCHANGED <<visible, stored, lock, memory, reading>>

PublishInterrupted(r) ==
    /\ pc[r] = "publish"
    /\ \/ /\ stored' = State("Interrupted", seen[r].count)
          /\ seen' = [seen EXCEPT ![r] = stored']
          /\ Goto(r, "close")
          /\ UNCHANGED <<holder, answer>>
       \/ /\ "publish" \in faults
          /\ answer' = [answer EXCEPT ![r] = "failed"]
          /\ holder' = Nobody
          /\ Goto(r, "idle")
          /\ UNCHANGED <<stored, seen>>
    /\ UNCHANGED <<visible, events, tail, synced, lockFile, memory>>

---------------------------------------------------------------------------
(* read_run *)

\* Only the events of a Running state may end with an incomplete line.
EventsMatch(state) ==
    /\ Contiguous
    /\ IF state.status = "Running" THEN state.count <= Len(events)
                                   ELSE ~tail /\ state.count = Len(events)

ReadEvents(r) ==
    /\ pc[r] = "events"
    /\ answer' = [answer EXCEPT ![r] = IF EventsMatch(seen[r]) THEN "ok" ELSE "invalid"]
    /\ Goto(r, "idle")
    /\ UNCHANGED <<files, lock, memory, seen>>

---------------------------------------------------------------------------
(* Faults *)

DropHandle(p) == holder' = IF holder = p THEN Nobody ELSE holder

\* The writer's last handle is dropped without an ending (after a failed
\* finish), or its process ends, at any point; the file system closes the lock.
AbandonWriter ==
    /\ pc[Writer] \notin {"idle", "done"}
    /\ pc[Writer] = "ready" \/ "crash" \in faults
    /\ DropHandle(Writer)
    /\ Goto(Writer, "done")
    /\ UNCHANGED <<files, lockFile, memory, reading>>

\* The process of a reader ends; a later call reads anew.
EndReader(r) ==
    /\ "crash" \in faults
    /\ pc[r] # "idle"
    /\ DropHandle(r)
    /\ Goto(r, "idle")
    /\ UNCHANGED <<files, lockFile, memory, reading>>

\* Every process ends, and lines that were not synced may be lost.
LosePower ==
    /\ "power" \in faults /\ pc[Writer] # "idle"
    /\ holder' = Nobody
    /\ \E n \in synced .. Len(events) :
         /\ events' = SubSeq(events, 1, n)
         /\ \/ tail' = FALSE
            \/ tail' = TRUE /\ (tail \/ n < Len(events))
    /\ pc' = [p \in Processes |-> IF p = Writer THEN "done" ELSE "idle"]
    /\ UNCHANGED <<visible, stored, synced, lockFile, memory, reading>>

---------------------------------------------------------------------------
(* The specification *)

Init ==
    /\ faults \in FaultCases
    /\ visible = FALSE /\ stored = State("Running", 0)
    /\ events = <<>> /\ tail = FALSE /\ synced = 0
    /\ lockFile = FALSE /\ holder = Nobody
    /\ truncated = FALSE /\ sequence = 0 /\ writeError = FALSE
    /\ pc = [p \in Processes |-> "idle"]
    /\ seen = [r \in Readers |-> State("Running", 0)]
    /\ answer = [r \in Readers |-> "none"]

WriterStep ==
    \/ CreateOwner \/ Prepare \/ PublishDirectory \/ OpenEvents
    \/ AppendEvent \/ FailAppend \/ DropEvent
    \/ \E ending \in Endings : Finish(ending)
    \/ FailFinish
    \/ ReleaseOwner(Writer) \/ RemoveOwner(Writer, "done")
    \/ AbandonWriter

\* What a reader does once it was called.
ReaderStep(r) ==
    \/ OpenOwner(r) \/ CreateMissingOwner(r)
    \/ Reread(r) \/ Scan(r) \/ Repair(r) \/ PublishInterrupted(r)
    \/ ReleaseOwner(r) \/ RemoveOwner(r, "events")
    \/ ReadEvents(r)

\* The run was refused, or never begins: nobody has anything to do.
Quiescent ==
    /\ pc[Writer] = "done" /\ ~visible
    /\ UNCHANGED vars

Next ==
    /\ UNCHANGED faults
    /\ \/ WriterStep
       \/ \E r \in Readers : StartRead(r) \/ ReaderStep(r) \/ EndReader(r)
       \/ LosePower
       \/ Quiescent

Spec == Init /\ [][Next]_vars

\* A call that was made runs on; no call need be made and no process end.
FairSpec ==
    Spec /\ \A r \in Readers : WF_vars(UNCHANGED faults /\ ReaderStep(r))
---------------------------------------------------------------------------
(* Properties *)

WriterLabel == {"idle", "prepare", "rename", "open", "ready", "close", "remove", "done"}
ReaderLabel == {"idle", "acquire", "create", "reread", "scan", "repair", "publish",
                "close", "remove", "events"}

StoredState == [status : {"Running"} \union TerminalStatus, count : Nat]

FilesOK ==
    /\ stored \in StoredState /\ events \in Seq(Nat)
    /\ synced \in 0 .. Len(events) /\ sequence \in Nat

ProcessesOK ==
    /\ holder \in Processes \union {Nobody}
    /\ pc \in [Processes -> WriterLabel \union ReaderLabel]
    /\ pc[Writer] \in WriterLabel /\ \A r \in Readers : pc[r] \in ReaderLabel

ReadingOK ==
    /\ seen \in [Readers -> StoredState]
    /\ answer \in [Readers -> {"none", "ok", "invalid", "failed"}]

FlagsOK ==
    /\ visible \in BOOLEAN /\ tail \in BOOLEAN /\ lockFile \in BOOLEAN
    /\ truncated \in BOOLEAN /\ writeError \in BOOLEAN

TypeOK == FilesOK /\ ProcessesOK /\ ReadingOK /\ FlagsOK

Terminal(state) == state.status \in TerminalStatus

\* A published ending is never replaced, neither by the writer nor by a reader
\* that read the state before it was published.
EndingIsKept == [][Terminal(stored) => stored' = stored]_stored

\* A reader declares a run interrupted only when its writer can no longer
\* write: it ended, or gave its journal up.
InterruptedIsAbandoned ==
    [][stored'.status = "Interrupted" => pc[Writer] = "done" \/ stored' = stored]_stored

\* Once an ending is on disk, the events it counts are all there, complete,
\* and would survive a power loss, unless the run failed and a write or a sync
\* of its events is what failed.
EndingIsComplete ==
    Terminal(stored) /\ (stored.status = "Failed" => "append" \notin faults)
        => /\ ~tail /\ Contiguous
           /\ stored.count = Len(events) /\ synced = Len(events)

\* Whatever happened to the writer and to other readers, a run can be read.
\* (tests.rs:321 reads a failed run; read.rs calls everything else invalid.)
JournalIsReadable == \A r \in Readers : answer[r] # "invalid"

\* A run is refused only after one of its events failed to be written, or after
\* a power loss took events that had been counted: no crash, no race for the
\* lease and no failed publication makes it unreadable.
RefusedOnlyIfDamaged ==
    \A r \in Readers :
        answer[r] = "invalid" => writeError \/ stored.count > Len(events)

Undisturbed == faults \subseteq {"create", "append"}

\* When nobody is at work on an ended run, its lock file is gone (the tests
\* assert it): releases by several processes do not leave it behind, unless
\* one of them ended before its release.
LockIsRemoved ==
    (/\ Undisturbed /\ Terminal(stored) /\ pc[Writer] = "done"
     /\ \A r \in Readers : pc[r] \in {"idle", "events"}) => ~lockFile

\* Besides the types: what crashes and races leave of a run can be read, and
\* its lock file goes away.
JournalSafety == TypeOK /\ RefusedOnlyIfDamaged /\ LockIsRemoved

\* A reader that starts after the writer is gone leads to a recorded ending,
\* if no reader's process ends and no publication fails meanwhile.
AbandonedIsReconciled ==
    \A r \in Readers :
        (Undisturbed /\ pc[Writer] = "done" /\ pc[r] = "acquire")
            ~> Terminal(stored)

\* The journal implements the abstract record.
Record == INSTANCE RunRecord WITH
    record <- IF visible THEN stored.status ELSE "none",
    owner <- IF ~visible THEN "none" ELSE IF holder = Writer THEN "present" ELSE "gone"

ImplementsRecord == Record!Spec
=============================================================================
