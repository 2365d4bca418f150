-------------------- MODULE JournalAndConsoleProofs --------------------
(***************************************************************************)
(* Theorems about RunJournal and about ConsoleRun, which share neither     *)
(* state nor steps.                                                        *)
(*                                                                         *)
(* First the run journal, for any number of readers, any limit and every   *)
(* combination of faults.                                                  *)
(*                                                                         *)
(* The argument rests on the lease: whoever is about to change the state   *)
(* or the events file has the owner lock file open, and the file has one   *)
(* opener (LeaseInv).  What such a process has read is then still true     *)
(* when it acts on it (StateInv), and what a reader has seen differs from  *)
(* what it finds only after a failed write or a power loss (ReadInv).      *)
(*                                                                         *)
(* Then a command started from the console, for any output, any cut of it  *)
(* into reads, any limit of a record and every combination of faults.      *)
(*                                                                         *)
(* The argument: each decoder is a function of all it has been given, up   *)
(* to the little it holds (CharactersConcat, MeaningConcat), so what a     *)
(* reader has shown is what the bytes it took mean (Truthful), and the     *)
(* journal is a beginning of that (Recorded).  The ending follows from     *)
(* what each place of the main thread tells of the processes, of the       *)
(* readers and of the result (ProcessesKnown, ReadersStarted, ResultKnown).*)
(***************************************************************************)
EXTENDS RunJournal, ConsoleRun, SequenceTheorems, WellFoundedInduction, TLAPS

WriterLeased == {"prepare", "rename", "open", "ready", "close"}
ReaderLeased == {"reread", "scan", "repair", "publish", "close"}

\* Who is at a step that needs the lease has it, and nobody else does.
LeaseInv ==
    /\ holder # Nobody => lockFile
    /\ holder = Writer <=> pc[Writer] \in WriterLeased
    /\ \A r \in Readers : holder = r <=> pc[r] \in ReaderLeased

\* The state on disk, as each holder of the lease relies on it.
StateInv ==
    /\ ~visible => /\ pc[Writer] \in {"idle", "prepare", "rename", "done"}
                   /\ stored.status = "Running"
                   /\ \A r \in Readers : pc[r] = "idle"
    /\ visible => pc[Writer] \in {"open", "ready", "close", "remove", "done"}
    /\ pc[Writer] \in {"open", "ready"} => stored.status = "Running"
    /\ pc[Writer] \in {"close", "remove"} => Terminal(stored)
    /\ \A r \in Readers :
         /\ pc[r] \in {"scan", "repair", "publish"} => stored.status = "Running"
         /\ pc[r] \in {"repair", "publish"} => seen[r].count = Len(events)

JournalInv == TypeOK /\ LeaseInv /\ StateInv

---------------------------------------------------------------------------
(* Lemmas *)

\* A prefix of a sequence of numbers is one, and has the length asked for.
LEMMA PrefixFacts ==
    ASSUME NEW s \in Seq(Nat), NEW n \in 0 .. Len(s)
    PROVE  /\ SubSeq(s, 1, n) \in Seq(Nat)
           /\ Len(SubSeq(s, 1, n)) = n
           /\ \A i \in 1 .. n : SubSeq(s, 1, n)[i] = s[i]
  OBVIOUS

LEMMA WholeSequence ==
    ASSUME NEW s \in Seq(Nat) PROVE SubSeq(s, 1, Len(s)) = s
  BY PrefixFacts

LEMMA InitInv == Init => JournalInv
<1>. SUFFICES ASSUME Init PROVE JournalInv
  OBVIOUS
<1>1. State("Running", 0) \in StoredState
  BY DEF State, StoredState
<1>2. TypeOK
  <2>1. FilesOK
    BY <1>1 DEF Init, FilesOK
  <2>2. ProcessesOK
    BY ProcessAssumption DEF Init, ProcessesOK, Processes, WriterLabel, ReaderLabel
  <2>3. ReadingOK
    BY <1>1 DEF Init, ReadingOK
  <2>4. FlagsOK
    BY DEF Init, FlagsOK
  <2>. QED BY <2>1, <2>2, <2>3, <2>4 DEF TypeOK
<1>3. LeaseInv /\ StateInv
  BY ProcessAssumption DEF Init, LeaseInv, StateInv, Processes, State,
                           WriterLeased, ReaderLeased
<1>. QED BY <1>2, <1>3 DEF JournalInv

---------------------------------------------------------------------------
(* Types *)

\* A reader that holds the lease cuts off nothing but the incomplete line.
LEMMA RepairKeepsEvents ==
    ASSUME JournalInv, NEW r \in Readers, Repair(r) PROVE events' = events
<1>1. seen[r].count = Len(events) /\ events \in Seq(Nat)
  BY DEF JournalInv, StateInv, TypeOK, FilesOK, Repair
<1>. QED BY <1>1, WholeSequence DEF Repair

LEMMA FlagsStep == FlagsOK /\ [Next]_vars => FlagsOK'
<1>1. FlagsOK /\ WriterStep => FlagsOK'
  BY DEF FlagsOK, WriterStep, CreateOwner, Prepare, PublishDirectory, OpenEvents,
         AbortStart, AppendEvent, FailAppend, DropEvent, Finish, FailFinish,
         AbandonWriter, ReleaseOwner, RemoveOwner, files, lock, memory, CloseLock
<1>2. ASSUME NEW r \in Readers, FlagsOK, StartRead(r) \/ ReaderStep(r) \/ EndReader(r)
      PROVE  FlagsOK'
  BY <1>2 DEF FlagsOK, StartRead, ReaderStep, OpenOwner, CreateMissingOwner, Reread, Scan,
              Repair, PublishInterrupted, ReleaseOwner, RemoveOwner, ReadEvents,
              EndReader, files, lock, memory, CloseLock
<1>3. FlagsOK /\ LosePower => FlagsOK'
  BY DEF FlagsOK, LosePower, memory
<1>4. FlagsOK /\ UNCHANGED vars => FlagsOK'
  BY DEF FlagsOK, vars, files, lock, memory
<1>. QED BY <1>1, <1>2, <1>3, <1>4 DEF Next, Quiescent

LEMMA ProcessesStep == ProcessesOK /\ [Next]_vars => ProcessesOK'
<1>. USE ProcessAssumption DEF ProcessesOK, Processes, WriterLabel, ReaderLabel, Goto
<1>1. ProcessesOK /\ WriterStep => ProcessesOK'
  BY DEF WriterStep, CreateOwner, Prepare, PublishDirectory, OpenEvents, AbortStart,
         AppendEvent, FailAppend, DropEvent, Finish, FailFinish, AbandonWriter,
         ReleaseOwner, RemoveOwner, lock, CloseLock, DropHandle
<1>2. ASSUME NEW r \in Readers, ProcessesOK,
             StartRead(r) \/ ReaderStep(r) \/ EndReader(r)
      PROVE  ProcessesOK'
  BY <1>2 DEF StartRead, ReaderStep, OpenOwner, CreateMissingOwner, Reread, Scan, Repair,
              PublishInterrupted, ReleaseOwner, RemoveOwner, ReadEvents, EndReader, lock,
              CloseLock, DropHandle
<1>3. ProcessesOK /\ LosePower => ProcessesOK'
  BY DEF LosePower
<1>4. ProcessesOK /\ UNCHANGED vars => ProcessesOK'
  BY DEF vars, lock
<1>. QED BY <1>1, <1>2, <1>3, <1>4 DEF Next, Quiescent

LEMMA FilesStep == JournalInv /\ [Next]_vars => FilesOK'
<1>. SUFFICES ASSUME JournalInv, [Next]_vars PROVE FilesOK'
  OBVIOUS
<1>0. FilesOK /\ ReadingOK
  BY DEF JournalInv, TypeOK
<1>1. CASE AppendEvent
  <2>1. events' \in Seq(Nat) /\ Len(events') = Len(events) + 1
    BY <1>0, <1>1 DEF FilesOK, AppendEvent
  <2>2. synced' \in 0 .. Len(events')
    BY <1>0, <1>1, <2>1 DEF FilesOK, AppendEvent
  <2>. QED BY <1>0, <1>1, <2>1, <2>2 DEF FilesOK, AppendEvent
<1>2. CASE WriterStep /\ ~AppendEvent
  BY <1>0, <1>2
     DEF FilesOK, StoredState, State, TerminalStatus, Endings, WriterStep, CreateOwner,
         Prepare, PublishDirectory, OpenEvents, AbortStart, FailAppend, DropEvent, Finish,
         FailFinish, AbandonWriter, ReleaseOwner, RemoveOwner, files, memory
<1>3. ASSUME NEW r \in Readers, StartRead(r) \/ ReaderStep(r) \/ EndReader(r)
      PROVE  FilesOK'
  <2>1. Repair(r) => events' = events
    BY RepairKeepsEvents
  <2>. QED BY <1>0, <1>3, <2>1
           DEF FilesOK, ReadingOK, StoredState, State, TerminalStatus, StartRead,
               ReaderStep, OpenOwner, CreateMissingOwner, Reread, Scan, Repair,
               PublishInterrupted, ReleaseOwner, RemoveOwner, ReadEvents, EndReader,
               files, memory
<1>4. CASE LosePower
  <2>1. PICK n \in synced .. Len(events) : events' = SubSeq(events, 1, n)
    BY <1>4 DEF LosePower
  <2>2. events' \in Seq(Nat) /\ synced' \in 0 .. Len(events')
    BY <1>0, <1>4, <2>1, PrefixFacts DEF LosePower, FilesOK
  <2>. QED BY <1>0, <1>4, <2>2 DEF LosePower, FilesOK, memory
<1>5. CASE UNCHANGED vars
  BY <1>0, <1>5 DEF FilesOK, vars, files, memory
<1>. QED BY <1>1, <1>2, <1>3, <1>4, <1>5 DEF Next, Quiescent

LEMMA ReadingStep == FilesOK /\ ReadingOK /\ [Next]_vars => ReadingOK'
<1>. SUFFICES ASSUME FilesOK, ReadingOK, [Next]_vars PROVE ReadingOK'
  OBVIOUS
<1>0. \A n \in Nat : /\ State("Running", n) \in StoredState
                     /\ State("Interrupted", n) \in StoredState
  BY DEF State, StoredState, TerminalStatus
<1>1. CASE WriterStep \/ LosePower \/ UNCHANGED vars
  BY <1>1 DEF ReadingOK, WriterStep, CreateOwner, Prepare, PublishDirectory, OpenEvents,
              AbortStart, AppendEvent, FailAppend, DropEvent, Finish, FailFinish,
              AbandonWriter, ReleaseOwner, RemoveOwner, LosePower, vars, reading
<1>2. ASSUME NEW r \in Readers, Scan(r) PROVE ReadingOK'
  <2>1. State("Running", Len(events)) \in StoredState
    BY <1>0 DEF FilesOK
  <2>. QED BY <1>2, <2>1 DEF ReadingOK, Scan
<1>3. ASSUME NEW r \in Readers, PublishInterrupted(r) PROVE ReadingOK'
  <2>1. seen[r].count \in Nat
    BY DEF ReadingOK, StoredState
  <2>. QED BY <1>0, <1>3, <2>1 DEF ReadingOK, PublishInterrupted
<1>4. ASSUME NEW r \in Readers,
             \/ StartRead(r) \/ OpenOwner(r) \/ CreateMissingOwner(r) \/ Reread(r)
             \/ Repair(r) \/ ReleaseOwner(r) \/ RemoveOwner(r, "events")
             \/ ReadEvents(r) \/ EndReader(r)
      PROVE  ReadingOK'
  BY <1>4 DEF FilesOK, ReadingOK, StartRead, OpenOwner, CreateMissingOwner, Reread, Repair,
              ReleaseOwner, RemoveOwner, ReadEvents, EndReader, reading
<1>. QED BY <1>1, <1>2, <1>3, <1>4 DEF Next, ReaderStep, Quiescent

LEMMA TypeStep == JournalInv /\ [Next]_vars => TypeOK'
  BY FlagsStep, ProcessesStep, FilesStep, ReadingStep DEF JournalInv, TypeOK

---------------------------------------------------------------------------
(* The lease *)

LEMMA WriterLease == JournalInv /\ WriterStep => LeaseInv' /\ StateInv'
<1>. SUFFICES ASSUME JournalInv, WriterStep PROVE LeaseInv' /\ StateInv'
  OBVIOUS
<1>. USE ProcessAssumption
     DEF LeaseInv, StateInv, WriterLeased, ReaderLeased, Goto, lock, DropHandle,
         CloseLock, reading, Terminal, TerminalStatus
<1>0. /\ pc \in [Processes -> WriterLabel \union ReaderLabel]
      /\ Writer \in Processes /\ Readers \subseteq Processes
      /\ stored \in [status : {"Running"} \union TerminalStatus, count : Nat]
      /\ LeaseInv /\ StateInv
  BY DEF TypeOK, ProcessesOK, FilesOK, ReadingOK, Processes, JournalInv,
         StoredState
<1>1. CASE CreateOwner \/ Prepare
  BY <1>0, <1>1 DEF CreateOwner, Prepare, AbortStart, files, State
<1>2. CASE PublishDirectory \/ OpenEvents
  BY <1>0, <1>2 DEF PublishDirectory, AbortStart, OpenEvents, files
<1>3. CASE AppendEvent \/ FailAppend
  BY <1>0, <1>3 DEF AppendEvent, FailAppend, MayAppend
<1>4. CASE DropEvent \/ FailFinish
  BY <1>0, <1>4 DEF DropEvent, FailFinish, MayAppend, State
<1>5. CASE \E ending \in Endings : Finish(ending)
  BY <1>0, <1>5 DEF Finish, Endings, State
<1>6. CASE ReleaseOwner(Writer) \/ RemoveOwner(Writer, "done") \/ AbandonWriter
  BY <1>0, <1>6 DEF ReleaseOwner, RemoveOwner, AbandonWriter, files
<1>. QED BY <1>1, <1>2, <1>3, <1>4, <1>5, <1>6 DEF WriterStep

LEMMA ReaderLease ==
    ASSUME NEW r \in Readers, JournalInv, StartRead(r) \/ ReaderStep(r) \/ EndReader(r)
    PROVE  LeaseInv' /\ StateInv'
<1>. USE ProcessAssumption
     DEF LeaseInv, StateInv, WriterLeased, ReaderLeased, Goto, lock, DropHandle,
         CloseLock, reading, Terminal, TerminalStatus
<1>0. /\ pc \in [Processes -> WriterLabel \union ReaderLabel]
      /\ Writer \in Processes /\ Readers \subseteq Processes
      /\ seen \in [Readers -> StoredState]
      /\ holder \in Processes \union {Nobody} /\ events \in Seq(Nat)
      /\ LeaseInv /\ StateInv
      /\ stored.status \in {"Running"} \union TerminalStatus
  BY DEF TypeOK, ProcessesOK, FilesOK, ReadingOK, Processes, JournalInv,
         StoredState
<1>1. CASE StartRead(r) \/ OpenOwner(r)
  BY <1>0, <1>1 DEF StartRead, OpenOwner, files
<1>2. CASE CreateMissingOwner(r)
  BY <1>0, <1>2 DEF CreateMissingOwner, files
<1>3. CASE Reread(r)
  BY <1>0, <1>3 DEF Reread, files
<1>4. CASE Scan(r)
  <2>1. CASE /\ seen' = [seen EXCEPT ![r] = State("Running", Len(events))]
             /\ Goto(r, "repair")
             /\ UNCHANGED holder
    <3>1. seen'[r].count = Len(events)
      BY <1>0, <2>1 DEF State
    <3>2. \A q \in Readers \ {r} : seen'[q] = seen[q]
      BY <1>0, <2>1
    <3>. QED BY <1>0, <1>4, <2>1, <3>1, <3>2 DEF Scan, files
  <2>2. CASE seen' = seen /\ Goto(r, "idle") /\ holder' = Nobody
    BY <1>0, <1>4, <2>2 DEF Scan, files
  <2>. QED BY <1>4, <2>1, <2>2 DEF Scan
<1>5. CASE Repair(r)
  BY <1>0, <1>5, RepairKeepsEvents DEF Repair
<1>6. CASE PublishInterrupted(r)
  BY <1>0, <1>6 DEF PublishInterrupted, State
<1>7. CASE ReleaseOwner(r) \/ RemoveOwner(r, "events") \/ ReadEvents(r) \/ EndReader(r)
  BY <1>0, <1>7 DEF ReleaseOwner, RemoveOwner, ReadEvents, EndReader, files
<1>. QED BY <1>1, <1>2, <1>3, <1>4, <1>5, <1>6, <1>7 DEF ReaderStep

LEMMA OtherLease ==
    JournalInv /\ (LosePower \/ UNCHANGED vars) => LeaseInv' /\ StateInv'
  BY ProcessAssumption
     DEF JournalInv, TypeOK, ProcessesOK, LeaseInv, StateInv, WriterLeased, ReaderLeased, LosePower,
         Processes, Terminal, vars, files, lock, memory, reading

LEMMA StepInv == JournalInv /\ [Next]_vars => JournalInv'
  BY TypeStep, WriterLease, ReaderLease, OtherLease DEF JournalInv, Next, Quiescent

---------------------------------------------------------------------------
(* Theorems *)

\* The invariant of the journal holds throughout.
THEOREM JournalInvariant == Spec => []JournalInv
<1>. QED BY InitInv, StepInv, PTL DEF Spec

\* The variables of the journal have their types, whatever fails.
THEOREM JournalTypes == Spec => []TypeOK
<1>1. JournalInv => TypeOK
  BY DEF JournalInv
<1>. QED BY <1>1, JournalInvariant, PTL

\* The only steps that change a visible state: the writer's while it is ready,
\* and a reader's while it holds the lease of a Running one.
LEMMA StateChanges ==
    ASSUME JournalInv, [Next]_vars, stored' # stored
    PROVE  /\ stored.status = "Running"
           /\ \/ /\ visible /\ visible' /\ pc[Writer] = "ready"
                 /\ stored'.status \in {"Running"} \union Endings
                 /\ holder = Writer /\ holder' = Writer
              \/ /\ visible /\ visible' /\ pc[Writer] = "done"
                 /\ stored'.status = "Interrupted"
                 /\ holder # Writer /\ holder' # Writer
              \/ ~visible /\ ~visible' /\ stored'.status = "Running"
<1>. USE ProcessAssumption
     DEF StateInv, LeaseInv, WriterLeased, ReaderLeased, State
<1>0. /\ LeaseInv /\ StateInv
      /\ pc \in [Processes -> WriterLabel \union ReaderLabel]
      /\ stored.status \in {"Running"} \union TerminalStatus
  BY DEF JournalInv, TypeOK, ProcessesOK, FilesOK, StoredState
<1>1. CASE WriterStep
  BY <1>0, <1>1
     DEF WriterStep, CreateOwner, Prepare, PublishDirectory, OpenEvents, AbortStart,
         AppendEvent, FailAppend, DropEvent, MayAppend, Finish, Endings, FailFinish,
         AbandonWriter, ReleaseOwner, RemoveOwner, files, lock
<1>2. ASSUME NEW r \in Readers, StartRead(r) \/ ReaderStep(r) \/ EndReader(r)
      PROVE  PublishInterrupted(r) /\ stored' = State("Interrupted", seen[r].count)
  BY <1>2 DEF StartRead, ReaderStep, OpenOwner, CreateMissingOwner, Reread, Scan, Repair,
              PublishInterrupted, ReleaseOwner, RemoveOwner, ReadEvents, EndReader, files
<1>3. ASSUME NEW r \in Readers, PublishInterrupted(r),
             stored' = State("Interrupted", seen[r].count)
      PROVE  /\ stored.status = "Running" /\ visible /\ visible'
             /\ stored'.status = "Interrupted"
             /\ pc[Writer] = "done" /\ holder # Writer /\ holder' # Writer
  BY <1>0, <1>3 DEF PublishInterrupted, Terminal, TerminalStatus, Endings
<1>4. ~LosePower /\ ~UNCHANGED vars
  BY DEF LosePower, vars, files
<1>. QED BY <1>1, <1>2, <1>3, <1>4 DEF Next, Quiescent

\* A published ending is never replaced.
THEOREM EndingsAreKept == Spec => EndingIsKept
<1>1. JournalInv /\ [Next]_vars => [Terminal(stored) => stored' = stored]_stored
  BY StateChanges DEF Terminal, TerminalStatus, Endings
<1>. QED BY <1>1, JournalInvariant, PTL DEF Spec, EndingIsKept

\* No reader declares a run interrupted while its writer can still write.
THEOREM InterruptedAreAbandoned == Spec => InterruptedIsAbandoned
<1>1. JournalInv /\ [Next]_vars =>
        [stored'.status = "Interrupted" => pc[Writer] = "done" \/ stored' = stored]_stored
  BY StateChanges DEF Endings
<1>. QED BY <1>1, JournalInvariant, PTL DEF Spec, InterruptedIsAbandoned

---------------------------------------------------------------------------
(* Completeness *)

\* The events are in order; an incomplete line is left by a power loss, or by a
\* failed write, which makes the ending Failed; and whoever publishes another
\* ending has synced the events.
Sound == stored.status = "Failed" => "append" \notin faults

CompleteInv ==
    /\ Contiguous
    /\ pc[Writer] # "done" /\ ~truncated /\ ~writeError
         => sequence = Len(events)
    /\ tail => \/ pc[Writer] = "done" /\ stored.status = "Running"
               \/ "append" \in faults
                  /\ (stored.status = "Running" => writeError)
                  /\ stored.status \in {"Running", "Failed"}
    /\ Terminal(stored) /\ Sound
         => stored.count = Len(events) /\ synced = Len(events)
    /\ \A r \in Readers : pc[r] = "publish" => ~tail /\ synced = Len(events)

\* What a power loss leaves of contiguous events is contiguous.
LEMMA PowerComplete ==
    ASSUME JournalInv, CompleteInv, LosePower, UNCHANGED faults
    PROVE  CompleteInv'
<1>. USE DEF JournalInv, TypeOK, FilesOK
<1>1. PICK n \in synced .. Len(events) :
        events' = SubSeq(events, 1, n) /\ (tail' = FALSE \/ tail \/ n < Len(events))
  BY DEF LosePower
<1>2. n \in 0 .. Len(events) /\ events \in Seq(Nat)
  OBVIOUS
<1>3. Contiguous'
  <2>1. /\ events' \in Seq(Nat) /\ Len(events') = n
        /\ \A i \in 1 .. n : events'[i] = events[i]
    BY <1>1, <1>2, PrefixFacts
  <2>2. \A i \in 1 .. n : events[i] = i
    BY <1>2 DEF CompleteInv, Sound, Contiguous
  <2>. QED BY <1>2, <2>1, <2>2 DEF Contiguous
<1>4. /\ pc'[Writer] = "done"
      /\ \A r \in Readers : pc'[r] = "idle"
      /\ stored' = stored /\ synced' = synced
  BY ProcessAssumption DEF LosePower, Processes, ProcessesOK
<1>5. Terminal(stored) /\ Sound => ~tail' /\ events' = events
  <2>. SUFFICES ASSUME Terminal(stored), Sound PROVE ~tail' /\ events' = events
    OBVIOUS
  <2>1. n = Len(events) /\ ~tail
    BY <1>2 DEF CompleteInv, Sound, Terminal, TerminalStatus, Endings
  <2>. QED BY <1>1, <1>2, <2>1, WholeSequence
<1>6. stored.status = "Running" \/ Terminal(stored)
  BY DEF StoredState, Terminal
<1>7. tail' => \/ stored.status = "Running"
               \/ "append" \in faults /\ stored.status = "Failed"
  BY <1>5, <1>6 DEF CompleteInv, Sound
<1>. QED BY <1>3, <1>4, <1>5, <1>6, <1>7 DEF CompleteInv, Sound, Terminal, TerminalStatus, Endings

LEMMA AppendComplete ==
    ASSUME JournalInv, CompleteInv, AppendEvent, UNCHANGED faults
    PROVE  CompleteInv'
<1>1. /\ events \in Seq(Nat) /\ sequence \in Nat
      /\ pc[Writer] = "ready" /\ ~truncated /\ sequence = Len(events) /\ ~tail
      /\ stored.status = "Running" /\ \A r \in Readers : pc[r] # "publish"
  BY ProcessAssumption
     DEF JournalInv, TypeOK, FilesOK, LeaseInv, StateInv, CompleteInv, AppendEvent,
         MayAppend, HasRoom, WriterLeased, ReaderLeased
<1>2. /\ events' = Append(events, Len(events) + 1)
      /\ sequence' = sequence + 1 /\ ~tail'
      /\ UNCHANGED <<stored, pc, truncated>>
  BY <1>1 DEF AppendEvent
<1>3. Len(events') = Len(events) + 1 /\ Contiguous'
  BY <1>1, <1>2 DEF CompleteInv, Sound, Contiguous
<1>. QED BY <1>1, <1>2, <1>3 DEF CompleteInv, Sound, Terminal, TerminalStatus, Endings

LEMMA CompleteStep ==
    ASSUME JournalInv, CompleteInv, [Next]_vars
    PROVE  CompleteInv'
<1>. USE ProcessAssumption
<1>0. /\ LeaseInv /\ StateInv
      /\ pc \in [Processes -> WriterLabel \union ReaderLabel]
      /\ Writer \in Processes /\ Readers \subseteq Processes
      /\ events \in Seq(Nat) /\ stored.status \in {"Running"} \union TerminalStatus
      /\ faults' = faults
  BY DEF JournalInv, TypeOK, ProcessesOK, FilesOK, StoredState, Processes, Next,
         Quiescent, vars
<1>1. CASE WriterStep /\ ~AppendEvent
  BY <1>0, <1>1
     DEF CompleteInv, Sound, Contiguous, LeaseInv, StateInv, WriterLeased, ReaderLeased, State,
         Terminal, TerminalStatus, Endings, Goto, WriterStep, CreateOwner, Prepare,
         PublishDirectory, OpenEvents, AbortStart, FailAppend, DropEvent, MayAppend,
         Finish, FailFinish, AbandonWriter, ReleaseOwner, RemoveOwner, files, memory
<1>2. ASSUME NEW r \in Readers, Repair(r) PROVE CompleteInv'
  BY <1>0, <1>2, RepairKeepsEvents
     DEF CompleteInv, Sound, Contiguous, StateInv, Terminal, TerminalStatus, Repair, Goto, memory
<1>3. ASSUME NEW r \in Readers, PublishInterrupted(r) PROVE CompleteInv'
  BY <1>0, <1>3
     DEF CompleteInv, Sound, Contiguous, LeaseInv, StateInv, ReaderLeased, State, Terminal,
         TerminalStatus, PublishInterrupted, Goto, memory
<1>4. ASSUME NEW r \in Readers,
             \/ StartRead(r) \/ OpenOwner(r) \/ CreateMissingOwner(r) \/ Reread(r)
             \/ Scan(r) \/ ReleaseOwner(r) \/ RemoveOwner(r, "events")
             \/ ReadEvents(r) \/ EndReader(r)
      PROVE  CompleteInv'
  BY <1>0, <1>4
     DEF CompleteInv, Sound, Contiguous, Terminal, StartRead, OpenOwner, CreateMissingOwner,
         Reread, Scan, ReleaseOwner, RemoveOwner, ReadEvents, EndReader, Goto, files,
         memory
<1>5. CASE UNCHANGED vars
  BY <1>5 DEF CompleteInv, Sound, Contiguous, Terminal, vars, files, memory
<1>. QED BY <1>1, <1>2, <1>3, <1>4, <1>5, AppendComplete, PowerComplete
         DEF Next, WriterStep, ReaderStep, Quiescent

\* A published ending, unless a failed write of events.jsonl made it Failed,
\* counts exactly the events that are there, and they survive crashes and power
\* losses.
THEOREM EndingsAreComplete == Spec => []EndingIsComplete
<1>1. Init => CompleteInv
  BY DEF Init, CompleteInv, Sound, Contiguous, State, Terminal, TerminalStatus, Endings
<1>2. JournalInv /\ CompleteInv /\ [Next]_vars => CompleteInv'
  BY CompleteStep
<1>3. JournalInv /\ CompleteInv => EndingIsComplete
  BY DEF CompleteInv, Sound, EndingIsComplete, Terminal, TerminalStatus, Endings
<1>. QED BY <1>1, <1>2, <1>3, JournalInvariant, PTL DEF Spec

---------------------------------------------------------------------------
(* Refusals *)

\* The state counts events that a power loss took.
Short == stored.count > Len(events)

\* What a reader has seen still tells what it will find: a Running state counts
\* no more events than there are, an ending is the one on disk, and what a holder
\* of the lease repairs or publishes is whole.
SeenInv ==
    \A r \in Readers :
        /\ pc[r] = "scan" => seen[r] = stored
        /\ pc[r] \in {"repair", "publish"} => ~Short
        /\ pc[r] # "idle" /\ seen[r].status = "Running"
             => seen[r].count <= Len(events) \/ Short
        /\ pc[r] # "idle" /\ seen[r].status # "Running" => seen[r] = stored

\* Nothing but a failed write or a power loss makes an ending and its events
\* differ.
CountInv ==
    /\ Short => pc[Writer] = "done"
    /\ Terminal(stored) => \/ writeError \/ Short
                           \/ stored.count = Len(events) /\ ~tail

RefusedInv == \A r \in Readers : answer[r] = "invalid" => writeError \/ Short

ReadInv == SeenInv /\ CountInv /\ RefusedInv

\* What a power loss leaves of the events.
LEMMA PowerLength ==
    ASSUME JournalInv, LosePower
    PROVE  /\ Len(events') \in Nat /\ Len(events') <= Len(events)
           /\ Len(events') = Len(events) => ~tail' \/ tail
           /\ stored' = stored /\ writeError' = writeError
           /\ pc'[Writer] = "done" /\ \A r \in Readers : pc'[r] = "idle"
<1>1. PICK n \in synced .. Len(events) :
        /\ events' = SubSeq(events, 1, n)
        /\ \/ tail' = FALSE
           \/ tail' = TRUE /\ (tail \/ n < Len(events))
  BY Zenon DEF LosePower
<1>2. n \in 0 .. Len(events) /\ events \in Seq(Nat)
  BY DEF JournalInv, TypeOK, FilesOK
<1>3. Len(events') = n
  BY <1>1, <1>2, PrefixFacts
<1>4. ~(Len(events) < Len(events))
  BY <1>2
<1>5. Len(events') = Len(events) => ~tail' \/ tail
  BY <1>1, <1>3, <1>4, Zenon
<1>6. stored' = stored /\ writeError' = writeError
  BY DEF LosePower, memory
<1>7. pc'[Writer] = "done" /\ \A r \in Readers : pc'[r] = "idle"
  BY ProcessAssumption DEF LosePower, Processes
<1>. QED BY <1>2, <1>3, <1>5, <1>6, <1>7

\* A failed write is not forgotten, and events that were lost stay lost.
LEMMA DamageStays ==
    ASSUME JournalInv, ReadInv, [Next]_vars
    PROVE  (writeError => writeError') /\ (Short => Short')
<1>. USE DEF Short
<1>0. /\ LeaseInv /\ StateInv /\ SeenInv /\ CountInv
      /\ events \in Seq(Nat) /\ stored.count \in Nat
  BY DEF JournalInv, ReadInv, TypeOK, FilesOK, StoredState
<1>1. CASE WriterStep
  BY <1>0, <1>1
     DEF CountInv, WriterStep, CreateOwner, Prepare, PublishDirectory, OpenEvents,
         AbortStart, AppendEvent, FailAppend, DropEvent, MayAppend, Finish, FailFinish,
         AbandonWriter, ReleaseOwner, RemoveOwner, files, memory
<1>2. ASSUME NEW r \in Readers, StartRead(r) \/ ReaderStep(r) \/ EndReader(r)
      PROVE  (writeError => writeError') /\ (Short => Short')
  BY <1>0, <1>2, RepairKeepsEvents
     DEF SeenInv, StartRead, ReaderStep, OpenOwner, CreateMissingOwner, Reread, Scan,
         Repair, PublishInterrupted, ReleaseOwner, RemoveOwner, ReadEvents, EndReader,
         files, memory
<1>3. CASE LosePower
  BY <1>0, <1>3, PowerLength
<1>4. CASE UNCHANGED vars
  BY <1>4 DEF vars, files, memory
<1>. QED BY <1>1, <1>2, <1>3, <1>4 DEF Next, Quiescent

LEMMA CountStep ==
    ASSUME JournalInv, CompleteInv, ReadInv, [Next]_vars
    PROVE  CountInv'
<1>. USE DEF CountInv, Short
<1>0. /\ LeaseInv /\ StateInv /\ SeenInv /\ CountInv
      /\ pc \in [Processes -> WriterLabel \union ReaderLabel]
      /\ Writer \in Processes /\ Readers \subseteq Processes /\ Writer \notin Readers
      /\ events \in Seq(Nat) /\ stored.count \in Nat
  BY ProcessAssumption
     DEF JournalInv, ReadInv, TypeOK, FilesOK, StoredState, ProcessesOK, Processes
<1>1. CASE WriterStep
  BY <1>0, <1>1
     DEF CompleteInv, StateInv, State, Terminal, TerminalStatus, Endings, WriterStep,
         CreateOwner, Prepare, PublishDirectory, OpenEvents, AbortStart, AppendEvent,
         FailAppend, DropEvent, MayAppend, Finish, FailFinish, AbandonWriter,
         ReleaseOwner, RemoveOwner, Goto, files, memory
<1>2. ASSUME NEW r \in Readers, Repair(r) PROVE CountInv'
  BY <1>0, <1>2, RepairKeepsEvents DEF Repair, Goto, memory
<1>3. ASSUME NEW r \in Readers, PublishInterrupted(r) PROVE CountInv'
  BY <1>0, <1>3 DEF CompleteInv, StateInv, State, PublishInterrupted, Goto, memory
<1>4. ASSUME NEW r \in Readers,
             \/ StartRead(r) \/ OpenOwner(r) \/ CreateMissingOwner(r) \/ Reread(r)
             \/ Scan(r) \/ ReleaseOwner(r) \/ RemoveOwner(r, "events")
             \/ ReadEvents(r) \/ EndReader(r)
      PROVE  CountInv'
  BY <1>0, <1>4
     DEF Terminal, StartRead, OpenOwner, CreateMissingOwner, Reread, Scan, ReleaseOwner,
         RemoveOwner, ReadEvents, EndReader, Goto, files, memory
<1>5. CASE LosePower
  BY <1>0, <1>5, PowerLength DEF Terminal, JournalInv, TypeOK, FlagsOK
<1>6. CASE UNCHANGED vars
  BY <1>0, <1>6 DEF Terminal, vars, files, memory
<1>. QED BY <1>1, <1>2, <1>3, <1>4, <1>5, <1>6 DEF Next, ReaderStep, Quiescent

LEMMA SeenStep ==
    ASSUME JournalInv, ReadInv, [Next]_vars
    PROVE  SeenInv'
<1>. USE DEF SeenInv, Short
<1>0. /\ LeaseInv /\ StateInv /\ SeenInv /\ CountInv
      /\ pc \in [Processes -> WriterLabel \union ReaderLabel]
      /\ Writer \in Processes /\ Readers \subseteq Processes /\ Writer \notin Readers
      /\ Nobody \notin Processes
      /\ seen \in [Readers -> StoredState]
      /\ events \in Seq(Nat) /\ stored.count \in Nat
      /\ Short => Short'
  BY DamageStays, ProcessAssumption
     DEF JournalInv, ReadInv, TypeOK, FilesOK, ReadingOK, StoredState, ProcessesOK, Processes
<1>1. CASE WriterStep
  BY <1>0, <1>1
     DEF LeaseInv, StateInv, WriterLeased, ReaderLeased, CountInv, StoredState, WriterStep,
         CreateOwner, Prepare, PublishDirectory, OpenEvents, AbortStart, AppendEvent,
         FailAppend, DropEvent, MayAppend, Finish, FailFinish, AbandonWriter,
         ReleaseOwner, RemoveOwner, Goto, files, reading
<1>2. ASSUME NEW r \in Readers, Repair(r) PROVE SeenInv'
  BY <1>0, <1>2, RepairKeepsEvents DEF Repair, Goto, reading
<1>3. ASSUME NEW r \in Readers, PublishInterrupted(r) PROVE SeenInv'
  BY <1>0, <1>3 DEF LeaseInv, StateInv, ReaderLeased, State, PublishInterrupted, Goto
<1>4. ASSUME NEW r \in Readers, StartRead(r) \/ Reread(r) \/ Scan(r) PROVE SeenInv'
  BY <1>0, <1>4 DEF State, StartRead, Reread, Scan, Goto, files
<1>5. ASSUME NEW r \in Readers,
             \/ OpenOwner(r) \/ CreateMissingOwner(r) \/ ReleaseOwner(r)
             \/ RemoveOwner(r, "events") \/ ReadEvents(r) \/ EndReader(r)
      PROVE  SeenInv'
  BY <1>0, <1>5
     DEF OpenOwner, CreateMissingOwner, ReleaseOwner, RemoveOwner, ReadEvents, EndReader,
         Goto, files, reading
<1>6. CASE LosePower
  BY <1>6, PowerLength
<1>7. CASE UNCHANGED vars
  BY <1>0, <1>7 DEF vars, files, reading
<1>. QED BY <1>1, <1>2, <1>3, <1>4, <1>5, <1>6, <1>7 DEF Next, ReaderStep, Quiescent

LEMMA RefusedStep ==
    ASSUME JournalInv, CompleteInv, ReadInv, [Next]_vars
    PROVE  RefusedInv'
<1>0. /\ CompleteInv /\ SeenInv /\ CountInv /\ RefusedInv
      /\ stored.status \in {"Running"} \union TerminalStatus
      /\ answer \in [Readers -> {"none", "ok", "invalid", "failed"}]
      /\ (writeError \/ Short) => (writeError \/ Short)'
      /\ stored.count \in Nat /\ events \in Seq(Nat)
  BY DamageStays DEF JournalInv, ReadInv, TypeOK, FilesOK, ReadingOK, StoredState
<1>1. ASSUME NEW r \in Readers, Scan(r), ~(Contiguous /\ seen[r].count <= Len(events))
      PROVE  Short
  BY <1>0, <1>1 DEF Scan, CompleteInv, SeenInv, Short
<1>2. ASSUME NEW r \in Readers, ReadEvents(r), ~EventsMatch(seen[r])
      PROVE  writeError \/ Short
  BY <1>0, <1>2
     DEF ReadEvents, EventsMatch, CompleteInv, SeenInv, CountInv, Terminal, Short
<1>3. \A r \in Readers : answer'[r] = "invalid" => answer[r] = "invalid" \/ writeError \/ Short
  <2>1. CASE WriterStep \/ LosePower \/ UNCHANGED vars
    BY <2>1 DEF WriterStep, CreateOwner, Prepare, PublishDirectory, OpenEvents, AbortStart,
                AppendEvent, FailAppend, DropEvent, Finish, FailFinish, AbandonWriter,
                ReleaseOwner, RemoveOwner, LosePower, vars, reading
  <2>2. ASSUME NEW r \in Readers, Scan(r) \/ ReadEvents(r) \/ PublishInterrupted(r)
        PROVE  answer'[r] = "invalid" => answer[r] = "invalid" \/ writeError \/ Short
    BY <1>0, <1>1, <1>2, <2>2 DEF Scan, ReadEvents, PublishInterrupted
  <2>3. ASSUME NEW r \in Readers, Scan(r) \/ ReadEvents(r) \/ PublishInterrupted(r),
               NEW q \in Readers \ {r}
        PROVE  answer'[q] = answer[q]
    BY <1>0, <2>3 DEF Scan, ReadEvents, PublishInterrupted
  <2>4. ASSUME NEW r \in Readers,
               \/ StartRead(r) \/ OpenOwner(r) \/ CreateMissingOwner(r) \/ Reread(r)
               \/ Repair(r) \/ ReleaseOwner(r) \/ RemoveOwner(r, "events") \/ EndReader(r)
        PROVE  answer' = answer
    BY <2>4 DEF StartRead, OpenOwner, CreateMissingOwner, Reread, Repair, ReleaseOwner,
                RemoveOwner, EndReader, reading
  <2>. QED BY <2>1, <2>2, <2>3, <2>4 DEF Next, ReaderStep, Quiescent
<1>. QED BY <1>0, <1>3 DEF RefusedInv

---------------------------------------------------------------------------
(* The lock file of an ended run *)

\* Whoever closes the lock file of an ended run removes it, if no process ends
\* and no publication fails meanwhile.
LockInv ==
    Undisturbed /\ Terminal(stored) /\ lockFile /\ holder = Nobody
        => \E p \in Processes : pc[p] = "remove"

LEMMA LockStep ==
    ASSUME JournalInv, LockInv, [Next]_vars
    PROVE  LockInv'
<1>. SUFFICES ASSUME Undisturbed, Terminal(stored)', lockFile', holder' = Nobody
              PROVE  \E p \in Processes : pc'[p] = "remove"
  BY DEF LockInv, Undisturbed, Next, Quiescent, vars
<1>. USE DEF LockInv, Terminal
<1>0. /\ LeaseInv /\ StateInv
      /\ pc \in [Processes -> WriterLabel \union ReaderLabel]
      /\ Writer \in Processes /\ Readers \subseteq Processes /\ Writer \notin Readers
      /\ Nobody \notin Processes
      /\ "crash" \notin faults /\ "publish" \notin faults /\ "power" \notin faults
      /\ stored.status \in {"Running"} \union TerminalStatus
  BY ProcessAssumption
     DEF JournalInv, TypeOK, ProcessesOK, FilesOK, StoredState, Processes, Undisturbed
<1>1. CASE WriterStep
  BY <1>0, <1>1
     DEF LeaseInv, StateInv, WriterLeased, ReaderLeased, State, TerminalStatus, Endings, WriterStep,
         CreateOwner, Prepare, PublishDirectory, OpenEvents, AbortStart, AppendEvent,
         FailAppend, DropEvent, MayAppend, Finish, FailFinish, AbandonWriter,
         ReleaseOwner, RemoveOwner, DropHandle, CloseLock, Goto, files, lock
<1>2. ASSUME NEW r \in Readers, StartRead(r) \/ ReaderStep(r) \/ EndReader(r)
      PROVE  \E p \in Processes : pc'[p] = "remove"
  BY <1>0, <1>2
     DEF LeaseInv, StateInv, WriterLeased, ReaderLeased, TerminalStatus, Endings,
         StartRead, ReaderStep, OpenOwner, CreateMissingOwner, Reread, Scan, Repair,
         PublishInterrupted, ReleaseOwner, RemoveOwner, ReadEvents, EndReader, DropHandle,
         CloseLock, Goto, files, lock
<1>3. CASE UNCHANGED vars
  BY <1>3 DEF vars, files, lock
<1>. QED BY <1>0, <1>1, <1>2, <1>3 DEF Next, Quiescent, LosePower

---------------------------------------------------------------------------
(* Safety *)

\* A run is refused by its readers only after a write of its events failed or a
\* power loss took some that were counted, and an ended run's lock file does not
\* outlast the processes that release it.
THEOREM JournalIsSafe == Spec => []JournalSafety
<1>1. Init => CompleteInv /\ ReadInv /\ LockInv
  BY DEF Init, CompleteInv, Sound, Contiguous, State, Terminal, TerminalStatus, Endings,
         ReadInv, SeenInv, CountInv, RefusedInv, LockInv, Short
<1>2. JournalInv /\ CompleteInv /\ ReadInv /\ LockInv /\ [Next]_vars
        => (CompleteInv /\ ReadInv /\ LockInv)'
  BY CompleteStep, CountStep, SeenStep, RefusedStep, LockStep DEF ReadInv
<1>3. JournalInv /\ ReadInv /\ LockInv => JournalSafety
  <2>. SUFFICES ASSUME JournalInv, ReadInv, LockInv
                PROVE  RefusedOnlyIfDamaged /\ LockIsRemoved
    BY DEF JournalInv, JournalSafety
  <2>1. RefusedOnlyIfDamaged
    BY DEF RefusedOnlyIfDamaged, ReadInv, RefusedInv, Short
  <2>2. LockIsRemoved
    BY DEF LockIsRemoved, LockInv, JournalInv, LeaseInv, ReaderLeased, WriterLeased, TypeOK,
           ProcessesOK, Processes
  <2>. QED BY <2>1, <2>2
<1>. QED BY <1>1, <1>2, <1>3, JournalInvariant, PTL DEF Spec

---------------------------------------------------------------------------
(* Refinement *)

\* The run appears while its writer has the lease, and a visible run that the
\* writer has left is never taken up again.
LEMMA OwnerChanges ==
    ASSUME JournalInv, [Next]_vars
    PROVE  /\ visible' # visible => /\ ~visible /\ visible' = TRUE
                                    /\ stored.status = "Running"
                                    /\ holder = Writer /\ holder' = Writer
           /\ visible /\ holder # Writer => holder' # Writer
<1>. USE ProcessAssumption DEF StateInv, LeaseInv, WriterLeased, ReaderLeased
<1>0. LeaseInv /\ StateInv
  BY DEF JournalInv
<1>1. CASE WriterStep
  BY <1>0, <1>1
     DEF WriterStep, CreateOwner, Prepare, PublishDirectory, OpenEvents, AbortStart,
         AppendEvent, FailAppend, DropEvent, Finish, FailFinish, AbandonWriter,
         ReleaseOwner, RemoveOwner, files, lock, CloseLock, DropHandle
<1>2. ASSUME NEW r \in Readers, StartRead(r) \/ ReaderStep(r) \/ EndReader(r)
      PROVE  UNCHANGED visible /\ holder' \in {holder, Nobody, r}
  BY <1>2 DEF StartRead, ReaderStep, OpenOwner, CreateMissingOwner, Reread, Scan, Repair,
              PublishInterrupted, ReleaseOwner, RemoveOwner, ReadEvents, EndReader, files,
              lock, CloseLock, DropHandle
<1>3. CASE LosePower \/ UNCHANGED vars
  BY <1>3 DEF LosePower, vars, files, lock
<1>. QED BY <1>1, <1>2, <1>3 DEF Next, Quiescent

\* The journal implements the abstract record of a run.
THEOREM JournalImplementsRecord == Spec => ImplementsRecord
<1>1. Init => Record!Init
  BY DEF Init, Record!Init
<1>2. JournalInv /\ [Next]_vars =>
        [Record!Next]_<<IF visible THEN stored.status ELSE "none",
                        IF ~visible THEN "none"
                        ELSE IF holder = Writer THEN "present" ELSE "gone">>
  <2>. SUFFICES ASSUME JournalInv, [Next]_vars
                PROVE  [Record!Next]_<<IF visible THEN stored.status ELSE "none",
                         IF ~visible THEN "none"
                         ELSE IF holder = Writer THEN "present" ELSE "gone">>
    OBVIOUS
  <2>. USE DEF Record!Next, Record!Begin, Record!End, Record!Leave, Record!Interrupt,
               Record!Endings
  <2>1. CASE stored' # stored
    BY <2>1, StateChanges DEF Endings
  <2>2. CASE stored' = stored /\ visible' = visible
    <3>1. CASE visible /\ holder # Writer
      <4>1. holder' # Writer
        BY <3>1, OwnerChanges
      <4>. QED BY <2>2, <3>1, <4>1
    <3>2. CASE visible /\ holder = Writer
      BY <2>2, <3>2
    <3>3. CASE ~visible
      BY <2>2, <3>3
    <3>. QED BY <3>1, <3>2, <3>3
  <2>3. CASE stored' = stored /\ visible' # visible
    BY <2>3, OwnerChanges
  <2>. QED BY <2>1, <2>2, <2>3
<1>. QED BY <1>1, <1>2, JournalInvariant, PTL DEF Spec, ImplementsRecord, Record!Spec
-----------------------------------------------------------------------------
(* Induction and recursion over sequences.  The theorems about them        *)
(* in the library take an operator, which no prover can be given;          *)
(* here a set takes its place.                                             *)

\* The order induction uses.
Less == {p \in Nat \X Nat : p[1] < p[2]}

\* A set of numbers that is not empty has a least member.
LEMMA LeastNatural ==
    ASSUME NEW S, S \subseteq Nat, S # {}
    PROVE  \E m \in S : \A n \in S : m <= n
<1>1. OpToRel(<, Nat) = Less
  BY DEF OpToRel, Less
<1>2. IsWellFoundedOn(Less, Nat)
  BY <1>1, NatLessThanWellFounded
<1>3. PICK m \in S : \A n \in S : <<n, m>> \notin Less
  BY <1>2, WFMin
<1>4. ASSUME NEW n \in S PROVE m <= n
  <2>1. <<n, m>> \in Nat \X Nat /\ <<n, m>>[1] = n /\ <<n, m>>[2] = m OBVIOUS
  <2>2. ~(n < m) BY <1>3, <2>1 DEF Less
  <2>. QED BY <2>2
<1>. QED BY <1>4

\* A set in which each element is in P if all smaller ones are lies within P.
LEMMA SizeInduction ==
    ASSUME NEW S, NEW size \in [S -> Nat], NEW P,
           \A x \in S : (\A y \in S : size[y] < size[x] => y \in P) => x \in P
    PROVE  S \subseteq P
<1> DEFINE Sizes == {size[x] : x \in S \ P}
<1>1. SUFFICES ASSUME S \ P # {} PROVE FALSE OBVIOUS
<1>2. PICK x \in S \ P : TRUE BY <1>1
<1>3. size[x] \in Sizes /\ Sizes \subseteq Nat OBVIOUS
<1>4. PICK k \in Sizes : \A l \in Sizes : k <= l
  <2>. HIDE DEF Sizes
  <2>. QED BY <1>3, LeastNatural
<1>5. PICK z \in S \ P : size[z] = k OBVIOUS
<1>6. \A y \in S : size[y] < size[z] => y \in P
  <2>1. SUFFICES ASSUME NEW y \in S, size[y] < size[z], y \notin P PROVE FALSE OBVIOUS
  <2>2. size[y] \in Sizes BY <2>1
  <2>3. k <= size[y] /\ size[y] \in Nat /\ k \in Nat BY <1>4, <1>5, <2>2
  <2>. QED BY <1>5, <2>1, <2>3
<1>. QED BY <1>5, <1>6

\* A body of a recursion: what it gives for x depends on smaller elements only.
Recursive(S, V, size, B) ==
  /\ V # {} /\ size \in [S -> Nat] /\ B \in [[S -> V] -> [S -> V]]
  /\ \A f, g \in [S -> V] : \A x \in S :
       (\A y \in S : size[y] < size[x] => f[y] = g[y]) => B[f][x] = B[g][x]

\* A function defined by recursion exists: the one CHOOSE takes.
LEMMA Recursion ==
    ASSUME NEW S, NEW V, NEW size, NEW B, Recursive(S, V, size, B)
    PROVE  \E f \in [S -> V] : f = B[f]
<1>. USE DEF Recursive
<1> DEFINE A(n) == {f \in [S -> V] : \A x \in S : size[x] < n => f[x] = B[f][x]}
<1>1. \A n \in Nat : A(n) # {}
  <2> DEFINE Empty == {n \in Nat : A(n) = {}}
  <2>1. SUFFICES ASSUME Empty # {} PROVE FALSE
    <3>. HIDE DEF A
    <3>. QED OBVIOUS
  <2>2. PICK n \in Empty : \A k \in Empty : n <= k
    <3>1. Empty \subseteq Nat OBVIOUS
    <3>. HIDE DEF Empty
    <3>. QED BY <2>1, <3>1, LeastNatural
  <2>3. n # 0
    <3>1. PICK v \in V : TRUE OBVIOUS
    <3>2. [x \in S |-> v] \in A(0) OBVIOUS
    <3>. QED BY <2>2, <3>2
  <2>4. PICK f \in A(n - 1) : TRUE
    <3>1. n \in Nat /\ n - 1 \in Nat /\ ~(n <= n - 1) BY <2>2, <2>3
    <3>2. n - 1 \notin Empty BY <2>2, <3>1
    <3>. HIDE DEF A
    <3>. QED BY <3>1, <3>2
  <2> DEFINE g == [x \in S |-> IF size[x] = n - 1 THEN B[f][x] ELSE f[x]]
  <2>5. g \in [S -> V] OBVIOUS
  <2>6. ASSUME NEW x \in S, size[x] < n PROVE g[x] = B[g][x]
    <3>1. g[x] = B[f][x]
      BY <2>3, <2>6
    <3>2. \A y \in S : size[y] < size[x] => f[y] = g[y]
      BY <2>6
    <3>3. f \in [S -> V] BY <2>4
    <3>. HIDE DEF g, A
    <3>4. B[f][x] = B[g][x] BY <2>5, <3>2, <3>3
    <3>. QED BY <3>1, <3>4
  <2>7. g \in A(n) BY <2>5, <2>6
  <2>. QED BY <2>2, <2>7
<1>2. ASSUME NEW n \in Nat, NEW m \in Nat, NEW f \in A(n), NEW g \in A(m)
      PROVE  \A x \in S : size[x] < n /\ size[x] < m => f[x] = g[x]
  <2> DEFINE Differ == {x \in S : size[x] < n /\ size[x] < m /\ f[x] # g[x]}
             Sizes == {size[x] : x \in Differ}
  <2>1. SUFFICES ASSUME Differ # {} PROVE FALSE OBVIOUS
  <2>2. PICK k \in Sizes : \A l \in Sizes : k <= l
    <3>1. Sizes \subseteq Nat OBVIOUS
    <3>2. PICK x \in Differ : TRUE BY <2>1
    <3>3. size[x] \in Sizes OBVIOUS
    <3>. HIDE DEF Sizes
    <3>. QED BY <3>1, <3>3, LeastNatural
  <2>3. PICK x \in Differ : size[x] = k OBVIOUS
  <2>4. ASSUME NEW y \in S, size[y] < size[x] PROVE f[y] = g[y]
    <3>1. SUFFICES ASSUME y \in Differ PROVE FALSE
      <4>1. size[x] \in Nat /\ size[y] \in Nat /\ size[x] < n /\ size[x] < m BY <2>3
      <4>. QED BY <2>4, <4>1
    <3>2. size[y] \in Sizes BY <3>1
    <3>3. k <= size[y] BY <2>2, <3>2
    <3>. QED BY <2>3, <2>4, <3>3
  <2>5. f[x] = B[f][x] /\ g[x] = B[g][x] OBVIOUS
  <2>6. f \in [S -> V] /\ g \in [S -> V] OBVIOUS
  <2>. QED BY <2>3, <2>4, <2>5, <2>6
<1> DEFINE h(n) == CHOOSE f \in A(n) : TRUE
           F == [x \in S |-> h(size[x] + 1)[x]]
<1>3. \A n \in Nat : h(n) \in A(n) BY <1>1
<1>4. \A n \in Nat : h(n) \in [S -> V] BY <1>3
<1>5. F \in [S -> V]
  <2>1. ASSUME NEW x \in S PROVE h(size[x] + 1)[x] \in V
    <3>1. size[x] + 1 \in Nat OBVIOUS
    <3>2. h(size[x] + 1) \in [S -> V] BY <1>4, <3>1
    <3>. HIDE DEF h
    <3>. QED BY <3>2
  <2>. HIDE DEF h
  <2>. QED BY <2>1
<1>6. ASSUME NEW x \in S PROVE F[x] = B[F][x]
  <2> DEFINE n == size[x] + 1
  <2>1. n \in Nat /\ size[x] < n OBVIOUS
  <2>2. h(n) \in A(n) /\ h(n) \in [S -> V] BY <2>1, <1>3, <1>4
  <2>3. h(n)[x] = B[h(n)][x] BY <2>1, <2>2
  <2>4. ASSUME NEW y \in S, size[y] < size[x] PROVE h(n)[y] = F[y]
    <3>1. size[y] + 1 \in Nat /\ size[y] < size[y] + 1 /\ size[y] < n BY <2>4
    <3>2. h(size[y] + 1) \in A(size[y] + 1) BY <3>1, <1>3
    <3>. HIDE DEF h, A
    <3>. QED BY <1>2, <2>1, <2>2, <3>1, <3>2
  <2>5. B[h(n)][x] = B[F][x]
    <3>. HIDE DEF h, F, A, n
    <3>. QED BY <1>5, <2>2, <2>4
  <2>6. F[x] = h(n)[x] OBVIOUS
  <2>. QED BY <2>3, <2>5, <2>6
<1>7. F = B[F]
  <2>. HIDE DEF F, h, A
  <2>1. B[F] \in [S -> V] BY <1>5
  <2>. QED BY <1>5, <1>6, <2>1
<1>. QED BY <1>5, <1>7
-----------------------------------------------------------------------------
(* The recursive functions of CommandOutput: each is the one its           *)
(* equation defines                                                        *)

\* What Characters says of itself.
CharactersOf(f, bytes) ==
  IF bytes = <<>> THEN <<>>
  ELSE IF At(bytes, 1, <<"head", "tail">>)
  THEN <<"char">> \o f[From(bytes, 3)]
  ELSE <<IF bytes[1] \in {"head", "tail"} THEN "replacement" ELSE bytes[1]>>
       \o f[Tail(bytes)]

\* The rest of a sequence.
LEMMA FromProperties ==
    ASSUME NEW S, NEW s \in Seq(S), NEW i \in 1 .. Len(s) + 1
    PROVE  /\ From(s, i) \in Seq(S)
           /\ Len(From(s, i)) = Len(s) - i + 1
           /\ \A j \in 1 .. Len(s) - i + 1 : From(s, i)[j] = s[i + j - 1]
<1>1. Len(s) \in Nat /\ \A k \in 1 .. Len(s) : s[k] \in S
  BY LenProperties, ElementOfSeq
<1>2. \A k \in i .. Len(s) : s[k] \in S
  BY <1>1
<1>3. /\ SubSeq(s, i, Len(s)) \in Seq(S)
      /\ Len(SubSeq(s, i, Len(s))) = IF i <= Len(s) THEN Len(s) - i + 1 ELSE 0
      /\ \A j \in 1 .. Len(s) - i + 1 : SubSeq(s, i, Len(s))[j] = s[i + j - 1]
  BY <1>1, <1>2, SubSeqProperties
<1>. QED BY <1>1, <1>3 DEF From

\* Characters is defined on all bytes, by its equation.
LEMMA CharactersDefined ==
    /\ Characters \in [Seq(Bytes) -> Seq(Text)]
    /\ \A bytes \in Seq(Bytes) : Characters[bytes] = CharactersOf(Characters, bytes)
<1> DEFINE S == Seq(Bytes)
           V == Seq(Text)
           B == [f \in [S -> V] |-> [x \in S |-> CharactersOf(f, x)]]
           size == [x \in S |-> Len(x)]
<1>1. size \in [S -> Nat]
  BY LenProperties
<1>2. ASSUME NEW x \in S, x # <<>>
      PROVE  /\ Tail(x) \in S /\ Len(Tail(x)) < Len(x)
             /\ x[1] \in Bytes
             /\ At(x, 1, <<"head", "tail">>) => From(x, 3) \in S /\ Len(From(x, 3)) < Len(x)
  <2>1. Len(x) \in Nat \ {0} BY <1>2, EmptySeq
  <2>2. Tail(x) \in S /\ Len(Tail(x)) < Len(x) BY <1>2, <2>1, HeadTailProperties
  <2>3. x[1] \in Bytes BY <2>1, ElementOfSeq
  <2>4. ASSUME At(x, 1, <<"head", "tail">>) PROVE From(x, 3) \in S /\ Len(From(x, 3)) < Len(x)
    <3>1. 3 \in 1 .. Len(x) + 1 BY <2>1, <2>4 DEF At
    <3>. QED BY <2>1, <3>1, FromProperties
  <2>. QED BY <2>2, <2>3, <2>4
<1>3. ASSUME NEW f \in [S -> V], NEW x \in S PROVE CharactersOf(f, x) \in V
  <2>1. <<>> \in V BY EmptySeq
  <2>2. CASE x # <<>>
    <3>1. <<"char">> \in V BY DEF Text
    <3>2. <<IF x[1] \in {"head", "tail"} THEN "replacement" ELSE x[1]>> \in V
      BY <1>2, <2>2 DEF Text
    <3>3. f[Tail(x)] \in V BY <1>2, <2>2
    <3>4. At(x, 1, <<"head", "tail">>) => f[From(x, 3)] \in V BY <1>2, <2>2
    <3>. HIDE DEF V
    <3>. QED BY <2>2, <3>1, <3>2, <3>3, <3>4, ConcatProperties DEF CharactersOf, V
  <2>. QED BY <2>1, <2>2 DEF CharactersOf
<1>4. B \in [[S -> V] -> [S -> V]]
  BY <1>3
<1>5. ASSUME NEW f \in [S -> V], NEW g \in [S -> V], NEW x \in S,
             \A y \in S : size[y] < size[x] => f[y] = g[y]
      PROVE  B[f][x] = B[g][x]
  <2>1. x # <<>> => f[Tail(x)] = g[Tail(x)]
    BY <1>2, <1>5
  <2>2. x # <<>> /\ At(x, 1, <<"head", "tail">>) => f[From(x, 3)] = g[From(x, 3)]
    BY <1>2, <1>5
  <2>3. CharactersOf(f, x) = CharactersOf(g, x)
    BY <2>1, <2>2 DEF CharactersOf
  <2>. QED BY <2>3
<1>6. \E f \in [S -> V] : f = B[f]
  <2>1. V # {} BY EmptySeq
  <2>. HIDE DEF S, V, B, size
  <2>2. \A f, g \in [S -> V] : \A x \in S :
          (\A y \in S : size[y] < size[x] => f[y] = g[y]) => B[f][x] = B[g][x]
    BY <1>5
  <2>3. Recursive(S, V, size, B)
    BY <1>1, <1>4, <2>1, <2>2 DEF Recursive
  <2>. QED BY <2>3, Recursion
<1>7. Characters = [x \in S |-> CharactersOf(Characters, x)]
  <2>1. PICK f \in [S -> V] : f = [x \in S |-> CharactersOf(f, x)]
    BY <1>6
  <2>. QED BY <2>1 DEF Characters, CharactersOf
<1>8. \A x \in S : Characters[x] \in V
  <2> DEFINE P == {x \in S : Characters[x] \in V}
  <2>1. ASSUME NEW x \in S, \A y \in S : size[y] < size[x] => y \in P
        PROVE  x \in P
    <3> DEFINE f == [y \in S |-> IF y \in P THEN Characters[y] ELSE <<>>]
    <3>1. f \in [S -> V] BY EmptySeq
    <3>2. CharactersOf(f, x) = CharactersOf(Characters, x)
      <4>1. x # <<>> => f[Tail(x)] = Characters[Tail(x)]
        BY <1>2, <2>1
      <4>2. x # <<>> /\ At(x, 1, <<"head", "tail">>) => f[From(x, 3)] = Characters[From(x, 3)]
        BY <1>2, <2>1
      <4>. HIDE DEF f
      <4>. QED BY <4>1, <4>2 DEF CharactersOf
    <3>3. Characters[x] = CharactersOf(Characters, x) BY <1>7
    <3>4. CharactersOf(f, x) \in V BY <1>3, <3>1
    <3>. QED BY <3>2, <3>3, <3>4
  <2>2. S \subseteq P
    <3>. HIDE DEF S, P, size
    <3>. QED BY <1>1, <2>1, SizeInduction
  <2>. QED BY <2>2
<1>. QED BY <1>7, <1>8

\* What Original says of itself.
OriginalOf(f, shown) ==
  IF shown = <<>> THEN <<>>
  ELSE (IF Head(shown) = "progress" THEN Frame ELSE <<Head(shown)>>) \o f[Tail(shown)]

\* A recognized frame is text.
LEMMA FrameTyped == Frame \in Seq(Text) /\ Frame # <<>>
  BY DEF Frame, FramePrefix, Text, Bytes

\* Original is defined on all that can be shown, by its equation.
LEMMA OriginalDefined ==
    /\ Original \in [Seq(Shown) -> Seq(Text)]
    /\ \A shown \in Seq(Shown) : Original[shown] = OriginalOf(Original, shown)
<1> DEFINE S == Seq(Shown)
           V == Seq(Text)
           B == [f \in [S -> V] |-> [x \in S |-> OriginalOf(f, x)]]
           size == [x \in S |-> Len(x)]
<1>1. size \in [S -> Nat]
  BY LenProperties
<1>2. ASSUME NEW x \in S, x # <<>>
      PROVE  Tail(x) \in S /\ Len(Tail(x)) < Len(x) /\ Head(x) \in Shown
  BY <1>2, HeadTailProperties, LenProperties
<1>3. ASSUME NEW f \in [S -> V], NEW x \in S PROVE OriginalOf(f, x) \in V
  <2>1. <<>> \in V BY EmptySeq
  <2>2. CASE x # <<>>
    <3>1. (IF Head(x) = "progress" THEN Frame ELSE <<Head(x)>>) \in V
      BY <1>2, <2>2, FrameTyped DEF Shown
    <3>2. f[Tail(x)] \in V BY <1>2, <2>2
    <3>. HIDE DEF V
    <3>. QED BY <2>2, <3>1, <3>2, ConcatProperties DEF OriginalOf, V
  <2>. QED BY <2>1, <2>2 DEF OriginalOf
<1>4. B \in [[S -> V] -> [S -> V]]
  BY <1>3
<1>5. ASSUME NEW f \in [S -> V], NEW g \in [S -> V], NEW x \in S,
             \A y \in S : size[y] < size[x] => f[y] = g[y]
      PROVE  B[f][x] = B[g][x]
  <2>1. x # <<>> => f[Tail(x)] = g[Tail(x)]
    BY <1>2, <1>5
  <2>2. OriginalOf(f, x) = OriginalOf(g, x)
    BY <2>1 DEF OriginalOf
  <2>. QED BY <2>2
<1>6. \E f \in [S -> V] : f = B[f]
  <2>1. V # {} BY EmptySeq
  <2>. HIDE DEF S, V, B, size
  <2>2. \A f, g \in [S -> V] : \A x \in S :
          (\A y \in S : size[y] < size[x] => f[y] = g[y]) => B[f][x] = B[g][x]
    BY <1>5
  <2>3. Recursive(S, V, size, B)
    BY <1>1, <1>4, <2>1, <2>2 DEF Recursive
  <2>. QED BY <2>3, Recursion
<1>7. Original = [x \in S |-> OriginalOf(Original, x)]
  <2>1. PICK f \in [S -> V] : f = [x \in S |-> OriginalOf(f, x)]
    BY <1>6
  <2>. QED BY <2>1 DEF Original, OriginalOf
<1>8. \A x \in S : Original[x] \in V
  <2> DEFINE P == {x \in S : Original[x] \in V}
  <2>1. ASSUME NEW x \in S, \A y \in S : size[y] < size[x] => y \in P
        PROVE  x \in P
    <3> DEFINE f == [y \in S |-> IF y \in P THEN Original[y] ELSE <<>>]
    <3>1. f \in [S -> V] BY EmptySeq
    <3>2. OriginalOf(f, x) = OriginalOf(Original, x)
      <4>1. x # <<>> => f[Tail(x)] = Original[Tail(x)]
        BY <1>2, <2>1
      <4>. HIDE DEF f
      <4>. QED BY <4>1 DEF OriginalOf
    <3>3. Original[x] = OriginalOf(Original, x) BY <1>7
    <3>4. OriginalOf(f, x) \in V BY <1>3, <3>1
    <3>. QED BY <3>2, <3>3, <3>4
  <2>2. S \subseteq P
    <3>. HIDE DEF S, P, size
    <3>. QED BY <1>1, <2>1, SizeInduction
  <2>. QED BY <2>2
<1>. QED BY <1>7, <1>8

\* What Drain says of itself.
DrainOf(drain, text, eof) ==
  LET after(n) == drain[From(text, n + 1)]
      pass(n, shown) == [after(n) EXCEPT !.shown = shown \o @]
      found == PrefixStarts(text)
      ends == LineFeeds(text)
  IN IF found = {}
     THEN LET n == Len(text) - IF eof THEN 0 ELSE PartialPrefix(text)
          IN [shown |-> SubSeq(text, 1, n), pending |-> From(text, n + 1)]
     ELSE IF 1 \notin found
     THEN pass(Min(found) - 1, SubSeq(text, 1, Min(found) - 1))
     ELSE IF ends # {}
     THEN pass(Min(ends), Recognize(SubSeq(text, 1, Min(ends))))
     ELSE IF eof \/ Len(text) > MaxFrame
     THEN [shown |-> text, pending |-> <<>>]
     ELSE [shown |-> <<>>, pending |-> text]

\* The type of what Drain gives.
Drained == [shown: Seq(Shown), pending: Seq(Text)]

\* Min gives the least member.
LEMMA MinOfNaturals ==
    ASSUME NEW S, S \subseteq Nat, S # {}
    PROVE  Min(S) \in S /\ \A n \in S : Min(S) <= n
  BY LeastNatural DEF Min

\* Text can be shown as it is.
LEMMA TextIsShown == \A text \in Seq(Text) : text \in Seq(Shown)
  BY SeqMonotonic DEF Shown

\* A part of a sequence.
LEMMA SubSeqTyped ==
    ASSUME NEW S, NEW s \in Seq(S), NEW m \in 1 .. Len(s) + 1, NEW n \in m - 1 .. Len(s)
    PROVE  /\ SubSeq(s, m, n) \in Seq(S)
           /\ Len(SubSeq(s, m, n)) = n - m + 1
           /\ \A i \in 1 .. n - m + 1 : SubSeq(s, m, n)[i] = s[m + i - 1]
<1>1. Len(s) \in Nat /\ \A i \in 1 .. Len(s) : s[i] \in S
  BY LenProperties, ElementOfSeq
<1>2. m \in Int /\ n \in Int /\ \A i \in m .. n : s[i] \in S
  BY <1>1
<1>. QED BY <1>1, <1>2, SubSeqProperties

\* A suffix of one element is the last.
LEMMA SuffixOfOne ==
    ASSUME NEW S, NEW c \in S, NEW text \in Seq(S)
    PROVE  IsSuffix(<<c>>, text) <=> text # <<>> /\ text[Len(text)] = c
<1>0. Len(text) \in Nat BY LenProperties
<1> DEFINE r == Reverse(text)
           one == <<c>>
<1>1. one \in Seq(S) /\ Len(one) = 1 /\ one[1] = c /\ Reverse(one) = one
  BY DEF Reverse
<1>2. Len(r) = Len(text) /\ r \in Seq(S) /\ (Len(text) >= 1 => r[1] = text[Len(text)])
  <2>1. \A i \in 1 .. Len(text) : text[Len(text) - i + 1] \in S
    BY <1>0, ElementOfSeq
  <2>. QED BY <1>0, <2>1 DEF Reverse
<1>3. text # <<>> <=> Len(text) >= 1
  BY <1>0, EmptySeq
<1>. HIDE DEF r, one
<1>4. SubSeq(one, 1, 1) = one
  BY <1>1, SubSeqFull
<1>5. ASSUME Len(text) >= 1
      PROVE  SubSeq(r, 1, 1) \in Seq(S) /\ Len(SubSeq(r, 1, 1)) = 1 /\ SubSeq(r, 1, 1)[1] = r[1]
  <2>1. 1 \in 1 .. Len(r) + 1 /\ 1 \in 1 - 1 .. Len(r)
    BY <1>0, <1>2, <1>5
  <2>2. /\ SubSeq(r, 1, 1) \in Seq(S)
        /\ Len(SubSeq(r, 1, 1)) = 1 - 1 + 1
        /\ \A i \in 1 .. 1 - 1 + 1 : SubSeq(r, 1, 1)[i] = r[1 + i - 1]
    BY <1>2, <2>1, SubSeqTyped
  <2>. QED BY <2>2
<1>6. ASSUME Len(text) >= 1, r[1] = c PROVE SubSeq(r, 1, 1) = one
  <2>1. \A i \in 1 .. 1 : SubSeq(r, 1, 1)[i] = one[i]
    BY <1>1, <1>5, <1>6
  <2>. QED BY <1>1, <1>5, <1>6, <2>1, SeqEqual
<1>7. IsSuffix(one, text) <=> Len(text) >= 1 /\ SubSeq(r, 1, 1) = one
  BY <1>1, <1>2, <1>4, <1>0 DEF IsSuffix, IsPrefix, r
<1>8. SubSeq(r, 1, 1) = one /\ Len(text) >= 1 => r[1] = c
  BY <1>1, <1>5
<1>9. IsSuffix(one, text) <=> text # <<>> /\ text[Len(text)] = c
  BY <1>2, <1>3, <1>6, <1>7, <1>8
<1>. QED BY <1>9 DEF one

\* Of the prefix of a frame only its first element can be at the end of a text.
LEMMA PartialPrefixValue ==
    ASSUME NEW text \in Seq(Text)
    PROVE  PartialPrefix(text) =
             IF text # <<>> /\ text[Len(text)] = "rs" THEN 1 ELSE 0
<1> DEFINE A == {n \in 0 .. Len(FramePrefix) - 1 : IsSuffix(SubSeq(FramePrefix, 1, n), text)}
<1>1. Len(FramePrefix) = 2 /\ FramePrefix[1] = "rs" /\ FramePrefix \in Seq(Text)
  BY DEF FramePrefix, Text, Bytes
<1>2. Len(text) \in Nat BY LenProperties
<1>3. SubSeq(FramePrefix, 1, 0) = <<>>
  BY SubSeqEmpty
<1>4. SubSeq(FramePrefix, 1, 1) = <<"rs">>
  <2>1. 1 \in 1 .. Len(FramePrefix) + 1 /\ 1 \in 1 - 1 .. Len(FramePrefix)
    BY <1>1
  <2>2. /\ SubSeq(FramePrefix, 1, 1) \in Seq(Text)
        /\ Len(SubSeq(FramePrefix, 1, 1)) = 1
        /\ SubSeq(FramePrefix, 1, 1)[1] = "rs"
    <3>1. /\ SubSeq(FramePrefix, 1, 1) \in Seq(Text)
          /\ Len(SubSeq(FramePrefix, 1, 1)) = 1 - 1 + 1
          /\ \A i \in 1 .. 1 - 1 + 1 : SubSeq(FramePrefix, 1, 1)[i] = FramePrefix[1 + i - 1]
      BY <1>1, <2>1, SubSeqTyped
    <3>. QED BY <1>1, <3>1
  <2>3. <<"rs">> \in Seq(Text) /\ Len(<<"rs">>) = 1 /\ <<"rs">>[1] = "rs"
    BY DEF Text, Bytes
  <2>4. \A i \in 1 .. 1 : SubSeq(FramePrefix, 1, 1)[i] = <<"rs">>[i]
    BY <2>2, <2>3
  <2>. QED BY <2>2, <2>3, <2>4, SeqEqual
<1>5. IsSuffix(<<>>, text)
  BY <1>2, SubSeqEmpty DEF IsSuffix, IsPrefix, Reverse
<1>6. IsSuffix(<<"rs">>, text) <=> text # <<>> /\ text[Len(text)] = "rs"
  <2>1. "rs" \in Text
    BY DEF Text, Bytes
  <2>. QED BY <2>1, SuffixOfOne
<1>7. A = IF text # <<>> /\ text[Len(text)] = "rs" THEN {0, 1} ELSE {0}
  <2>1. 0 .. Len(FramePrefix) - 1 = {0, 1}
    BY <1>1
  <2>2. IsSuffix(SubSeq(FramePrefix, 1, 0), text)
    BY <1>3, <1>5
  <2>3. IsSuffix(SubSeq(FramePrefix, 1, 1), text) <=> text # <<>> /\ text[Len(text)] = "rs"
    BY <1>4, <1>6
  <2>. QED BY <2>1, <2>2, <2>3
<1>8. PartialPrefix(text) = Max(A)
  BY DEF PartialPrefix
<1>. HIDE DEF A
<1>9. CASE A = {0, 1}
  <2>1. Max({0, 1}) = 1
    BY DEF Max
  <2>. QED BY <1>7, <1>8, <1>9, <2>1
<1>10. CASE A = {0}
  <2>1. Max({0}) = 0
    BY DEF Max
  <2>2. {0} # {0, 1} OBVIOUS
  <2>. QED BY <1>7, <1>8, <1>10, <2>1, <2>2
<1>. QED BY <1>7, <1>9, <1>10

\* Where a prefix is.
LEMMA PrefixAt ==
    ASSUME NEW text \in Seq(Text), NEW i \in 1 .. Len(text)
    PROVE  At(text, i, FramePrefix) <=>
             i + 1 <= Len(text) /\ text[i] = "rs" /\ text[i + 1] = "v1"
<1> DEFINE cut == SubSeq(text, i, i + 1)
<1>1. /\ Len(FramePrefix) = 2 /\ FramePrefix[1] = "rs" /\ FramePrefix[2] = "v1"
      /\ FramePrefix \in Seq(Text) /\ Len(text) \in Nat
  BY LenProperties DEF FramePrefix, Text, Bytes
<1>2. At(text, i, FramePrefix) <=> i + 1 <= Len(text) /\ cut = FramePrefix
  <2>1. i + 2 - 1 = i + 1 /\ (i + 2 <= Len(text) + 1 <=> i + 1 <= Len(text))
    BY <1>1
  <2>. QED BY <1>1, <2>1 DEF At
<1>3. ASSUME i + 1 <= Len(text)
      PROVE  cut \in Seq(Text) /\ Len(cut) = 2 /\ cut[1] = text[i] /\ cut[2] = text[i + 1]
  <2>1. i \in 1 .. Len(text) + 1 /\ i + 1 \in i - 1 .. Len(text)
    BY <1>1, <1>3
  <2>2. /\ cut \in Seq(Text) /\ Len(cut) = i + 1 - i + 1
        /\ \A j \in 1 .. i + 1 - i + 1 : cut[j] = text[i + j - 1]
    BY <2>1, SubSeqTyped
  <2>3. cut[1] = text[i + 1 - 1] /\ cut[2] = text[i + 2 - 1]
    BY <2>2
  <2>4. i + 1 - i + 1 = 2 /\ i + 1 - 1 = i /\ i + 2 - 1 = i + 1
    BY <1>1
  <2>. QED BY <2>2, <2>3, <2>4
<1>. HIDE DEF cut
<1>4. ASSUME i + 1 <= Len(text), text[i] = "rs", text[i + 1] = "v1" PROVE cut = FramePrefix
  <2>1. \A j \in 1 .. 2 : cut[j] = FramePrefix[j]
    BY <1>1, <1>3, <1>4
  <2>. QED BY <1>1, <1>3, <1>4, <2>1, SeqEqual
<1>. QED BY <1>1, <1>2, <1>3, <1>4

\* The prefixes and the line feeds of a text.
LEMMA FoundAre ==
    ASSUME NEW text \in Seq(Text)
    PROVE  /\ Len(text) \in Nat
           /\ PrefixStarts(text) = {i \in 1 .. Len(text) :
                i + 1 <= Len(text) /\ text[i] = "rs" /\ text[i + 1] = "v1"}
           /\ LineFeeds(text) = {i \in 1 .. Len(text) : text[i] = "nl"}
<1>1. Len(text) \in Nat /\ DOMAIN text = 1 .. Len(text)
  BY LenProperties
<1>. QED BY <1>1, PrefixAt DEF PrefixStarts, LineFeeds

\* The first prefix and the first line feed.
LEMMA FirstFound ==
    ASSUME NEW text \in Seq(Text)
    PROVE  /\ PrefixStarts(text) # {} =>
                /\ Min(PrefixStarts(text)) \in PrefixStarts(text)
                /\ \A i \in PrefixStarts(text) : Min(PrefixStarts(text)) <= i
           /\ LineFeeds(text) # {} =>
                /\ Min(LineFeeds(text)) \in LineFeeds(text)
                /\ \A i \in LineFeeds(text) : Min(LineFeeds(text)) <= i
<1>1. PrefixStarts(text) \subseteq Nat /\ LineFeeds(text) \subseteq Nat
  BY FoundAre
<1>. HIDE DEF PrefixStarts, LineFeeds
<1>. QED BY <1>1, MinOfNaturals

\* A text is its beginning and the rest.
LEMMA PieceTyped ==
    ASSUME NEW S, NEW text \in Seq(S), NEW n \in 0 .. Len(text)
    PROVE  /\ SubSeq(text, 1, n) \in Seq(S) /\ From(text, n + 1) \in Seq(S)
           /\ Len(SubSeq(text, 1, n)) = n /\ Len(From(text, n + 1)) = Len(text) - n
           /\ SubSeq(text, 1, n) \o From(text, n + 1) = text
<1>1. Len(text) \in Nat /\ 1 \in 1 .. Len(text) + 1 /\ n \in 1 - 1 .. Len(text)
      /\ n + 1 \in 1 .. Len(text) + 1 /\ Len(text) \in n .. Len(text)
  BY LenProperties
<1>2. SubSeq(text, 1, n) \in Seq(S) /\ Len(SubSeq(text, 1, n)) = n - 1 + 1
  BY <1>1, SubSeqTyped
<1>3. From(text, n + 1) \in Seq(S) /\ Len(From(text, n + 1)) = Len(text) - (n + 1) + 1
  BY <1>1, FromProperties
<1>4. SubSeq(text, 1, n) \o SubSeq(text, n + 1, Len(text)) = SubSeq(text, 1, Len(text))
  BY <1>1, ConcatAdjacentSubSeq
<1>5. SubSeq(text, 1, Len(text)) = text
  BY SubSeqFull
<1>6. SubSeq(text, 1, n) \o From(text, n + 1) = text
  BY <1>4, <1>5 DEF From
<1>7. Len(SubSeq(text, 1, n)) = n
  BY <1>1, <1>2
<1>8. Len(From(text, n + 1)) = Len(text) - n
  BY <1>1, <1>3
<1>. QED BY <1>2, <1>3, <1>6, <1>7, <1>8, Zenon

\* What a record is recognized as can be shown.
LEMMA RecordTyped ==
    ASSUME NEW text \in Seq(Text)
    PROVE  Recognize(text) \in Seq(Shown)
<1>1. <<"progress">> \in Seq(Shown)
  BY DEF Shown
<1>. QED BY <1>1, TextIsShown DEF Recognize

\* Drain is defined on all text, by its equation.
LEMMA DrainDefined ==
    ASSUME NEW eof \in BOOLEAN
    PROVE  /\ Drain(eof) \in [Seq(Text) -> Drained]
           /\ \A text \in Seq(Text) : Drain(eof)[text] = DrainOf(Drain(eof), text, eof)
<1> DEFINE S == Seq(Text)
           V == Drained
           B == [f \in [S -> V] |-> [x \in S |-> DrainOf(f, x, eof)]]
           size == [x \in S |-> Len(x)]
<1>1. size \in [S -> Nat]
  BY LenProperties
<1>2. ASSUME NEW x \in S
      PROVE  /\ PrefixStarts(x) # {} /\ 1 \notin PrefixStarts(x) =>
                  /\ Min(PrefixStarts(x)) - 1 \in 1 .. Len(x)
                  /\ From(x, Min(PrefixStarts(x))) \in S
                  /\ Min(PrefixStarts(x)) - 1 + 1 = Min(PrefixStarts(x))
                  /\ size[From(x, Min(PrefixStarts(x)))] < size[x]
             /\ LineFeeds(x) # {} =>
                  /\ Min(LineFeeds(x)) \in 1 .. Len(x)
                  /\ From(x, Min(LineFeeds(x)) + 1) \in S
                  /\ size[From(x, Min(LineFeeds(x)) + 1)] < size[x]
  <2>1. x \in Seq(Text)
    OBVIOUS
  <2>2. ASSUME NEW n \in 1 .. Len(x)
        PROVE  From(x, n + 1) \in S /\ size[From(x, n + 1)] < size[x]
    <3>1. Len(x) \in Nat /\ n \in 0 .. Len(x)
      BY <2>1, LenProperties
    <3>2. From(x, n + 1) \in Seq(Text) /\ Len(From(x, n + 1)) = Len(x) - n
      BY <2>1, <3>1, PieceTyped
    <3>. QED BY <2>1, <2>2, <3>1, <3>2
  <2>. HIDE DEF S, size
  <2>3. ASSUME PrefixStarts(x) # {}, 1 \notin PrefixStarts(x)
        PROVE  /\ Min(PrefixStarts(x)) - 1 \in 1 .. Len(x)
               /\ Min(PrefixStarts(x)) - 1 + 1 = Min(PrefixStarts(x))
    <3>1. Min(PrefixStarts(x)) \in PrefixStarts(x)
      BY <2>1, <2>3, FirstFound
    <3>2. Min(PrefixStarts(x)) \in 1 .. Len(x) /\ Min(PrefixStarts(x)) # 1
          /\ Len(x) \in Nat
      BY <2>1, <2>3, <3>1, FoundAre
    <3>. QED BY <3>2
  <2>4. ASSUME LineFeeds(x) # {}
        PROVE  Min(LineFeeds(x)) \in 1 .. Len(x)
    <3>1. Min(LineFeeds(x)) \in LineFeeds(x)
      BY <2>1, <2>4, FirstFound
    <3>. QED BY <2>1, <3>1, FoundAre
  <2>. QED BY <2>1, <2>2, <2>3, <2>4
<1>3. ASSUME NEW text \in S, NEW f \in [S -> V]
      PROVE  DrainOf(f, text, eof) \in V
  <2> DEFINE found == PrefixStarts(text)
             ends == LineFeeds(text)
             pass(n, shown) == [f[From(text, n + 1)] EXCEPT !.shown = shown \o @]
  <2>1. text \in Seq(Text) /\ Len(text) \in Nat
    BY LenProperties
  <2>2. ASSUME NEW n \in 1 .. Len(text), NEW shown \in Seq(Shown), From(text, n + 1) \in S
        PROVE  pass(n, shown) \in V
    <3> DEFINE d == f[From(text, n + 1)]
    <3>1. d \in Drained
      BY <2>2
    <3>2. shown \o d.shown \in Seq(Shown)
      BY <3>1, ConcatProperties DEF Drained
    <3>. HIDE DEF d
    <3>3. [d EXCEPT !.shown = shown \o @] \in Drained
      BY <3>1, <3>2 DEF Drained
    <3>. QED BY <3>3 DEF d
  <2>3. ASSUME NEW n \in 0 .. Len(text)
        PROVE  [shown |-> SubSeq(text, 1, n), pending |-> From(text, n + 1)] \in V
    BY <2>1, <2>3, PieceTyped, TextIsShown DEF Drained
  <2>4. ASSUME found # {}, 1 \notin found
        PROVE  pass(Min(found) - 1, SubSeq(text, 1, Min(found) - 1)) \in V
    <3>1. Min(found) - 1 \in 1 .. Len(text) /\ From(text, Min(found)) \in S
          /\ Min(found) - 1 + 1 = Min(found)
      BY <1>2, <2>4
    <3>2. SubSeq(text, 1, Min(found) - 1) \in Seq(Text)
      BY <2>1, <3>1, PieceTyped
    <3>. HIDE DEF pass, found, S, V
    <3>. QED BY <2>2, <3>1, <3>2, TextIsShown
  <2>5. ASSUME ends # {}
        PROVE  pass(Min(ends), Recognize(SubSeq(text, 1, Min(ends)))) \in V
    <3>1. Min(ends) \in 1 .. Len(text) /\ From(text, Min(ends) + 1) \in S
      BY <1>2, <2>5
    <3>2. SubSeq(text, 1, Min(ends)) \in Seq(Text)
      BY <2>1, <3>1, PieceTyped
    <3>. HIDE DEF pass, ends, S, V
    <3>. QED BY <2>2, <3>1, <3>2, RecordTyped
  <2>6. [shown |-> text, pending |-> <<>>] \in V /\ [shown |-> <<>>, pending |-> text] \in V
    BY <2>1, EmptySeq, TextIsShown DEF Drained
  <2>7. Len(text) - (IF eof THEN 0 ELSE PartialPrefix(text)) \in 0 .. Len(text)
    <3>1. text # <<>> => Len(text) >= 1
      BY <2>1, EmptySeq
    <3>. QED BY <2>1, <3>1, PartialPrefixValue
  <2>8. DrainOf(f, text, eof) =
          IF found = {}
          THEN LET n == Len(text) - (IF eof THEN 0 ELSE PartialPrefix(text))
               IN [shown |-> SubSeq(text, 1, n), pending |-> From(text, n + 1)]
          ELSE IF 1 \notin found
          THEN pass(Min(found) - 1, SubSeq(text, 1, Min(found) - 1))
          ELSE IF ends # {}
          THEN pass(Min(ends), Recognize(SubSeq(text, 1, Min(ends))))
          ELSE IF eof \/ Len(text) > MaxFrame
          THEN [shown |-> text, pending |-> <<>>]
          ELSE [shown |-> <<>>, pending |-> text]
    BY DEF DrainOf
  <2>. HIDE DEF pass, found, ends, S, V
  <2>. QED BY <2>3, <2>4, <2>5, <2>6, <2>7, <2>8
<1>4. B \in [[S -> V] -> [S -> V]]
  BY <1>3
<1>5. ASSUME NEW f, NEW g, NEW x \in S, \A y \in S : size[y] < size[x] => f[y] = g[y]
      PROVE  DrainOf(f, x, eof) = DrainOf(g, x, eof)
  <2> DEFINE first == Min(PrefixStarts(x))
             last == Min(LineFeeds(x))
  <2>1. ASSUME PrefixStarts(x) # {}, 1 \notin PrefixStarts(x)
        PROVE  f[From(x, first - 1 + 1)] = g[From(x, first - 1 + 1)]
    <3>1. first - 1 + 1 = first /\ From(x, first) \in S /\ size[From(x, first)] < size[x]
      BY <1>2, <2>1
    <3>. HIDE DEF S, size, first
    <3>. QED BY <1>5, <3>1
  <2>2. ASSUME LineFeeds(x) # {}
        PROVE  f[From(x, last + 1)] = g[From(x, last + 1)]
    <3>1. From(x, last + 1) \in S /\ size[From(x, last + 1)] < size[x]
      BY <1>2, <2>2
    <3>. HIDE DEF S, size, last
    <3>. QED BY <1>5, <3>1
  <2>. QED BY <2>1, <2>2 DEF DrainOf
<1>6. \E f \in [S -> V] : f = B[f]
  <2>1. V # {}
    <3>1. [shown |-> <<>>, pending |-> <<>>] \in Drained BY EmptySeq DEF Drained
    <3>. QED BY <3>1
  <2>2. \A f, g \in [S -> V] : \A x \in S :
          (\A y \in S : size[y] < size[x] => f[y] = g[y]) => B[f][x] = B[g][x]
    BY <1>5
  <2>. HIDE DEF S, V, B, size
  <2>3. Recursive(S, V, size, B)
    BY <1>1, <1>4, <2>1, <2>2 DEF Recursive
  <2>. QED BY <2>3, Recursion
<1>7. Drain(eof) = [x \in S |-> DrainOf(Drain(eof), x, eof)]
  <2>1. PICK f \in [S -> V] : f = [x \in S |-> DrainOf(f, x, eof)]
    BY <1>6
  <2>. QED BY <2>1 DEF Drain, DrainOf
<1>8. \A x \in S : Drain(eof)[x] \in V
  <2> DEFINE drain == Drain(eof)
             P == {x \in S : drain[x] \in V}
  <2>1. ASSUME NEW x \in S, \A y \in S : size[y] < size[x] => y \in P
        PROVE  x \in P
    <3> DEFINE none == [shown |-> <<>>, pending |-> <<>>]
               f == [y \in S |-> IF y \in P THEN drain[y] ELSE none]
    <3>1. none \in V BY EmptySeq DEF Drained
    <3>2. f \in [S -> V]
      <4>. HIDE DEF none, V, drain
      <4>. QED BY <3>1
    <3>3. \A y \in S : size[y] < size[x] => f[y] = drain[y]
      <4>. HIDE DEF none, V, size, drain
      <4>. QED BY <2>1
    <3>. HIDE DEF f
    <3>4. DrainOf(f, x, eof) = DrainOf(drain, x, eof)
      <4>. HIDE DEF S, V, P, size, drain
      <4>. QED BY <1>5, <3>3
    <3>5. drain[x] = DrainOf(drain, x, eof) BY <1>7
    <3>6. DrainOf(f, x, eof) \in V BY <1>3, <3>2
    <3>. QED BY <3>4, <3>5, <3>6
  <2>2. S \subseteq P
    <3>. HIDE DEF S, P, size
    <3>. QED BY <1>1, <2>1, SizeInduction
  <2>. QED BY <2>2
<1>. QED BY <1>7, <1>8
-----------------------------------------------------------------------------
(* drain loses nothing *)

\* The first element of a sequence and the others.
LEMMA FirstOfSequence ==
    ASSUME NEW S, NEW s \in Seq(S), s # <<>>
    PROVE  /\ Len(s) \in Nat \ {0} /\ s[1] \in S /\ Head(s) = s[1] /\ Tail(s) = From(s, 2)
           /\ Tail(s) \in Seq(S) /\ Len(Tail(s)) < Len(s)
<1>1. Len(s) \in Nat \ {0} /\ 1 \in 1 .. Len(s)
  BY EmptySeq
<1>2. s[1] \in S
  BY <1>1, ElementOfSeq
<1>3. Tail(s) = From(s, 2)
  BY TailIsSubSeq DEF From
<1>4. Tail(s) \in Seq(S) /\ Len(Tail(s)) = Len(s) - 1
  BY HeadTailProperties
<1>5. Head(s) = s[1]
  OBVIOUS
<1>. QED BY <1>1, <1>2, <1>3, <1>4, <1>5

\* The rest of two joined sequences, from within the first.
LEMMA FromConcat ==
    ASSUME NEW S, NEW a \in Seq(S), NEW b \in Seq(S), NEW n \in 0 .. Len(a)
    PROVE  From(a \o b, n + 1) = From(a, n + 1) \o b
<1>1. Len(a) \in Nat /\ Len(b) \in Nat
  BY LenProperties
<1>2. /\ a \o b \in Seq(S) /\ Len(a \o b) = Len(a) + Len(b)
      /\ \A i \in 1 .. Len(a) + Len(b) :
           (a \o b)[i] = IF i <= Len(a) THEN a[i] ELSE b[i - Len(a)]
  BY ConcatProperties
<1>3. n + 1 \in 1 .. Len(a) + 1 /\ n + 1 \in 1 .. Len(a \o b) + 1
  BY <1>1, <1>2
<1> DEFINE l == From(a \o b, n + 1)
           r == From(a, n + 1)
<1>4. /\ l \in Seq(S) /\ Len(l) = Len(a \o b) - (n + 1) + 1
      /\ \A j \in 1 .. Len(a \o b) - (n + 1) + 1 : l[j] = (a \o b)[n + 1 + j - 1]
  BY <1>2, <1>3, FromProperties
<1>5. /\ r \in Seq(S) /\ Len(r) = Len(a) - (n + 1) + 1
      /\ \A j \in 1 .. Len(a) - (n + 1) + 1 : r[j] = a[n + 1 + j - 1]
  BY <1>2, <1>3, FromProperties
<1>. HIDE DEF l, r
<1>6. /\ r \o b \in Seq(S) /\ Len(r \o b) = Len(r) + Len(b)
      /\ \A i \in 1 .. Len(r) + Len(b) :
           (r \o b)[i] = IF i <= Len(r) THEN r[i] ELSE b[i - Len(r)]
  BY <1>5, ConcatProperties
<1> DEFINE c == a \o b
           d == r \o b
<1>. HIDE DEF c, d
<1>7. Len(l) = Len(a) + Len(b) - n /\ Len(r) = Len(a) - n /\ Len(d) = Len(l)
  BY <1>1, <1>2, <1>4, <1>5, <1>6 DEF d
<1>8. ASSUME NEW j \in 1 .. Len(l) PROVE l[j] = d[j]
  <2>1. l[j] = c[n + j]
    <3>1. n + 1 + j - 1 = n + j /\ j \in 1 .. Len(a \o b) - (n + 1) + 1
      BY <1>1, <1>2, <1>7, <1>8
    <3>. QED BY <1>4, <3>1 DEF c
  <2>2. c[n + j] = IF n + j <= Len(a) THEN a[n + j] ELSE b[n + j - Len(a)]
    <3>1. n + j \in 1 .. Len(a) + Len(b)
      BY <1>1, <1>7, <1>8
    <3>. QED BY <1>2, <3>1 DEF c
  <2>3. d[j] = IF j <= Len(r) THEN r[j] ELSE b[j - Len(r)]
    <3>1. j \in 1 .. Len(r) + Len(b)
      BY <1>1, <1>7, <1>8
    <3>. QED BY <1>6, <3>1 DEF d
  <2>4. j <= Len(r) => r[j] = a[n + j]
    <3>1. j <= Len(r) => j \in 1 .. Len(a) - (n + 1) + 1 /\ n + 1 + j - 1 = n + j
      BY <1>1, <1>7, <1>8
    <3>. QED BY <1>5, <3>1
  <2>5. (j <= Len(r) <=> n + j <= Len(a)) /\ n + j - Len(a) = j - Len(r)
    BY <1>1, <1>7, <1>8
  <2>. QED BY <2>1, <2>2, <2>3, <2>4, <2>5
<1>9. l = d
  BY <1>4, <1>6, <1>7, <1>8, SeqEqual DEF d
<1>. QED BY <1>9 DEF l, r, d

\* The beginning of two joined sequences, within the first.
LEMMA BeginningOfConcat ==
    ASSUME NEW S, NEW a \in Seq(S), NEW b \in Seq(S), NEW n \in 0 .. Len(a)
    PROVE  SubSeq(a \o b, 1, n) = SubSeq(a, 1, n)
<1>1. Len(a) \in Nat /\ Len(b) \in Nat
  BY LenProperties
<1>2. Len(a \o b) = Len(a) + Len(b)
  BY ConcatProperties
<1>3. CASE n = 0
  BY <1>3, SubSeqEmpty
<1>4. CASE n # 0
  <2>1. 1 \in 1 .. Len(a) /\ n \in 1 .. Len(a)
    BY <1>1, <1>4
  <2>. QED BY <2>1, SubSeqOfConcat1
<1>. QED BY <1>3, <1>4

\* The first element of two joined sequences.
LEMMA FirstOfConcat ==
    ASSUME NEW S, NEW a \in Seq(S), NEW b \in Seq(S), a # <<>>
    PROVE  /\ a \o b # <<>> /\ (a \o b)[1] = a[1] /\ Head(a \o b) = Head(a)
           /\ Tail(a \o b) = Tail(a) \o b
<1>1. Len(a) \in Nat \ {0} /\ Len(b) \in Nat /\ Head(a) = a[1] /\ Tail(a) = From(a, 2)
  BY FirstOfSequence, LenProperties
<1>2. /\ a \o b \in Seq(S) /\ Len(a \o b) = Len(a) + Len(b)
      /\ \A i \in 1 .. Len(a) + Len(b) :
           (a \o b)[i] = IF i <= Len(a) THEN a[i] ELSE b[i - Len(a)]
  BY ConcatProperties
<1>3. (a \o b)[1] = a[1]
  <2>1. 1 \in 1 .. Len(a) + Len(b) /\ 1 <= Len(a)
    BY <1>1
  <2>. QED BY <1>2, <2>1
<1>4. a \o b # <<>>
  <2>1. Len(a \o b) # 0
    BY <1>1, <1>2
  <2>. QED BY <2>1, EmptySeq
<1>5. Head(a \o b) = (a \o b)[1] /\ Tail(a \o b) = From(a \o b, 2)
  BY <1>2, <1>4, FirstOfSequence
<1>6. From(a \o b, 1 + 1) = From(a, 1 + 1) \o b
  <2>1. 1 \in 0 .. Len(a)
    BY <1>1
  <2>. QED BY <2>1, FromConcat
<1>7. 1 + 1 = 2
  OBVIOUS
<1>. QED BY <1>1, <1>3, <1>4, <1>5, <1>6, <1>7

\* What stands for two things shown one after the other.
LEMMA OriginalConcat ==
    \A a, b \in Seq(Shown) : Original[a \o b] = Original[a] \o Original[b]
<1> DEFINE S == Seq(Shown)
           size == [x \in S |-> Len(x)]
           P == {x \in S : \A y \in S : Original[x \o y] = Original[x] \o Original[y]}
<1>1. size \in [S -> Nat]
  BY LenProperties
<1>2. ASSUME NEW x \in S, \A z \in S : size[z] < size[x] => z \in P
      PROVE  x \in P
  <2>1. SUFFICES ASSUME NEW y \in S PROVE Original[x \o y] = Original[x] \o Original[y]
    OBVIOUS
  <2>2. Original[y] \in Seq(Text) /\ Original[x] = OriginalOf(Original, x)
    BY OriginalDefined
  <2>3. CASE x = <<>>
    <3>1. x \o y = y
      BY <2>3, ConcatEmptySeq
    <3>2. Original[x] = <<>>
      BY <2>2, <2>3 DEF OriginalOf
    <3>3. <<>> \o Original[y] = Original[y]
      BY <2>2, ConcatEmptySeq
    <3>. QED BY <3>1, <3>2, <3>3
  <2>4. CASE x # <<>>
    <3> DEFINE h == IF Head(x) = "progress" THEN Frame ELSE <<Head(x)>>
    <3>1. Tail(x) \in S /\ size[Tail(x)] < size[x] /\ Head(x) \in Shown
      BY <2>4, FirstOfSequence
    <3>2. Original[Tail(x) \o y] = Original[Tail(x)] \o Original[y]
      BY <1>2, <3>1
    <3>3. x \o y \in S /\ x \o y # <<>> /\ Head(x \o y) = Head(x) /\ Tail(x \o y) = Tail(x) \o y
      BY <2>4, FirstOfConcat, ConcatProperties
    <3>4. Original[x \o y] = h \o Original[Tail(x) \o y]
      BY <3>3, OriginalDefined DEF OriginalOf
    <3>5. Original[x] = h \o Original[Tail(x)]
      BY <2>2, <2>4 DEF OriginalOf
    <3>6. h \in Seq(Text)
      <4>1. Head(x) # "progress" => Head(x) \in Text
        BY <3>1 DEF Shown
      <4>. QED BY <4>1, FrameTyped
    <3>7. Original[Tail(x)] \in Seq(Text)
      BY <3>1, OriginalDefined
    <3>8. (h \o Original[Tail(x)]) \o Original[y] = h \o (Original[Tail(x)] \o Original[y])
      <4> DEFINE a == Original[Tail(x)]
                 b == Original[y]
      <4>1. a \in Seq(Text) /\ b \in Seq(Text)
        BY <2>2, <3>7
      <4>. HIDE DEF h, S, P, size, a, b
      <4>2. (h \o a) \o b = h \o (a \o b)
        BY <3>6, <4>1, ConcatAssociative
      <4>. QED BY <4>2 DEF a, b
    <3>. QED BY <3>2, <3>4, <3>5, <3>8
  <2>. QED BY <2>3, <2>4
<1>3. S \subseteq P
  <2>. HIDE DEF S, P, size
  <2>. QED BY <1>1, <1>2, SizeInduction
<1>. QED BY <1>3

\* Text stands for itself.
LEMMA OriginalOfText ==
    \A text \in Seq(Text) : Original[text] = text
<1> DEFINE S == Seq(Text)
           size == [x \in S |-> Len(x)]
           P == {x \in S : Original[x] = x}
<1>1. size \in [S -> Nat]
  BY LenProperties
<1>2. ASSUME NEW x \in S, \A z \in S : size[z] < size[x] => z \in P
      PROVE  x \in P
  <2>1. Original[x] = OriginalOf(Original, x)
    BY OriginalDefined, TextIsShown
  <2>2. CASE x = <<>>
    BY <2>1, <2>2 DEF OriginalOf
  <2>3. CASE x # <<>>
    <3>1. Tail(x) \in S /\ size[Tail(x)] < size[x] /\ Head(x) \in Text /\ Head(x) = x[1]
      BY <2>3, FirstOfSequence
    <3>2. Original[Tail(x)] = Tail(x)
      BY <1>2, <3>1
    <3>3. Head(x) # "progress"
      BY <3>1 DEF Text, Bytes
    <3>4. x = <<x[1]>> \o Tail(x)
      <4>1. Len(x) \in Nat \ {0} /\ 1 \in 1 .. Len(x) /\ Len(x) \in 1 .. Len(x)
        BY <2>3, FirstOfSequence
      <4>2. SubSeq(x, 1, Len(x)) = <<x[1]>> \o SubSeq(x, 1 + 1, Len(x))
        BY <4>1, SubSeqRecursiveFirst
      <4>3. SubSeq(x, 1, Len(x)) = x /\ Tail(x) = SubSeq(x, 2, Len(x)) /\ 1 + 1 = 2
        BY <2>3, SubSeqFull, TailIsSubSeq
      <4>. QED BY <4>2, <4>3
    <3>. QED BY <2>1, <2>3, <3>1, <3>2, <3>3, <3>4 DEF OriginalOf
  <2>. QED BY <2>2, <2>3
<1>3. S \subseteq P
  <2>. HIDE DEF S, P, size
  <2>. QED BY <1>1, <1>2, SizeInduction
<1>. QED BY <1>3

\* Joining texts is associative.
LEMMA TextConcat ==
    \A a, b, c \in Seq(Text) : (a \o b) \o c = a \o (b \o c)
  BY ConcatAssociative

\* A pass of drain's loop that shows the first n of a text and goes on.
PassesOn(text, n, shown) ==
  \/ /\ PrefixStarts(text) # {} /\ 1 \notin PrefixStarts(text)
     /\ n = Min(PrefixStarts(text)) - 1 /\ shown = SubSeq(text, 1, n)
  \/ /\ 1 \in PrefixStarts(text) /\ LineFeeds(text) # {}
     /\ n = Min(LineFeeds(text)) /\ shown = Recognize(SubSeq(text, 1, n))

\* A pass that shows the first n of a text and keeps the rest.
Stops(text, eof, n) ==
  \/ /\ PrefixStarts(text) = {}
     /\ n = Len(text) - (IF eof THEN 0 ELSE PartialPrefix(text))
  \/ /\ 1 \in PrefixStarts(text) /\ LineFeeds(text) = {}
     /\ n = IF eof \/ Len(text) > MaxFrame THEN Len(text) ELSE 0

\* What drain does with a text: it passes something on and goes on, or stops.
LEMMA DrainCases ==
    ASSUME NEW eof \in BOOLEAN, NEW text \in Seq(Text)
    PROVE  \/ \E n \in 1 .. Len(text), shown \in Seq(Shown) :
                /\ PassesOn(text, n, shown)
                /\ Drain(eof)[text].shown = shown \o Drain(eof)[From(text, n + 1)].shown
                /\ Drain(eof)[text].pending = Drain(eof)[From(text, n + 1)].pending
           \/ \E n \in 0 .. Len(text) :
                /\ Stops(text, eof, n)
                /\ Drain(eof)[text].shown = SubSeq(text, 1, n)
                /\ Drain(eof)[text].pending = From(text, n + 1)
<1> DEFINE found == PrefixStarts(text)
           ends == LineFeeds(text)
           d == Drain(eof)
<1>1. Len(text) \in Nat /\ d[text] = DrainOf(d, text, eof) /\ d \in [Seq(Text) -> Drained]
      /\ (text # <<>> => Len(text) >= 1) /\ text \in Seq(Shown)
  BY DrainDefined, LenProperties, EmptySeq, TextIsShown
<1>. HIDE DEF d
<1>2. CASE found = {}
  <2> DEFINE n == Len(text) - (IF eof THEN 0 ELSE PartialPrefix(text))
  <2>1. n \in 0 .. Len(text)
    BY <1>1, PartialPrefixValue
  <2>2. d[text] = [shown |-> SubSeq(text, 1, n), pending |-> From(text, n + 1)]
    BY <1>1, <1>2 DEF DrainOf
  <2>3. Stops(text, eof, n)
    BY <1>2 DEF Stops
  <2>4. d[text].shown = SubSeq(text, 1, n) /\ d[text].pending = From(text, n + 1)
    <3> DEFINE shown == SubSeq(text, 1, n)
               pending == From(text, n + 1)
    <3>1. d[text] = [shown |-> shown, pending |-> pending]
      BY <2>2
    <3>. HIDE DEF shown, pending
    <3>2. d[text].shown = shown /\ d[text].pending = pending
      BY <3>1
    <3>. QED BY <3>2 DEF shown, pending
  <2>. HIDE DEF n
  <2>. QED BY <2>1, <2>3, <2>4 DEF d
<1>3. CASE found # {} /\ 1 \notin found
  <2> DEFINE n == Min(found) - 1
             shown == SubSeq(text, 1, n)
  <2>1. n \in 1 .. Len(text)
    <3>1. Min(found) \in found
      BY <1>3, FirstFound
    <3>2. Min(found) \in 1 .. Len(text) /\ Min(found) # 1
      BY <1>3, <3>1, FoundAre
    <3>. QED BY <1>1, <3>2
  <2>2. d[text] = [d[From(text, n + 1)] EXCEPT !.shown = shown \o @]
    BY <1>1, <1>3 DEF DrainOf
  <2>3. PassesOn(text, n, shown)
    BY <1>3 DEF PassesOn
  <2>. HIDE DEF n
  <2>4. n \in 0 .. Len(text)
    BY <1>1, <2>1
  <2>5. shown \in Seq(Shown) /\ From(text, n + 1) \in Seq(Text)
    BY <2>4, PieceTyped, TextIsShown
  <2>6. d[From(text, n + 1)] \in Drained
    BY <1>1, <2>5
  <2>7. /\ d[text].shown = shown \o d[From(text, n + 1)].shown
        /\ d[text].pending = d[From(text, n + 1)].pending
    <3> DEFINE e == d[From(text, n + 1)]
    <3>1. e \in Drained /\ d[text] = [e EXCEPT !.shown = shown \o @]
      BY <2>2, <2>6
    <3>. HIDE DEF e, shown
    <3>2. d[text].shown = shown \o e.shown /\ d[text].pending = e.pending
      BY <3>1 DEF Drained
    <3>. QED BY <3>2 DEF e
  <2>. HIDE DEF shown
  <2>. QED BY <2>1, <2>3, <2>5, <2>7 DEF d
<1>4. CASE 1 \in found /\ ends # {}
  <2> DEFINE n == Min(ends)
             shown == Recognize(SubSeq(text, 1, n))
  <2>1. n \in 1 .. Len(text)
    <3>1. Min(ends) \in ends
      BY <1>4, FirstFound
    <3>. QED BY <3>1, FoundAre
  <2>2. d[text] = [d[From(text, n + 1)] EXCEPT !.shown = shown \o @]
    BY <1>1, <1>4 DEF DrainOf
  <2>3. PassesOn(text, n, shown)
    BY <1>4 DEF PassesOn
  <2>. HIDE DEF n
  <2>4. n \in 0 .. Len(text)
    BY <1>1, <2>1
  <2>5. shown \in Seq(Shown) /\ From(text, n + 1) \in Seq(Text)
    BY <2>4, PieceTyped, RecordTyped
  <2>6. d[From(text, n + 1)] \in Drained
    BY <1>1, <2>5
  <2>7. /\ d[text].shown = shown \o d[From(text, n + 1)].shown
        /\ d[text].pending = d[From(text, n + 1)].pending
    <3> DEFINE e == d[From(text, n + 1)]
    <3>1. e \in Drained /\ d[text] = [e EXCEPT !.shown = shown \o @]
      BY <2>2, <2>6
    <3>. HIDE DEF e, shown
    <3>2. d[text].shown = shown \o e.shown /\ d[text].pending = e.pending
      BY <3>1 DEF Drained
    <3>. QED BY <3>2 DEF e
  <2>. HIDE DEF shown
  <2>. QED BY <2>1, <2>3, <2>5, <2>7 DEF d
<1>5. CASE 1 \in found /\ ends = {}
  <2> DEFINE n == IF eof \/ Len(text) > MaxFrame THEN Len(text) ELSE 0
  <2>1. n \in 0 .. Len(text) /\ Stops(text, eof, n)
    BY <1>1, <1>5 DEF Stops
  <2>2. SubSeq(text, 1, Len(text)) = text /\ From(text, Len(text) + 1) = <<>>
        /\ SubSeq(text, 1, 0) = <<>> /\ From(text, 0 + 1) = text
    BY <1>1, SubSeqFull, SubSeqEmpty DEF From
  <2>3. d[text].shown = SubSeq(text, 1, n) /\ d[text].pending = From(text, n + 1)
    BY <1>1, <1>5, <2>2 DEF DrainOf
  <2>. HIDE DEF n
  <2>. QED BY <2>1, <2>3 DEF d
<1>. QED BY <1>2, <1>3, <1>4, <1>5

\* What is passed on and what is left are shorter texts that make up the text.
LEMMA PassedPieces ==
    ASSUME NEW text \in Seq(Text), NEW n \in 1 .. Len(text)
    PROVE  /\ n \in 0 .. Len(text) /\ Len(text) \in Nat
           /\ SubSeq(text, 1, n) \in Seq(Text) /\ From(text, n + 1) \in Seq(Text)
           /\ Len(SubSeq(text, 1, n)) = n /\ Len(From(text, n + 1)) < Len(text)
           /\ SubSeq(text, 1, n) \o From(text, n + 1) = text
<1>1. n \in 0 .. Len(text) /\ Len(text) \in Nat
  BY LenProperties
<1>2. /\ SubSeq(text, 1, n) \in Seq(Text) /\ From(text, n + 1) \in Seq(Text)
      /\ Len(SubSeq(text, 1, n)) = n /\ Len(From(text, n + 1)) = Len(text) - n
      /\ SubSeq(text, 1, n) \o From(text, n + 1) = text
  BY <1>1, PieceTyped
<1>3. Len(text) - n < Len(text)
  BY <1>1
<1>. QED BY <1>1, <1>2, <1>3, Zenon

\* What is passed on stands for the text it was taken from.
LEMMA OriginalOfPassed ==
    ASSUME NEW text \in Seq(Text), NEW n \in 1 .. Len(text), NEW shown \in Seq(Shown),
           PassesOn(text, n, shown)
    PROVE  Original[shown] = SubSeq(text, 1, n)
<1> DEFINE piece == SubSeq(text, 1, n)
<1>1. piece \in Seq(Text) /\ Original[piece] = piece
  BY PassedPieces, OriginalOfText
<1>. HIDE DEF piece
<1>2. Original[<<"progress">>] = Frame
  <2>1. <<"progress">> \in Seq(Shown) /\ <<"progress">> # <<>>
        /\ Head(<<"progress">>) = "progress" /\ Tail(<<"progress">>) = <<>>
    BY DEF Shown
  <2>2. Original[<<>>] = <<>>
    BY OriginalDefined, EmptySeq DEF OriginalOf
  <2>3. Original[<<"progress">>] = Frame \o Original[<<>>]
    BY <2>1, OriginalDefined DEF OriginalOf
  <2>. QED BY <2>2, <2>3, FrameTyped, ConcatEmptySeq
<1>3. shown = piece \/ shown = Recognize(piece)
  BY DEF PassesOn, piece
<1>4. Original[Recognize(piece)] = piece
  BY <1>1, <1>2 DEF Recognize
<1>. QED BY <1>1, <1>3, <1>4 DEF piece

\* Nothing is lost or added by drain, and what it keeps is no longer than
\* a record may be; at the end it keeps nothing.
LEMMA DrainHolds ==
    ASSUME NEW eof \in BOOLEAN, NEW text \in Seq(Text)
    PROVE  /\ Drain(eof)[text] \in Drained
           /\ Original[Drain(eof)[text].shown] \o Drain(eof)[text].pending = text
           /\ Len(Drain(eof)[text].pending) <= MaxFrame
           /\ eof => Drain(eof)[text].pending = <<>>
<1> DEFINE S == Seq(Text)
           size == [x \in S |-> Len(x)]
           d == Drain(eof)
           Good(x) == /\ Original[d[x].shown] \o d[x].pending = x
                      /\ Len(d[x].pending) <= MaxFrame
                      /\ eof => d[x].pending = <<>>
           P == {x \in S : Good(x)}
<1>1. size \in [S -> Nat]
  BY LenProperties
<1>2. d \in [S -> Drained]
  BY DrainDefined
<1>3. ASSUME NEW x \in S, \A z \in S : size[z] < size[x] => z \in P
      PROVE  Good(x)
  <2>1. x \in Seq(Text)
    OBVIOUS
  <2>2. ASSUME NEW n \in 1 .. Len(x), NEW shown \in Seq(Shown), PassesOn(x, n, shown),
               d[x].shown = shown \o d[From(x, n + 1)].shown,
               d[x].pending = d[From(x, n + 1)].pending
        PROVE  Good(x)
    <3> DEFINE piece == SubSeq(x, 1, n)
               rest == From(x, n + 1)
    <3>1. piece \in Seq(Text) /\ rest \in S /\ size[rest] < size[x] /\ piece \o rest = x
      BY PassedPieces
    <3>2. Good(rest)
      <4>. HIDE DEF S, size, Good, rest
      <4>. QED BY <1>3, <3>1
    <3>3. Original[shown] = piece
      BY <2>2, OriginalOfPassed
    <3>4. d[rest].shown \in Seq(Shown) /\ d[rest].pending \in Seq(Text)
      BY <1>2, <3>1 DEF Drained
    <3> DEFINE o == Original[d[rest].shown]
               p == d[rest].pending
    <3>5. o \in Seq(Text) /\ p \in Seq(Text)
      BY <3>4, OriginalDefined
    <3>6. Original[d[x].shown] = piece \o o
      BY <2>2, <3>3, <3>4, OriginalConcat
    <3>7. o \o p = rest /\ d[x].pending = p
      BY <2>2, <3>2
    <3>8. (piece \o o) \o p = piece \o (o \o p)
      <4>1. piece \in Seq(Text)
        BY <3>1
      <4>. HIDE DEF o, p, piece, S, size, d, P, Good
      <4>. QED BY <3>5, <4>1, TextConcat
    <3>. QED BY <3>1, <3>2, <3>6, <3>7, <3>8
  <2>3. ASSUME NEW n \in 0 .. Len(x), Stops(x, eof, n),
               d[x].shown = SubSeq(x, 1, n), d[x].pending = From(x, n + 1)
        PROVE  Good(x)
    <3>1. SubSeq(x, 1, n) \in Seq(Text) /\ From(x, n + 1) \in Seq(Text)
          /\ Len(From(x, n + 1)) = Len(x) - n /\ SubSeq(x, 1, n) \o From(x, n + 1) = x
      BY <2>1, PieceTyped
    <3>2. Original[d[x].shown] = SubSeq(x, 1, n)
      BY <2>3, <3>1, OriginalOfText
    <3>3. Len(x) \in Nat /\ (x # <<>> => Len(x) >= 1)
      BY <2>1, LenProperties, EmptySeq
    <3>4. Len(x) - n <= MaxFrame /\ (eof => n = Len(x))
      <4>1. CASE n = Len(x) - (IF eof THEN 0 ELSE PartialPrefix(x))
        <5>1. PartialPrefix(x) \in {0, 1}
          BY PartialPrefixValue
        <5>. QED BY <3>3, <4>1, <5>1, FrameAssumption
      <4>2. CASE n = IF eof \/ Len(x) > MaxFrame THEN Len(x) ELSE 0
        BY <3>3, <4>2, FrameAssumption
      <4>. QED BY <2>3, <4>1, <4>2 DEF Stops
    <3>5. eof => From(x, n + 1) = <<>>
      BY <3>3, <3>4, SubSeqEmpty DEF From
    <3>. QED BY <2>3, <3>1, <3>2, <3>4, <3>5
  <2>. HIDE DEF Good, S
  <2>. QED BY <2>1, <2>2, <2>3, DrainCases DEF d
<1>4. S \subseteq P
  <2>1. \A x \in S : (\A z \in S : size[z] < size[x] => z \in P) => x \in P
    BY <1>3
  <2>. HIDE DEF S, P, size
  <2>. QED BY <1>1, <2>1, SizeInduction
<1>. QED BY <1>2, <1>4
-----------------------------------------------------------------------------
(* UTF-8 *)

\* Bytes may be cut anywhere but within a character.
Cut(a, b) == ~(a # <<>> /\ b # <<>> /\ a[Len(a)] = "head" /\ b[1] = "tail")

\* Joining bytes is associative.
LEMMA BytesConcat ==
    \A a, b, c \in Seq(Bytes) : (a \o b) \o c = a \o (b \o c)
  BY ConcatAssociative

\* Where a character of two bytes begins.
LEMMA PairAt ==
    ASSUME NEW x \in Seq(Bytes)
    PROVE  At(x, 1, <<"head", "tail">>) <=> Len(x) >= 2 /\ x[1] = "head" /\ x[2] = "tail"
<1> DEFINE cut == SubSeq(x, 1, 2)
           pair == <<"head", "tail">>
<1>1. /\ Len(pair) = 2 /\ pair[1] = "head" /\ pair[2] = "tail" /\ pair \in Seq(Bytes)
      /\ Len(x) \in Nat
  BY LenProperties DEF Bytes
<1>. HIDE DEF pair
<1>2. At(x, 1, pair) <=> Len(x) >= 2 /\ cut = pair
  <2>1. 1 + 2 - 1 = 2 /\ (1 + 2 <= Len(x) + 1 <=> Len(x) >= 2)
    BY <1>1
  <2>. QED BY <1>1, <2>1 DEF At
<1>3. ASSUME Len(x) >= 2
      PROVE  cut \in Seq(Bytes) /\ Len(cut) = 2 /\ cut[1] = x[1] /\ cut[2] = x[2]
  <2>1. 1 \in 1 .. Len(x) + 1 /\ 2 \in 1 - 1 .. Len(x)
    BY <1>1, <1>3
  <2>2. /\ cut \in Seq(Bytes) /\ Len(cut) = 2 - 1 + 1
        /\ \A j \in 1 .. 2 - 1 + 1 : cut[j] = x[1 + j - 1]
    BY <2>1, SubSeqTyped
  <2>3. cut[1] = x[1 + 1 - 1] /\ cut[2] = x[1 + 2 - 1]
    BY <2>2
  <2>. QED BY <2>2, <2>3
<1>. HIDE DEF cut
<1>4. ASSUME Len(x) >= 2, x[1] = "head", x[2] = "tail" PROVE cut = pair
  <2>1. \A j \in 1 .. 2 : cut[j] = pair[j]
    BY <1>1, <1>3, <1>4
  <2>. QED BY <1>1, <1>3, <1>4, <2>1, SeqEqual
<1>5. At(x, 1, pair) <=> Len(x) >= 2 /\ x[1] = "head" /\ x[2] = "tail"
  BY <1>1, <1>2, <1>3, <1>4
<1>. QED BY <1>5 DEF pair

\* The rest of bytes that are followed by others.
LEMMA RestOfBytes ==
    ASSUME NEW x \in Seq(Bytes), NEW n \in 1 .. Len(x)
    PROVE  /\ From(x, n + 1) \in Seq(Bytes) /\ Len(From(x, n + 1)) < Len(x)
           /\ \A b \in Seq(Bytes) :
                /\ From(x \o b, n + 1) = From(x, n + 1) \o b
                /\ Cut(x, b) => Cut(From(x, n + 1), b)
<1>1. Len(x) \in Nat /\ n \in 0 .. Len(x) /\ n + 1 \in 1 .. Len(x) + 1
  BY LenProperties
<1> DEFINE r == From(x, n + 1)
<1>2. r \in Seq(Bytes) /\ Len(r) = Len(x) - (n + 1) + 1
      /\ \A j \in 1 .. Len(x) - (n + 1) + 1 : r[j] = x[n + 1 + j - 1]
  BY <1>1, FromProperties
<1>. HIDE DEF r
<1>3. Len(r) = Len(x) - n /\ Len(r) < Len(x)
  BY <1>1, <1>2
<1>4. r # <<>> => r[Len(r)] = x[Len(x)]
  <2>1. SUFFICES ASSUME r # <<>> PROVE r[Len(r)] = x[Len(x)]
    OBVIOUS
  <2>2. Len(r) \in Nat \ {0}
    BY <1>2, <2>1, EmptySeq
  <2>3. Len(r) \in 1 .. Len(x) - (n + 1) + 1 /\ n + 1 + Len(r) - 1 = Len(x)
    BY <1>1, <1>3, <2>2
  <2>. QED BY <1>2, <2>3
<1>5. x # <<>>
  BY <1>1, EmptySeq
<1>6. \A b \in Seq(Bytes) : Cut(x, b) => Cut(r, b)
  BY <1>4, <1>5 DEF Cut
<1>7. \A b \in Seq(Bytes) : From(x \o b, n + 1) = r \o b
  BY <1>1, FromConcat DEF r
<1>. QED BY <1>2, <1>3, <1>6, <1>7 DEF r

\* Bytes decode piece by piece, if no cut is within a character.
LEMMA CharactersConcat ==
    \A a, b \in Seq(Bytes) : Cut(a, b) => Characters[a \o b] = Characters[a] \o Characters[b]
<1> DEFINE S == Seq(Bytes)
           size == [x \in S |-> Len(x)]
           Joins(x) == \A y \in Seq(Bytes) :
                         Cut(x, y) => Characters[x \o y] = Characters[x] \o Characters[y]
           P == {x \in S : Joins(x)}
<1>1. size \in [S -> Nat]
  BY LenProperties
<1>2. ASSUME NEW x \in S, \A z \in S : size[z] < size[x] => z \in P
      PROVE  Joins(x)
  <2>1. SUFFICES ASSUME NEW y \in Seq(Bytes), Cut(x, y)
                 PROVE  Characters[x \o y] = Characters[x] \o Characters[y]
    OBVIOUS
  <2> DEFINE cx == Characters[x]
             cy == Characters[y]
             xy == x \o y
  <2>2. x \in Seq(Bytes) /\ cy \in Seq(Text) /\ cx = CharactersOf(Characters, x)
    BY CharactersDefined
  <2>3. xy \in Seq(Bytes) /\ Characters[xy] = CharactersOf(Characters, xy)
    BY <2>2, ConcatProperties, CharactersDefined
  <2>4. CASE x = <<>>
    <3>1. xy = y
      BY <2>4, ConcatEmptySeq
    <3>2. cx = <<>>
      BY <2>2, <2>4 DEF CharactersOf
    <3>3. <<>> \o cy = cy
      BY <2>2, ConcatEmptySeq
    <3>. QED BY <3>1, <3>2, <3>3
  <2>5. CASE x # <<>>
    <3>1. Len(x) \in Nat \ {0} /\ x[1] \in Bytes /\ Tail(x) = From(x, 1 + 1) /\ 1 \in 1 .. Len(x)
      BY <2>2, <2>5, FirstOfSequence
    <3>2. xy # <<>> /\ xy[1] = x[1] /\ Tail(xy) = Tail(x) \o y
      BY <2>2, <2>5, FirstOfConcat
    <3>3. Len(xy) = Len(x) + Len(y) /\ Len(y) \in Nat
          /\ \A i \in 1 .. Len(x) + Len(y) : xy[i] = IF i <= Len(x) THEN x[i] ELSE y[i - Len(x)]
      BY <2>2, ConcatProperties, LenProperties
    <3>4. At(xy, 1, <<"head", "tail">>) <=> At(x, 1, <<"head", "tail">>)
      <4>1. Len(x) >= 2 => xy[2] = x[2] /\ Len(xy) >= 2
        BY <3>1, <3>3
      <4>2. ASSUME Len(x) = 1, Len(xy) >= 2, xy[1] = "head", xy[2] = "tail" PROVE FALSE
        <5>1. Len(y) >= 1 /\ y # <<>>
          BY <3>3, <4>2, EmptySeq
        <5>2. xy[2] = y[1]
          BY <3>3, <4>2, <5>1
        <5>3. x[Len(x)] = "head" /\ y[1] = "tail"
          BY <3>2, <4>2, <5>2
        <5>. QED BY <2>1, <2>5, <5>1, <5>3 DEF Cut
      <4>3. Len(x) = 1 \/ Len(x) >= 2
        <5>1. Len(x) \in Nat \ {0}
          BY <3>1
        <5>2. \A n \in Nat \ {0} : n = 1 \/ n >= 2
          OBVIOUS
        <5>. QED BY <5>1, <5>2
      <4>. QED BY <2>2, <2>3, <3>2, <4>1, <4>2, <4>3, PairAt
    <3>5. ASSUME NEW n \in 1 .. Len(x)
          PROVE  /\ From(x, n + 1) \in Seq(Bytes)
                 /\ From(xy, n + 1) = From(x, n + 1) \o y
                 /\ Characters[From(x, n + 1)] \in Seq(Text)
                 /\ Characters[From(xy, n + 1)] = Characters[From(x, n + 1)] \o cy
      <4>1. From(x, n + 1) \in S /\ size[From(x, n + 1)] < size[x]
            /\ From(xy, n + 1) = From(x, n + 1) \o y /\ Cut(From(x, n + 1), y)
        BY <2>1, <2>2, RestOfBytes
      <4>2. Joins(From(x, n + 1))
        <5>. HIDE DEF S, size, Joins
        <5>. QED BY <1>2, <4>1
      <4>. QED BY <4>1, <4>2, CharactersDefined
    <3>6. CASE At(x, 1, <<"head", "tail">>)
      <4> DEFINE r == Characters[From(x, 3)]
      <4>1. 2 \in 1 .. Len(x) /\ 2 + 1 = 3
        BY <2>2, <3>1, <3>6, PairAt
      <4>2. r \in Seq(Text) /\ Characters[From(xy, 3)] = r \o cy
        BY <3>5, <4>1
      <4>3. Characters[xy] = <<"char">> \o (r \o cy)
        BY <2>3, <3>2, <3>4, <3>6, <4>2 DEF CharactersOf
      <4>4. cx = <<"char">> \o r
        BY <2>2, <2>5, <3>6 DEF CharactersOf
      <4>5. <<"char">> \in Seq(Text)
        BY DEF Text
      <4>. HIDE DEF r, cy, cx
      <4>6. (<<"char">> \o r) \o cy = <<"char">> \o (r \o cy)
        BY <2>2, <4>2, <4>5, TextConcat
      <4>. QED BY <4>3, <4>4, <4>6 DEF cx, cy
    <3>7. CASE ~At(x, 1, <<"head", "tail">>)
      <4> DEFINE r == Characters[Tail(x)]
                 c == <<IF x[1] \in {"head", "tail"} THEN "replacement" ELSE x[1]>>
      <4>1. r \in Seq(Text) /\ Characters[Tail(x) \o y] = r \o cy
        BY <3>1, <3>5
      <4>2. Characters[xy] = c \o (r \o cy)
        BY <2>3, <3>2, <3>4, <3>7, <4>1 DEF CharactersOf
      <4>3. cx = c \o r
        BY <2>2, <2>5, <3>7 DEF CharactersOf
      <4>4. c \in Seq(Text)
        BY <3>1 DEF Text
      <4>. HIDE DEF r, cy, cx, c
      <4>5. (c \o r) \o cy = c \o (r \o cy)
        BY <2>2, <4>1, <4>4, TextConcat
      <4>. QED BY <4>2, <4>3, <4>5 DEF cx, cy
    <3>. QED BY <3>6, <3>7
  <2>. QED BY <2>4, <2>5
<1>3. S \subseteq P
  <2>1. \A x \in S : (\A z \in S : size[z] < size[x] => z \in P) => x \in P
    BY <1>2
  <2>. HIDE DEF S, P, size
  <2>. QED BY <1>1, <2>1, SizeInduction
<1>. QED BY <1>3
-----------------------------------------------------------------------------
(* The meaning of a text that is cut in two *)

\* A prefix begun in one text and completed in the next.
Crossing(a, b) == a # <<>> /\ b # <<>> /\ a[Len(a)] = "rs" /\ b[1] = "v1"

\* No frame begun in a is left to b: each prefix has its line feed.
Closed(a, b) ==
  /\ \A i \in PrefixStarts(a) : \E k \in LineFeeds(a) : i < k
  /\ ~Crossing(a, b)

\* The elements of two joined texts.
LEMMA Joined ==
    ASSUME NEW a \in Seq(Text), NEW b \in Seq(Text)
    PROVE  /\ Len(a) \in Nat /\ Len(b) \in Nat /\ a \o b \in Seq(Text)
           /\ Len(a \o b) = Len(a) + Len(b)
           /\ \A i \in 1 .. Len(a) : (a \o b)[i] = a[i]
           /\ \A i \in 1 .. Len(b) : (a \o b)[Len(a) + i] = b[i]
<1>1. Len(a) \in Nat /\ Len(b) \in Nat
  BY LenProperties
<1>2. /\ a \o b \in Seq(Text) /\ Len(a \o b) = Len(a) + Len(b)
      /\ \A i \in 1 .. Len(a) + Len(b) :
           (a \o b)[i] = IF i <= Len(a) THEN a[i] ELSE b[i - Len(a)]
  BY ConcatProperties
<1> DEFINE c == a \o b
<1>. HIDE DEF c
<1>3. \A i \in 1 .. Len(a) + Len(b) : c[i] = IF i <= Len(a) THEN a[i] ELSE b[i - Len(a)]
  BY <1>2 DEF c
<1>4. ASSUME NEW i \in 1 .. Len(a) PROVE c[i] = a[i]
  BY <1>1, <1>3
<1>5. ASSUME NEW i \in 1 .. Len(b) PROVE c[Len(a) + i] = b[i]
  <2>1. Len(a) + i \in 1 .. Len(a) + Len(b) /\ ~(Len(a) + i <= Len(a)) /\ Len(a) + i - Len(a) = i
    BY <1>1
  <2>. QED BY <1>3, <2>1
<1>. QED BY <1>1, <1>2, <1>4, <1>5 DEF c

\* The prefixes and line feeds of two joined texts are those of each, and at
\* most one prefix across the cut.
LEMMA JoinedFound ==
    ASSUME NEW a \in Seq(Text), NEW b \in Seq(Text)
    PROVE  /\ \A i \in PrefixStarts(a) : i \in PrefixStarts(a \o b)
           /\ \A i \in PrefixStarts(b) : Len(a) + i \in PrefixStarts(a \o b)
           /\ \A i \in LineFeeds(a) : i \in LineFeeds(a \o b)
           /\ \A i \in LineFeeds(b) : Len(a) + i \in LineFeeds(a \o b)
           /\ \A i \in PrefixStarts(a \o b) :
                \/ i \in PrefixStarts(a)
                \/ i - Len(a) \in PrefixStarts(b)
                \/ i = Len(a) /\ Crossing(a, b)
           /\ \A i \in LineFeeds(a \o b) : i \in LineFeeds(a) \/ i - Len(a) \in LineFeeds(b)
<1> DEFINE c == a \o b
<1>1. /\ Len(a) \in Nat /\ Len(b) \in Nat /\ c \in Seq(Text) /\ Len(c) = Len(a) + Len(b)
      /\ \A i \in 1 .. Len(a) : c[i] = a[i]
      /\ \A i \in 1 .. Len(b) : c[Len(a) + i] = b[i]
  BY Joined
<1>. HIDE DEF c
<1>2. /\ PrefixStarts(a) = {i \in 1 .. Len(a) : i + 1 <= Len(a) /\ a[i] = "rs" /\ a[i + 1] = "v1"}
      /\ PrefixStarts(b) = {i \in 1 .. Len(b) : i + 1 <= Len(b) /\ b[i] = "rs" /\ b[i + 1] = "v1"}
      /\ PrefixStarts(c) = {i \in 1 .. Len(c) : i + 1 <= Len(c) /\ c[i] = "rs" /\ c[i + 1] = "v1"}
      /\ LineFeeds(a) = {i \in 1 .. Len(a) : a[i] = "nl"}
      /\ LineFeeds(b) = {i \in 1 .. Len(b) : b[i] = "nl"}
      /\ LineFeeds(c) = {i \in 1 .. Len(c) : c[i] = "nl"}
  BY <1>1, FoundAre
<1>3. ASSUME NEW i \in PrefixStarts(a) PROVE i \in PrefixStarts(c)
  <2>1. i \in 1 .. Len(a) /\ i + 1 \in 1 .. Len(a) /\ a[i] = "rs" /\ a[i + 1] = "v1"
    BY <1>1, <1>2
  <2>. QED BY <1>1, <1>2, <2>1
<1>4. ASSUME NEW i \in PrefixStarts(b) PROVE Len(a) + i \in PrefixStarts(c)
  <2>1. i \in 1 .. Len(b) /\ i + 1 \in 1 .. Len(b) /\ b[i] = "rs" /\ b[i + 1] = "v1"
    BY <1>1, <1>2
  <2>2. c[Len(a) + i] = "rs" /\ c[Len(a) + (i + 1)] = "v1" /\ Len(a) + (i + 1) = Len(a) + i + 1
    BY <1>1, <2>1
  <2>3. Len(a) + i \in 1 .. Len(c) /\ Len(a) + i + 1 <= Len(c)
    BY <1>1, <2>1
  <2>. QED BY <1>2, <2>2, <2>3
<1>5. ASSUME NEW i \in LineFeeds(a) PROVE i \in LineFeeds(c)
  BY <1>1, <1>2
<1>6. ASSUME NEW i \in LineFeeds(b) PROVE Len(a) + i \in LineFeeds(c)
  <2>1. i \in 1 .. Len(b) /\ b[i] = "nl"
    BY <1>2
  <2>2. c[Len(a) + i] = "nl" /\ Len(a) + i \in 1 .. Len(c)
    BY <1>1, <2>1
  <2>. QED BY <1>2, <2>2
<1>7. ASSUME NEW i \in PrefixStarts(c)
      PROVE  \/ i \in PrefixStarts(a)
             \/ i - Len(a) \in PrefixStarts(b)
             \/ i = Len(a) /\ Crossing(a, b)
  <2>1. i \in 1 .. Len(c) /\ i + 1 <= Len(c) /\ c[i] = "rs" /\ c[i + 1] = "v1"
    BY <1>2
  <2>2. CASE i + 1 <= Len(a)
    <3>1. i \in 1 .. Len(a) /\ i + 1 \in 1 .. Len(a)
      BY <1>1, <2>1, <2>2
    <3>2. a[i] = "rs" /\ a[i + 1] = "v1"
      BY <1>1, <2>1, <3>1
    <3>3. i \in PrefixStarts(a)
      BY <1>2, <2>2, <3>1, <3>2
    <3>. QED BY <3>3
  <2>3. CASE i = Len(a)
    <3>1. i \in 1 .. Len(a) /\ 1 \in 1 .. Len(b) /\ Len(a) + 1 = i + 1
      BY <1>1, <2>1, <2>3
    <3>2. a[Len(a)] = "rs" /\ b[1] = "v1"
      BY <1>1, <2>1, <2>3, <3>1
    <3>3. a # <<>> /\ b # <<>>
      BY <3>1, EmptySeq
    <3>. QED BY <2>3, <3>2, <3>3 DEF Crossing
  <2>4. CASE i > Len(a)
    <3> DEFINE j == i - Len(a)
    <3>1. j \in 1 .. Len(b) /\ j + 1 \in 1 .. Len(b) /\ Len(a) + j = i /\ Len(a) + (j + 1) = i + 1
      BY <1>1, <2>1, <2>4
    <3>2. b[j] = "rs" /\ b[j + 1] = "v1"
      <4>. HIDE DEF j
      <4>1. c[Len(a) + j] = b[j] /\ c[Len(a) + (j + 1)] = b[j + 1]
        BY <1>1, <3>1
      <4>. QED BY <2>1, <3>1, <4>1
    <3>3. j + 1 <= Len(b)
      BY <3>1
    <3>4. j \in PrefixStarts(b)
      <4>. HIDE DEF j
      <4>. QED BY <1>2, <3>1, <3>2, <3>3
    <3>. QED BY <3>4
  <2>. QED BY <1>1, <2>1, <2>2, <2>3, <2>4
<1>8. ASSUME NEW i \in LineFeeds(c)
      PROVE  i \in LineFeeds(a) \/ i - Len(a) \in LineFeeds(b)
  <2>1. i \in 1 .. Len(c) /\ c[i] = "nl"
    BY <1>2
  <2>2. CASE i <= Len(a)
    <3>1. i \in 1 .. Len(a)
      BY <1>1, <2>1, <2>2
    <3>. QED BY <1>1, <1>2, <2>1, <3>1
  <2>3. CASE i > Len(a)
    <3>1. i - Len(a) \in 1 .. Len(b) /\ Len(a) + (i - Len(a)) = i
      BY <1>1, <2>1, <2>3
    <3>2. b[i - Len(a)] = "nl"
      BY <1>1, <2>1, <3>1
    <3>. QED BY <1>2, <3>1, <3>2
  <2>. QED BY <1>1, <2>1, <2>2, <2>3
<1>. QED BY <1>3, <1>4, <1>5, <1>6, <1>7, <1>8 DEF c

\* Prefixes and line feeds are within the text.
LEMMA FoundRange ==
    ASSUME NEW a \in Seq(Text)
    PROVE  /\ \A i \in PrefixStarts(a) : i \in 1 .. Len(a) /\ i + 1 <= Len(a) /\ a[i] = "rs"
           /\ \A i \in LineFeeds(a) : i \in 1 .. Len(a) /\ a[i] = "nl"
  BY FoundAre

\* The pieces of two joined texts, cut within the second.
LEMMA JoinedPieces ==
    ASSUME NEW a \in Seq(Text), NEW b \in Seq(Text), NEW n \in 0 .. Len(b)
    PROVE  /\ SubSeq(a \o b, 1, Len(a) + n) = a \o SubSeq(b, 1, n)
           /\ From(a \o b, Len(a) + n + 1) = From(b, n + 1)
<1> DEFINE p == SubSeq(b, 1, n)
           q == From(b, n + 1)
<1>1. Len(a) \in Nat /\ Len(b) \in Nat /\ p \in Seq(Text) /\ q \in Seq(Text) /\ Len(p) = n
      /\ p \o q = b
  BY PieceTyped, LenProperties
<1>. HIDE DEF p, q
<1>2. a \o b = (a \o p) \o q
  <2>1. (a \o p) \o q = a \o (p \o q)
    BY <1>1, TextConcat
  <2>. QED BY <1>1, <2>1
<1> DEFINE ap == a \o p
<1>3. ap \in Seq(Text) /\ Len(ap) = Len(a) + n
  BY <1>1, Joined
<1>. HIDE DEF ap
<1>4. Len(ap) \in 0 .. Len(ap) /\ Len(ap) \in Nat
  BY <1>3, LenProperties
<1>5. SubSeq(ap \o q, 1, Len(ap)) = ap
  <2>1. SubSeq(ap \o q, 1, Len(ap)) = SubSeq(ap, 1, Len(ap))
    BY <1>1, <1>3, <1>4, BeginningOfConcat
  <2>2. SubSeq(ap, 1, Len(ap)) = ap
    BY <1>3, SubSeqFull
  <2>. QED BY <2>1, <2>2
<1>6. From(ap \o q, Len(ap) + 1) = q
  <2>1. From(ap \o q, Len(ap) + 1) = From(ap, Len(ap) + 1) \o q
    BY <1>1, <1>3, <1>4, FromConcat
  <2>2. From(ap, Len(ap) + 1) = <<>>
    BY <1>4, SubSeqEmpty DEF From
  <2>3. <<>> \o q = q
    BY <1>1, ConcatEmptySeq
  <2>. QED BY <2>1, <2>2, <2>3
<1>7. SubSeq(a \o b, 1, Len(a) + n) = ap
  BY <1>2, <1>3, <1>5 DEF ap
<1>8. From(a \o b, Len(a) + n + 1) = q
  BY <1>2, <1>3, <1>6 DEF ap
<1>. QED BY <1>7, <1>8 DEF ap, p, q

\* What Meaning says of itself.
MeaningOf(f, text) ==
  IF LineFeeds(text) = {} THEN text
  ELSE LET end == Min(LineFeeds(text))
       IN Reported(SubSeq(text, 1, end)) \o f[From(text, end + 1)]

\* The first line of a text and the rest.
LEMMA FirstLine ==
    ASSUME NEW text \in Seq(Text), LineFeeds(text) # {}
    PROVE  /\ Min(LineFeeds(text)) \in 1 .. Len(text)
           /\ Min(LineFeeds(text)) \in LineFeeds(text)
           /\ \A k \in LineFeeds(text) : Min(LineFeeds(text)) <= k
           /\ SubSeq(text, 1, Min(LineFeeds(text))) \in Seq(Text)
           /\ From(text, Min(LineFeeds(text)) + 1) \in Seq(Text)
           /\ Len(From(text, Min(LineFeeds(text)) + 1)) < Len(text)
           /\ SubSeq(text, 1, Min(LineFeeds(text))) \o From(text, Min(LineFeeds(text)) + 1) = text
           /\ Len(SubSeq(text, 1, Min(LineFeeds(text)))) = Min(LineFeeds(text))
<1> DEFINE n == Min(LineFeeds(text))
<1>1. n \in LineFeeds(text) /\ \A k \in LineFeeds(text) : n <= k
  BY FirstFound
<1>2. n \in 1 .. Len(text)
  BY <1>1, FoundRange
<1>. HIDE DEF n
<1>3. /\ SubSeq(text, 1, n) \in Seq(Text) /\ From(text, n + 1) \in Seq(Text)
      /\ Len(SubSeq(text, 1, n)) = n /\ Len(From(text, n + 1)) < Len(text)
      /\ SubSeq(text, 1, n) \o From(text, n + 1) = text
  BY <1>2, PassedPieces
<1>. QED BY <1>1, <1>2, <1>3 DEF n

\* What a line means can be shown.
LEMMA ReportedTyped ==
    ASSUME NEW line \in Seq(Text)
    PROVE  Reported(line) \in Seq(Shown)
<1> DEFINE found == PrefixStarts(line)
           m == Min(found)
           p == SubSeq(line, 1, m - 1)
<1>1. line \in Seq(Shown)
  BY TextIsShown
<1>2. found # {} => p \o <<"progress">> \in Seq(Shown)
  <2>1. SUFFICES ASSUME found # {} PROVE p \o <<"progress">> \in Seq(Shown)
    OBVIOUS
  <2>2. m \in 1 .. Len(line) /\ Len(line) \in Nat
    BY <2>1, FirstFound, FoundRange, LenProperties
  <2>3. m - 1 \in 0 .. Len(line)
    BY <2>2
  <2>4. p \in Seq(Text)
    BY <2>3, PieceTyped
  <2>5. p \in Seq(Shown) /\ <<"progress">> \in Seq(Shown)
    BY <2>4, TextIsShown DEF Shown
  <2>. HIDE DEF p
  <2>. QED BY <2>5, ConcatProperties
<1>. QED BY <1>1, <1>2 DEF Reported

\* Meaning is defined on all text, by its equation.
LEMMA MeaningDefined ==
    /\ Meaning \in [Seq(Text) -> Seq(Shown)]
    /\ \A text \in Seq(Text) : Meaning[text] = MeaningOf(Meaning, text)
<1> DEFINE S == Seq(Text)
           V == Seq(Shown)
           B == [f \in [S -> V] |-> [x \in S |-> MeaningOf(f, x)]]
           size == [x \in S |-> Len(x)]
<1>1. size \in [S -> Nat]
  BY LenProperties
<1>2. ASSUME NEW x \in S, LineFeeds(x) # {}
      PROVE  /\ From(x, Min(LineFeeds(x)) + 1) \in S
             /\ size[From(x, Min(LineFeeds(x)) + 1)] < size[x]
             /\ Reported(SubSeq(x, 1, Min(LineFeeds(x)))) \in V
  BY <1>2, FirstLine, ReportedTyped
<1>3. ASSUME NEW f \in [S -> V], NEW x \in S PROVE MeaningOf(f, x) \in V
  <2>1. x \in V
    BY TextIsShown
  <2>2. CASE LineFeeds(x) # {}
    <3>1. f[From(x, Min(LineFeeds(x)) + 1)] \in V
      BY <1>2, <2>2
    <3>2. Reported(SubSeq(x, 1, Min(LineFeeds(x)))) \in V
      BY <1>2, <2>2
    <3>. HIDE DEF S
    <3>. QED BY <2>2, <3>1, <3>2, ConcatProperties DEF MeaningOf
  <2>. QED BY <2>1, <2>2 DEF MeaningOf
<1>4. B \in [[S -> V] -> [S -> V]]
  BY <1>3
<1>5. ASSUME NEW f, NEW g, NEW x \in S, \A y \in S : size[y] < size[x] => f[y] = g[y]
      PROVE  MeaningOf(f, x) = MeaningOf(g, x)
  <2>1. LineFeeds(x) # {} => f[From(x, Min(LineFeeds(x)) + 1)] = g[From(x, Min(LineFeeds(x)) + 1)]
    <3>. HIDE DEF S, size
    <3>. QED BY <1>2, <1>5
  <2>. QED BY <2>1 DEF MeaningOf
<1>6. \E f \in [S -> V] : f = B[f]
  <2>1. V # {} BY EmptySeq
  <2>2. \A f, g \in [S -> V] : \A x \in S :
          (\A y \in S : size[y] < size[x] => f[y] = g[y]) => B[f][x] = B[g][x]
    BY <1>5
  <2>. HIDE DEF S, V, B, size
  <2>3. Recursive(S, V, size, B)
    BY <1>1, <1>4, <2>1, <2>2 DEF Recursive
  <2>. QED BY <2>3, Recursion
<1>7. Meaning = [x \in S |-> MeaningOf(Meaning, x)]
  <2>1. PICK f \in [S -> V] : f = [x \in S |-> MeaningOf(f, x)]
    BY <1>6
  <2>. QED BY <2>1 DEF Meaning, MeaningOf
<1>8. \A x \in S : Meaning[x] \in V
  <2> DEFINE P == {x \in S : Meaning[x] \in V}
  <2>1. ASSUME NEW x \in S, \A y \in S : size[y] < size[x] => y \in P
        PROVE  x \in P
    <3> DEFINE f == [y \in S |-> IF y \in P THEN Meaning[y] ELSE <<>>]
    <3>1. f \in [S -> V] BY EmptySeq
    <3>2. \A y \in S : size[y] < size[x] => f[y] = Meaning[y]
      <4>. HIDE DEF V, size
      <4>. QED BY <2>1
    <3>. HIDE DEF f
    <3>3. MeaningOf(f, x) = MeaningOf(Meaning, x)
      <4>. HIDE DEF S, V, P, size
      <4>. QED BY <1>5, <3>2
    <3>4. Meaning[x] = MeaningOf(Meaning, x) BY <1>7
    <3>5. MeaningOf(f, x) \in V BY <1>3, <3>1
    <3>. QED BY <3>3, <3>4, <3>5
  <2>2. S \subseteq P
    <3>. HIDE DEF S, P, size
    <3>. QED BY <1>1, <2>1, SizeInduction
  <2>. QED BY <2>2
<1>. QED BY <1>7, <1>8

\* Joining what is shown is associative.
LEMMA ShownConcat ==
    \A a, b, c \in Seq(Shown) : (a \o b) \o c = a \o (b \o c)
  BY ConcatAssociative

\* A line that begins without a prefix means that beginning, as text, and
\* what the rest of the line means.
LEMMA ReportedConcat ==
    ASSUME NEW a \in Seq(Text), NEW line \in Seq(Text),
           PrefixStarts(a) = {}, ~Crossing(a, line)
    PROVE  Reported(a \o line) = a \o Reported(line)
<1> DEFINE c == a \o line
<1>1. c \in Seq(Text) /\ Len(a) \in Nat /\ Len(line) \in Nat
  BY Joined
<1>2. /\ \A i \in PrefixStarts(line) : Len(a) + i \in PrefixStarts(c)
      /\ \A i \in PrefixStarts(c) : i - Len(a) \in PrefixStarts(line)
  BY JoinedFound
<1>. HIDE DEF c
<1>3. CASE PrefixStarts(line) = {}
  <2>1. PrefixStarts(c) = {}
    BY <1>2, <1>3
  <2>. QED BY <1>3, <2>1 DEF Reported, c
<1>4. CASE PrefixStarts(line) # {}
  <2> DEFINE m == Min(PrefixStarts(line))
             k == Min(PrefixStarts(c))
  <2>1. PrefixStarts(c) # {}
    BY <1>2, <1>4
  <2>2. /\ m \in PrefixStarts(line) /\ \A i \in PrefixStarts(line) : m <= i
        /\ k \in PrefixStarts(c) /\ \A i \in PrefixStarts(c) : k <= i
    BY <1>1, <1>4, <2>1, FirstFound
  <2>3. m \in 1 .. Len(line) /\ k \in 1 .. Len(c) /\ Len(c) \in Nat
    BY <1>1, <2>2, FoundRange, LenProperties
  <2>. HIDE DEF m, k
  <2>4. k = Len(a) + m
    <3>1. k <= Len(a) + m
      BY <1>2, <2>2
    <3>2. m <= k - Len(a)
      BY <1>2, <2>2
    <3>. QED BY <1>1, <2>3, <3>1, <3>2
  <2>5. m - 1 \in 0 .. Len(line) /\ Len(a) + (m - 1) = k - 1 /\ Len(a) + (m - 1) + 1 = k
        /\ (m - 1) + 1 = m
    BY <1>1, <2>3, <2>4
  <2> DEFINE p == SubSeq(line, 1, m - 1)
  <2>6. SubSeq(c, 1, k - 1) = a \o p /\ From(c, k) = From(line, m)
    BY <2>5, JoinedPieces DEF c
  <2>7. p \in Seq(Shown) /\ a \in Seq(Shown) /\ <<"progress">> \in Seq(Shown)
    BY <2>5, PieceTyped, TextIsShown DEF Shown
  <2>. HIDE DEF p
  <2>8. (a \o p) \o <<"progress">> = a \o (p \o <<"progress">>)
    BY <2>7, ShownConcat
  <2>9. Reported(c) = IF From(c, k) = Frame THEN SubSeq(c, 1, k - 1) \o <<"progress">> ELSE c
    BY <2>1 DEF Reported, k
  <2>10. Reported(line) = IF From(line, m) = Frame THEN p \o <<"progress">> ELSE line
    BY <1>4 DEF Reported, m, p
  <2>. QED BY <2>6, <2>8, <2>9, <2>10 DEF c
<1>. QED BY <1>3, <1>4

\* Without a line feed nothing is recognized.
LEMMA MeaningWithoutLines ==
    ASSUME NEW text \in Seq(Text), LineFeeds(text) = {}
    PROVE  Meaning[text] = text
  BY MeaningDefined DEF MeaningOf

\* Nor without a prefix.
LEMMA MeaningWithoutPrefixes ==
    ASSUME NEW text \in Seq(Text), PrefixStarts(text) = {}
    PROVE  Meaning[text] = text
<1> DEFINE S == Seq(Text)
           size == [x \in S |-> Len(x)]
           Good(x) == PrefixStarts(x) = {} => Meaning[x] = x
           P == {x \in S : Good(x)}
<1>1. size \in [S -> Nat]
  BY LenProperties
<1>2. ASSUME NEW x \in S, \A z \in S : size[z] < size[x] => z \in P
      PROVE  Good(x)
  <2>1. SUFFICES ASSUME PrefixStarts(x) = {} PROVE Meaning[x] = x
    OBVIOUS
  <2>2. CASE LineFeeds(x) = {}
    BY <2>2, MeaningWithoutLines
  <2>3. CASE LineFeeds(x) # {}
    <3> DEFINE line == SubSeq(x, 1, Min(LineFeeds(x)))
               rest == From(x, Min(LineFeeds(x)) + 1)
    <3>1. line \in Seq(Text) /\ rest \in S /\ size[rest] < size[x] /\ line \o rest = x
      BY <2>3, FirstLine
    <3>2. Meaning[x] = Reported(line) \o Meaning[rest]
      BY <2>3, MeaningDefined DEF MeaningOf
    <3>3. Good(rest)
      <4>. HIDE DEF S, size, Good, line, rest
      <4>. QED BY <1>2, <3>1
    <3>. HIDE DEF line, rest
    <3>4. PrefixStarts(line) = {} /\ PrefixStarts(rest) = {}
      BY <2>1, <3>1, JoinedFound
    <3>5. Reported(line) = line
      BY <3>4 DEF Reported
    <3>. QED BY <3>1, <3>2, <3>3, <3>4, <3>5
  <2>. QED BY <2>2, <2>3
<1>3. S \subseteq P
  <2>1. \A x \in S : (\A z \in S : size[z] < size[x] => z \in P) => x \in P
    BY <1>2
  <2>. HIDE DEF S, P, size
  <2>. QED BY <1>1, <2>1, SizeInduction
<1>. QED BY <1>3

\* The first line of a text that is followed by another, and that of a line's
\* beginning and what follows it.
LEMMA FirstLineOfJoined ==
    ASSUME NEW a \in Seq(Text), NEW b \in Seq(Text)
    PROVE  /\ LineFeeds(a) # {} =>
                /\ LineFeeds(a \o b) # {}
                /\ SubSeq(a \o b, 1, Min(LineFeeds(a \o b))) = SubSeq(a, 1, Min(LineFeeds(a)))
                /\ From(a \o b, Min(LineFeeds(a \o b)) + 1) = From(a, Min(LineFeeds(a)) + 1) \o b
           /\ LineFeeds(a) = {} /\ LineFeeds(b) # {} =>
                /\ LineFeeds(a \o b) # {}
                /\ SubSeq(a \o b, 1, Min(LineFeeds(a \o b))) = a \o SubSeq(b, 1, Min(LineFeeds(b)))
                /\ From(a \o b, Min(LineFeeds(a \o b)) + 1) = From(b, Min(LineFeeds(b)) + 1)
           /\ LineFeeds(a) = {} /\ LineFeeds(b) = {} => LineFeeds(a \o b) = {}
<1> DEFINE c == a \o b
           n == Min(LineFeeds(c))
<1>1. c \in Seq(Text) /\ Len(a) \in Nat /\ Len(b) \in Nat /\ Len(c) \in Nat
  BY Joined, LenProperties
<1>2. /\ \A i \in LineFeeds(a) : i \in LineFeeds(c)
      /\ \A i \in LineFeeds(b) : Len(a) + i \in LineFeeds(c)
      /\ \A i \in LineFeeds(c) : i \in LineFeeds(a) \/ i - Len(a) \in LineFeeds(b)
  BY JoinedFound
<1>. HIDE DEF c
<1>3. LineFeeds(c) # {} => /\ n \in LineFeeds(c) /\ n \in 1 .. Len(c)
                           /\ \A k \in LineFeeds(c) : n <= k
  BY <1>1, FirstFound, FoundRange
<1>. HIDE DEF n
<1>4. /\ \A i \in LineFeeds(a) : i \in 1 .. Len(a)
      /\ \A i \in LineFeeds(b) : i \in 1 .. Len(b)
  BY FoundRange
<1>5. ASSUME LineFeeds(a) # {}
      PROVE  /\ LineFeeds(c) # {}
             /\ SubSeq(c, 1, n) = SubSeq(a, 1, Min(LineFeeds(a)))
             /\ From(c, n + 1) = From(a, Min(LineFeeds(a)) + 1) \o b
  <2> DEFINE m == Min(LineFeeds(a))
  <2>1. m \in LineFeeds(a) /\ \A k \in LineFeeds(a) : m <= k
    BY <1>5, FirstFound
  <2>. HIDE DEF m
  <2>2. LineFeeds(c) # {} /\ n <= m
    BY <1>2, <1>3, <2>1
  <2>3. m \in 1 .. Len(a) /\ n \in 1 .. Len(c)
    BY <1>3, <1>4, <2>1, <2>2
  <2>4. n \in LineFeeds(a)
    <3>1. ~(n - Len(a) \in LineFeeds(b))
      <4>1. SUFFICES ASSUME n - Len(a) \in LineFeeds(b) PROVE FALSE
        OBVIOUS
      <4>2. n - Len(a) >= 1
        BY <1>4, <4>1
      <4>. QED BY <1>1, <2>2, <2>3, <4>2
    <3>. QED BY <1>2, <1>3, <2>2, <3>1
  <2>5. n = m
    BY <2>1, <2>2, <2>3, <2>4
  <2>6. m \in 0 .. Len(a)
    BY <1>1, <2>3
  <2>7. SubSeq(c, 1, m) = SubSeq(a, 1, m) /\ From(c, m + 1) = From(a, m + 1) \o b
    BY <2>6, BeginningOfConcat, FromConcat DEF c
  <2>. QED BY <2>2, <2>5, <2>7 DEF m
<1>6. ASSUME LineFeeds(a) = {}, LineFeeds(b) # {}
      PROVE  /\ LineFeeds(c) # {}
             /\ SubSeq(c, 1, n) = a \o SubSeq(b, 1, Min(LineFeeds(b)))
             /\ From(c, n + 1) = From(b, Min(LineFeeds(b)) + 1)
  <2> DEFINE m == Min(LineFeeds(b))
  <2>1. m \in LineFeeds(b) /\ \A k \in LineFeeds(b) : m <= k
    BY <1>6, FirstFound
  <2>. HIDE DEF m
  <2>2. LineFeeds(c) # {} /\ n <= Len(a) + m
    BY <1>2, <1>3, <2>1
  <2>3. n - Len(a) \in LineFeeds(b)
    BY <1>2, <1>3, <1>6, <2>2
  <2>4. m <= n - Len(a) /\ m \in 1 .. Len(b) /\ n \in 1 .. Len(c)
    BY <1>3, <1>4, <2>1, <2>2, <2>3
  <2>5. n = Len(a) + m /\ m \in 0 .. Len(b)
    BY <1>1, <2>2, <2>4
  <2>6. SubSeq(c, 1, Len(a) + m) = a \o SubSeq(b, 1, m)
        /\ From(c, Len(a) + m + 1) = From(b, m + 1)
    BY <2>5, JoinedPieces DEF c
  <2>. QED BY <2>2, <2>5, <2>6 DEF m
<1>7. LineFeeds(a) = {} /\ LineFeeds(b) = {} => LineFeeds(c) = {}
  BY <1>2
<1>. QED BY <1>5, <1>6, <1>7 DEF c, n

\* The rest of what is closed is closed.
LEMMA ClosedRest ==
    ASSUME NEW a \in Seq(Text), NEW b \in Seq(Text), NEW n \in 1 .. Len(a), Closed(a, b)
    PROVE  Closed(From(a, n + 1), b)
<1> DEFINE p == SubSeq(a, 1, n)
           r == From(a, n + 1)
<1>1. p \in Seq(Text) /\ r \in Seq(Text) /\ p \o r = a /\ Len(p) = n /\ n \in Nat
  BY PassedPieces
<1>. HIDE DEF p, r
<1>2. ASSUME NEW i \in PrefixStarts(r) PROVE \E k \in LineFeeds(r) : i < k
  <2>1. i \in 1 .. Len(r) /\ i + 1 <= Len(r) /\ Len(r) \in Nat
    BY <1>1, FoundRange, LenProperties
  <2>2. n + i \in PrefixStarts(a)
    BY <1>1, JoinedFound
  <2>3. PICK k \in LineFeeds(a) : n + i < k
    BY <2>2 DEF Closed
  <2>4. k \notin LineFeeds(p)
    <3>1. \A j \in LineFeeds(p) : j \in 1 .. n
      BY <1>1, FoundRange
    <3>. QED BY <1>1, <2>1, <2>3, <3>1
  <2>5. k - n \in LineFeeds(r)
    BY <1>1, <2>4, JoinedFound
  <2>6. k \in 1 .. Len(a) /\ Len(a) \in Nat
    BY FoundRange, LenProperties
  <2>7. i < k - n
    BY <1>1, <2>1, <2>3, <2>6
  <2>. QED BY <2>5, <2>7
<1>3. ~Crossing(r, b)
  <2>1. SUFFICES ASSUME Crossing(r, b) PROVE FALSE
    OBVIOUS
  <2>2. Len(r) \in Nat \ {0} /\ Len(r) \in 1 .. Len(r)
    BY <1>1, <2>1, EmptySeq DEF Crossing
  <2>3. a[n + Len(r)] = r[Len(r)] /\ Len(a) = n + Len(r)
    <3>1. (p \o r)[Len(p) + Len(r)] = r[Len(r)] /\ Len(p \o r) = Len(p) + Len(r)
      BY <1>1, <2>2, Joined
    <3>. QED BY <1>1, <3>1
  <2>4. a # <<>>
    BY <1>1, <2>2, <2>3, EmptySeq
  <2>. QED BY <2>1, <2>3, <2>4 DEF Crossing, Closed
<1>. QED BY <1>2, <1>3 DEF Closed, r

\* What is closed means the same whatever comes after it.
LEMMA MeaningConcat ==
    \A a, b \in Seq(Text) : Closed(a, b) => Meaning[a \o b] = Meaning[a] \o Meaning[b]
<1> DEFINE S == Seq(Text)
           size == [x \in S |-> Len(x)]
           Joins(x) == \A y \in Seq(Text) :
                         Closed(x, y) => Meaning[x \o y] = Meaning[x] \o Meaning[y]
           P == {x \in S : Joins(x)}
<1>1. size \in [S -> Nat]
  BY LenProperties
<1>2. ASSUME NEW x \in S, \A z \in S : size[z] < size[x] => z \in P
      PROVE  Joins(x)
  <2>1. SUFFICES ASSUME NEW y \in Seq(Text), Closed(x, y)
                 PROVE  Meaning[x \o y] = Meaning[x] \o Meaning[y]
    OBVIOUS
  <2> DEFINE xy == x \o y
  <2>2. x \in Seq(Text) /\ xy \in Seq(Text)
    BY Joined
  <2>. HIDE DEF xy
  <2>3. CASE LineFeeds(x) # {}
    <3> DEFINE n == Min(LineFeeds(x))
               line == SubSeq(x, 1, n)
               rest == From(x, n + 1)
    <3>1. n \in 1 .. Len(x) /\ line \in Seq(Text) /\ rest \in S /\ size[rest] < size[x]
      BY <2>3, FirstLine
    <3>2. /\ LineFeeds(xy) # {} /\ SubSeq(xy, 1, Min(LineFeeds(xy))) = line
          /\ From(xy, Min(LineFeeds(xy)) + 1) = rest \o y
      BY <2>2, <2>3, FirstLineOfJoined DEF xy
    <3>3. Closed(rest, y)
      BY <2>1, <2>2, <3>1, ClosedRest
    <3>4. Joins(rest)
      <4>. HIDE DEF S, size, Joins, line, rest
      <4>. QED BY <1>2, <3>1
    <3>5. Meaning[xy] = Reported(line) \o Meaning[rest \o y]
      BY <2>2, <3>2, MeaningDefined DEF MeaningOf
    <3>6. Meaning[x] = Reported(line) \o Meaning[rest]
      BY <2>2, <2>3, MeaningDefined DEF MeaningOf
    <3>7. Meaning[rest \o y] = Meaning[rest] \o Meaning[y]
      BY <3>3, <3>4
    <3> DEFINE r == Reported(line)
               mr == Meaning[rest]
               my == Meaning[y]
    <3>8. r \in Seq(Shown) /\ mr \in Seq(Shown) /\ my \in Seq(Shown)
      BY <3>1, ReportedTyped, MeaningDefined
    <3>. HIDE DEF r, mr, my
    <3>9. (r \o mr) \o my = r \o (mr \o my)
      BY <3>8, ShownConcat
    <3>. QED BY <3>5, <3>6, <3>7, <3>9 DEF r, mr, my, xy
  <2>4. CASE LineFeeds(x) = {}
    <3>1. PrefixStarts(x) = {} /\ ~Crossing(x, y)
      BY <2>1, <2>4 DEF Closed
    <3>2. Meaning[x] = x
      BY <2>2, <2>4, MeaningWithoutLines
    <3>3. CASE LineFeeds(y) = {}
      <4>1. LineFeeds(xy) = {}
        BY <2>2, <2>4, <3>3, FirstLineOfJoined DEF xy
      <4>2. Meaning[xy] = xy /\ Meaning[y] = y
        BY <2>2, <3>3, <4>1, MeaningWithoutLines
      <4>. QED BY <3>2, <4>2 DEF xy
    <3>4. CASE LineFeeds(y) # {}
      <4> DEFINE line == SubSeq(y, 1, Min(LineFeeds(y)))
                 rest == From(y, Min(LineFeeds(y)) + 1)
      <4>1. /\ line \in Seq(Text) /\ rest \in Seq(Text) /\ line \o rest = y
            /\ Min(LineFeeds(y)) \in 1 .. Len(y) /\ Len(line) = Min(LineFeeds(y))
        BY <3>4, FirstLine
      <4>2. /\ LineFeeds(xy) # {} /\ SubSeq(xy, 1, Min(LineFeeds(xy))) = x \o line
            /\ From(xy, Min(LineFeeds(xy)) + 1) = rest
        BY <2>2, <2>4, <3>4, FirstLineOfJoined DEF xy
      <4>3. Meaning[xy] = Reported(x \o line) \o Meaning[rest]
        BY <2>2, <4>2, MeaningDefined DEF MeaningOf
      <4>4. Meaning[y] = Reported(line) \o Meaning[rest]
        BY <3>4, MeaningDefined DEF MeaningOf
      <4>. HIDE DEF line, rest
      <4>5. Len(line) # 0 /\ line # <<>> /\ line[1] = y[1]
        <5>1. Len(line) \in Nat \ {0} /\ 1 \in 1 .. Len(line)
          BY <4>1, LenProperties
        <5>2. line # <<>>
          BY <5>1, EmptySeq
        <5>. QED BY <4>1, <5>1, <5>2, Joined
      <4>6. y # <<>>
        <5>1. Len(y) # 0
          BY <4>1, LenProperties
        <5>. QED BY <5>1, EmptySeq
      <4>7. ~Crossing(x, line)
        BY <3>1, <4>5, <4>6 DEF Crossing
      <4>8. Reported(x \o line) = x \o Reported(line)
        BY <2>2, <3>1, <4>1, <4>7, ReportedConcat
      <4> DEFINE r == Reported(line)
                 m == Meaning[rest]
      <4>9. r \in Seq(Shown) /\ m \in Seq(Shown) /\ x \in Seq(Shown)
        BY <2>2, <4>1, ReportedTyped, MeaningDefined, TextIsShown
      <4>. HIDE DEF r, m
      <4>10. (x \o r) \o m = x \o (r \o m)
        BY <4>9, ShownConcat
      <4>. QED BY <3>2, <4>3, <4>4, <4>8, <4>10 DEF r, m, xy
    <3>. QED BY <3>3, <3>4
  <2>. QED BY <2>3, <2>4
<1>3. S \subseteq P
  <2>1. \A x \in S : (\A z \in S : size[z] < size[x] => z \in P) => x \in P
    BY <1>2
  <2>. HIDE DEF S, P, size
  <2>. QED BY <1>1, <2>1, SizeInduction
<1>. QED BY <1>3

\* A record that is too long is still one after what is closed.
LEMMA OversizedRest ==
    ASSUME NEW a \in Seq(Text), NEW b \in Seq(Text), Closed(a, b), Oversized(b)
    PROVE  Oversized(a \o b)
<1> DEFINE c == a \o b
<1>1. /\ Len(a) \in Nat /\ Len(b) \in Nat /\ c \in Seq(Text) /\ Len(c) = Len(a) + Len(b)
      /\ DOMAIN b = 1 .. Len(b) /\ DOMAIN c = 1 .. Len(c)
  BY Joined, LenProperties
<1>2. PICK i \in 1 .. Len(b) :
        /\ FirstOfLine(b, i)
        /\ \A k \in LineFeeds(b) \cup {Len(b)} : k \notin i .. i + MaxFrame - 1
  BY <1>1 DEF Oversized
<1>3. i \in PrefixStarts(b)
  BY <1>1, <1>2 DEF PrefixStarts, FirstOfLine
<1>4. /\ \A j \in PrefixStarts(b) : Len(a) + j \in PrefixStarts(c)
      /\ \A k \in LineFeeds(a) : k \in LineFeeds(c)
      /\ \A k \in LineFeeds(b) : Len(a) + k \in LineFeeds(c)
      /\ \A j \in PrefixStarts(c) : j \in PrefixStarts(a) \/ j - Len(a) \in PrefixStarts(b)
      /\ \A k \in LineFeeds(c) : k \in LineFeeds(a) \/ k - Len(a) \in LineFeeds(b)
  BY JoinedFound DEF Closed
<1>5. /\ \A k \in LineFeeds(a) : k \in 1 .. Len(a)
      /\ \A k \in LineFeeds(b) : k \in 1 .. Len(b)
      /\ \A k \in LineFeeds(c) : k \in 1 .. Len(c)
      /\ \A j \in PrefixStarts(c) : j \in 1 .. Len(c)
  BY <1>1, FoundRange
<1>. HIDE DEF c
<1>6. Len(a) + i \in 1 .. Len(c) /\ At(c, Len(a) + i, FramePrefix)
  <2>1. Len(a) + i \in PrefixStarts(c)
    BY <1>3, <1>4
  <2>. QED BY <1>5, <2>1 DEF PrefixStarts
<1>7. ASSUME NEW j \in PrefixStarts(c), j < Len(a) + i
      PROVE  \E k \in LineFeeds(c) : j < k /\ k < Len(a) + i
  <2>1. CASE j \in PrefixStarts(a)
    <3>1. PICK k \in LineFeeds(a) : j < k
      BY <2>1 DEF Closed
    <3>2. k < Len(a) + i
      BY <1>1, <1>2, <1>5, <3>1
    <3>. QED BY <1>4, <3>1, <3>2
  <2>2. CASE j - Len(a) \in PrefixStarts(b)
    <3>1. j - Len(a) < i
      BY <1>1, <1>2, <1>5, <1>7
    <3>2. PICK k \in LineFeeds(b) : j - Len(a) < k /\ k < i
      BY <1>2, <2>2, <3>1 DEF FirstOfLine
    <3>3. j < Len(a) + k /\ Len(a) + k < Len(a) + i
      BY <1>1, <1>2, <1>5, <3>2
    <3>. QED BY <1>4, <3>2, <3>3
  <2>. QED BY <1>4, <2>1, <2>2
<1>8. FirstOfLine(c, Len(a) + i)
  BY <1>6, <1>7 DEF FirstOfLine
<1>9. ASSUME NEW k \in LineFeeds(c) \cup {Len(c)}
      PROVE  k \notin Len(a) + i .. Len(a) + i + MaxFrame - 1
  <2>1. CASE k \in LineFeeds(a)
    BY <1>1, <1>2, <1>5, <2>1, FrameAssumption
  <2>2. CASE k - Len(a) \in LineFeeds(b) /\ k \in Nat
    <3>1. k - Len(a) \notin i .. i + MaxFrame - 1
      BY <1>2, <2>2
    <3>2. i \in Nat /\ MaxFrame \in Nat /\ k - Len(a) \in Int
      <4>1. k \in Nat /\ Len(a) \in Nat
        BY <1>1, <2>2
      <4>2. \A m, n \in Nat : m - n \in Int
        OBVIOUS
      <4>3. k - Len(a) \in Int
        BY <4>1, <4>2
      <4>4. i \in Nat /\ MaxFrame \in Nat
        BY <1>1, FrameAssumption
      <4>. QED BY <4>3, <4>4
    <3>3. ~(i <= k - Len(a) /\ k - Len(a) <= i + MaxFrame - 1)
      BY <3>1, <3>2
    <3>4. ~(Len(a) + i <= k /\ k <= Len(a) + i + MaxFrame - 1)
      BY <1>1, <2>2, <3>2, <3>3
    <3>. QED BY <3>4
  <2>3. CASE k = Len(c)
    <3>1. Len(b) \notin i .. i + MaxFrame - 1
      BY <1>2
    <3>. QED BY <1>1, <1>2, <2>3, <3>1, FrameAssumption
  <2>. QED BY <1>4, <1>5, <2>1, <2>2, <2>3
<1>10. Oversized(c)
  BY <1>1, <1>6, <1>8, <1>9 DEF Oversized
<1>. QED BY <1>10 DEF c

\* And it is one whatever follows it.
LEMMA OversizedBeginning ==
    ASSUME NEW a \in Seq(Text), NEW b \in Seq(Text), Oversized(a)
    PROVE  Oversized(a \o b)
<1> DEFINE c == a \o b
<1>1. /\ Len(a) \in Nat /\ Len(b) \in Nat /\ c \in Seq(Text) /\ Len(c) = Len(a) + Len(b)
      /\ DOMAIN a = 1 .. Len(a) /\ DOMAIN c = 1 .. Len(c)
  BY Joined, LenProperties
<1>2. PICK i \in 1 .. Len(a) :
        /\ FirstOfLine(a, i)
        /\ \A k \in LineFeeds(a) \cup {Len(a)} : k \notin i .. i + MaxFrame - 1
  BY <1>1 DEF Oversized
<1>3. i \in PrefixStarts(a)
  BY <1>1, <1>2 DEF PrefixStarts, FirstOfLine
<1>4. /\ \A j \in PrefixStarts(a) : j \in PrefixStarts(c)
      /\ \A k \in LineFeeds(a) : k \in LineFeeds(c)
      /\ \A j \in PrefixStarts(c) :
           j \in PrefixStarts(a) \/ j - Len(a) \in PrefixStarts(b) \/ j = Len(a)
      /\ \A k \in LineFeeds(c) : k \in LineFeeds(a) \/ k - Len(a) \in LineFeeds(b)
  BY JoinedFound
<1>5. /\ \A k \in LineFeeds(b) : k \in 1 .. Len(b)
      /\ \A k \in LineFeeds(c) : k \in 1 .. Len(c)
      /\ \A j \in PrefixStarts(b) : j \in 1 .. Len(b)
      /\ \A j \in PrefixStarts(c) : j \in 1 .. Len(c)
  BY <1>1, FoundRange
<1>. HIDE DEF c
<1>6. i \in 1 .. Len(c) /\ At(c, i, FramePrefix)
  <2>1. i \in PrefixStarts(c)
    BY <1>3, <1>4
  <2>. QED BY <1>5, <2>1 DEF PrefixStarts
<1>7. ASSUME NEW j \in PrefixStarts(c), j < i
      PROVE  \E k \in LineFeeds(c) : j < k /\ k < i
  <2>1. j \in PrefixStarts(a)
    <3>1. j < Len(a) /\ j \in Nat
      BY <1>1, <1>2, <1>5, <1>7
    <3>2. j - Len(a) \notin PrefixStarts(b)
      BY <1>1, <1>5, <3>1
    <3>3. j # Len(a)
      <4>1. \A m, n \in Nat : m < n => m # n
        OBVIOUS
      <4>. QED BY <1>1, <3>1, <4>1
    <3>4. j \in PrefixStarts(a) \/ j - Len(a) \in PrefixStarts(b) \/ j = Len(a)
      BY <1>4
    <3>. QED BY <3>2, <3>3, <3>4
  <2>. QED BY <1>2, <1>4, <1>7, <2>1 DEF FirstOfLine
<1>8. FirstOfLine(c, i)
  BY <1>6, <1>7 DEF FirstOfLine
<1>9. ASSUME NEW k \in LineFeeds(c) \cup {Len(c)}
      PROVE  k \notin i .. i + MaxFrame - 1
  <2>1. CASE k \in LineFeeds(a)
    BY <1>2, <2>1
  <2>2. CASE k >= Len(a) /\ k \in Nat
    <3>1. Len(a) \notin i .. i + MaxFrame - 1
      BY <1>2
    <3>2. i \in Nat /\ i <= Len(a) /\ MaxFrame \in Nat
      BY <1>1, <1>2, FrameAssumption
    <3>3. Len(a) > i + MaxFrame - 1
      BY <1>1, <3>1, <3>2
    <3>4. k > i + MaxFrame - 1
      BY <1>1, <2>2, <3>2, <3>3
    <3>. QED BY <2>2, <3>2, <3>4
  <2>3. k - Len(a) \in LineFeeds(b) /\ k \in LineFeeds(c) => k >= Len(a) /\ k \in Nat
    BY <1>1, <1>5
  <2>4. k = Len(c) => k >= Len(a) /\ k \in Nat
    BY <1>1
  <2>. QED BY <1>4, <2>1, <2>2, <2>3, <2>4
<1>10. Oversized(c)
  BY <1>1, <1>6, <1>8, <1>9 DEF Oversized
<1>. QED BY <1>10 DEF c
-----------------------------------------------------------------------------
(* drain recognizes every frame *)

\* What has been decided of a text keeps its meaning whatever comes.
Settles(done, pending) ==
  /\ \A i \in PrefixStarts(done) : \E k \in LineFeeds(done) : i < k
  /\ pending # <<>> => pending[1] = "rs"
  /\ pending = <<>> /\ done # <<>> => done[Len(done)] # "rs"

\* The first and the last element of two joined texts.
LEMMA FirstOfText ==
    ASSUME NEW a \in Seq(Text), NEW b \in Seq(Text)
    PROVE  /\ a # <<>> => a \o b # <<>> /\ (a \o b)[1] = a[1]
           /\ a = <<>> => a \o b = b
           /\ b # <<>> => a \o b # <<>> /\ (a \o b)[Len(a \o b)] = b[Len(b)]
           /\ b = <<>> => a \o b = a
           /\ (a = <<>> <=> Len(a) = 0) /\ Len(a) \in Nat
<1>1. a # <<>> => a \o b # <<>> /\ (a \o b)[1] = a[1]
  BY FirstOfConcat
<1>2. (a = <<>> => a \o b = b) /\ (b = <<>> => a \o b = a)
  BY ConcatEmptySeq
<1>3. (a = <<>> <=> Len(a) = 0) /\ Len(a) \in Nat
  BY EmptySeq, LenProperties
<1>4. ASSUME b # <<>> PROVE a \o b # <<>> /\ (a \o b)[Len(a \o b)] = b[Len(b)]
  <2>1. Len(b) \in Nat \ {0} /\ Len(b) \in 1 .. Len(b)
    BY <1>4, EmptySeq
  <2>2. /\ a \o b \in Seq(Text) /\ Len(a \o b) = Len(a) + Len(b) /\ Len(a) \in Nat
        /\ (a \o b)[Len(a) + Len(b)] = b[Len(b)]
    BY <2>1, Joined
  <2>3. Len(a) + Len(b) # 0
    BY <2>1, <2>2
  <2>4. a \o b # <<>>
    BY <2>2, <2>3, EmptySeq
  <2>. QED BY <2>2, <2>4
<1>. QED BY <1>1, <1>2, <1>3, <1>4

\* What is decided of a text is closed, whatever follows what is held.
LEMMA SettlesClosed ==
    ASSUME NEW a \in Seq(Text), NEW p \in Seq(Text), NEW u \in Seq(Text), Settles(a, p)
    PROVE  Closed(a, p \o u)
<1>1. ~Crossing(a, p \o u)
  <2>1. CASE p # <<>>
    <3>1. p[1] = "rs" /\ (p \o u)[1] = p[1]
      BY <2>1, FirstOfText DEF Settles
    <3>. QED BY <3>1 DEF Crossing
  <2>2. CASE p = <<>>
    BY <2>2 DEF Settles, Crossing
  <2>. QED BY <2>1, <2>2
<1>. QED BY <1>1 DEF Settles, Closed

\* What is closed against a text is closed against its beginning.
LEMMA ClosedBeginning ==
    ASSUME NEW a \in Seq(Text), NEW b \in Seq(Text), NEW c \in Seq(Text), Closed(a, b \o c)
    PROVE  Closed(a, b)
<1>1. Crossing(a, b) => Crossing(a, b \o c)
  BY FirstOfText DEF Crossing
<1>. QED BY <1>1 DEF Closed

\* Deciding goes on after what is closed.
LEMMA SettlesJoin ==
    ASSUME NEW a \in Seq(Text), NEW b \in Seq(Text), NEW p \in Seq(Text),
           Closed(a, b \o p), Settles(b, p),
           b \o p = <<>> /\ a # <<>> => a[Len(a)] # "rs"
    PROVE  Settles(a \o b, p)
<1> DEFINE c == a \o b
<1>1. Closed(a, b)
  BY ClosedBeginning
<1>2. /\ \A k \in LineFeeds(a) : k \in LineFeeds(c)
      /\ \A k \in LineFeeds(b) : Len(a) + k \in LineFeeds(c)
      /\ \A j \in PrefixStarts(c) : j \in PrefixStarts(a) \/ j - Len(a) \in PrefixStarts(b)
      /\ \A j \in PrefixStarts(c) : j \in 1 .. Len(c)
      /\ \A k \in LineFeeds(b) : k \in 1 .. Len(b)
      /\ Len(a) \in Nat
  BY <1>1, JoinedFound, FoundRange, Joined DEF Closed
<1>. HIDE DEF c
<1>3. ASSUME NEW i \in PrefixStarts(c) PROVE \E k \in LineFeeds(c) : i < k
  <2>1. CASE i \in PrefixStarts(a)
    BY <1>2, <2>1 DEF Closed
  <2>2. CASE i - Len(a) \in PrefixStarts(b)
    <3>1. PICK k \in LineFeeds(b) : i - Len(a) < k
      BY <2>2 DEF Settles
    <3>2. i < Len(a) + k
      BY <1>2, <3>1
    <3>. QED BY <1>2, <3>1, <3>2
  <2>. QED BY <1>2, <2>1, <2>2
<1>4. p # <<>> => p[1] = "rs"
  BY DEF Settles
<1>5. ASSUME p = <<>>, c # <<>> PROVE c[Len(c)] # "rs"
  <2>1. b \o p = b
    BY <1>5, FirstOfText
  <2>2. CASE b = <<>>
    <3>1. c = a
      BY <2>2, FirstOfText DEF c
    <3>. QED BY <1>5, <2>1, <2>2, <3>1
  <2>3. CASE b # <<>>
    <3>1. c[Len(c)] = b[Len(b)]
      BY <2>3, FirstOfText DEF c
    <3>. QED BY <1>5, <2>3, <3>1 DEF Settles
  <2>. QED BY <2>2, <2>3
<1>6. Settles(c, p)
  BY <1>3, <1>4, <1>5 DEF Settles
<1>. QED BY <1>6 DEF c

\* What is passed on is what the text up to there means, if no record is too long.
LEMMA PassedMeans ==
    ASSUME NEW text \in Seq(Text), NEW n \in 1 .. Len(text), NEW shown \in Seq(Shown),
           PassesOn(text, n, shown), ~Oversized(text)
    PROVE  /\ shown = Meaning[SubSeq(text, 1, n)]
           /\ Closed(SubSeq(text, 1, n), From(text, n + 1))
           /\ From(text, n + 1) = <<>> => SubSeq(text, 1, n)[n] # "rs"
<1> DEFINE piece == SubSeq(text, 1, n)
           rest == From(text, n + 1)
<1>1. /\ piece \in Seq(Text) /\ rest \in Seq(Text) /\ Len(piece) = n /\ piece \o rest = text
      /\ Len(text) \in Nat /\ Len(rest) \in Nat
  BY PassedPieces, LenProperties
<1>. HIDE DEF piece, rest
<1>2. /\ \A i \in PrefixStarts(piece) : i \in PrefixStarts(text)
      /\ \A i \in LineFeeds(piece) : i \in LineFeeds(text)
      /\ \A i \in PrefixStarts(piece) : i \in 1 .. n /\ i + 1 <= n
      /\ \A i \in LineFeeds(piece) : i \in 1 .. n
  BY <1>1, JoinedFound, FoundRange
<1>3. /\ \A i \in 1 .. n : text[i] = piece[i]
      /\ \A i \in 1 .. Len(rest) : text[n + i] = rest[i]
      /\ Len(text) = n + Len(rest)
  BY <1>1, Joined
<1>4. CASE /\ PrefixStarts(text) # {} /\ 1 \notin PrefixStarts(text)
           /\ n = Min(PrefixStarts(text)) - 1 /\ shown = piece
  <2>1. /\ Min(PrefixStarts(text)) \in PrefixStarts(text)
        /\ \A i \in PrefixStarts(text) : Min(PrefixStarts(text)) <= i
    BY <1>4, FirstFound
  <2>2. Min(PrefixStarts(text)) \in 1 .. Len(text) /\ Min(PrefixStarts(text)) = n + 1
    BY <1>1, <1>4, <2>1, FoundRange
  <2>3. PrefixStarts(piece) = {}
    <3>1. ASSUME NEW i \in PrefixStarts(piece) PROVE FALSE
      <4>1. i \in PrefixStarts(text) /\ i \in 1 .. n
        BY <1>2
      <4>2. n + 1 <= i
        BY <2>1, <2>2, <4>1
      <4>. QED BY <4>1, <4>2
    <3>. QED BY <3>1
  <2>4. shown = Meaning[piece]
    BY <1>1, <1>4, <2>3, MeaningWithoutPrefixes
  <2>5. rest # <<>> /\ rest[1] = "rs"
    <3>1. text[n + 1] = "rs" /\ n + 1 <= Len(text)
      BY <2>1, <2>2, FoundRange
    <3>2. 1 \in 1 .. Len(rest) /\ Len(rest) # 0
      BY <1>1, <1>3, <3>1
    <3>3. rest[1] = "rs"
      BY <1>3, <3>1, <3>2
    <3>. QED BY <1>1, <3>2, <3>3, EmptySeq
  <2>6. Closed(piece, rest)
    BY <2>3, <2>5 DEF Closed, Crossing
  <2>. QED BY <2>4, <2>5, <2>6 DEF piece, rest
<1>5. CASE /\ 1 \in PrefixStarts(text) /\ LineFeeds(text) # {}
           /\ n = Min(LineFeeds(text)) /\ shown = Recognize(piece)
  <2>1. n \in LineFeeds(text) /\ \A k \in LineFeeds(text) : n <= k
    BY <1>5, FirstFound
  <2>2. piece[n] = "nl" /\ n \in LineFeeds(piece)
    <3>1. text[n] = "nl" /\ n \in 1 .. n
      BY <2>1, FoundRange
    <3>2. piece[n] = "nl"
      BY <1>3, <3>1
    <3>3. LineFeeds(piece) = {i \in 1 .. Len(piece) : piece[i] = "nl"}
      BY <1>1, FoundAre
    <3>. QED BY <1>1, <3>1, <3>2, <3>3
  <2>3. Closed(piece, rest)
    <3>1. \A i \in PrefixStarts(piece) : i < n
      BY <1>2
    <3>2. ~Crossing(piece, rest)
      BY <1>1, <2>2 DEF Crossing
    <3>. QED BY <2>2, <3>1, <3>2 DEF Closed
  <2>4. n <= MaxFrame
    <3>1. SUFFICES ASSUME n > MaxFrame PROVE Oversized(text)
      BY FrameAssumption
    <3>2. FirstOfLine(text, 1)
      <4>1. ASSUME NEW j \in PrefixStarts(text), j < 1 PROVE FALSE
        BY <4>1, FoundRange
      <4>. QED BY <1>5, <4>1 DEF FirstOfLine, PrefixStarts
    <3>3. ASSUME NEW k \in LineFeeds(text) \cup {Len(text)}
          PROVE  k \notin 1 .. 1 + MaxFrame - 1
      <4>1. n <= k /\ k \in Nat
        BY <1>1, <2>1, FoundRange
      <4>. QED BY <3>1, <4>1, FrameAssumption
    <3>4. 1 \in DOMAIN text
      BY <1>5 DEF PrefixStarts
    <3>. QED BY <3>2, <3>3, <3>4 DEF Oversized
  <2>5. 1 \in PrefixStarts(piece) /\ Min(PrefixStarts(piece)) = 1
    <3>1. 1 + 1 <= Len(text) /\ text[1] = "rs" /\ text[1 + 1] = "v1" /\ text[n] = "nl"
      BY <1>5, <2>1, FoundAre
    <3>2. n # 1 /\ n # 0
      BY <3>1
    <3>3. 1 \in 1 .. n /\ 1 + 1 \in 1 .. n /\ 1 + 1 <= n
      BY <3>2
    <3>4. piece[1] = "rs" /\ piece[1 + 1] = "v1"
      BY <1>3, <3>1, <3>3
    <3>5. PrefixStarts(piece) =
            {i \in 1 .. Len(piece) : i + 1 <= Len(piece) /\ piece[i] = "rs" /\ piece[i + 1] = "v1"}
      BY <1>1, FoundAre
    <3>6. 1 \in PrefixStarts(piece)
      BY <1>1, <3>3, <3>4, <3>5
    <3>7. Min(PrefixStarts(piece)) \in PrefixStarts(piece) /\ Min(PrefixStarts(piece)) <= 1
      BY <1>1, <3>6, FirstFound
    <3>8. Min(PrefixStarts(piece)) \in 1 .. n
      BY <1>2, <3>7
    <3>. QED BY <3>6, <3>7, <3>8
  <2>6. Reported(piece) = Recognize(piece)
    <3>1. From(piece, 1) = piece /\ SubSeq(piece, 1, 1 - 1) = <<>>
      BY <1>1, SubSeqFull, SubSeqEmpty DEF From
    <3>2. <<>> \o <<"progress">> = <<"progress">>
      OBVIOUS
    <3>3. Reported(piece) = IF piece = Frame THEN <<"progress">> ELSE piece
      BY <2>5, <3>1, <3>2 DEF Reported
    <3>. QED BY <1>1, <2>4, <3>3 DEF Recognize
  <2>7. Meaning[piece] = Reported(piece)
    <3>1. Min(LineFeeds(piece)) = n
      <4>1. Min(LineFeeds(piece)) \in LineFeeds(piece)
        BY <1>1, <2>2, FirstFound
      <4>2. n <= Min(LineFeeds(piece)) /\ Min(LineFeeds(piece)) \in 1 .. n
        BY <1>2, <2>1, <4>1
      <4>. QED BY <4>2
    <3>2. SubSeq(piece, 1, n) = piece /\ From(piece, n + 1) = <<>>
      BY <1>1, SubSeqFull, SubSeqEmpty DEF From
    <3>3. Meaning[piece] = Reported(piece) \o Meaning[<<>>]
      BY <1>1, <2>2, <3>1, <3>2, MeaningDefined DEF MeaningOf
    <3>4. Meaning[<<>>] = <<>>
      <4>1. LineFeeds(<<>>) = {}
        BY DEF LineFeeds
      <4>2. <<>> \in Seq(Text)
        BY EmptySeq
      <4>. QED BY <4>1, <4>2, MeaningWithoutLines
    <3>5. Reported(piece) \in Seq(Shown)
      BY <1>1, ReportedTyped
    <3>. QED BY <3>3, <3>4, <3>5, ConcatEmptySeq
  <2>8. piece[n] # "rs"
    BY <2>2
  <2>. QED BY <1>5, <2>3, <2>6, <2>7, <2>8 DEF piece, rest
<1>. QED BY <1>4, <1>5 DEF PassesOn, piece

\* What drain shows of a text is what the text means, and what it keeps is
\* the beginning of a frame or of a prefix, if no record is too long.
LEMMA DrainMeans ==
    ASSUME NEW eof \in BOOLEAN, NEW text \in Seq(Text), ~Oversized(text)
    PROVE  /\ Drain(eof)[text].shown = Meaning[Original[Drain(eof)[text].shown]]
           /\ ~eof => Settles(Original[Drain(eof)[text].shown], Drain(eof)[text].pending)
<1> DEFINE S == Seq(Text)
           size == [x \in S |-> Len(x)]
           d == Drain(eof)
           Good(x) == ~Oversized(x) =>
                        /\ d[x].shown = Meaning[Original[d[x].shown]]
                        /\ ~eof => Settles(Original[d[x].shown], d[x].pending)
           P == {x \in S : Good(x)}
<1>1. size \in [S -> Nat]
  BY LenProperties
<1>2. ASSUME NEW x \in S
      PROVE  /\ d[x].shown \in Seq(Shown) /\ d[x].pending \in Seq(Text)
             /\ Original[d[x].shown] \in Seq(Text)
             /\ Original[d[x].shown] \o d[x].pending = x
  BY DrainHolds, OriginalDefined DEF Drained
<1>. HIDE DEF d
<1>3. ASSUME NEW x \in S, \A z \in S : size[z] < size[x] => z \in P
      PROVE  Good(x)
  <2>1. x \in Seq(Text) /\ Len(x) \in Nat
    BY LenProperties
  <2>2. SUFFICES ASSUME ~Oversized(x)
                 PROVE  /\ d[x].shown = Meaning[Original[d[x].shown]]
                        /\ ~eof => Settles(Original[d[x].shown], d[x].pending)
    OBVIOUS
  <2>3. ASSUME NEW n \in 1 .. Len(x), NEW shown \in Seq(Shown), PassesOn(x, n, shown),
               d[x].shown = shown \o d[From(x, n + 1)].shown,
               d[x].pending = d[From(x, n + 1)].pending
        PROVE  /\ d[x].shown = Meaning[Original[d[x].shown]]
               /\ ~eof => Settles(Original[d[x].shown], d[x].pending)
    <3> DEFINE piece == SubSeq(x, 1, n)
               rest == From(x, n + 1)
               s == d[rest].shown
               p == d[rest].pending
               b == Original[s]
    <3>1. /\ piece \in Seq(Text) /\ rest \in S /\ size[rest] < size[x] /\ piece \o rest = x
          /\ Len(piece) = n
      BY PassedPieces
    <3>2. /\ shown = Meaning[piece] /\ Closed(piece, rest)
          /\ rest = <<>> => piece[n] # "rs"
      BY <2>2, <2>3, PassedMeans
    <3>3. Original[shown] = piece
      BY <2>3, OriginalOfPassed
    <3>4. Good(rest)
      <4>. HIDE DEF S, size, Good, rest, s, p, b
      <4>. QED BY <1>3, <3>1
    <3>5. s \in Seq(Shown) /\ p \in Seq(Text) /\ b \in Seq(Text) /\ b \o p = rest
      BY <1>2, <3>1
    <3>6. ~Oversized(rest)
      <4>1. Oversized(rest) => Oversized(piece \o rest)
        BY <3>1, <3>2, OversizedRest
      <4>. QED BY <2>2, <3>1, <4>1
    <3>7. s = Meaning[b] /\ (~eof => Settles(b, p))
      BY <3>4, <3>6
    <3>. HIDE DEF piece, rest, s, p, b
    <3>8. Original[d[x].shown] = piece \o b /\ d[x].shown = shown \o s /\ d[x].pending = p
      <4>1. d[x].shown = shown \o s /\ d[x].pending = p
        BY <2>3 DEF s, p, rest
      <4>2. Original[shown \o s] = Original[shown] \o b
        BY <3>5, OriginalConcat DEF b
      <4>. QED BY <3>3, <4>1, <4>2
    <3>9. Meaning[piece \o b] = Meaning[piece] \o Meaning[b]
      <4>1. Closed(piece, b)
        BY <3>1, <3>2, <3>5, ClosedBeginning
      <4>. QED BY <3>1, <3>5, <4>1, MeaningConcat
    <3>10. ~eof => Settles(piece \o b, p)
      <4>1. rest = <<>> /\ piece # <<>> => piece[Len(piece)] # "rs"
        BY <3>1, <3>2
      <4>. QED BY <3>1, <3>2, <3>5, <3>7, <4>1, SettlesJoin
    <3>. QED BY <3>2, <3>7, <3>8, <3>9, <3>10
  <2>4. ASSUME NEW n \in 0 .. Len(x), Stops(x, eof, n),
               d[x].shown = SubSeq(x, 1, n), d[x].pending = From(x, n + 1)
        PROVE  /\ d[x].shown = Meaning[Original[d[x].shown]]
               /\ ~eof => Settles(Original[d[x].shown], d[x].pending)
    <3> DEFINE done == SubSeq(x, 1, n)
               p == From(x, n + 1)
    <3>1. /\ done \in Seq(Text) /\ p \in Seq(Text) /\ done \o p = x
          /\ Len(done) = n /\ Len(p) = Len(x) - n
      BY <2>1, PieceTyped
    <3>. HIDE DEF done, p
    <3>2. Original[done] = done
      BY <3>1, OriginalOfText
    <3>3. /\ \A i \in 1 .. n : x[i] = done[i]
          /\ \A i \in 1 .. Len(p) : x[n + i] = p[i]
          /\ \A i \in PrefixStarts(done) : i \in PrefixStarts(x)
          /\ \A i \in LineFeeds(done) : i \in LineFeeds(x)
          /\ (done = <<>> <=> n = 0) /\ (p = <<>> <=> Len(p) = 0)
      <4>1. /\ \A i \in 1 .. Len(done) : (done \o p)[i] = done[i]
            /\ \A i \in 1 .. Len(p) : (done \o p)[Len(done) + i] = p[i]
        BY <3>1, Joined
      <4>2. /\ \A i \in PrefixStarts(done) : i \in PrefixStarts(done \o p)
            /\ \A i \in LineFeeds(done) : i \in LineFeeds(done \o p)
        BY <3>1, JoinedFound
      <4>3. (done = <<>> <=> Len(done) = 0) /\ (p = <<>> <=> Len(p) = 0)
        BY <3>1, EmptySeq
      <4>. QED BY <3>1, <4>1, <4>2, <4>3
    <3>4. CASE PrefixStarts(x) = {} /\ n = Len(x) - (IF eof THEN 0 ELSE PartialPrefix(x))
      <4>1. PrefixStarts(done) = {}
        BY <3>3, <3>4
      <4>2. done = Meaning[done]
        BY <3>1, <4>1, MeaningWithoutPrefixes
      <4>3. ASSUME ~eof PROVE Settles(done, p)
        <5>1. n = Len(x) - PartialPrefix(x)
          BY <3>4, <4>3
        <5>2. CASE x # <<>> /\ x[Len(x)] = "rs"
          <6>1. PartialPrefix(x) = 1
            BY <2>1, <5>2, PartialPrefixValue
          <6>2. Len(x) # 0
            BY <2>1, <5>2, EmptySeq
          <6>3. Len(p) = 1 /\ n + 1 = Len(x)
            BY <2>1, <3>1, <5>1, <6>1, <6>2
          <6>4. p # <<>> /\ p[1] = "rs"
            BY <3>3, <5>2, <6>3
          <6>. QED BY <4>1, <6>4 DEF Settles
        <5>3. CASE ~(x # <<>> /\ x[Len(x)] = "rs")
          <6>1. PartialPrefix(x) = 0
            BY <2>1, <5>3, PartialPrefixValue
          <6>2. n = Len(x)
            BY <2>1, <5>1, <6>1
          <6>3. p = <<>> /\ done = x
            <7>1. Len(p) = 0
              BY <2>1, <3>1, <6>2
            <7>2. p = <<>>
              BY <3>3, <7>1
            <7>3. done \o <<>> = done
              BY <3>1, ConcatEmptySeq
            <7>. QED BY <3>1, <7>2, <7>3
          <6>. QED BY <4>1, <5>3, <6>3 DEF Settles
        <5>. QED BY <5>2, <5>3
      <4>. QED BY <2>4, <3>2, <4>2, <4>3 DEF done, p
    <3>5. CASE /\ 1 \in PrefixStarts(x) /\ LineFeeds(x) = {}
               /\ n = IF eof \/ Len(x) > MaxFrame THEN Len(x) ELSE 0
      <4>1. LineFeeds(done) = {}
        BY <3>3, <3>5
      <4>2. done = Meaning[done]
        BY <3>1, <4>1, MeaningWithoutLines
      <4>3. ASSUME ~eof PROVE Settles(done, p)
        <5>1. ~(Len(x) > MaxFrame)
          <6>1. SUFFICES ASSUME Len(x) > MaxFrame PROVE Oversized(x)
            BY <2>2
          <6>2. FirstOfLine(x, 1)
            <7>1. ASSUME NEW j \in PrefixStarts(x), j < 1 PROVE FALSE
              BY <2>1, <7>1, FoundRange
            <7>. QED BY <3>5, <7>1 DEF FirstOfLine, PrefixStarts
          <6>3. Len(x) \notin 1 .. 1 + MaxFrame - 1
            BY <2>1, <6>1, FrameAssumption
          <6>4. 1 \in DOMAIN x
            BY <3>5 DEF PrefixStarts
          <6>. QED BY <3>5, <6>2, <6>3, <6>4 DEF Oversized
        <5>2. n = 0
          BY <3>5, <4>3, <5>1
        <5>3. done = <<>>
          BY <3>3, <5>2
        <5>4. p = x
          BY <3>1, <5>3, FirstOfText
        <5>5. x[1] = "rs" /\ x # <<>>
          <6>1. x[1] = "rs" /\ 1 \in 1 .. Len(x)
            BY <2>1, <3>5, FoundRange
          <6>2. Len(x) # 0
            BY <2>1, <6>1
          <6>. QED BY <2>1, <6>1, <6>2, EmptySeq
        <5>6. PrefixStarts(done) = {}
          <6>1. \A i \in PrefixStarts(done) : i \in 1 .. n
            BY <3>1, FoundRange
          <6>. QED BY <5>2, <6>1
        <5>. QED BY <5>3, <5>4, <5>5, <5>6 DEF Settles
      <4>. QED BY <2>4, <3>2, <4>2, <4>3 DEF done, p
    <3>. QED BY <2>4, <3>4, <3>5 DEF Stops
  <2>. HIDE DEF S, P, size, Good
  <2>. QED BY <2>1, <2>3, <2>4, DrainCases DEF d
<1>4. S \subseteq P
  <2>1. \A x \in S : (\A z \in S : size[z] < size[x] => z \in P) => x \in P
    BY <1>3
  <2>. HIDE DEF S, P, size
  <2>. QED BY <1>1, <2>1, SizeInduction
<1>. QED BY <1>4 DEF d
-----------------------------------------------------------------------------
(* The decoders of a stream *)

\* Bytes that end within a character.
Ends(bytes) == bytes # <<>> /\ bytes[Len(bytes)] = "head"

\* What the UTF-8 decoder keeps: the first byte of a character, or nothing.
HeldBack(done, held) == held = <<"head">> \/ (held = <<>> /\ ~Ends(done))

\* Joined bytes end as the second ones do.
LEMMA EndOfJoined ==
    ASSUME NEW a \in Seq(Bytes), NEW b \in Seq(Bytes), b # <<>>, Ends(a \o b)
    PROVE  Ends(b)
<1>1. Len(a) \in Nat /\ Len(b) \in Nat \ {0}
  BY LenProperties, EmptySeq
<1>2. /\ Len(a \o b) = Len(a) + Len(b)
      /\ \A i \in 1 .. Len(a) + Len(b) :
           (a \o b)[i] = IF i <= Len(a) THEN a[i] ELSE b[i - Len(a)]
  BY ConcatProperties
<1>3. (a \o b)[Len(a) + Len(b)] = b[Len(b)]
  <2>1. Len(a) + Len(b) \in 1 .. Len(a) + Len(b) /\ ~(Len(a) + Len(b) <= Len(a))
        /\ Len(a) + Len(b) - Len(a) = Len(b)
    BY <1>1
  <2>. QED BY <1>2, <2>1
<1>. QED BY <1>2, <1>3 DEF Ends

\* The UTF-8 decoder gives the characters of what it does not keep, and cuts
\* no character.
LEMMA Utf8Holds ==
    ASSUME NEW eof \in BOOLEAN, NEW done \in Seq(Bytes), NEW held \in Seq(Bytes),
           NEW bytes \in Seq(Bytes), HeldBack(done, held)
    PROVE  LET utf8 == Utf8(held, bytes, eof)
           IN \E w \in Seq(Bytes) :
                /\ utf8.text = Characters[w] /\ utf8.pending \in Seq(Bytes)
                /\ w \o utf8.pending = held \o bytes
                /\ IF eof THEN utf8.pending = <<>> ELSE HeldBack(done \o w, utf8.pending)
                /\ Cut(done, w)
<1> DEFINE input == held \o bytes
           waits == ~eof /\ IsSuffix(<<"head">>, input)
           whole == Len(input) - IF waits THEN 1 ELSE 0
           w == SubSeq(input, 1, whole)
           h == From(input, whole + 1)
<1>1. input \in Seq(Bytes) /\ Len(input) \in Nat
  BY ConcatProperties, LenProperties
<1>2. IsSuffix(<<"head">>, input) <=> Ends(input)
  <2>1. "head" \in Bytes
    BY DEF Bytes
  <2>2. IsSuffix(<<"head">>, input) <=> input # <<>> /\ input[Len(input)] = "head"
    BY <1>1, <2>1, SuffixOfOne
  <2>. QED BY <2>2 DEF Ends
<1>3. Utf8(held, bytes, eof).text = Characters[w] /\ Utf8(held, bytes, eof).pending = h
  BY DEF Utf8
<1>. HIDE DEF input
<1>4. Ends(input) => Len(input) >= 1 /\ input[Len(input)] = "head"
  BY <1>1, EmptySeq DEF Ends
<1>5. whole \in 0 .. Len(input) /\ Len(input) - whole = IF waits THEN 1 ELSE 0
  BY <1>1, <1>2, <1>4
<1>. HIDE DEF whole
<1>6. /\ w \in Seq(Bytes) /\ h \in Seq(Bytes) /\ w \o h = input
      /\ Len(w) = whole /\ Len(h) = Len(input) - whole
  BY <1>1, <1>5, PieceTyped
<1>7. waits => h = <<"head">>
  <2>1. SUFFICES ASSUME waits PROVE h = <<"head">>
    OBVIOUS
  <2>2. whole + 1 = Len(input) /\ Len(h) = 1 /\ whole + 1 \in 1 .. Len(input) + 1
    BY <1>1, <1>5, <1>6, <2>1
  <2>3. \A j \in 1 .. Len(input) - (whole + 1) + 1 : h[j] = input[whole + 1 + j - 1]
    BY <1>1, <2>2, FromProperties
  <2>4. 1 \in 1 .. Len(input) - (whole + 1) + 1 /\ whole + 1 + 1 - 1 = Len(input)
    BY <1>1, <1>5, <2>2
  <2>5. h[1] = "head"
    BY <1>2, <1>4, <2>1, <2>3, <2>4
  <2>. HIDE DEF h
  <2>. QED BY <1>6, <2>2, <2>5
<1>8. ~waits => h = <<>> /\ w = input
  <2>1. SUFFICES ASSUME ~waits PROVE h = <<>> /\ w = input
    OBVIOUS
  <2>2. Len(h) = 0
    BY <1>5, <1>6, <2>1
  <2>3. h = <<>>
    BY <1>6, <2>2, EmptySeq
  <2>4. w \o <<>> = w
    BY <1>6, ConcatEmptySeq
  <2>. QED BY <1>6, <2>3, <2>4
<1>. HIDE DEF w, h
<1>9. ASSUME ~eof PROVE HeldBack(done \o w, h)
  <2>1. CASE waits
    BY <1>7, <2>1 DEF HeldBack
  <2>2. CASE ~waits
    <3>1. h = <<>> /\ w = input /\ ~Ends(input)
      BY <1>2, <1>8, <1>9, <2>2
    <3>2. CASE input = <<>>
      <4>1. held # <<"head">>
        <5>1. held # <<>> => input # <<>>
          BY FirstOfConcat DEF input
        <5>2. <<"head">> # <<>>
          OBVIOUS
        <5>. QED BY <3>2, <5>1, <5>2
      <4>2. done \o w = done
        BY <3>1, <3>2, ConcatEmptySeq
      <4>. QED BY <3>1, <4>1, <4>2 DEF HeldBack
    <3>3. CASE input # <<>>
      BY <1>1, <3>1, <3>3, EndOfJoined DEF HeldBack
    <3>. QED BY <3>2, <3>3
  <2>. QED BY <2>1, <2>2
<1>10. Cut(done, w)
  <2>1. SUFFICES ASSUME Ends(done), w # <<>> PROVE w[1] # "tail"
    BY DEF Cut, Ends
  <2>2. held = <<"head">>
    BY <2>1 DEF HeldBack
  <2>3. input[1] = "head"
    <3>1. held # <<>> /\ held[1] = "head"
      BY <2>2
    <3>. QED BY <3>1, FirstOfConcat DEF input
  <2>4. input[1] = w[1]
    BY <1>6, <2>1, FirstOfConcat
  <2>. QED BY <2>3, <2>4
<1>11. eof => h = <<>>
  BY <1>8
<1>12. IF eof THEN h = <<>> ELSE HeldBack(done \o w, h)
  BY <1>9, <1>11
<1>. QED BY <1>3, <1>6, <1>10, <1>12 DEF input

\* The bytes a decoder has taken, and those it holds.
Decodes(utf8, eof, done, held, bytes) ==
  /\ utf8.pending \in Seq(Bytes) /\ utf8.text \in Seq(Text)
  /\ eof => utf8.pending = <<>>
  /\ \E more \in Seq(Bytes) :
       /\ more \o utf8.pending = (done \o held) \o bytes
       /\ Characters[more] = Characters[done] \o utf8.text
       /\ ~eof => HeldBack(more, utf8.pending)

\* The same, of all the bytes it has been given.
LEMMA Utf8Decodes ==
    ASSUME NEW eof \in BOOLEAN, NEW done \in Seq(Bytes), NEW held \in Seq(Bytes),
           NEW bytes \in Seq(Bytes), HeldBack(done, held)
    PROVE  Decodes(Utf8(held, bytes, eof), eof, done, held, bytes)
<1> DEFINE utf8 == Utf8(held, bytes, eof)
<1>1. PICK w \in Seq(Bytes) :
                /\ utf8.text = Characters[w] /\ utf8.pending \in Seq(Bytes)
                /\ w \o utf8.pending = held \o bytes
                /\ IF eof THEN utf8.pending = <<>> ELSE HeldBack(done \o w, utf8.pending)
                /\ Cut(done, w)
  BY Utf8Holds
<1>. HIDE DEF utf8
<1> DEFINE p == utf8.pending
           more == done \o w
<1>2. p \in Seq(Bytes) /\ more \in Seq(Bytes)
  BY <1>1, ConcatProperties
<1>3. more \o p = done \o (w \o p) /\ (done \o held) \o bytes = done \o (held \o bytes)
  BY <1>1, BytesConcat
<1>4. Characters[more] = Characters[done] \o utf8.text
  BY <1>1, CharactersConcat
<1>5. utf8.text \in Seq(Text)
  BY <1>1, CharactersDefined
<1>6. more \o p = (done \o held) \o bytes
  BY <1>1, <1>3
<1>7. (eof => p = <<>>) /\ (~eof => HeldBack(more, p))
  BY <1>1
<1>. HIDE DEF more, p
<1>8. \E m \in Seq(Bytes) :
        /\ m \o p = (done \o held) \o bytes
        /\ Characters[m] = Characters[done] \o utf8.text
        /\ ~eof => HeldBack(m, p)
  BY <1>2, <1>4, <1>6, <1>7
<1>9. Decodes(utf8, eof, done, held, bytes)
  BY <1>2, <1>5, <1>7, <1>8 DEF p, Decodes
<1>. QED BY <1>9 DEF utf8

\* What is shown of a text, and what is not yet.
Conveys(frames, eof, shown, pending, text) ==
  LET all == shown \o frames.shown
  IN /\ frames.shown \in Seq(Shown) /\ frames.pending \in Seq(Text)
     /\ all \in Seq(Shown) /\ Len(frames.pending) <= MaxFrame
     /\ eof => frames.pending = <<>>
     /\ Original[all] \o frames.pending = (Original[shown] \o pending) \o text
     /\ /\ ~Oversized((Original[shown] \o pending) \o text)
        /\ shown = Meaning[Original[shown]] /\ Settles(Original[shown], pending)
        => /\ all = Meaning[Original[all]]
           /\ ~eof => Settles(Original[all], frames.pending)

\* The frame decoder conveys what it has been given.
LEMMA FramesMean ==
    ASSUME NEW eof \in BOOLEAN, NEW shown \in Seq(Shown), NEW pending \in Seq(Text),
           NEW text \in Seq(Text)
    PROVE  Conveys(Frames(pending \o text, eof), eof, shown, pending, text)
<1> DEFINE input == pending \o text
           d == Drain(eof)[input]
           s == d.shown
           p == d.pending
           a == Original[shown]
           b == Original[s]
<1>1. input \in Seq(Text)
  BY ConcatProperties
<1>2. /\ d \in Drained /\ b \o p = input /\ Len(p) <= MaxFrame /\ (eof => p = <<>>)
  BY <1>1, DrainHolds
<1>3. s \in Seq(Shown) /\ p \in Seq(Text)
  BY <1>2 DEF Drained
<1>4. a \in Seq(Text) /\ b \in Seq(Text)
  BY <1>3, OriginalDefined
<1>5. Frames(input, eof) = d
  BY DEF Frames
<1>6. ~Oversized(input) => s = Meaning[b] /\ (~eof => Settles(b, p))
  BY <1>1, DrainMeans
<1>7. ~eof \/ p = <<>>
  BY <1>2
<1>. HIDE DEF d
<1> DEFINE all == shown \o s
<1>8. all \in Seq(Shown) /\ Original[all] = a \o b
  BY <1>3, ConcatProperties, OriginalConcat
<1>. HIDE DEF s, p, a, b
<1>9. (a \o b) \o p = (a \o pending) \o text
  <2>1. (a \o b) \o p = a \o (b \o p)
    BY <1>3, <1>4, TextConcat
  <2>2. (a \o pending) \o text = a \o (pending \o text)
    BY <1>4, TextConcat
  <2>. QED BY <1>2, <2>1, <2>2
<1>. HIDE DEF input, all
<1>10. ASSUME ~Oversized((a \o pending) \o text), shown = Meaning[a], Settles(a, pending)
       PROVE  all = Meaning[Original[all]] /\ (~eof => Settles(Original[all], p))
  <2>1. Closed(a, input)
    BY <1>4, <1>10, SettlesClosed DEF input
  <2>2. a \o input = (a \o pending) \o text
    BY <1>4, TextConcat DEF input
  <2>3. ~Oversized(input)
    BY <1>1, <1>4, <1>10, <2>1, <2>2, OversizedRest
  <2>4. s = Meaning[b] /\ (~eof => Settles(b, p))
    BY <1>6, <2>3
  <2>5. Closed(a, b)
    BY <1>2, <1>3, <1>4, <2>1, ClosedBeginning
  <2>6. Meaning[a \o b] = Meaning[a] \o Meaning[b]
    BY <1>4, <2>5, MeaningConcat
  <2>7. all = Meaning[Original[all]]
    BY <1>8, <1>10, <2>4, <2>6 DEF all
  <2>8. ASSUME ~eof PROVE Settles(Original[all], p)
    <3>1. b \o p = <<>> /\ a # <<>> => a[Len(a)] # "rs"
      <4>1. SUFFICES ASSUME input = <<>> PROVE pending = <<>>
        BY <1>2, <1>10 DEF Settles
      <4>. QED BY <4>1, FirstOfText DEF input
    <3>2. Closed(a, b \o p)
      BY <1>2, <2>1
    <3>3. Settles(b, p)
      BY <2>4, <2>8
    <3>4. Settles(a \o b, p)
      BY <1>3, <1>4, <3>1, <3>2, <3>3, SettlesJoin
    <3>. QED BY <1>8, <3>4
  <2>. QED BY <2>7, <2>8
<1>11. Original[all] \o p = (a \o pending) \o text
  BY <1>8, <1>9
<1>12. /\ Frames(pending \o text, eof).shown = s /\ Frames(pending \o text, eof).pending = p
       /\ shown \o s = all
  BY <1>5 DEF s, p, input, all
<1>. QED BY <1>2, <1>3, <1>8, <1>10, <1>11, <1>12 DEF a, Conveys
-----------------------------------------------------------------------------
(* A reader and the journal *)

\* The types of the decoders, of a reader and of the journal.
Decoders == [bytes: Seq(Bytes), text: Seq(Text)]

ReaderType == [pc: {"none", "read", "ended"}, read: Nat, decoders: Decoders,
               shown: Seq(Shown), journaled: BOOLEAN, failed: BOOLEAN]

JournalType == [status: {"none", "Running", "Exited", "Canceled", "Failed"},
                writer: {"good", "full", "broken"}, kept: [Streams -> Seq(Shown)]]

\* The console has shown everything this reader gave it.
Reliable(r) == "console" \notin failing \/ ~r.failed

\* What a reader has shown and what its decoders hold is what it has taken
\* from the pipe, and the frames are recognized.
Truthful(r, taken) ==
  /\ Len(r.decoders.text) <= MaxFrame
  /\ \E done \in Seq(Bytes) :
       /\ done \o r.decoders.bytes = taken
       /\ r.pc # "ended" => HeldBack(done, r.decoders.bytes)
       /\ Reliable(r) => Original[r.shown] \o r.decoders.text = Characters[done]
  /\ ~r.failed /\ ~Oversized(Original[r.shown] \o r.decoders.text)
     => /\ r.shown = Meaning[Original[r.shown]]
        /\ r.pc # "ended" => Settles(Original[r.shown], r.decoders.text)
  /\ r.pc = "ended" /\ ~r.failed => r.decoders = NoDecoders

\* The journal of a stream is the beginning of what its reader has shown.
Recorded(r, kept, writer) ==
  /\ Reliable(r) => /\ \E more \in Seq(Shown) : r.shown = kept \o more
                    /\ writer = "good" => kept = r.shown
  /\ ~r.journaled => writer = "broken"

\* What becomes of the journal when a text is offered to it: a beginning of
\* the text is kept, and nothing after the writer was full or broken.
Offered(s, text) ==
  /\ journal' \in JournalType /\ journal'.status = journal.status
  /\ \A t \in Streams \ {s} : journal'.kept[t] = journal.kept[t]
  /\ journal.writer # "good" =>
       journal'.writer = journal.writer /\ journal'.kept[s] = journal.kept[s]
  /\ journal.writer = "good" =>
       \E k, l \in Seq(Shown) :
         /\ text = k \o l /\ journal'.kept[s] = journal.kept[s] \o k
         /\ journal'.writer = "good" => l = <<>>

\* A beginning that is kept.
LEMMA KeepsBeginning ==
    ASSUME NEW s \in Streams, NEW text \in Seq(Shown), NEW n \in 0 .. Len(text),
           NEW w \in {"good", "full", "broken"}, w = "good" => n = Len(text),
           journal \in JournalType, journal.writer = "good", KeepBeginning(s, text, n, w)
    PROVE  Offered(s, text) /\ journal'.writer = w
<1> DEFINE k == SubSeq(text, 1, n)
           l == From(text, n + 1)
           before == journal.kept[s]
<1>1. k \in Seq(Shown) /\ l \in Seq(Shown) /\ k \o l = text /\ Len(l) = Len(text) - n
  BY PieceTyped
<1>2. journal' = [journal EXCEPT !.kept[s] = @ \o k, !.writer = w]
  BY DEF KeepBeginning
<1>. HIDE DEF k, l
<1>3. before \in Seq(Shown) /\ before \o k \in Seq(Shown)
  BY <1>1, ConcatProperties DEF JournalType
<1>4. /\ journal'.status = journal.status /\ journal'.writer = w
      /\ journal'.kept = [journal.kept EXCEPT ![s] = before \o k]
  BY <1>2 DEF JournalType
<1>5. journal' \in JournalType
  <2>1. [journal.kept EXCEPT ![s] = before \o k] \in [Streams -> Seq(Shown)]
    BY <1>3 DEF JournalType
  <2> DEFINE kept == [journal.kept EXCEPT ![s] = before \o k]
  <2>2. journal' = [status |-> journal.status, writer |-> w, kept |-> kept]
    BY <1>2 DEF JournalType
  <2>. HIDE DEF kept
  <2>3. kept \in [Streams -> Seq(Shown)]
    BY <2>1 DEF kept
  <2>. QED BY <2>2, <2>3 DEF JournalType
<1>6. \A t \in Streams : journal'.kept[t] = IF t = s THEN before \o k ELSE journal.kept[t]
  BY <1>4 DEF JournalType
<1>7. w = "good" => l = <<>>
  <2>1. SUFFICES ASSUME w = "good" PROVE l = <<>>
    OBVIOUS
  <2>2. Len(text) \in Nat
    BY LenProperties
  <2>3. Len(l) = 0
    BY <1>1, <2>1, <2>2
  <2>. QED BY <1>1, <2>3, EmptySeq
<1>8. \E a, b \in Seq(Shown) :
        /\ text = a \o b /\ journal'.kept[s] = journal.kept[s] \o a
        /\ journal'.writer = "good" => b = <<>>
  <2>1. text = k \o l /\ journal'.kept[s] = journal.kept[s] \o k
    BY <1>1, <1>6
  <2>2. journal'.writer = "good" => l = <<>>
    BY <1>4, <1>7
  <2>. QED BY <1>1, <2>1, <2>2
<1>. QED BY <1>4, <1>5, <1>6, <1>8 DEF Offered

\* Nothing is kept, because the journal is full or there is nothing.
LEMMA NothingOffered ==
    ASSUME NEW s \in Streams, NEW text \in Seq(Shown), journal \in JournalType,
           journal.writer # "good" \/ text = <<>>, UNCHANGED journal
    PROVE  Offered(s, text) /\ journal'.writer = journal.writer
<1>1. journal.kept[s] \in Seq(Shown)
  BY DEF JournalType
<1>2. journal.kept[s] \o <<>> = journal.kept[s] /\ <<>> \in Seq(Shown)
      /\ <<>> \o <<>> = <<>>
  BY <1>1, ConcatEmptySeq, EmptySeq
<1>. QED BY <1>2 DEF Offered

\* Every way to keep a text.
LEMMA KeepsOffers ==
    ASSUME NEW s \in Streams, NEW text \in Seq(Shown), journal \in JournalType, Keeps(s, text)
    PROVE  Offered(s, text)
<1>1. Len(text) \in Nat
  BY LenProperties
<1>2. CASE journal.writer = "good" /\ KeepBeginning(s, text, Len(text), "good")
  <2>1. Len(text) \in 0 .. Len(text)
    BY <1>1
  <2>. QED BY <1>2, <2>1, KeepsBeginning
<1>3. CASE journal.writer = "good" /\ \E n \in 0 .. Len(text) - 1 : KeepBeginning(s, text, n, "full")
  <2>1. PICK n \in 0 .. Len(text) - 1 : KeepBeginning(s, text, n, "full")
    BY <1>3
  <2>2. n \in 0 .. Len(text)
    BY <1>1
  <2>. QED BY <1>3, <2>1, <2>2, KeepsBeginning
<1>4. CASE (journal.writer = "full" \/ text = <<>>) /\ UNCHANGED journal
  <2>1. journal.writer # "good" \/ text = <<>>
    BY <1>4
  <2>. QED BY <1>4, <2>1, NothingOffered
<1>. QED BY <1>2, <1>3, <1>4 DEF Keeps

\* And every way to refuse it.
LEMMA RefusesOffers ==
    ASSUME NEW s \in Streams, NEW text \in Seq(Shown), journal \in JournalType, Refuses(s, text)
    PROVE  Offered(s, text) /\ journal'.writer = "broken"
<1>1. Len(text) \in Nat
  BY LenProperties
<1>2. CASE journal.writer = "good" /\ \E n \in 0 .. Len(text) - 1 : KeepBeginning(s, text, n, "broken")
  <2>1. PICK n \in 0 .. Len(text) - 1 : KeepBeginning(s, text, n, "broken")
    BY <1>2
  <2>2. n \in 0 .. Len(text)
    BY <1>1
  <2>. QED BY <1>2, <2>1, <2>2, KeepsBeginning
<1>3. CASE journal.writer = "broken" /\ UNCHANGED journal
  BY <1>3, NothingOffered
<1>. QED BY <1>2, <1>3 DEF Refuses

\* A text shown and offered leaves the journal a beginning of what is shown.
LEMMA OfferedIsRecorded ==
    ASSUME NEW s \in Streams, NEW text \in Seq(Shown), NEW r \in ReaderType,
           journal \in JournalType, Offered(s, text),
           Reliable(r) => /\ \E more \in Seq(Shown) : r.shown = journal.kept[s] \o more
                          /\ journal.writer = "good" => journal.kept[s] = r.shown
    PROVE  Reliable(r) => /\ \E more \in Seq(Shown) : r.shown \o text = journal'.kept[s] \o more
                          /\ journal'.writer = "good" => journal'.kept[s] = r.shown \o text
<1>1. SUFFICES ASSUME Reliable(r)
               PROVE  /\ \E more \in Seq(Shown) : r.shown \o text = journal'.kept[s] \o more
                      /\ journal'.writer = "good" => journal'.kept[s] = r.shown \o text
  OBVIOUS
<1> DEFINE kept == journal.kept[s]
           before == r.shown
<1>2. kept \in Seq(Shown) /\ before \in Seq(Shown)
  BY DEF JournalType, ReaderType
<1>3. CASE journal.writer # "good"
  <2>1. PICK more \in Seq(Shown) : before = kept \o more
    BY <1>1
  <2>2. journal'.kept[s] = kept /\ journal'.writer # "good"
    BY <1>3 DEF Offered
  <2>. HIDE DEF kept, before
  <2>3. before \o text = kept \o (more \o text) /\ more \o text \in Seq(Shown)
    BY <1>2, <2>1, ShownConcat, ConcatProperties
  <2>4. \E m \in Seq(Shown) : before \o text = kept \o m
    BY <2>3
  <2>. QED BY <2>2, <2>4 DEF before
<1>4. CASE journal.writer = "good"
  <2>1. PICK k \in Seq(Shown), l \in Seq(Shown) :
          /\ text = k \o l /\ journal'.kept[s] = kept \o k
          /\ journal'.writer = "good" => l = <<>>
    BY <1>4 DEF Offered
  <2>2. kept = before
    BY <1>1, <1>4
  <2>. HIDE DEF kept, before
  <2>3. before \o text = (kept \o k) \o l
    BY <1>2, <2>1, <2>2, ShownConcat
  <2>4. journal'.writer = "good" => kept \o k = before \o text
    <3>1. SUFFICES ASSUME l = <<>> PROVE kept \o k = before \o text
      BY <2>1
    <3>2. k \o <<>> = k
      BY ConcatEmptySeq
    <3>. QED BY <2>1, <2>2, <3>1, <3>2
  <2>5. \E m \in Seq(Shown) : before \o text = journal'.kept[s] \o m
    BY <2>1, <2>3
  <2>. QED BY <2>1, <2>4, <2>5 DEF before
<1>. QED BY <1>3, <1>4

\* What a reader may change of the journal.
JournalGoes(s) ==
  /\ journal' \in JournalType /\ journal'.status = journal.status
  /\ \A t \in Streams \ {s} : journal'.kept[t] = journal.kept[t]
  /\ journal'.writer = "good" => journal.writer = "good"
  /\ journal.writer = "broken" => journal'.writer = "broken"

\* An offered text changes no more.
LEMMA OfferedGoes ==
    ASSUME NEW s \in Streams, NEW text \in Seq(Shown), journal \in JournalType, Offered(s, text)
    PROVE  JournalGoes(s)
  BY DEF Offered, JournalGoes

\* What becomes of a reader that shows a text.
Shows(s, r, text) ==
  \E n \in ReaderType :
    /\ reader' = [reader EXCEPT ![s] = n]
    /\ n.pc = r.pc /\ n.read = r.read /\ n.decoders = r.decoders
    /\ ~n.failed => ~r.failed
    /\ Reliable(n) => n.shown = r.shown \o text
    /\ Recorded(n, journal'.kept[s], journal'.writer)

\* Showing a text keeps Recorded, in each of its four outcomes.
LEMMA ShowHolds ==
    ASSUME NEW s \in Streams, NEW r \in ReaderType, NEW text \in Seq(Shown),
           journal \in JournalType, Show(s, r, text),
           Recorded(r, journal.kept[s], journal.writer)
    PROVE  JournalGoes(s) /\ Shows(s, r, text)
<1> DEFINE all == r.shown \o text
           Result(n) ==
             /\ reader' = [reader EXCEPT ![s] = n]
             /\ n.pc = r.pc /\ n.read = r.read /\ n.decoders = r.decoders
             /\ ~n.failed => ~r.failed
             /\ Reliable(n) => n.shown = all
             /\ Recorded(n, journal'.kept[s], journal'.writer)
<1>1. all \in Seq(Shown)
  BY ConcatProperties DEF ReaderType
<1>2. Reliable(r) => /\ \E more \in Seq(Shown) : r.shown = journal.kept[s] \o more
                     /\ journal.writer = "good" => journal.kept[s] = r.shown
  BY DEF Recorded
<1>3. Offered(s, text) =>
        /\ JournalGoes(s)
        /\ Reliable(r) => /\ \E more \in Seq(Shown) : all = journal'.kept[s] \o more
                          /\ journal'.writer = "good" => journal'.kept[s] = all
  BY <1>2, OfferedIsRecorded, OfferedGoes
<1>. SUFFICES JournalGoes(s) /\ \E n \in ReaderType : Result(n)
  BY DEF Shows
<1>. HIDE DEF all
<1>4. CASE r.journaled /\ Keeps(s, text) /\ reader' = [reader EXCEPT ![s] = [r EXCEPT !.shown = all]]
  <2> DEFINE n == [r EXCEPT !.shown = all]
  <2>1. Offered(s, text)
    BY <1>4, KeepsOffers
  <2>2. /\ n \in ReaderType /\ n.pc = r.pc /\ n.read = r.read /\ n.decoders = r.decoders
        /\ n.failed = r.failed /\ n.shown = all /\ n.journaled = r.journaled
    BY <1>1 DEF ReaderType
  <2>3. reader' = [reader EXCEPT ![s] = n]
    BY <1>4
  <2>. HIDE DEF n
  <2>4. Recorded(n, journal'.kept[s], journal'.writer)
    BY <1>3, <1>4, <2>1, <2>2 DEF Recorded, Reliable
  <2>5. Result(n)
    BY <2>2, <2>3, <2>4
  <2>. QED BY <1>3, <2>1, <2>2, <2>5
<1>5. CASE /\ r.journaled /\ Refuses(s, text)
           /\ reader' = [reader EXCEPT ![s] = [r EXCEPT !.shown = all, !.journaled = FALSE,
                                                       !.failed = TRUE]]
  <2> DEFINE n == [r EXCEPT !.shown = all, !.journaled = FALSE, !.failed = TRUE]
  <2>1. Offered(s, text) /\ journal'.writer = "broken"
    BY <1>5, RefusesOffers
  <2>2. /\ n \in ReaderType /\ n.pc = r.pc /\ n.read = r.read /\ n.decoders = r.decoders
        /\ n.failed /\ n.shown = all
    BY <1>1 DEF ReaderType
  <2>3. reader' = [reader EXCEPT ![s] = n]
    BY <1>5
  <2>. HIDE DEF n
  <2>4. Recorded(n, journal'.kept[s], journal'.writer)
    BY <1>3, <2>1, <2>2 DEF Recorded, Reliable
  <2>5. Result(n)
    BY <2>2, <2>3, <2>4
  <2>. QED BY <1>3, <2>1, <2>2, <2>5
<1>6. CASE ~r.journaled /\ UNCHANGED journal /\ reader' = [reader EXCEPT ![s] = [r EXCEPT !.shown = all]]
  <2> DEFINE n == [r EXCEPT !.shown = all]
  <2>1. journal.writer = "broken"
    BY <1>6 DEF Recorded
  <2>2. Offered(s, text) /\ journal'.writer = journal.writer
    BY <1>6, <2>1, NothingOffered
  <2>3. /\ n \in ReaderType /\ n.pc = r.pc /\ n.read = r.read /\ n.decoders = r.decoders
        /\ n.failed = r.failed /\ n.shown = all
    BY <1>1 DEF ReaderType
  <2>4. reader' = [reader EXCEPT ![s] = n]
    BY <1>6
  <2>. HIDE DEF n
  <2>5. Recorded(n, journal'.kept[s], journal'.writer)
    BY <1>3, <2>1, <2>2, <2>3 DEF Recorded, Reliable
  <2>6. Result(n)
    BY <2>3, <2>4, <2>5
  <2>. QED BY <1>3, <2>2, <2>3, <2>6
<1>7. CASE /\ "console" \in failing /\ r.journaled /\ Keeps(s, text)
           /\ reader' = [reader EXCEPT ![s] = [r EXCEPT !.failed = TRUE]]
  <2> DEFINE n == [r EXCEPT !.failed = TRUE]
  <2>1. Offered(s, text)
    BY <1>7, KeepsOffers
  <2>2. /\ n \in ReaderType /\ n.pc = r.pc /\ n.read = r.read /\ n.decoders = r.decoders
        /\ n.failed /\ n.journaled = r.journaled
    BY DEF ReaderType
  <2>3. reader' = [reader EXCEPT ![s] = n]
    BY <1>7
  <2>. HIDE DEF n
  <2>4. ~Reliable(n)
    BY <1>7, <2>2 DEF Reliable
  <2>5. Recorded(n, journal'.kept[s], journal'.writer)
    BY <1>7, <2>2, <2>4 DEF Recorded
  <2>6. Result(n)
    BY <2>2, <2>3, <2>4, <2>5
  <2>. QED BY <1>3, <2>1, <2>2, <2>6
<1>8. \/ r.journaled /\ Keeps(s, text) /\ reader' = [reader EXCEPT ![s] = [r EXCEPT !.shown = all]]
      \/ /\ r.journaled /\ Refuses(s, text)
         /\ reader' = [reader EXCEPT ![s] = [r EXCEPT !.shown = all, !.journaled = FALSE,
                                                     !.failed = TRUE]]
      \/ ~r.journaled /\ UNCHANGED journal /\ reader' = [reader EXCEPT ![s] = [r EXCEPT !.shown = all]]
      \/ /\ "console" \in failing /\ r.journaled /\ Keeps(s, text)
         /\ reader' = [reader EXCEPT ![s] = [r EXCEPT !.failed = TRUE]]
  BY DEF Show, all
<1>. QED BY <1>4, <1>5, <1>6, <1>7, <1>8

\* A reader that shows what the decoders give it stays truthful.
LEMMA DecodeHolds ==
    ASSUME NEW r \in ReaderType, NEW taken \in Seq(Bytes), NEW bytes \in Seq(Bytes),
           NEW eof \in BOOLEAN, Truthful(r, taken), r.pc = "read"
    PROVE  LET decoded == Decode(r.decoders, bytes, eof)
           IN /\ decoded.shown \in Seq(Shown) /\ decoded.decoders \in Decoders
              /\ \A n \in ReaderType :
                   /\ n.pc = (IF eof THEN "ended" ELSE "read")
                   /\ n.decoders = decoded.decoders
                   /\ ~n.failed => ~r.failed
                   /\ Reliable(n) => n.shown = r.shown \o decoded.shown
                   => Truthful(n, taken \o bytes)
<1> DEFINE held == r.decoders.bytes
           pending == r.decoders.text
           shown == r.shown
           utf8 == Utf8(held, bytes, eof)
           text == utf8.text
           h == utf8.pending
           frames == Frames(pending \o text, eof)
           s == frames.shown
           p == frames.pending
           all == shown \o s
<1>1. held \in Seq(Bytes) /\ pending \in Seq(Text) /\ shown \in Seq(Shown)
  BY DEF ReaderType, Decoders
<1>2. PICK done \in Seq(Bytes) :
        /\ done \o held = taken
        /\ HeldBack(done, held)
        /\ Reliable(r) => Original[shown] \o pending = Characters[done]
  BY DEF Truthful
<1>8. ~r.failed /\ ~Oversized(Original[shown] \o pending)
      => shown = Meaning[Original[shown]] /\ Settles(Original[shown], pending)
  BY DEF Truthful
<1>. HIDE DEF held, pending, shown
<1>3. Decodes(utf8, eof, done, held, bytes)
  BY <1>1, <1>2, Utf8Decodes
<1>. HIDE DEF utf8
<1>4. /\ h \in Seq(Bytes) /\ text \in Seq(Text) /\ (eof => h = <<>>)
      /\ \E more \in Seq(Bytes) :
           /\ more \o h = (done \o held) \o bytes
           /\ Characters[more] = Characters[done] \o text
           /\ ~eof => HeldBack(more, h)
  BY <1>3 DEF Decodes
<1>. HIDE DEF text, h
<1>13. PICK more \in Seq(Bytes) :
        /\ more \o h = (done \o held) \o bytes
        /\ Characters[more] = Characters[done] \o text
        /\ ~eof => HeldBack(more, h)
  BY <1>4
<1>14. Conveys(frames, eof, shown, pending, text)
  BY <1>1, <1>4, FramesMean
<1>. HIDE DEF frames
<1>5. /\ s \in Seq(Shown) /\ p \in Seq(Text) /\ all \in Seq(Shown) /\ Len(p) <= MaxFrame
      /\ eof => p = <<>>
      /\ Original[all] \o p = (Original[shown] \o pending) \o text
      /\ /\ ~Oversized((Original[shown] \o pending) \o text)
         /\ shown = Meaning[Original[shown]] /\ Settles(Original[shown], pending)
         => /\ all = Meaning[Original[all]]
            /\ ~eof => Settles(Original[all], p)
  BY <1>14 DEF Conveys
<1>6. /\ Decode(r.decoders, bytes, eof).shown = s
      /\ Decode(r.decoders, bytes, eof).decoders = [bytes |-> h, text |-> p]
  BY DEF Decode, utf8, held, pending, frames, h, text
<1>7. Original[shown] \in Seq(Text)
  BY <1>1, OriginalDefined
<1> DEFINE before == Original[shown] \o pending
<1>9. before \in Seq(Text) /\ (~Oversized(before \o text) => ~Oversized(before))
  <2>1. before \in Seq(Text)
    BY <1>1, <1>7, ConcatProperties
  <2>. HIDE DEF before
  <2>. QED BY <1>4, <2>1, OversizedBeginning
<1>. HIDE DEF text, h, s, p, all
<1>10. ASSUME NEW n \in ReaderType,
              n.pc = (IF eof THEN "ended" ELSE "read"),
              n.decoders = [bytes |-> h, text |-> p],
              ~n.failed => ~r.failed,
              Reliable(n) => n.shown = all
       PROVE  Truthful(n, taken \o bytes)
  <2>1. n.decoders.bytes = h /\ n.decoders.text = p
    BY <1>10
  <2>2. (n.pc # "ended" <=> ~eof)
    BY <1>10
  <2>3. Reliable(n) => Reliable(r)
    BY <1>10 DEF Reliable
  <2>4. Reliable(n) => Original[n.shown] \o p = Characters[more]
    BY <1>2, <1>13, <1>5, <1>10, <2>3
  <2>5. more \o h = taken \o bytes /\ (~eof => HeldBack(more, h))
    BY <1>2, <1>13
  <2>6. \E d \in Seq(Bytes) :
          /\ d \o n.decoders.bytes = taken \o bytes
          /\ n.pc # "ended" => HeldBack(d, n.decoders.bytes)
          /\ Reliable(n) => Original[n.shown] \o n.decoders.text = Characters[d]
    BY <2>1, <2>2, <2>4, <2>5
  <2>7. ASSUME ~n.failed, ~Oversized(Original[n.shown] \o n.decoders.text)
        PROVE  /\ n.shown = Meaning[Original[n.shown]]
               /\ n.pc # "ended" => Settles(Original[n.shown], n.decoders.text)
    <3>1. n.shown = all /\ ~r.failed
      BY <1>10, <2>7 DEF Reliable
    <3>2. ~Oversized(before \o text)
      BY <1>5, <2>1, <2>7, <3>1
    <3>3. shown = Meaning[Original[shown]] /\ Settles(Original[shown], pending)
      BY <1>8, <1>9, <3>1, <3>2
    <3>4. all = Meaning[Original[all]] /\ (~eof => Settles(Original[all], p))
      BY <1>5, <3>2, <3>3
    <3>. QED BY <2>1, <2>2, <3>1, <3>4
  <2>8. ASSUME n.pc = "ended" PROVE n.decoders = NoDecoders
    <3>1. h = <<>> /\ p = <<>>
      BY <1>4, <1>5, <2>2, <2>8
    <3>. QED BY <1>10, <3>1 DEF NoDecoders
  <2>. QED BY <1>5, <2>1, <2>6, <2>7, <2>8 DEF Truthful
<1>11. [bytes |-> h, text |-> p] \in Decoders
  BY <1>4, <1>5 DEF Decoders
<1>12. r.shown \o s = all
  BY DEF all, shown
<1>. QED BY <1>5, <1>6, <1>10, <1>11, <1>12
-----------------------------------------------------------------------------
(* The invariant of a run *)

\* A reader that runs or has ended, and one that has given all output.
Started(s) == reader[s].pc # "none"
Finished(s) == reader[s].pc = "ended" /\ ~reader[s].failed

\* Where the main thread is after the wait for the process.
AfterWait == {"join stdout", "join stderr", "close", "ending", "returned"}

\* The types of the variables.
ConsoleTypes ==
  /\ [output |-> output, faults |-> failing] \in Cases
  /\ main \in MainSteps \cup {"returned"}
  /\ requested \in BOOLEAN /\ terminationFailed \in BOOLEAN
  /\ result \in {"none", "status", "error"}
  /\ exit \in {"none", "status", "canceled", "error"}
  /\ root \in {"none", "suspended", "running", "exited", "closing", "killed"}
  /\ descendant \in {"none", "piped", "detached", "closing", "dead"}
  /\ inJob \in BOOLEAN
  /\ written \in [Streams -> Nat] /\ reader \in [Streams -> ReaderType]
  /\ journal \in JournalType

\* What the place of the main thread tells of the processes: a suspended root
\* is not yet in the job, a running one is, and none is left at the end.
ProcessesKnown ==
  /\ root = "running" => inJob
  /\ root = "suspended" <=> main = "assign"
  /\ main \in {"start", "materialize", "spawn"} => root = "none"
  /\ root \in {"none", "suspended"} => descendant = "none"
  /\ main \in {"stdout", "stderr", "wait"} => root \in {"running", "exited"}
  /\ main \in {"ending", "returned"} => ~RootAlive /\ ~DescendantAlive

\* And of the readers.
ReadersStarted ==
  /\ main \in {"start", "materialize", "spawn", "assign", "stdout"} =>
       \A s \in Streams : ~Started(s)
  /\ main = "stderr" => Started("stdout") /\ ~Started("stderr")
  /\ main \in {"wait", "reap"} => \A s \in Streams : Started(s)

\* What a result tells: "status" is the process's own unless a cancel was
\* requested, and every reader joined since gave everything.
ResultKnown ==
  /\ main = "reap" => requested
  /\ terminationFailed => result = "error" /\ main \in AfterWait
  /\ result = "status" =>
       /\ main \in AfterWait /\ \A s \in Streams : Started(s)
       /\ ~requested => root = "exited"
       /\ main # "join stdout" => Finished("stdout")
       /\ main \in {"close", "ending", "returned"} => Finished("stderr")

\* What the status of the journal tells.
EndingKnown ==
  journal.status = "Exited" =>
    /\ main = "returned" /\ root = "exited" /\ journal.writer # "broken"
    /\ \A s \in Streams : Finished(s)

\* What is known of the reader of a stream.
ReaderKnown(s) ==
  /\ written[s] <= Len(output[s]) /\ reader[s].read <= written[s]
  /\ reader[s].pc = "none" => reader[s] = NoReader
  /\ Truthful(reader[s], SubSeq(output[s], 1, reader[s].read))
  /\ Finished(s) => reader[s].read = written[s] /\ ~PipeOpen
  /\ Recorded(reader[s], journal.kept[s], journal.writer)

\* The inductive invariant.
ConsoleInv ==
  /\ ConsoleTypes /\ ProcessesKnown /\ ReadersStarted /\ ResultKnown /\ EndingKnown
  /\ \A s \in Streams : ReaderKnown(s)

\* What the command writes, and what may fail.
LEMMA CaseTyped ==
    ASSUME ConsoleTypes
    PROVE  output \in [Streams -> Seq(Bytes)] /\ failing \subseteq ConsoleFaults
<1>1. [output |-> output, faults |-> failing]
      \in [output: [Streams -> Seq(Bytes)], faults: SUBSET ConsoleFaults]
  BY CasesAssumption DEF ConsoleTypes
<1>. QED BY <1>1

\* A step that leaves the readers and what the journal keeps as they are.
LEMMA ReadersKept ==
    ASSUME ConsoleTypes, NEW s \in Streams, ReaderKnown(s),
           UNCHANGED <<failing, output, reader>>,
           journal'.kept = journal.kept, journal'.writer = journal.writer,
           written' \in [Streams -> Nat],
           written[s] <= written'[s], written'[s] <= Len(output[s]),
           Finished(s) => written'[s] = written[s] /\ ~PipeOpen'
    PROVE  ReaderKnown(s)'
<1> DEFINE r == reader[s]
           taken == SubSeq(output[s], 1, r.read)
<1>1. r' = r /\ taken' = taken
  OBVIOUS
<1>2. Truthful(r, taken) => Truthful(r, taken)'
  BY DEF Truthful, Reliable
<1>3. Recorded(r, journal.kept[s], journal.writer)
      => Recorded(r, journal.kept[s], journal.writer)'
  BY DEF Recorded, Reliable
<1>4. written'[s] <= Len(output'[s]) /\ reader'[s].read <= written'[s]
  <2>1. output \in [Streams -> Seq(Bytes)]
    BY CaseTyped
  <2>2. Len(output[s]) \in Nat /\ written[s] \in Nat /\ reader[s].read \in Nat
        /\ written'[s] \in Nat
    BY <2>1, LenProperties DEF ConsoleTypes, ReaderType
  <2>. QED BY <2>2 DEF ReaderKnown
<1>5. Finished(s)' => reader'[s].read = written'[s] /\ ~PipeOpen'
  BY DEF Finished, ReaderKnown
<1>. QED BY <1>2, <1>3, <1>4, <1>5 DEF ReaderKnown

\* A reader that has taken nothing is truthful.
LEMMA NothingYet ==
    ASSUME NEW out \in Seq(Bytes)
    PROVE  Truthful(NoReader, SubSeq(out, 1, 0)) /\ NoReader \in ReaderType
<1>1. SubSeq(out, 1, 0) = <<>>
  BY SubSeqEmpty
<1>2. Original[<<>>] = <<>> /\ Characters[<<>>] = <<>> /\ Meaning[<<>>] = <<>>
  <2>1. <<>> \in Seq(Shown) /\ <<>> \in Seq(Bytes) /\ <<>> \in Seq(Text)
    BY EmptySeq
  <2>2. PrefixStarts(<<>>) = {}
    BY DEF PrefixStarts
  <2>. QED BY <2>1, <2>2, OriginalDefined, CharactersDefined, MeaningWithoutPrefixes
           DEF OriginalOf, CharactersOf
<1>3. /\ NoReader.decoders.text = <<>> /\ NoReader.decoders.bytes = <<>>
      /\ NoReader.shown = <<>> /\ NoReader.pc = "none" /\ NoReader.decoders = NoDecoders
  BY DEF NoReader, NoDecoders
<1>4. /\ <<>> \o <<>> = <<>> /\ Len(<<>>) <= MaxFrame /\ <<>> \in Seq(Bytes)
      /\ <<>> \in Seq(Shown) /\ <<>> \in Seq(Text)
  BY EmptySeq, FrameAssumption
<1>5. HeldBack(<<>>, <<>>)
  BY DEF HeldBack, Ends
<1>6. Settles(<<>>, <<>>)
  <2>1. PrefixStarts(<<>>) = {}
    BY DEF PrefixStarts
  <2>. QED BY <2>1 DEF Settles
<1>7. NoReader \in ReaderType
  BY <1>4 DEF NoReader, NoDecoders, ReaderType, Decoders
<1>8. Truthful(NoReader, <<>>)
  <2>1. /\ <<>> \o NoReader.decoders.bytes = <<>>
        /\ HeldBack(<<>>, NoReader.decoders.bytes)
        /\ Original[NoReader.shown] \o NoReader.decoders.text = Characters[<<>>]
    BY <1>2, <1>3, <1>4, <1>5
  <2>2. \E done \in Seq(Bytes) :
          /\ done \o NoReader.decoders.bytes = <<>>
          /\ HeldBack(done, NoReader.decoders.bytes)
          /\ Original[NoReader.shown] \o NoReader.decoders.text = Characters[done]
    BY <1>4, <2>1
  <2>. QED BY <1>2, <1>3, <1>4, <1>6, <2>2 DEF Truthful
<1>. QED BY <1>1, <1>7, <1>8
-----------------------------------------------------------------------------
(* The main thread *)

\* The invariant holds at the start.
LEMMA ConsoleInitInv == ConsoleInit => ConsoleInv
<1>. SUFFICES ASSUME ConsoleInit PROVE ConsoleInv
  OBVIOUS
<1>1. [output |-> output, faults |-> failing] \in Cases
  <2>1. PICK case \in Cases : output = case.output /\ failing = case.faults
    BY DEF ConsoleInit
  <2>2. case \in [output: [Streams -> Seq(Bytes)], faults: SUBSET ConsoleFaults]
    BY CasesAssumption
  <2>3. case = [output |-> case.output, faults |-> case.faults]
    BY <2>2
  <2>. QED BY <2>1, <2>3
<1>2. NoReader \in ReaderType
  <2>1. <<>> \in Seq(Bytes)
    BY EmptySeq
  <2>. QED BY <2>1, NothingYet
<1>3. ConsoleTypes
  <2>1. <<>> \in Seq(Shown)
    BY EmptySeq
  <2>2. journal \in JournalType
    BY <2>1 DEF ConsoleInit, JournalType
  <2>3. reader \in [Streams -> ReaderType] /\ written \in [Streams -> Nat]
    BY <1>2 DEF ConsoleInit
  <2>. QED BY <1>1, <2>2, <2>3 DEF ConsoleInit, ConsoleTypes, MainSteps
<1>4. ASSUME NEW s \in Streams PROVE reader[s] = NoReader /\ written[s] = 0 /\ journal.kept[s] = <<>>
  BY DEF ConsoleInit
<1>5. NoReader.pc = "none" /\ NoReader.read = 0 /\ NoReader.shown = <<>> /\ NoReader.journaled
  BY DEF NoReader
<1>6. ASSUME NEW s \in Streams PROVE ReaderKnown(s)
  <2>1. output[s] \in Seq(Bytes)
    BY <1>3, CaseTyped
  <2>2. Len(output[s]) \in Nat
    BY <2>1, LenProperties
  <2>3. Truthful(reader[s], SubSeq(output[s], 1, reader[s].read))
    BY <1>4, <1>5, <2>1, NothingYet
  <2>4. Recorded(reader[s], journal.kept[s], journal.writer)
    <3>1. <<>> \in Seq(Shown) /\ <<>> = <<>> \o <<>>
      BY EmptySeq
    <3>2. \E more \in Seq(Shown) : <<>> = <<>> \o more
      BY <3>1
    <3>. QED BY <1>4, <1>5, <3>2 DEF Recorded
  <2>5. ~Finished(s)
    BY <1>4, <1>5 DEF Finished
  <2>. QED BY <1>4, <1>5, <2>2, <2>3, <2>4, <2>5 DEF ReaderKnown
<1>7. ProcessesKnown
  BY DEF ConsoleInit, ProcessesKnown
<1>8. ReadersStarted
  BY <1>4, <1>5 DEF ConsoleInit, ReadersStarted, Started
<1>9. ResultKnown /\ EndingKnown
  BY DEF ConsoleInit, ResultKnown, EndingKnown
<1>. QED BY <1>3, <1>6, <1>7, <1>8, <1>9 DEF ConsoleInv

\* A step of the main thread leaves what is known of the readers, unless it
\* opens a pipe a reader has seen closed.
LEMMA MainKeeps ==
    ASSUME ConsoleInv, UNCHANGED <<failing, output, reader, written>>,
           journal'.kept = journal.kept, journal'.writer = journal.writer,
           \A s \in Streams : Finished(s) => ~PipeOpen'
    PROVE  \A s \in Streams : ReaderKnown(s)'
<1>. SUFFICES ASSUME NEW s \in Streams PROVE ReaderKnown(s)'
  OBVIOUS
<1>1. ConsoleTypes /\ ReaderKnown(s)
  BY DEF ConsoleInv
<1>2. output \in [Streams -> Seq(Bytes)] /\ written \in [Streams -> Nat]
  BY <1>1, CaseTyped DEF ConsoleTypes
<1>3. written' \in [Streams -> Nat] /\ written'[s] = written[s] /\ written[s] \in Nat
  BY <1>2
<1>4. written[s] <= Len(output[s])
  BY <1>1 DEF ReaderKnown
<1>5. Finished(s) => ~PipeOpen'
  OBVIOUS
<1>6. written[s] <= written'[s] /\ written'[s] <= Len(output[s])
  BY <1>3, <1>4
<1>. QED BY <1>1, <1>3, <1>5, <1>6, ReadersKept

\* A reader that has given everything waits for nobody.
LEMMA FinishedIsClosed ==
    ASSUME ConsoleInv, NEW s \in Streams, Finished(s)
    PROVE  ~PipeOpen /\ Started(s)
  BY DEF ConsoleInv, ReaderKnown, Finished, Started

\* The journal is started, or the command was not ready.
LEMMA StartJournalInv ==
    ASSUME ConsoleInv, StartJournal
    PROVE  ConsoleInv'
<1>. USE DEF ConsoleInv
<1>1. UNCHANGED <<failing, output, reader, written>>
  BY DEF StartJournal, Unchanged, outputs
<1>2. journal'.kept = journal.kept /\ journal'.writer = journal.writer
  BY DEF StartJournal, ConsoleTypes, JournalType
<1>3. ASSUME NEW s \in Streams, Finished(s) PROVE ~PipeOpen'
  <2>1. ~PipeOpen /\ Started(s)
    BY <1>3, FinishedIsClosed
  <2>. QED BY <2>1 DEF StartJournal, ReadersStarted
<1>4. \A s \in Streams : ReaderKnown(s)'
  BY <1>1, <1>2, <1>3, MainKeeps
<1>5. ConsoleTypes'
  <2>1. [output |-> output, faults |-> failing]' \in Cases
        /\ written' \in [Streams -> Nat] /\ reader' \in [Streams -> ReaderType]
    BY <1>1 DEF ConsoleTypes
  <2>2. journal' \in JournalType
    BY DEF StartJournal, ConsoleTypes, JournalType
  <2>3. main' \in MainSteps \cup {"returned"}
    BY DEF StartJournal, Enters, Answers, MainSteps
  <2>4. requested' \in BOOLEAN /\ terminationFailed' \in BOOLEAN
    BY DEF StartJournal, ConsoleTypes, Unchanged, flags
  <2>5. /\ result' \in {"none", "status", "error"}
        /\ exit' \in {"none", "status", "canceled", "error"}
    BY DEF StartJournal, ConsoleTypes, Answers
  <2>6. /\ root' \in {"none", "suspended", "running", "exited", "closing", "killed"}
        /\ descendant' \in {"none", "piped", "detached", "closing", "dead"}
        /\ inJob' \in BOOLEAN
    BY DEF StartJournal, ConsoleTypes, tree
  <2>. QED BY <2>1, <2>2, <2>3, <2>4, <2>5, <2>6 DEF ConsoleTypes
<1>6. ProcessesKnown'
  BY DEF StartJournal, ProcessesKnown, tree, Enters, Answers, RootAlive, RootOpen, DescendantAlive
<1>7. ReadersStarted'
  BY <1>1 DEF StartJournal, ReadersStarted, Started, Enters, Answers
<1>8. ResultKnown'
  BY DEF StartJournal, ResultKnown, AfterWait, Enters, Unchanged, flags, Answers
<1>9. EndingKnown'
  BY DEF StartJournal, ConsoleTypes, JournalType, EndingKnown
<1>. QED BY <1>4, <1>5, <1>6, <1>7, <1>8, <1>9

\* The context is materialized.
LEMMA MaterializeInv ==
    ASSUME ConsoleInv, Materialize
    PROVE  ConsoleInv'
<1>. USE DEF ConsoleInv
<1>1. UNCHANGED <<failing, output, reader, written>>
  BY DEF Materialize, Unchanged, outputs
<1>2. journal'.kept = journal.kept /\ journal'.writer = journal.writer
  BY DEF Materialize, ConsoleTypes, JournalType
<1>3. ASSUME NEW s \in Streams, Finished(s) PROVE ~PipeOpen'
  <2>1. ~PipeOpen /\ Started(s)
    BY <1>3, FinishedIsClosed
  <2>. QED BY <2>1 DEF Materialize, ReadersStarted
<1>4. \A s \in Streams : ReaderKnown(s)'
  BY <1>1, <1>2, <1>3, MainKeeps
<1>5. ConsoleTypes'
  <2>1. [output |-> output, faults |-> failing]' \in Cases
        /\ written' \in [Streams -> Nat] /\ reader' \in [Streams -> ReaderType]
    BY <1>1 DEF ConsoleTypes
  <2>2. journal' \in JournalType
    BY DEF Materialize, ConsoleTypes, JournalType
  <2>3. main' \in MainSteps \cup {"returned"}
    BY DEF Materialize, Enters, Reports, MainSteps
  <2>4. requested' \in BOOLEAN /\ terminationFailed' \in BOOLEAN
    BY DEF Materialize, ConsoleTypes, Unchanged, flags
  <2>5. /\ result' \in {"none", "status", "error"}
        /\ exit' \in {"none", "status", "canceled", "error"}
    BY DEF Materialize, ConsoleTypes, Reports
  <2>6. /\ root' \in {"none", "suspended", "running", "exited", "closing", "killed"}
        /\ descendant' \in {"none", "piped", "detached", "closing", "dead"}
        /\ inJob' \in BOOLEAN
    BY DEF Materialize, ConsoleTypes, tree
  <2>. QED BY <2>1, <2>2, <2>3, <2>4, <2>5, <2>6 DEF ConsoleTypes
<1>6. ProcessesKnown'
  BY DEF Materialize, ProcessesKnown, tree, Enters, Reports, RootAlive, RootOpen, DescendantAlive
<1>7. ReadersStarted'
  BY <1>1 DEF Materialize, ReadersStarted, Started, Enters, Reports
<1>8. ResultKnown'
  BY DEF Materialize, ResultKnown, AfterWait, Enters, Unchanged, flags, Reports
<1>9. EndingKnown'
  BY DEF Materialize, EndingKnown
<1>. QED BY <1>4, <1>5, <1>6, <1>7, <1>8, <1>9

\* The process is spawned, suspended, and nothing has been read.
LEMMA SpawnInv ==
    ASSUME ConsoleInv, Spawn
    PROVE  ConsoleInv'
<1>. USE DEF ConsoleInv
<1>1. UNCHANGED <<failing, output, reader, written>>
  BY DEF Spawn, Unchanged, outputs
<1>2. journal'.kept = journal.kept /\ journal'.writer = journal.writer
  BY DEF Spawn, ConsoleTypes, JournalType
<1>3. ASSUME NEW s \in Streams, Finished(s) PROVE ~PipeOpen'
  <2>1. ~PipeOpen /\ Started(s)
    BY <1>3, FinishedIsClosed
  <2>. QED BY <2>1 DEF Spawn, ReadersStarted
<1>4. \A s \in Streams : ReaderKnown(s)'
  BY <1>1, <1>2, <1>3, MainKeeps
<1>5. ConsoleTypes'
  <2>1. [output |-> output, faults |-> failing]' \in Cases
        /\ written' \in [Streams -> Nat] /\ reader' \in [Streams -> ReaderType]
    BY <1>1 DEF ConsoleTypes
  <2>2. journal' \in JournalType
    BY DEF Spawn, ConsoleTypes, JournalType
  <2>3. main' \in MainSteps \cup {"returned"}
    BY DEF Spawn, Enters, Reports, MainSteps
  <2>4. requested' \in BOOLEAN /\ terminationFailed' \in BOOLEAN
    BY DEF Spawn, ConsoleTypes, Unchanged, flags
  <2>5. /\ result' \in {"none", "status", "error"}
        /\ exit' \in {"none", "status", "canceled", "error"}
    BY DEF Spawn, ConsoleTypes, Reports
  <2>6. /\ root' \in {"none", "suspended", "running", "exited", "closing", "killed"}
        /\ descendant' \in {"none", "piped", "detached", "closing", "dead"}
        /\ inJob' \in BOOLEAN
    BY DEF Spawn, ConsoleTypes
  <2>. QED BY <2>1, <2>2, <2>3, <2>4, <2>5, <2>6 DEF ConsoleTypes
<1>6. ProcessesKnown'
  BY DEF Spawn, ProcessesKnown, Enters, Reports, RootAlive, RootOpen, DescendantAlive
<1>7. ReadersStarted'
  BY <1>1 DEF Spawn, ReadersStarted, Started, Enters, Reports
<1>8. ResultKnown'
  BY DEF Spawn, ResultKnown, AfterWait, Enters, Unchanged, flags, Reports
<1>9. EndingKnown'
  BY DEF Spawn, EndingKnown
<1>. QED BY <1>4, <1>5, <1>6, <1>7, <1>8, <1>9

\* The process runs only once it is in the job.
LEMMA AssignAndResumeInv ==
    ASSUME ConsoleInv, AssignAndResume
    PROVE  ConsoleInv'
<1>. USE DEF ConsoleInv
<1>1. UNCHANGED <<failing, output, reader, written>>
  BY DEF AssignAndResume, Unchanged, outputs
<1>2. journal'.kept = journal.kept /\ journal'.writer = journal.writer
  BY DEF AssignAndResume, ConsoleTypes, JournalType
<1>3. ASSUME NEW s \in Streams, Finished(s) PROVE ~PipeOpen'
  <2>1. ~PipeOpen /\ Started(s)
    BY <1>3, FinishedIsClosed
  <2>. QED BY <2>1 DEF AssignAndResume, ReadersStarted
<1>4. \A s \in Streams : ReaderKnown(s)'
  BY <1>1, <1>2, <1>3, MainKeeps
<1>5. ConsoleTypes'
  <2>1. [output |-> output, faults |-> failing]' \in Cases
        /\ written' \in [Streams -> Nat] /\ reader' \in [Streams -> ReaderType]
    BY <1>1 DEF ConsoleTypes
  <2>2. journal' \in JournalType
    BY DEF AssignAndResume, ConsoleTypes, JournalType
  <2>3. main' \in MainSteps \cup {"returned"}
    BY DEF AssignAndResume, Enters, Reports, MainSteps
  <2>4. requested' \in BOOLEAN /\ terminationFailed' \in BOOLEAN
    BY DEF AssignAndResume, ConsoleTypes, Unchanged, flags
  <2>5. /\ result' \in {"none", "status", "error"}
        /\ exit' \in {"none", "status", "canceled", "error"}
    BY DEF AssignAndResume, ConsoleTypes, Reports
  <2>6. /\ root' \in {"none", "suspended", "running", "exited", "closing", "killed"}
        /\ descendant' \in {"none", "piped", "detached", "closing", "dead"}
        /\ inJob' \in BOOLEAN
    BY DEF AssignAndResume, ConsoleTypes
  <2>. QED BY <2>1, <2>2, <2>3, <2>4, <2>5, <2>6 DEF ConsoleTypes
<1>6. ProcessesKnown'
  BY DEF AssignAndResume, ProcessesKnown, Enters, Reports, RootAlive, RootOpen, DescendantAlive
<1>7. ReadersStarted'
  BY <1>1 DEF AssignAndResume, ReadersStarted, Started, Enters, Reports
<1>8. ResultKnown'
  BY DEF AssignAndResume, ResultKnown, AfterWait, Enters, Unchanged, flags, Reports
<1>9. EndingKnown'
  BY DEF AssignAndResume, EndingKnown
<1>. QED BY <1>4, <1>5, <1>6, <1>7, <1>8, <1>9

\* A process whose output nobody reads is ended.
LEMMA StopUnmonitoredInv ==
    ASSUME ConsoleInv, StopUnmonitored
    PROVE  ConsoleInv'
<1>. USE DEF ConsoleInv
<1>1. UNCHANGED <<failing, output, reader, written>>
  BY DEF StopUnmonitored, Unchanged, outputs
<1>2. journal'.kept = journal.kept /\ journal'.writer = journal.writer
  BY DEF StopUnmonitored, ConsoleTypes, JournalType
<1>3. ASSUME NEW s \in Streams, Finished(s) PROVE ~PipeOpen'
  <2>1. ~PipeOpen /\ Started(s)
    BY <1>3, FinishedIsClosed
  <2>. QED BY <2>1 DEF StopUnmonitored, Unchanged, tree, Terminate, PipeOpen, RootAlive, RootOpen,
                       DescendantAlive, ReadersStarted, ProcessesKnown, Enters
<1>4. \A s \in Streams : ReaderKnown(s)'
  BY <1>1, <1>2, <1>3, MainKeeps
<1>5. ConsoleTypes'
  <2>1. [output |-> output, faults |-> failing]' \in Cases
        /\ written' \in [Streams -> Nat] /\ reader' \in [Streams -> ReaderType]
    BY <1>1 DEF ConsoleTypes
  <2>2. journal' \in JournalType
    BY DEF StopUnmonitored, ConsoleTypes, JournalType
  <2>3. main' \in MainSteps \cup {"returned"}
    BY DEF StopUnmonitored, Enters, MainSteps
  <2>4. requested' \in BOOLEAN /\ terminationFailed' \in BOOLEAN
    BY DEF StopUnmonitored, ConsoleTypes, Unchanged, flags
  <2>5. /\ result' \in {"none", "status", "error"}
        /\ exit' \in {"none", "status", "canceled", "error"}
    BY DEF StopUnmonitored, ConsoleTypes
  <2>6. /\ root' \in {"none", "suspended", "running", "exited", "closing", "killed"}
        /\ descendant' \in {"none", "piped", "detached", "closing", "dead"}
        /\ inJob' \in BOOLEAN
    BY DEF StopUnmonitored, ConsoleTypes, tree, Terminate
  <2>. QED BY <2>1, <2>2, <2>3, <2>4, <2>5, <2>6 DEF ConsoleTypes
<1>6. ProcessesKnown'
  BY DEF StopUnmonitored, ConsoleTypes, ProcessesKnown, Unchanged, tree, Terminate, Enters,
         RootAlive, RootOpen, DescendantAlive
<1>7. ReadersStarted'
  BY <1>1 DEF StopUnmonitored, ReadersStarted, Started, Enters
<1>8. ResultKnown'
  BY DEF StopUnmonitored, ResultKnown, AfterWait, Enters, Unchanged, flags
<1>9. EndingKnown'
  BY DEF StopUnmonitored, EndingKnown
<1>. QED BY <1>4, <1>5, <1>6, <1>7, <1>8, <1>9

\* A canceled process is ended with its tree, or the termination has failed.
LEMMA CancelChildInv ==
    ASSUME ConsoleInv, CancelChild
    PROVE  ConsoleInv'
<1>. USE DEF ConsoleInv
<1>1. UNCHANGED <<failing, output, reader, written>>
  BY DEF CancelChild, outputs
<1>2. journal'.kept = journal.kept /\ journal'.writer = journal.writer
  BY DEF CancelChild, ConsoleTypes, JournalType
<1>3. ASSUME NEW s \in Streams, Finished(s) PROVE ~PipeOpen'
  <2>1. ~PipeOpen /\ Started(s)
    BY <1>3, FinishedIsClosed
  <2>. QED BY <2>1 DEF CancelChild, tree, Terminate, PipeOpen, RootAlive, RootOpen,
                       DescendantAlive, ReadersStarted, ProcessesKnown, Enters, Reports
<1>4. \A s \in Streams : ReaderKnown(s)'
  BY <1>1, <1>2, <1>3, MainKeeps
<1>5. ConsoleTypes'
  <2>1. [output |-> output, faults |-> failing]' \in Cases
        /\ written' \in [Streams -> Nat] /\ reader' \in [Streams -> ReaderType]
    BY <1>1 DEF ConsoleTypes
  <2>2. journal' \in JournalType
    BY DEF CancelChild, ConsoleTypes, JournalType
  <2>3. main' \in MainSteps \cup {"returned"}
    BY DEF CancelChild, Enters, Reports, MainSteps
  <2>4. requested' \in BOOLEAN /\ terminationFailed' \in BOOLEAN
    BY DEF CancelChild, ConsoleTypes
  <2>5. /\ result' \in {"none", "status", "error"}
        /\ exit' \in {"none", "status", "canceled", "error"}
    BY DEF CancelChild, ConsoleTypes, Reports
  <2>6. /\ root' \in {"none", "suspended", "running", "exited", "closing", "killed"}
        /\ descendant' \in {"none", "piped", "detached", "closing", "dead"}
        /\ inJob' \in BOOLEAN
    BY DEF CancelChild, ConsoleTypes, tree, Terminate
  <2>. QED BY <2>1, <2>2, <2>3, <2>4, <2>5, <2>6 DEF ConsoleTypes
<1>6. ProcessesKnown'
  <2>1. main' \in {"reap", "join stdout"} /\ root \in {"running", "exited"}
    BY DEF CancelChild, Reports, Enters, ProcessesKnown
  <2>2. (root' = root \/ root' = "closing") /\ inJob' = inJob
    BY DEF CancelChild, Terminate, tree
  <2>. QED BY <2>1, <2>2 DEF ProcessesKnown
<1>7. ReadersStarted'
  BY <1>1 DEF CancelChild, ReadersStarted, Started, Enters, Reports
<1>8. ResultKnown'
  <2>1. result # "status" /\ ~terminationFailed /\ requested /\ requested'
    BY DEF CancelChild, ResultKnown, AfterWait
  <2>2. \A s \in Streams : Started(s)'
    BY <1>1 DEF CancelChild, ReadersStarted, Started
  <2>3. \/ main' = "reap" /\ result' # "status" /\ ~terminationFailed'
        \/ main' = "join stdout" /\ result' = "status" /\ ~terminationFailed'
        \/ main' = "join stdout" /\ result' = "error"
    BY <2>1 DEF CancelChild, Enters, Reports
  <2>. QED BY <2>1, <2>2, <2>3 DEF ResultKnown, AfterWait, Started
<1>9. EndingKnown'
  BY DEF CancelChild, EndingKnown
<1>. QED BY <1>4, <1>5, <1>6, <1>7, <1>8, <1>9

\* The process has ended by itself: its status is the result.
LEMMA ChildEndedInv ==
    ASSUME ConsoleInv, ChildEnded
    PROVE  ConsoleInv'
<1>. USE DEF ConsoleInv
<1>1. UNCHANGED <<failing, output, reader, written>>
  BY DEF ChildEnded, Unchanged, outputs
<1>2. journal'.kept = journal.kept /\ journal'.writer = journal.writer
  BY DEF ChildEnded, ConsoleTypes, JournalType
<1>3. ASSUME NEW s \in Streams, Finished(s) PROVE ~PipeOpen'
  <2>1. ~PipeOpen /\ Started(s)
    BY <1>3, FinishedIsClosed
  <2>. QED BY <2>1 DEF ChildEnded, Unchanged, tree, Terminate, PipeOpen, RootAlive, RootOpen,
                       DescendantAlive, ReadersStarted, ProcessesKnown, Enters, Reports
<1>4. \A s \in Streams : ReaderKnown(s)'
  BY <1>1, <1>2, <1>3, MainKeeps
<1>5. ConsoleTypes'
  <2>1. [output |-> output, faults |-> failing]' \in Cases
        /\ written' \in [Streams -> Nat] /\ reader' \in [Streams -> ReaderType]
    BY <1>1 DEF ConsoleTypes
  <2>2. journal' \in JournalType
    BY DEF ChildEnded, ConsoleTypes, JournalType
  <2>3. main' \in MainSteps \cup {"returned"}
    BY DEF ChildEnded, Enters, Reports, MainSteps
  <2>4. requested' \in BOOLEAN /\ terminationFailed' \in BOOLEAN
    BY DEF ChildEnded, ConsoleTypes, Unchanged, flags
  <2>5. /\ result' \in {"none", "status", "error"}
        /\ exit' \in {"none", "status", "canceled", "error"}
    BY DEF ChildEnded, ConsoleTypes, Reports
  <2>6. /\ root' \in {"none", "suspended", "running", "exited", "closing", "killed"}
        /\ descendant' \in {"none", "piped", "detached", "closing", "dead"}
        /\ inJob' \in BOOLEAN
    BY DEF ChildEnded, ConsoleTypes, tree, Terminate
  <2>. QED BY <2>1, <2>2, <2>3, <2>4, <2>5, <2>6 DEF ConsoleTypes
<1>6. ProcessesKnown'
  BY DEF ChildEnded, ConsoleTypes, ProcessesKnown, Unchanged, tree, Terminate, Enters, Reports,
         RootAlive, RootOpen, DescendantAlive
<1>7. ReadersStarted'
  BY <1>1 DEF ChildEnded, ReadersStarted, Started, Enters, Reports
<1>8. ResultKnown'
  BY <1>1 DEF ChildEnded, ConsoleTypes, ResultKnown, ReadersStarted, ProcessesKnown, Started,
              Finished, AfterWait, Unchanged, flags, tree, Terminate, Enters, Reports,
              RootAlive, RootOpen, DescendantAlive, Streams
<1>9. EndingKnown'
  BY DEF ChildEnded, EndingKnown
<1>. QED BY <1>4, <1>5, <1>6, <1>7, <1>8, <1>9

\* The process whose output nobody reads has ended, or the wait fails.
LEMMA ReapUnmonitoredInv ==
    ASSUME ConsoleInv, ReapUnmonitored
    PROVE  ConsoleInv'
<1>. USE DEF ConsoleInv
<1>1. UNCHANGED <<failing, output, reader, written>>
  BY DEF ReapUnmonitored, Unchanged, outputs
<1>2. journal'.kept = journal.kept /\ journal'.writer = journal.writer
  BY DEF ReapUnmonitored, ConsoleTypes, JournalType
<1>3. ASSUME NEW s \in Streams, Finished(s) PROVE ~PipeOpen'
  <2>1. ~PipeOpen /\ Started(s)
    BY <1>3, FinishedIsClosed
  <2>. QED BY <2>1 DEF ReapUnmonitored, Unchanged, tree, PipeOpen, RootAlive, RootOpen,
                       DescendantAlive,
                       ReadersStarted, ProcessesKnown, Enters
<1>4. \A s \in Streams : ReaderKnown(s)'
  BY <1>1, <1>2, <1>3, MainKeeps
<1>5. ConsoleTypes'
  <2>1. [output |-> output, faults |-> failing]' \in Cases
        /\ written' \in [Streams -> Nat] /\ reader' \in [Streams -> ReaderType]
    BY <1>1 DEF ConsoleTypes
  <2>2. journal' \in JournalType
    BY DEF ReapUnmonitored, ConsoleTypes, JournalType
  <2>3. main' \in MainSteps \cup {"returned"}
    BY DEF ReapUnmonitored, Enters, MainSteps
  <2>4. requested' \in BOOLEAN /\ terminationFailed' \in BOOLEAN
    BY DEF ReapUnmonitored, ConsoleTypes, Unchanged, flags
  <2>5. /\ result' \in {"none", "status", "error"}
        /\ exit' \in {"none", "status", "canceled", "error"}
    BY DEF ReapUnmonitored, ConsoleTypes, Reports
  <2>6. /\ root' \in {"none", "suspended", "running", "exited", "closing", "killed"}
        /\ descendant' \in {"none", "piped", "detached", "closing", "dead"}
        /\ inJob' \in BOOLEAN
    BY DEF ReapUnmonitored, ConsoleTypes, tree
  <2>. QED BY <2>1, <2>2, <2>3, <2>4, <2>5, <2>6 DEF ConsoleTypes
<1>6. ProcessesKnown'
  BY DEF ReapUnmonitored, ConsoleTypes, ProcessesKnown, Unchanged, tree, Enters, RootAlive,
         RootOpen, DescendantAlive
<1>7. ReadersStarted'
  BY <1>1 DEF ReapUnmonitored, ReadersStarted, Started, Enters
<1>8. ResultKnown'
  BY <1>1 DEF ReapUnmonitored, ConsoleTypes, ResultKnown, ReadersStarted, ProcessesKnown, Started,
              Finished, AfterWait, Unchanged, flags, tree, Enters, RootAlive, RootOpen,
              DescendantAlive, Streams
<1>9. EndingKnown'
  BY DEF ReapUnmonitored, EndingKnown
<1>. QED BY <1>4, <1>5, <1>6, <1>7, <1>8, <1>9

\* The canceled process has ended, or the wait fails.
LEMMA ReapChildInv ==
    ASSUME ConsoleInv, ReapChild
    PROVE  ConsoleInv'
<1>. USE DEF ConsoleInv
<1>1. UNCHANGED <<failing, output, reader, written>>
  BY DEF ReapChild, outputs
<1>2. journal'.kept = journal.kept /\ journal'.writer = journal.writer
  BY DEF ReapChild, ConsoleTypes, JournalType
<1>3. ASSUME NEW s \in Streams, Finished(s) PROVE ~PipeOpen'
  <2>1. ~PipeOpen /\ Started(s)
    BY <1>3, FinishedIsClosed
  <2>. QED BY <2>1 DEF ReapChild, tree, PipeOpen, RootAlive, RootOpen, DescendantAlive,
                       ReadersStarted, ProcessesKnown, Enters, Reports
<1>4. \A s \in Streams : ReaderKnown(s)'
  BY <1>1, <1>2, <1>3, MainKeeps
<1>5. ConsoleTypes'
  <2>1. [output |-> output, faults |-> failing]' \in Cases
        /\ written' \in [Streams -> Nat] /\ reader' \in [Streams -> ReaderType]
    BY <1>1 DEF ConsoleTypes
  <2>2. journal' \in JournalType
    BY DEF ReapChild, ConsoleTypes, JournalType
  <2>3. main' \in MainSteps \cup {"returned"}
    BY DEF ReapChild, Enters, Reports, MainSteps
  <2>4. requested' \in BOOLEAN /\ terminationFailed' \in BOOLEAN
    BY DEF ReapChild, ConsoleTypes, flags
  <2>5. /\ result' \in {"none", "status", "error"}
        /\ exit' \in {"none", "status", "canceled", "error"}
    BY DEF ReapChild, ConsoleTypes, Reports
  <2>6. /\ root' \in {"none", "suspended", "running", "exited", "closing", "killed"}
        /\ descendant' \in {"none", "piped", "detached", "closing", "dead"}
        /\ inJob' \in BOOLEAN
    BY DEF ReapChild, ConsoleTypes, tree
  <2>. QED BY <2>1, <2>2, <2>3, <2>4, <2>5, <2>6 DEF ConsoleTypes
<1>6. ProcessesKnown'
  BY DEF ReapChild, ConsoleTypes, ProcessesKnown, tree, Enters, Reports, RootAlive, RootOpen,
         DescendantAlive
<1>7. ReadersStarted'
  BY <1>1 DEF ReapChild, ReadersStarted, Started, Enters, Reports
<1>8. ResultKnown'
  <2>1. ~terminationFailed /\ requested /\ requested'
    BY DEF ReapChild, ResultKnown, AfterWait
  <2>2. \A s \in Streams : Started(s)'
    BY <1>1 DEF ReapChild, ReadersStarted, Started
  <2>3. \/ main' = "join stdout" /\ result' = "status" /\ ~terminationFailed'
        \/ main' = "join stdout" /\ result' = "error"
    BY <2>1 DEF ReapChild, Enters, Reports
  <2>. QED BY <2>1, <2>2, <2>3 DEF ResultKnown, AfterWait, Started
<1>9. EndingKnown'
  BY DEF ReapChild, EndingKnown
<1>. QED BY <1>4, <1>5, <1>6, <1>7, <1>8, <1>9

\* The wait fails: there is no status.
LEMMA WaitFailsInv ==
    ASSUME ConsoleInv, WaitFails
    PROVE  ConsoleInv'
<1>. USE DEF ConsoleInv
<1>1. UNCHANGED <<failing, output, reader, written>>
  BY DEF WaitFails, Unchanged, outputs
<1>2. journal'.kept = journal.kept /\ journal'.writer = journal.writer
  BY DEF WaitFails, ConsoleTypes, JournalType
<1>3. ASSUME NEW s \in Streams, Finished(s) PROVE ~PipeOpen'
  <2>1. ~PipeOpen /\ Started(s)
    BY <1>3, FinishedIsClosed
  <2>. QED BY <2>1 DEF WaitFails, Unchanged, tree, PipeOpen, RootAlive, RootOpen, DescendantAlive,
                       ReadersStarted, ProcessesKnown, Enters, Reports
<1>4. \A s \in Streams : ReaderKnown(s)'
  BY <1>1, <1>2, <1>3, MainKeeps
<1>5. ConsoleTypes'
  <2>1. [output |-> output, faults |-> failing]' \in Cases
        /\ written' \in [Streams -> Nat] /\ reader' \in [Streams -> ReaderType]
    BY <1>1 DEF ConsoleTypes
  <2>2. journal' \in JournalType
    BY DEF WaitFails, ConsoleTypes, JournalType
  <2>3. main' \in MainSteps \cup {"returned"}
    BY DEF WaitFails, Enters, Reports, MainSteps
  <2>4. requested' \in BOOLEAN /\ terminationFailed' \in BOOLEAN
    BY DEF WaitFails, ConsoleTypes, Unchanged, flags
  <2>5. /\ result' \in {"none", "status", "error"}
        /\ exit' \in {"none", "status", "canceled", "error"}
    BY DEF WaitFails, ConsoleTypes, Reports
  <2>6. /\ root' \in {"none", "suspended", "running", "exited", "closing", "killed"}
        /\ descendant' \in {"none", "piped", "detached", "closing", "dead"}
        /\ inJob' \in BOOLEAN
    BY DEF WaitFails, ConsoleTypes, tree
  <2>. QED BY <2>1, <2>2, <2>3, <2>4, <2>5, <2>6 DEF ConsoleTypes
<1>6. ProcessesKnown'
  BY DEF WaitFails, ConsoleTypes, ProcessesKnown, Unchanged, tree, Enters, Reports, RootAlive,
         RootOpen, DescendantAlive
<1>7. ReadersStarted'
  BY <1>1 DEF WaitFails, ReadersStarted, Started, Enters, Reports
<1>8. ResultKnown'
  BY <1>1 DEF WaitFails, ConsoleTypes, ResultKnown, ReadersStarted, ProcessesKnown, Started,
              Finished, AfterWait, Unchanged, flags, tree, Enters, Reports, RootAlive, RootOpen,
              DescendantAlive, Streams
<1>9. EndingKnown'
  BY DEF WaitFails, EndingKnown
<1>. QED BY <1>4, <1>5, <1>6, <1>7, <1>8, <1>9

\* Closing the job ends what is left, so that nothing is at the ending.
LEMMA CloseJobInv ==
    ASSUME ConsoleInv, CloseJob
    PROVE  ConsoleInv'
<1>. USE DEF ConsoleInv
<1>1. UNCHANGED <<failing, output, reader, written>>
  BY DEF CloseJob, Unchanged, outputs
<1>2. journal'.kept = journal.kept /\ journal'.writer = journal.writer
  BY DEF CloseJob, ConsoleTypes, JournalType
<1>3. ASSUME NEW s \in Streams, Finished(s) PROVE ~PipeOpen'
  <2>1. ~PipeOpen /\ Started(s)
    BY <1>3, FinishedIsClosed
  <2>. QED BY <2>1 DEF CloseJob, Terminate, PipeOpen, RootAlive, RootOpen
<1>4. \A s \in Streams : ReaderKnown(s)'
  BY <1>1, <1>2, <1>3, MainKeeps
<1>5. ConsoleTypes'
  <2>1. [output |-> output, faults |-> failing]' \in Cases
        /\ written' \in [Streams -> Nat] /\ reader' \in [Streams -> ReaderType]
    BY <1>1 DEF ConsoleTypes
  <2>2. journal' \in JournalType
    BY DEF CloseJob, ConsoleTypes, JournalType
  <2>3. main' \in MainSteps \cup {"returned"}
    BY DEF CloseJob, Enters, MainSteps
  <2>4. requested' \in BOOLEAN /\ terminationFailed' \in BOOLEAN
    BY DEF CloseJob, ConsoleTypes, Unchanged, flags
  <2>5. /\ result' \in {"none", "status", "error"}
        /\ exit' \in {"none", "status", "canceled", "error"}
    BY DEF CloseJob, ConsoleTypes
  <2>6. /\ root' \in {"none", "suspended", "running", "exited", "closing", "killed"}
        /\ descendant' \in {"none", "piped", "detached", "closing", "dead"}
        /\ inJob' \in BOOLEAN
    BY DEF CloseJob, ConsoleTypes, Terminate
  <2>. QED BY <2>1, <2>2, <2>3, <2>4, <2>5, <2>6 DEF ConsoleTypes
<1>6. ProcessesKnown'
  BY DEF CloseJob, ProcessesKnown, Terminate, Enters, RootAlive, RootOpen, DescendantAlive
<1>7. ReadersStarted'
  BY <1>1 DEF CloseJob, ReadersStarted, Started, Enters
<1>8. ResultKnown'
  BY <1>1 DEF CloseJob, ResultKnown, Started, Finished, AfterWait, Unchanged, flags,
              Terminate, Enters, RootAlive, RootOpen
<1>9. EndingKnown'
  BY DEF CloseJob, EndingKnown
<1>. QED BY <1>4, <1>5, <1>6, <1>7, <1>8, <1>9

\* The journal is ended as exited only with a status and without a cancel.
LEMMA EndInv ==
    ASSUME ConsoleInv, End
    PROVE  ConsoleInv'
<1>. USE DEF ConsoleInv
<1>1. UNCHANGED <<failing, output, reader, written>>
  BY DEF End, Unchanged, outputs
<1>2. journal'.kept = journal.kept /\ journal'.writer = journal.writer
  BY DEF End, ConsoleTypes, JournalType, EndJournal
<1>3. ASSUME NEW s \in Streams, Finished(s) PROVE ~PipeOpen'
  <2>1. ~PipeOpen /\ Started(s)
    BY <1>3, FinishedIsClosed
  <2>. QED BY <2>1 DEF End, tree, PipeOpen, RootAlive, RootOpen
<1>4. \A s \in Streams : ReaderKnown(s)'
  BY <1>1, <1>2, <1>3, MainKeeps
<1>5. ConsoleTypes'
  <2>1. [output |-> output, faults |-> failing]' \in Cases
        /\ written' \in [Streams -> Nat] /\ reader' \in [Streams -> ReaderType]
    BY <1>1 DEF ConsoleTypes
  <2>2. journal' \in JournalType
    BY DEF End, ConsoleTypes, JournalType, EndJournal
  <2>3. main' \in MainSteps \cup {"returned"}
    BY DEF End, Enters, Answers, EndJournal
  <2>4. requested' \in BOOLEAN /\ terminationFailed' \in BOOLEAN
    BY DEF End, ConsoleTypes, Unchanged, flags
  <2>5. /\ result' \in {"none", "status", "error"}
        /\ exit' \in {"none", "status", "canceled", "error"}
    BY DEF End, ConsoleTypes, Answers, EndJournal
  <2>6. /\ root' \in {"none", "suspended", "running", "exited", "closing", "killed"}
        /\ descendant' \in {"none", "piped", "detached", "closing", "dead"}
        /\ inJob' \in BOOLEAN
    BY DEF End, ConsoleTypes, tree
  <2>. QED BY <2>1, <2>2, <2>3, <2>4, <2>5, <2>6 DEF ConsoleTypes
<1>6. ProcessesKnown'
  BY DEF End, ProcessesKnown, tree, Enters, Answers, EndJournal, RootAlive, RootOpen, DescendantAlive
<1>7. ReadersStarted'
  BY <1>1 DEF End, ReadersStarted, Started, Enters, Answers, EndJournal
<1>8. ResultKnown'
  BY <1>1 DEF End, ConsoleTypes, ResultKnown, ReadersStarted, ProcessesKnown, Started,
              Finished, AfterWait, Unchanged, flags, tree, Enters, Answers, EndJournal, RootAlive,
              RootOpen, DescendantAlive, Streams
<1>9. EndingKnown'
  BY <1>1, <1>2 DEF End, ConsoleTypes, EndingKnown, ResultKnown, Finished, JournalType, tree,
                    Enters, Answers, EndJournal, Streams
<1>. QED BY <1>4, <1>5, <1>6, <1>7, <1>8, <1>9

\* A reader is started before anything is read by it.
LEMMA StartReaderInv ==
    ASSUME ConsoleInv, NEW s \in Streams, NEW next, NEW otherwise,
           \/ s = "stdout" /\ next = "stderr" /\ otherwise = "unmonitored"
           \/ s = "stderr" /\ next = "wait" /\ otherwise = "unmonitored",
           StartReader(s, next, otherwise)
    PROVE  ConsoleInv'
<1>. USE DEF ConsoleInv
<1>1. /\ UNCHANGED <<failing, output, written, journal, tree, flags, exit>>
      /\ main = s /\ ~Started(s)
  BY DEF StartReader, ReadersStarted
<1>2. reader[s] = NoReader /\ ReaderKnown(s)
  BY <1>1 DEF ReaderKnown, Started
<1> DEFINE n == [NoReader EXCEPT !.pc = "read"]
<1>3. /\ n.pc = "read" /\ n.read = NoReader.read /\ n.decoders = NoReader.decoders
      /\ n.shown = NoReader.shown /\ n.journaled = NoReader.journaled
      /\ n.failed = NoReader.failed /\ NoReader.pc = "none"
  BY DEF NoReader
<1>4. n \in ReaderType
  <2>1. NoReader \in ReaderType
    BY <1>2 DEF ConsoleTypes
  <2>. QED BY <2>1 DEF ReaderType
<1>5. \/ reader' = [reader EXCEPT ![s] = n] /\ main' = next /\ result' = result
      \/ reader' = reader /\ main' = "unmonitored" /\ result' = "error"
  BY <1>2 DEF StartReader, Enters, Reports
<1>6. reader' \in [Streams -> ReaderType]
  BY <1>4, <1>5 DEF ConsoleTypes
<1>7. \A t \in Streams : reader'[t] = reader[t] \/ (t = s /\ reader'[s] = n)
  BY <1>5 DEF ConsoleTypes
<1>. HIDE DEF n
<1>8. ASSUME NEW t \in Streams PROVE ReaderKnown(t)'
  <2>1. CASE reader'[t] = reader[t]
    <3>1. written'[t] = written[t] /\ output'[t] = output[t] /\ failing' = failing
          /\ journal' = journal /\ (PipeOpen' <=> PipeOpen) /\ ReaderKnown(t)
      BY <1>1 DEF PipeOpen, RootAlive, RootOpen, tree
    <3>2. Truthful(reader[t], SubSeq(output[t], 1, reader[t].read))
          => Truthful(reader[t], SubSeq(output[t], 1, reader[t].read))'
      BY <2>1, <3>1 DEF Truthful, Reliable
    <3>3. Recorded(reader[t], journal.kept[t], journal.writer)
          => Recorded(reader[t], journal.kept[t], journal.writer)'
      BY <2>1, <3>1 DEF Recorded, Reliable
    <3>. QED BY <2>1, <3>1, <3>2, <3>3 DEF ReaderKnown, Finished
  <2>2. CASE t = s /\ reader'[s] = n
    <3>1. written'[s] = written[s] /\ output'[s] = output[s] /\ failing' = failing
          /\ journal' = journal
      BY <1>1
    <3>2. /\ Truthful(NoReader, SubSeq(output[s], 1, NoReader.read))
          /\ Recorded(NoReader, journal.kept[s], journal.writer)
      BY <1>2 DEF ReaderKnown
    <3>3. Truthful(n, SubSeq(output[s], 1, n.read))
      BY <1>3, <3>2 DEF Truthful, Reliable
    <3>4. Recorded(n, journal.kept[s], journal.writer)
      BY <1>3, <3>2 DEF Recorded, Reliable
    <3>5. Truthful(reader[s], SubSeq(output[s], 1, reader[s].read))'
      BY <2>2, <3>1, <3>3 DEF Truthful, Reliable
    <3>6. Recorded(reader[s], journal.kept[s], journal.writer)'
      BY <2>2, <3>1, <3>4 DEF Recorded, Reliable
    <3>7. n.read <= written[s]
      BY <1>2, <1>3 DEF ReaderKnown
    <3>. QED BY <1>2, <1>3, <2>2, <3>1, <3>5, <3>6, <3>7 DEF ReaderKnown, Finished
  <2>. QED BY <1>7, <2>1, <2>2
<1>9. ConsoleTypes'
  <2>1. main' \in MainSteps \cup {"returned"}
    BY <1>5 DEF MainSteps
  <2>2. result' \in {"none", "status", "error"}
    BY <1>5 DEF ConsoleTypes
  <2>3. UNCHANGED <<failing, output, written, journal, root, descendant, inJob,
                   requested, terminationFailed, exit>>
    BY <1>1 DEF flags, tree
  <2>. QED BY <1>6, <2>1, <2>2, <2>3 DEF ConsoleTypes
<1>10. ProcessesKnown'
  BY <1>1, <1>5 DEF ProcessesKnown, tree
<1>11. ReadersStarted'
  <2>1. \A t \in Streams : Started(t)' <=> Started(t) \/ (t = s /\ reader'[s] = n)
    BY <1>3, <1>7 DEF Started
  <2>2. \/ s = "stdout" /\ main' = "stderr" /\ reader'[s] = n
        \/ s = "stderr" /\ main' = "wait" /\ reader'[s] = n
        \/ main' = "unmonitored"
    BY <1>5 DEF ConsoleTypes
  <2>. QED BY <1>1, <2>1, <2>2 DEF ReadersStarted, Streams
<1>12. ResultKnown' /\ EndingKnown'
  <2>1. main \notin AfterWait
    BY <1>1 DEF AfterWait, Streams
  <2>2. result # "status" /\ ~terminationFailed /\ journal.status # "Exited"
    BY <2>1 DEF ResultKnown, EndingKnown, AfterWait
  <2>. QED BY <1>1, <1>5, <2>2 DEF ResultKnown, EndingKnown, flags
<1>. QED BY <1>8, <1>9, <1>10, <1>11, <1>12

\* A joined reader that failed turns the status into an error.
LEMMA JoinReaderInv ==
    ASSUME ConsoleInv, NEW s \in Streams, NEW here, NEW next,
           \/ s = "stdout" /\ here = "join stdout" /\ next = "join stderr"
           \/ s = "stderr" /\ here = "join stderr" /\ next = "close",
           JoinReader(s, here, next)
    PROVE  ConsoleInv'
<1>. USE DEF ConsoleInv
<1>1. /\ UNCHANGED <<failing, output, written, reader, journal, tree, flags, exit>>
      /\ main = here /\ main' = next /\ reader[s].pc # "read"
      /\ result' = IF reader[s].failed THEN "error" ELSE result
  BY DEF JoinReader, outputs, Enters
<1>2. ASSUME NEW t \in Streams, Finished(t) PROVE ~PipeOpen'
  BY <1>1, <1>2, FinishedIsClosed DEF PipeOpen, RootAlive, RootOpen, tree
<1>3. \A t \in Streams : ReaderKnown(t)'
  BY <1>1, <1>2, MainKeeps
<1>4. ConsoleTypes'
  BY <1>1 DEF ConsoleTypes, flags, tree, MainSteps
<1>5. ProcessesKnown'
  BY <1>1 DEF ProcessesKnown, tree
<1>6. ReadersStarted'
  BY <1>1 DEF ReadersStarted
<1>7. ResultKnown'
  <2>1. result' = "status" => result = "status" /\ ~reader[s].failed
    BY <1>1
  <2>2. result' = "status" => Finished(s)
    BY <1>1, <2>1 DEF ResultKnown, Started, Finished, ConsoleTypes, ReaderType
  <2>3. \A t \in Streams : (Started(t)' <=> Started(t)) /\ (Finished(t)' <=> Finished(t))
    BY <1>1 DEF Started, Finished
  <2>4. main \in AfterWait /\ main' \in AfterWait
    BY <1>1 DEF AfterWait
  <2>5. terminationFailed' => result' = "error"
    BY <1>1 DEF ResultKnown, flags
  <2>. QED BY <1>1, <2>1, <2>2, <2>3, <2>4, <2>5 DEF ResultKnown, flags, tree, Streams
<1>8. EndingKnown'
  BY <1>1 DEF EndingKnown
<1>. QED BY <1>3, <1>4, <1>5, <1>6, <1>7, <1>8
-----------------------------------------------------------------------------
(* Ctrl+C, the command and the readers *)

\* A request may come at any place and changes no result that is known.
LEMMA ControlCInv ==
    ASSUME ConsoleInv, ControlC
    PROVE  ConsoleInv'
<1>. USE DEF ConsoleInv
<1>1. /\ UNCHANGED <<failing, output, written, reader, journal, tree, main, terminationFailed, result, exit>>
      /\ requested' = TRUE
  BY DEF ControlC, outputs
<1>2. ASSUME NEW t \in Streams, Finished(t) PROVE ~PipeOpen'
  BY <1>1, <1>2, FinishedIsClosed DEF PipeOpen, RootAlive, RootOpen, tree
<1>3. \A t \in Streams : ReaderKnown(t)'
  BY <1>1, <1>2, MainKeeps
<1>4. ConsoleTypes'
  BY <1>1 DEF ConsoleTypes, tree
<1>5. ProcessesKnown' /\ ReadersStarted' /\ EndingKnown'
  BY <1>1 DEF ProcessesKnown, RootAlive, RootOpen, DescendantAlive, ReadersStarted, Started, EndingKnown,
              Finished, tree
<1>6. ResultKnown'
  BY <1>1 DEF ResultKnown, Started, Finished
<1>. QED BY <1>3, <1>4, <1>5, <1>6

\* A step of the command writes or ends something, a terminated process is
\* closed, and neither opens a pipe that a reader has seen closed.
LEMMA CommandInv ==
    ASSUME ConsoleInv, CommandStep \/ CloseProcess
    PROVE  ConsoleInv'
<1>. USE DEF ConsoleInv
<1>1. UNCHANGED <<failing, output, main, flags, result, exit, inJob, reader, journal>>
  BY DEF CommandStep, Command, Write, StartDescendant, RootExits, DescendantExits, CloseProcess
<1>2. output \in [Streams -> Seq(Bytes)] /\ written \in [Streams -> Nat]
  BY CaseTyped DEF ConsoleTypes
<1>3. /\ written' \in [Streams -> Nat]
      /\ \A t \in Streams : /\ written[t] <= written'[t] /\ written'[t] <= Len(output[t])
                            /\ PipeOpen \/ written'[t] = written[t]
  <2>1. ASSUME NEW t \in Streams PROVE Len(output[t]) \in Nat /\ written[t] <= Len(output[t])
    BY <1>2, LenProperties DEF ReaderKnown
  <2>2. CASE \E s \in Streams : Write(s)
    BY <1>2, <2>1, <2>2 DEF Write, PipeOpen, RootAlive, RootOpen
  <2>3. CASE written' = written
    BY <1>2, <2>1, <2>3
  <2>. QED BY <2>2, <2>3 DEF CommandStep, StartDescendant, RootExits, DescendantExits, CloseProcess
<1>4. PipeOpen' => PipeOpen
  BY DEF CommandStep, Write, StartDescendant, RootExits, DescendantExits,
         CloseProcess, PipeOpen, RootAlive, RootOpen,
         DescendantAlive
<1>5. ASSUME NEW t \in Streams PROVE ReaderKnown(t)'
  <2>1. Finished(t) => ~PipeOpen
    BY FinishedIsClosed
  <2>2. Finished(t) => written'[t] = written[t] /\ ~PipeOpen'
    BY <1>3, <1>4, <2>1
  <2>. QED BY <1>1, <1>3, <2>2, ReadersKept
<1>6. /\ \/ root' = root
         \/ root = "running" /\ root' = "exited"
         \/ root = "closing" /\ root' = "killed"
      /\ \/ descendant' = descendant
         \/ root = "running" /\ root' = "running" /\ descendant' \in {"piped", "detached"}
         \/ descendant # "none" /\ descendant' = "dead" /\ root' = root
  BY DEF CommandStep, Write, StartDescendant, RootExits, DescendantExits, DescendantAlive,
         CloseProcess
<1>7. ConsoleTypes'
  <2>1. /\ root' \in {"none", "suspended", "running", "exited", "closing", "killed"}
        /\ descendant' \in {"none", "piped", "detached", "closing", "dead"}
    BY <1>6 DEF ConsoleTypes
  <2>. QED BY <1>1, <1>3, <2>1 DEF ConsoleTypes, flags
<1>8. ProcessesKnown'
  BY <1>1, <1>6 DEF ProcessesKnown, RootAlive, RootOpen, DescendantAlive
<1>9. ReadersStarted'
  BY <1>1 DEF ReadersStarted, Started
<1>10. ResultKnown'
  BY <1>1, <1>6 DEF ResultKnown, Started, Finished, flags
<1>11. EndingKnown'
  BY <1>1, <1>6 DEF EndingKnown, Finished
<1>. QED BY <1>5, <1>7, <1>8, <1>9, <1>10, <1>11

\* A step of a reader: what it has read, shown and passed on is known again.
LEMMA ReaderGoes ==
    ASSUME ConsoleInv, NEW s \in Streams, NEW n \in ReaderType, Reads,
           reader[s].pc = "read", reader' = [reader EXCEPT ![s] = n],
           n.pc # "none", n.read <= written[s], JournalGoes(s),
           Truthful(n, SubSeq(output[s], 1, n.read)),
           n.pc = "ended" /\ ~n.failed => n.read = written[s] /\ ~PipeOpen,
           Recorded(n, journal'.kept[s], journal'.writer)
    PROVE  ConsoleInv'
<1>. USE DEF ConsoleInv
<1>1. UNCHANGED <<failing, output, main, requested, terminationFailed, result, exit,
                 root, descendant, inJob, written>>
  BY DEF Reads, flags, tree
<1>2. /\ reader'[s] = n /\ reader' \in [Streams -> ReaderType]
      /\ \A t \in Streams \ {s} : reader'[t] = reader[t]
  BY DEF ConsoleTypes
<1>3. Started(s) /\ ~Finished(s)
  BY DEF Started, Finished
<1>4. ASSUME NEW t \in Streams \ {s} PROVE ReaderKnown(t)'
  <2>1. /\ reader'[t] = reader[t] /\ written'[t] = written[t] /\ output'[t] = output[t]
        /\ journal'.kept[t] = journal.kept[t] /\ (PipeOpen' <=> PipeOpen) /\ ReaderKnown(t)
    BY <1>1, <1>2 DEF JournalGoes, PipeOpen, RootAlive, RootOpen
  <2>2. Truthful(reader[t], SubSeq(output[t], 1, reader[t].read))
        => Truthful(reader[t], SubSeq(output[t], 1, reader[t].read))'
    BY <1>1, <2>1 DEF Truthful, Reliable
  <2>3. Recorded(reader[t], journal.kept[t], journal.writer)
        => Recorded(reader[t], journal.kept[t], journal.writer)'
    BY <1>1, <2>1 DEF Recorded, Reliable, JournalGoes
  <2>. QED BY <2>1, <2>2, <2>3 DEF ReaderKnown, Finished
<1>5. ReaderKnown(s)'
  <2>1. /\ written'[s] = written[s] /\ output'[s] = output[s] /\ (PipeOpen' <=> PipeOpen)
        /\ written[s] <= Len(output[s])
    BY <1>1 DEF PipeOpen, RootAlive, RootOpen, ReaderKnown
  <2>2. Truthful(reader[s], SubSeq(output[s], 1, reader[s].read))'
    BY <1>1, <1>2 DEF Truthful, Reliable
  <2>3. Recorded(reader[s], journal.kept[s], journal.writer)'
    BY <1>1, <1>2 DEF Recorded, Reliable
  <2>. QED BY <1>2, <2>1, <2>2, <2>3 DEF ReaderKnown, Finished
<1>6. ConsoleTypes'
  BY <1>1, <1>2 DEF ConsoleTypes, JournalGoes
<1>7. ProcessesKnown'
  BY <1>1 DEF ProcessesKnown, RootAlive, RootOpen, DescendantAlive
<1>8. \A t \in Streams : (Started(t)' <=> Started(t)) /\ (Finished(t) => Finished(t)')
  BY <1>2, <1>3 DEF Started, Finished
<1>9. ReadersStarted' /\ ResultKnown'
  BY <1>1, <1>8 DEF ReadersStarted, ResultKnown, Streams
<1>10. EndingKnown'
  <2>1. journal.status # "Exited"
    BY <1>3 DEF EndingKnown
  <2>. QED BY <2>1 DEF EndingKnown, JournalGoes
<1>. QED BY <1>4, <1>5, <1>6, <1>7, <1>9, <1>10

\* The bytes from the pipe: those of the earlier reads, and the next.
LEMMA BytesTaken ==
    ASSUME NEW out \in Seq(Bytes), NEW m \in Nat, NEW n \in Nat, m <= n, n <= Len(out)
    PROVE  /\ SubSeq(out, 1, m) \in Seq(Bytes) /\ SubSeq(out, m + 1, n) \in Seq(Bytes)
           /\ SubSeq(out, 1, m) \o SubSeq(out, m + 1, n) = SubSeq(out, 1, n)
<1>1. Len(out) \in Nat
  BY LenProperties
<1>2. m \in 0 .. Len(out) /\ m + 1 \in 1 .. Len(out) + 1 /\ n \in m + 1 - 1 .. Len(out)
      /\ 1 \in 1 .. Len(out) + 1 /\ n \in m .. Len(out) /\ m \in 1 - 1 .. Len(out)
  BY <1>1
<1>3. SubSeq(out, 1, m) \in Seq(Bytes)
  BY <1>2, SubSeqTyped
<1>4. SubSeq(out, m + 1, n) \in Seq(Bytes)
  BY <1>2, SubSeqTyped
<1>5. SubSeq(out, 1, m) \o SubSeq(out, m + 1, n) = SubSeq(out, 1, n)
  BY <1>1, <1>2, ConcatAdjacentSubSeq
<1>. QED BY <1>3, <1>4, <1>5

\* A read, or the end of the pipe.
LEMMA PipeReadInv ==
    ASSUME ConsoleInv, NEW s \in Streams, Read(s) \/ ReadEnd(s)
    PROVE  ConsoleInv'
<1>. USE DEF ConsoleInv
<1> DEFINE r == reader[s]
           out == output[s]
           taken == SubSeq(out, 1, r.read)
           before == [r EXCEPT !.read = written[s]]
           ending == [r EXCEPT !.pc = "ended"]
<1>1. /\ r \in ReaderType /\ out \in Seq(Bytes) /\ written[s] \in Nat /\ journal \in JournalType
      /\ r.decoders \in Decoders
  BY CaseTyped DEF ConsoleTypes, ReaderType
<1>2. Truthful(r, taken) /\ Recorded(r, journal.kept[s], journal.writer)
      /\ written[s] <= Len(out) /\ r.read <= written[s] /\ r.read \in Nat /\ r.pc = "read" /\ Reads
  BY <1>1 DEF ReaderKnown, Read, ReadEnd, ReaderType
<1>3. taken \in Seq(Bytes)
  BY <1>1, <1>2, BytesTaken
<1>4. \E bytes \in Seq(Bytes), eof \in BOOLEAN, next \in ReaderType :
        /\ Takes(s, bytes, eof, next)
        /\ taken \o bytes = SubSeq(out, 1, next.read)
        /\ next.shown = r.shown /\ next.journaled = r.journaled /\ next.failed = r.failed
        /\ next.pc = (IF eof THEN "ended" ELSE "read")
        /\ next.read <= written[s]
        /\ eof => next.read = written[s] /\ ~PipeOpen
  <2>1. CASE Read(s)
    <3> DEFINE bytes == SubSeq(out, r.read + 1, written[s])
               next == before
    <3>1. bytes \in Seq(Bytes) /\ taken \o bytes = SubSeq(out, 1, written[s])
      BY <1>1, <1>2, BytesTaken
    <3>2. Takes(s, bytes, FALSE, next)
      BY <2>1 DEF Read
    <3>3. /\ next \in ReaderType /\ next.read = written[s]
          /\ next.shown = r.shown /\ next.journaled = r.journaled /\ next.failed = r.failed
          /\ next.pc = "read"
      BY <1>1, <1>2 DEF ReaderType
    <3>4. written[s] <= written[s]
      BY <1>1
    <3>. HIDE DEF bytes, next, taken, r, out
    <3>5. /\ taken \o bytes = SubSeq(out, 1, next.read)
          /\ next.pc = (IF FALSE THEN "ended" ELSE "read")
          /\ next.read <= written[s]
          /\ FALSE => next.read = written[s] /\ ~PipeOpen
      BY <3>1, <3>3, <3>4
    <3>. QED BY <3>1, <3>2, <3>3, <3>5
  <2>2. CASE ReadEnd(s)
    <3> DEFINE bytes == <<>>
               next == ending
    <3>1. bytes \in Seq(Bytes) /\ taken \o bytes = taken
      BY <1>3, EmptySeq, ConcatEmptySeq
    <3>2. Takes(s, bytes, TRUE, next) /\ r.read = written[s] /\ ~PipeOpen
      BY <2>2 DEF ReadEnd
    <3>3. /\ next \in ReaderType /\ next.read = r.read
          /\ next.shown = r.shown /\ next.journaled = r.journaled /\ next.failed = r.failed
          /\ next.pc = "ended"
      BY <1>1, <1>2 DEF ReaderType
    <3>4. written[s] <= written[s]
      BY <1>1
    <3>5. taken \o bytes = SubSeq(out, 1, next.read)
      BY <3>1, <3>3
    <3>. HIDE DEF bytes, next, taken, r, out
    <3>6. /\ next.pc = (IF TRUE THEN "ended" ELSE "read")
          /\ next.read <= written[s]
          /\ TRUE => next.read = written[s] /\ ~PipeOpen
      BY <3>2, <3>3, <3>4
    <3>. QED BY <3>1, <3>2, <3>3, <3>5, <3>6
  <2>. QED BY <2>1, <2>2
<1>5. PICK bytes \in Seq(Bytes), eof \in BOOLEAN, next \in ReaderType :
        /\ Takes(s, bytes, eof, next)
        /\ taken \o bytes = SubSeq(out, 1, next.read)
        /\ next.shown = r.shown /\ next.journaled = r.journaled /\ next.failed = r.failed
        /\ next.pc = (IF eof THEN "ended" ELSE "read")
        /\ next.read <= written[s]
        /\ eof => next.read = written[s] /\ ~PipeOpen
  BY <1>4
<1>. HIDE DEF taken, before, ending
<1> DEFINE decoded == Decode(r.decoders, bytes, eof)
           offered == [next EXCEPT !.decoders = decoded.decoders]
<1>6. /\ decoded.shown \in Seq(Shown) /\ decoded.decoders \in Decoders
      /\ \A n \in ReaderType :
           /\ n.pc = (IF eof THEN "ended" ELSE "read")
           /\ n.decoders = decoded.decoders
           /\ ~n.failed => ~r.failed
           /\ Reliable(n) => n.shown = r.shown \o decoded.shown
           => Truthful(n, taken \o bytes)
  BY <1>1, <1>2, <1>3, DecodeHolds
<1>7. Show(s, offered, decoded.shown)
  BY <1>5 DEF Takes
<1>. HIDE DEF decoded
<1>8. /\ offered \in ReaderType /\ offered.shown = r.shown /\ offered.journaled = r.journaled
      /\ offered.failed = r.failed /\ offered.read = next.read /\ offered.pc = next.pc
      /\ offered.decoders = decoded.decoders
  BY <1>5, <1>6 DEF ReaderType
<1>. HIDE DEF offered, r, out
<1>9. Recorded(offered, journal.kept[s], journal.writer)
  BY <1>2, <1>8 DEF Recorded, Reliable
<1>10. JournalGoes(s) /\ Shows(s, offered, decoded.shown)
  BY <1>1, <1>6, <1>7, <1>8, <1>9, ShowHolds
<1>11. PICK n \in ReaderType :
         /\ reader' = [reader EXCEPT ![s] = n]
         /\ n.pc = offered.pc /\ n.read = offered.read /\ n.decoders = offered.decoders
         /\ ~n.failed => ~offered.failed
         /\ Reliable(n) => n.shown = offered.shown \o decoded.shown
         /\ Recorded(n, journal'.kept[s], journal'.writer)
  BY <1>10 DEF Shows
<1>12. Truthful(n, SubSeq(out, 1, n.read))
  <2>1. Truthful(n, taken \o bytes)
    BY <1>5, <1>6, <1>8, <1>11
  <2>. QED BY <1>5, <1>8, <1>11, <2>1
<1>13. /\ n.pc # "none" /\ n.read <= written[s]
       /\ n.pc = "ended" /\ ~n.failed => n.read = written[s] /\ ~PipeOpen
  BY <1>5, <1>8, <1>11
<1>14. reader[s].pc = "read" /\ Truthful(n, SubSeq(output[s], 1, n.read))
  BY <1>2, <1>12 DEF r, out
<1>. QED BY <1>2, <1>10, <1>11, <1>13, <1>14, ReaderGoes

\* A read that fails ends the reader, which has then failed.
LEMMA ReadFailsInv ==
    ASSUME ConsoleInv, NEW s \in Streams, ReadFails(s)
    PROVE  ConsoleInv'
<1>. USE DEF ConsoleInv
<1> DEFINE r == reader[s]
           n == [r EXCEPT !.pc = "ended", !.failed = TRUE]
           taken == SubSeq(output[s], 1, r.read)
<1>1. r \in ReaderType /\ r.pc = "read" /\ Reads /\ UNCHANGED journal
      /\ reader' = [reader EXCEPT ![s] = n] /\ ReaderKnown(s)
  BY DEF ReadFails, ConsoleTypes
<1>2. /\ n \in ReaderType /\ n.pc = "ended" /\ n.failed /\ n.read = r.read
      /\ n.decoders = r.decoders /\ n.shown = r.shown /\ n.journaled = r.journaled
  BY <1>1 DEF ReaderType
<1>3. Truthful(r, taken) /\ Recorded(r, journal.kept[s], journal.writer) /\ r.read <= written[s]
  BY <1>1 DEF ReaderKnown
<1>. HIDE DEF n
<1>4. Truthful(n, SubSeq(output[s], 1, n.read))
  <2>1. Reliable(n) => Reliable(r)
    BY <1>2 DEF Reliable
  <2>2. Truthful(n, taken)
    BY <1>2, <1>3, <2>1 DEF Truthful
  <2>. QED BY <1>2, <2>2
<1>5. Recorded(n, journal'.kept[s], journal'.writer)
  BY <1>1, <1>2, <1>3 DEF Recorded, Reliable
<1>6. JournalGoes(s)
  BY <1>1 DEF JournalGoes, ConsoleTypes
<1>. QED BY <1>1, <1>2, <1>3, <1>4, <1>5, <1>6, ReaderGoes

\* The steps of the main thread.
LEMMA MainStepInv ==
    ASSUME ConsoleInv, MainStep
    PROVE  ConsoleInv'
<1>1. CASE StartReaders
  <2>1. CASE StartReader("stdout", "stderr", "unmonitored")
    BY <2>1, StartReaderInv DEF Streams
  <2>2. CASE StartReader("stderr", "wait", "unmonitored")
    BY <2>2, StartReaderInv DEF Streams
  <2>. QED BY <1>1, <2>1, <2>2 DEF StartReaders
<1>2. CASE JoinReaders
  <2>1. CASE JoinReader("stdout", "join stdout", "join stderr")
    BY <2>1, JoinReaderInv DEF Streams
  <2>2. CASE JoinReader("stderr", "join stderr", "close")
    BY <2>2, JoinReaderInv DEF Streams
  <2>. QED BY <1>2, <2>1, <2>2 DEF JoinReaders
<1>. QED BY <1>1, <1>2, StartJournalInv, MaterializeInv, SpawnInv, AssignAndResumeInv,
            StopUnmonitoredInv, ReapUnmonitoredInv, CancelChildInv, ReapChildInv,
            ChildEndedInv, WaitFailsInv, CloseJobInv, EndInv
         DEF MainStep

\* Every step keeps the invariant.
LEMMA ConsoleNextInv == ConsoleInv /\ [ConsoleNext]_consoleVars => ConsoleInv'
<1>. SUFFICES ASSUME ConsoleInv, [ConsoleNext]_consoleVars PROVE ConsoleInv'
  OBVIOUS
<1>1. CASE MainStep
  BY <1>1, MainStepInv
<1>2. ASSUME NEW s \in Streams, ReadOutput(s) PROVE ConsoleInv'
  BY <1>2, PipeReadInv, ReadFailsInv DEF ReadOutput
<1>3. CASE CommandStep \/ CloseProcess
  BY <1>3, CommandInv
<1>4. CASE ControlC
  BY <1>4, ControlCInv
<1>5. CASE UNCHANGED consoleVars
  <2>1. UNCHANGED <<failing, output, main, requested, terminationFailed, result, exit,
                   root, descendant, inJob, written, reader, journal>>
    BY <1>5 DEF consoleVars, flags, tree
  <2>. USE DEF ConsoleInv
  <2>2. ASSUME NEW t \in Streams, Finished(t) PROVE ~PipeOpen'
    BY <2>1, <2>2, FinishedIsClosed DEF PipeOpen, RootAlive, RootOpen
  <2>3. \A t \in Streams : ReaderKnown(t)'
    BY <2>1, <2>2, MainKeeps
  <2>4. ConsoleTypes'
    BY <2>1 DEF ConsoleTypes
  <2>5. ProcessesKnown' /\ ReadersStarted'
    BY <2>1 DEF ProcessesKnown, RootAlive, RootOpen, DescendantAlive, ReadersStarted, Started
  <2>6. ResultKnown' /\ EndingKnown'
    BY <2>1 DEF ResultKnown, EndingKnown, Started, Finished
  <2>. QED BY <2>3, <2>4, <2>5, <2>6
<1>. QED BY <1>1, <1>2, <1>3, <1>4, <1>5 DEF ConsoleNext
-----------------------------------------------------------------------------
(* Theorems *)

\* The bytes a reader has decoded, and those of them that are shown as text.
LEMMA ReaderShows ==
    ASSUME ConsoleInv, NEW s \in Streams
    PROVE  LET r == reader[s]
               done == SubSeq(output[s], 1, r.read - Len(r.decoders.bytes))
           IN /\ done \o r.decoders.bytes = ReadOf(s)
              /\ Reliable(r) => Original[r.shown] \o r.decoders.text = Characters[done]
<1> DEFINE r == reader[s]
           held == r.decoders.bytes
           out == output[s]
<1>1. out \in Seq(Bytes) /\ r \in ReaderType /\ ReaderKnown(s) /\ written[s] \in Nat
  BY CaseTyped DEF ConsoleInv, ConsoleTypes
<1>2. held \in Seq(Bytes) /\ r.read \in Nat /\ Len(held) \in Nat /\ Len(out) \in Nat
  BY <1>1, LenProperties DEF ReaderType, Decoders
<1>3. r.read \in 0 .. Len(out)
  BY <1>1, <1>2 DEF ReaderKnown
<1>4. ReadOf(s) = SubSeq(out, 1, r.read) /\ Truthful(r, SubSeq(out, 1, r.read))
  BY <1>1 DEF ReadOf, ReaderKnown
<1>5. PICK done \in Seq(Bytes) :
        /\ done \o held = ReadOf(s)
        /\ Reliable(r) => Original[r.shown] \o r.decoders.text = Characters[done]
  BY <1>4 DEF Truthful
<1> DEFINE read == SubSeq(out, 1, r.read)
           n == r.read
<1>6. /\ read \in Seq(Bytes) /\ From(out, n + 1) \in Seq(Bytes) /\ Len(read) = n
      /\ read \o From(out, n + 1) = out
  BY <1>1, <1>3, PieceTyped
<1>. HIDE DEF read, out, held, n
<1>7. Len(done) \in Nat /\ Len(done \o held) = Len(done) + Len(held) /\ n \in Nat
  BY <1>2, ConcatProperties, LenProperties DEF n
<1>8. done \o held = read
  BY <1>4, <1>5 DEF read, out
<1>9. Len(done) = n - Len(held) /\ Len(done) \in 0 .. Len(read)
  <2>1. Len(held) \in Nat
    BY <1>2
  <2>2. n = Len(done) + Len(held)
    BY <1>6, <1>7, <1>8
  <2>3. \A i, j, k \in Nat : k = i + j => i = k - j /\ i \in 0 .. k
    OBVIOUS
  <2>. QED BY <1>6, <1>7, <2>1, <2>2, <2>3
<1>10. SubSeq(read, 1, Len(done)) = done
  <2>1. Len(done) \in 0 .. Len(done)
    BY <1>7
  <2>2. SubSeq(done \o held, 1, Len(done)) = SubSeq(done, 1, Len(done))
    BY <1>2, <2>1, BeginningOfConcat
  <2>3. SubSeq(done, 1, Len(done)) = done
    BY SubSeqFull
  <2>. QED BY <1>8, <2>2, <2>3
<1>11. SubSeq(out, 1, Len(done)) = SubSeq(read, 1, Len(done))
  <2>1. SubSeq(read \o From(out, n + 1), 1, Len(done)) = SubSeq(read, 1, Len(done))
    BY <1>6, <1>9, BeginningOfConcat
  <2>. QED BY <1>6, <2>1
<1>12. done = SubSeq(output[s], 1, r.read - Len(r.decoders.bytes))
  BY <1>9, <1>10, <1>11 DEF out, held, n
<1>. QED BY <1>5, <1>12 DEF held

\* What the invariant says of the output.
LEMMA InvOutputSafety == ConsoleInv => OutputSafety
<1>. SUFFICES ASSUME ConsoleInv PROVE OutputSafety
  OBVIOUS
<1>. USE DEF ConsoleInv
<1>1. ConsoleTypeOK
  <2>1. ASSUME NEW s \in Streams
        PROVE  /\ reader[s].pc \in {"none", "read", "ended"}
               /\ written[s] <= Len(output[s]) /\ reader[s].read <= written[s]
               /\ reader[s].shown \in Seq(Shown) /\ journal.kept[s] \in Seq(Shown)
               /\ reader[s].decoders.text \in Seq(Text)
               /\ Len(reader[s].decoders.text) <= MaxFrame
    BY DEF ConsoleTypes, ReaderType, Decoders, JournalType, ReaderKnown, Truthful
  <2>2. /\ journal.status \in {"none", "Running", "Exited", "Canceled", "Failed"}
        /\ journal.writer \in {"good", "full", "broken"}
    BY DEF ConsoleTypes, JournalType
  <2>. QED BY <2>1, <2>2 DEF ConsoleTypeOK, ConsoleTypes
<1>2. OutputIsLossless
  <2>1. SUFFICES ASSUME "console" \notin failing, NEW s \in Streams
                 PROVE  Original[reader[s].shown] \o reader[s].decoders.text
                        = Characters[SubSeq(output[s], 1, reader[s].read - Len(reader[s].decoders.bytes))]
    BY DEF OutputIsLossless
  <2>2. Reliable(reader[s])
    BY <2>1 DEF Reliable
  <2>. QED BY <2>2, ReaderShows
<1>3. FramesAreRecognized
  <2>1. SUFFICES ASSUME NEW s \in Streams, reader[s].pc = "ended", ~reader[s].failed,
                        ~Oversized(Characters[ReadOf(s)])
                 PROVE  reader[s].shown = Meaning[Characters[ReadOf(s)]]
    BY DEF FramesAreRecognized
  <2> DEFINE r == reader[s]
             done == SubSeq(output[s], 1, r.read - Len(r.decoders.bytes))
  <2>2. Truthful(r, ReadOf(s)) /\ r \in ReaderType
    BY DEF ReaderKnown, ReadOf, ConsoleTypes
  <2>3. r.decoders = NoDecoders
    BY <2>1, <2>2 DEF Truthful
  <2>4. r.decoders.bytes = <<>> /\ r.decoders.text = <<>>
    BY <2>3 DEF NoDecoders
  <2>5. Original[r.shown] \o r.decoders.text = Characters[done] /\ done \o r.decoders.bytes = ReadOf(s)
    BY <2>1, ReaderShows DEF Reliable
  <2>6. done \in Seq(Bytes)
    <3>1. output[s] \in Seq(Bytes) /\ r.read \in Nat /\ written[s] \in Nat
          /\ r.read <= written[s] /\ written[s] <= Len(output[s])
      BY <2>2, CaseTyped DEF ConsoleTypes, ReaderType, ReaderKnown
    <3>2. r.read - Len(r.decoders.bytes) = r.read
      BY <2>4, <3>1
    <3>3. r.read <= Len(output[s])
      BY <3>1, LenProperties
    <3>4. SubSeq(output[s], 1, r.read) \in Seq(Bytes)
      <4>1. r.read \in 0 .. Len(output[s])
        BY <3>1, <3>3, LenProperties
      <4>. QED BY <3>1, <4>1, PieceTyped
    <3>. QED BY <3>2, <3>4
  <2>7. Original[r.shown] \in Seq(Text)
    BY <2>2, OriginalDefined DEF ReaderType
  <2>. HIDE DEF done
  <2>8. ReadOf(s) = done
    BY <2>4, <2>5, <2>6, ConcatEmptySeq
  <2>9. Original[r.shown] = Characters[ReadOf(s)]
    BY <2>4, <2>5, <2>7, <2>8, ConcatEmptySeq
  <2>10. ~Oversized(Original[r.shown] \o r.decoders.text)
    BY <2>1, <2>5, <2>8
  <2>11. r.shown = Meaning[Original[r.shown]]
    BY <2>1, <2>2, <2>10 DEF Truthful
  <2>. QED BY <2>9, <2>11
<1>4. JournalFollowsConsole
  <2>1. SUFFICES ASSUME "console" \notin failing, NEW s \in Streams
                 PROVE  IsPrefix(journal.kept[s], reader[s].shown)
    BY DEF JournalFollowsConsole
  <2> DEFINE kept == journal.kept[s]
             shown == reader[s].shown
  <2>2. kept \in Seq(Shown)
    BY DEF ConsoleTypes, JournalType
  <2>3. PICK more \in Seq(Shown) : shown = kept \o more
    BY <2>1 DEF ReaderKnown, Recorded, Reliable
  <2>. HIDE DEF kept, shown
  <2>4. Len(kept) \in Nat /\ Len(more) \in Nat /\ Len(shown) = Len(kept) + Len(more)
    BY <2>2, <2>3, LenProperties, ConcatProperties
  <2>5. SubSeq(shown, 1, Len(kept)) = SubSeq(kept, 1, Len(kept))
    <3>1. Len(kept) \in 0 .. Len(kept)
      BY <2>4
    <3>. QED BY <2>2, <2>3, <3>1, BeginningOfConcat
  <2>6. IsPrefix(kept, shown)
    BY <2>4, <2>5 DEF IsPrefix
  <2>. QED BY <2>6 DEF kept, shown
<1>. QED BY <1>1, <1>2, <1>3, <1>4 DEF OutputSafety

\* What it says of the ending.
LEMMA InvEndingIsTrue == ConsoleInv => EndingIsTrue
<1>. SUFFICES ASSUME ConsoleInv PROVE EndingIsTrue
  OBVIOUS
<1>. USE DEF ConsoleInv
<1>1. NothingOutlivesTheRun
  BY DEF ProcessesKnown, NothingOutlivesTheRun
<1>2. ExitedIsComplete
  <2>1. SUFFICES ASSUME journal.status = "Exited"
                 PROVE  /\ root = "exited" /\ journal.writer # "broken"
                        /\ \A s \in Streams :
                             /\ reader[s].pc = "ended" /\ reader[s].read = written[s]
                             /\ reader[s].decoders = NoDecoders
                             /\ journal.writer = "good" => journal.kept[s] = reader[s].shown
    BY DEF ExitedIsComplete
  <2>2. root = "exited" /\ journal.writer # "broken"
    BY <2>1 DEF EndingKnown
  <2>3. ASSUME NEW s \in Streams
        PROVE  /\ reader[s].pc = "ended" /\ reader[s].read = written[s]
               /\ reader[s].decoders = NoDecoders
               /\ journal.writer = "good" => journal.kept[s] = reader[s].shown
    <3>1. Finished(s) /\ ReaderKnown(s)
      BY <2>1 DEF EndingKnown
    <3>. QED BY <3>1 DEF Finished, ReaderKnown, Truthful, Recorded, Reliable
  <2>. QED BY <2>2, <2>3
<1>. QED BY <1>1, <1>2 DEF EndingIsTrue

\* The invariant holds throughout, for every limit of a record, whatever the
\* command writes, in whatever pieces it is read, and whatever fails.
THEOREM ConsoleInvariant == ConsoleSpec => []ConsoleInv
<1>. QED BY ConsoleInitInv, ConsoleNextInv, PTL DEF ConsoleSpec

\* The console shows the output of the command unchanged but for the frames
\* it recognizes, which it recognizes wherever the reads cut them, and the
\* journal of each stream is the beginning of what is shown (read_output).
THEOREM ConsoleOutputSafety == ConsoleSpec => []OutputSafety
<1>. QED BY ConsoleInvariant, InvOutputSafety, PTL

\* A journal ended as exited is that of a process that ended by itself and of
\* which all output was shown, and no process outlives the run (CommandExecutor).
THEOREM ConsoleEndingIsTrue == ConsoleSpec => []EndingIsTrue
<1>. QED BY ConsoleInvariant, InvEndingIsTrue, PTL

=============================================================================
