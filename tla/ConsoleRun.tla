------------------------------ MODULE ConsoleRun ------------------------------
(***************************************************************************)
(* A command started from the console: CommandExecutor's journaled         *)
(* execution, the command process in its Job Object, the two threads that  *)
(* pass its output on to the journal and to the console, and Ctrl+C, of    *)
(* which the console handler only takes a note.                            *)
(*                                                                         *)
(* The process tree is its root and one descendant, which either holds the *)
(* root's output pipes ("piped") or not ("detached").  A process that is   *)
(* terminated runs no more code, but until the system has closed what it   *)
(* holds ("closing") its wait does not return and its pipes stay open.     *)
(*                                                                         *)
(* The journal is what its writer, RunJournal, promises this process:      *)
(* events are kept, no longer kept, or refused; the ending is the one      *)
(* asked for or Failed.                                                    *)
(***************************************************************************)
EXTENDS CommandOutput

CONSTANT Cases  \* bound: what a command would write, and the faults that may happen

Streams == {"stdout", "stderr"}
ConsoleFaults == {"prepare", "spawn", "assign", "thread", "terminate", "wait",
                  "read", "append", "limit", "finish", "console"}

ASSUME CasesAssumption ==
  Cases \subseteq [output: [Streams -> Seq(Bytes)], faults: SUBSET ConsoleFaults]

VARIABLES failing,     \* the faults that may still happen
          output,      \* the bytes the command would write
          main,        \* where the main thread is
          requested,   \* REQUESTED
          terminationFailed,        \* TERMINATION_FAILED
          result,      \* what the execution of the process returned
          exit,        \* what the program returned
          root, descendant, inJob,  \* the process tree
          written,     \* how many bytes the command has written
          reader,      \* the reader threads
          journal      \* the journal

tree == <<root, descendant, inJob>>
flags == <<requested, terminationFailed>>
consoleVars == <<failing, output, main, flags, result, exit, tree, written, reader, journal>>

MainSteps == {"start", "materialize", "spawn", "assign", "stdout", "stderr", "wait", "reap",
              "unmonitored", "reap unmonitored", "join stdout", "join stderr", "close", "ending"}

\* read: the bytes taken from the pipe; shown: what the console showed.
NoReader == [pc |-> "none", read |-> 0, decoders |-> NoDecoders, shown |-> <<>>,
             journaled |-> TRUE, failed |-> FALSE]

ConsoleTypeOK ==
  /\ [output |-> output, faults |-> failing] \in Cases
  /\ main \in MainSteps \cup {"returned"}
  /\ requested \in BOOLEAN /\ terminationFailed \in BOOLEAN
  /\ result \in {"none", "status", "error"}
  /\ exit \in {"none", "status", "canceled", "error"}
  /\ root \in {"none", "suspended", "running", "exited", "closing", "killed"}
  /\ descendant \in {"none", "piped", "detached", "closing", "dead"}
  /\ inJob \in BOOLEAN
  /\ \A s \in Streams :
       /\ reader[s].pc \in {"none", "read", "ended"}
       /\ written[s] <= Len(output[s]) /\ reader[s].read <= written[s]
       /\ reader[s].shown \in Seq(Shown) /\ journal.kept[s] \in Seq(Shown)
       /\ reader[s].decoders.text \in Seq(Text)
       /\ Len(reader[s].decoders.text) <= MaxFrame
  /\ journal.status \in {"none", "Running", "Exited", "Canceled", "Failed"}
  /\ journal.writer \in {"good", "full", "broken"}

ConsoleInit ==
  /\ \E case \in Cases : output = case.output /\ failing = case.faults
  /\ main = "start" /\ result = "none" /\ exit = "none"
  /\ requested = FALSE /\ terminationFailed = FALSE
  /\ root = "none" /\ descendant = "none" /\ inJob = FALSE
  /\ written = [s \in Streams |-> 0]
  /\ reader = [s \in Streams |-> NoReader]
  /\ journal = [status |-> "none", writer |-> "good", kept |-> [s \in Streams |-> <<>>]]

\* A process that may still run, and one whose handles are still open.
RootAlive == root \in {"suspended", "running"}
DescendantAlive == descendant \in {"piped", "detached"}
RootOpen == RootAlive \/ root = "closing"
PipeOpen == RootOpen \/ descendant \in {"piped", "closing"}

Enters(l) == main' = l
Reports(r, l) == result' = r /\ Enters(l)
Answers(a) == exit' = a /\ Enters("returned")

\* What only the reader threads and the command change.
outputs == <<output, written, reader>>
-----------------------------------------------------------------------------
(* OwnedProcessJob *)

\* TerminateJobObject ends the processes of the job, and waits for none.
Terminate ==
  /\ root' = IF inJob /\ RootAlive THEN "closing" ELSE root
  /\ descendant' = CASE descendant = "piped" -> "closing"
                     [] descendant = "detached" -> "dead"
                     [] OTHER -> descendant
  /\ UNCHANGED inJob

-----------------------------------------------------------------------------
(* The console control handler *)

ControlC ==
  /\ main # "returned" /\ ~requested
  /\ requested' = TRUE
  /\ UNCHANGED <<failing, outputs, main, terminationFailed, result, exit, tree, journal>>

-----------------------------------------------------------------------------
(* execute_journaled and run_process_journaled *)

Unchanged == UNCHANGED <<failing, outputs, flags>>

\* The dependencies are ready; a command that is not ready has no journal.
StartJournal ==
  /\ main = "start"
  /\ \/ /\ Enters("materialize")
        /\ journal' = [journal EXCEPT !.status = "Running"] /\ UNCHANGED exit
     \/ "prepare" \in failing /\ Answers("error") /\ UNCHANGED journal
  /\ Unchanged /\ UNCHANGED <<result, tree>>

Materialize ==
  /\ main = "materialize"
  /\ \/ Enters("spawn") /\ UNCHANGED result
     \/ "prepare" \in failing /\ Reports("error", "ending")
  /\ Unchanged /\ UNCHANGED <<exit, tree, journal>>

\* The job is created and the process spawned in it, suspended.
Spawn ==
  /\ main = "spawn"
  /\ \/ root' = "suspended" /\ Enters("assign") /\ UNCHANGED result
     \/ "spawn" \in failing /\ Reports("error", "ending") /\ UNCHANGED root
  /\ Unchanged /\ UNCHANGED <<exit, descendant, inJob, journal>>

\* assign_and_resume; if it fails, the root is killed and waited for.
AssignAndResume ==
  /\ main = "assign"
  /\ \/ inJob' = TRUE /\ root' = "running" /\ Enters("stdout") /\ UNCHANGED result
     \/ /\ "assign" \in failing
        /\ inJob' \in BOOLEAN /\ root' = "killed" /\ Reports("error", "ending")
  /\ Unchanged /\ UNCHANGED <<exit, descendant, journal>>

\* spawn_reader
StartReader(s, next, otherwise) ==
  /\ main = s
  /\ \/ reader' = [reader EXCEPT ![s].pc = "read"] /\ Enters(next) /\ UNCHANGED result
     \/ "thread" \in failing /\ Reports("error", otherwise) /\ UNCHANGED reader
  /\ UNCHANGED <<failing, output, written, flags, exit, tree, journal>>

StartReaders ==
  \/ StartReader("stdout", "stderr", "unmonitored")
  \/ StartReader("stderr", "wait", "unmonitored")

\* stop_unmonitored_child
StopUnmonitored ==
  /\ main = "unmonitored"
  /\ \/ Terminate
     \/ "terminate" \in failing /\ UNCHANGED tree
  /\ Enters("reap unmonitored")
  /\ Unchanged /\ UNCHANGED <<result, exit, journal>>

\* The first reader, if there is one, is joined.
ReapUnmonitored ==
  /\ main = "reap unmonitored"
  /\ ~RootOpen \/ "wait" \in failing
  /\ Enters("join stdout")
  /\ Unchanged /\ UNCHANGED <<result, exit, tree, journal>>

\* wait_for_child_or_cancellation.  If terminating fails, the process may yet
\* have ended.
CancelChild ==
  /\ main = "wait" /\ requested
  /\ \/ Terminate /\ Enters("reap") /\ UNCHANGED <<terminationFailed, result>>
     \/ /\ "terminate" \in failing /\ UNCHANGED tree
        /\ \/ ~RootOpen /\ Reports("status", "join stdout") /\ UNCHANGED terminationFailed
           \/ /\ RootOpen \/ "wait" \in failing
              /\ terminationFailed' = TRUE /\ Reports("error", "join stdout")
  /\ UNCHANGED <<failing, outputs, requested, exit, journal>>

\* The canceled process is waited for.
ReapChild ==
  /\ main = "reap"
  /\ \/ ~RootOpen /\ Reports("status", "join stdout") /\ UNCHANGED terminationFailed
     \/ /\ "wait" \in failing
        /\ terminationFailed' = TRUE /\ Reports("error", "join stdout")
  /\ UNCHANGED <<failing, outputs, requested, exit, tree, journal>>

\* Seeded fault: what the command leaves behind is not ended.
ChildEndedOnly ==
  /\ main = "wait" /\ ~RootOpen
  /\ UNCHANGED tree /\ Reports("status", "join stdout")
  /\ Unchanged /\ UNCHANGED <<exit, journal>>

\* The last look at the flag may be older than the request.
ChildEnded ==
  /\ main = "wait" /\ ~RootOpen
  /\ \/ Terminate /\ Reports("status", "join stdout")
     \/ "terminate" \in failing /\ UNCHANGED tree /\ Reports("error", "join stdout")
  /\ Unchanged /\ UNCHANGED <<exit, journal>>

WaitFails ==
  /\ main = "wait" /\ "wait" \in failing
  /\ Reports("error", "join stdout")
  /\ Unchanged /\ UNCHANGED <<exit, tree, journal>>

JoinReader(s, here, next) ==
  /\ main = here
  /\ reader[s].pc # "read"
  /\ result' = IF reader[s].failed THEN "error" ELSE result
  /\ Enters(next)
  /\ UNCHANGED <<failing, outputs, flags, exit, tree, journal>>

JoinReaders ==
  \/ JoinReader("stdout", "join stdout", "join stderr")
  \/ JoinReader("stderr", "join stderr", "close")

\* Seeded fault: a job without JOB_OBJECT_LIMIT_KILL_ON_JOB_CLOSE.
LeaveJob ==
  /\ main = "close" /\ Enters("ending")
  /\ Unchanged /\ UNCHANGED <<result, exit, tree, journal>>

\* The execution of the process returns, and closes the last handle of the job.
CloseJob ==
  /\ main = "close" /\ Terminate /\ Enters("ending")
  /\ Unchanged /\ UNCHANGED <<result, exit, journal>>

\* journal.finish: the ending, or Failed if an event or the sync failed; nothing
\* if the publication failed.
EndJournal(ending, success) ==
  \/ /\ journal.writer # "broken"
     /\ journal' = [journal EXCEPT !.status = ending] /\ Answers(success)
  \/ /\ journal.writer = "broken" \/ "finish" \in failing
     /\ journal' = [journal EXCEPT !.status = "Failed"] /\ Answers("error")
  \/ "finish" \in failing /\ Answers("error") /\ UNCHANGED journal

\* Seeded fault: the result is looked at first.
EndByResult ==
  /\ main = "ending"
  /\ IF result = "status" THEN EndJournal("Exited", "status")
     ELSE IF requested /\ ~terminationFailed THEN EndJournal("Canceled", "canceled")
     ELSE EndJournal("Failed", "error")
  /\ Unchanged /\ UNCHANGED <<result, tree>>

End ==
  /\ main = "ending"
  /\ IF requested /\ ~terminationFailed THEN EndJournal("Canceled", "canceled")
     ELSE IF result = "status" THEN EndJournal("Exited", "status")
     ELSE EndJournal("Failed", "error")
  /\ Unchanged /\ UNCHANGED <<result, tree>>

MainStep ==
  \/ StartJournal \/ Materialize \/ Spawn \/ AssignAndResume \/ StartReaders
  \/ StopUnmonitored \/ ReapUnmonitored \/ CancelChild \/ ReapChild
  \/ ChildEnded \/ WaitFails \/ JoinReaders \/ CloseJob \/ End
-----------------------------------------------------------------------------
(* read_output.  What a read gives is offered to the journal and shown: as  *)
(* an event of the journal, or directly once the journal has refused one.  *)

\* RunJournal.output, progress: how much of the text is kept, and by what writer.
\* A full journal takes events without keeping them.
KeepBeginning(s, text, n, writer) ==
  journal' = [journal EXCEPT !.kept[s] = @ \o SubSeq(text, 1, n), !.writer = writer]

\* Seeded fault: an event that still fits is kept although one before did not.
KeepsWhatFits(s, text) ==
  \/ journal.writer = "good" /\ KeepBeginning(s, text, Len(text), "good")
  \/ "limit" \in failing /\ UNCHANGED journal

Keeps(s, text) ==
  \/ journal.writer = "good" /\ KeepBeginning(s, text, Len(text), "good")
  \/ /\ journal.writer = "good" /\ "limit" \in failing
     /\ \E n \in 0 .. Len(text) - 1 : KeepBeginning(s, text, n, "full")
  \/ (journal.writer = "full" \/ text = <<>>) /\ UNCHANGED journal

Refuses(s, text) ==
  /\ text # <<>>
  /\ \/ /\ journal.writer = "good" /\ "append" \in failing
        /\ \E n \in 0 .. Len(text) - 1 : KeepBeginning(s, text, n, "broken")
     \/ journal.writer = "broken" /\ UNCHANGED journal

\* render_event.  An error is remembered, and does not end the thread.
Show(s, r, text) ==
  \/ /\ r.journaled /\ Keeps(s, text)
     /\ reader' = [reader EXCEPT ![s] = [r EXCEPT !.shown = @ \o text]]
  \/ /\ r.journaled /\ Refuses(s, text)
     /\ reader' = [reader EXCEPT ![s] = [r EXCEPT !.shown = @ \o text,
                                        !.journaled = FALSE, !.failed = TRUE]]
  \/ /\ ~r.journaled /\ UNCHANGED journal
     /\ reader' = [reader EXCEPT ![s] = [r EXCEPT !.shown = @ \o text]]
  \/ /\ "console" \in failing /\ r.journaled /\ Keeps(s, text)
     /\ reader' = [reader EXCEPT ![s] = [r EXCEPT !.failed = TRUE]]

Reads == UNCHANGED <<failing, output, main, flags, result, exit, tree, written>>

Takes(s, bytes, eof, next) ==
  \E decoded \in {Decode(reader[s].decoders, bytes, eof)} :
    Show(s, [next EXCEPT !.decoders = decoded.decoders], decoded.shown)

Read(s) ==
  /\ reader[s].pc = "read" /\ reader[s].read < written[s]
  /\ Takes(s, SubSeq(output[s], reader[s].read + 1, written[s]), FALSE,
           [reader[s] EXCEPT !.read = written[s]])
  /\ Reads

ReadEnd(s) ==
  /\ reader[s].pc = "read" /\ reader[s].read = written[s] /\ ~PipeOpen
  /\ Takes(s, <<>>, TRUE, [reader[s] EXCEPT !.pc = "ended"])
  /\ Reads

\* What the decoders hold is lost.
ReadFails(s) ==
  /\ reader[s].pc = "read" /\ "read" \in failing
  /\ reader' = [reader EXCEPT ![s] = [@ EXCEPT !.pc = "ended", !.failed = TRUE]]
  /\ Reads /\ UNCHANGED journal

ReadOutput(s) == Read(s) \/ ReadEnd(s) \/ ReadFails(s)
-----------------------------------------------------------------------------
(* The command *)

Command == UNCHANGED <<failing, output, main, flags, result, exit, inJob, reader, journal>>

Write(s) ==
  /\ root = "running" \/ descendant = "piped"
  /\ written[s] < Len(output[s])
  /\ written' = [written EXCEPT ![s] = @ + 1]
  /\ Command /\ UNCHANGED <<root, descendant>>

StartDescendant ==
  /\ root = "running" /\ descendant = "none"
  /\ descendant' \in {"piped", "detached"}
  /\ Command /\ UNCHANGED <<root, written>>

RootExits ==
  /\ root = "running" /\ root' = "exited"
  /\ Command /\ UNCHANGED <<descendant, written>>

DescendantExits ==
  /\ DescendantAlive /\ descendant' = "dead"
  /\ Command /\ UNCHANGED <<root, written>>

\* The system has closed what a terminated process held.
CloseProcess ==
  /\ \/ root = "closing" /\ root' = "killed" /\ UNCHANGED descendant
     \/ descendant = "closing" /\ descendant' = "dead" /\ UNCHANGED root
  /\ Command /\ UNCHANGED written

CommandStep ==
  (\E s \in Streams : Write(s)) \/ StartDescendant \/ RootExits \/ DescendantExits
-----------------------------------------------------------------------------
ConsoleNext ==
  \/ MainStep \/ ControlC
  \/ \E s \in Streams : ReadOutput(s)
  \/ CommandStep \/ CloseProcess

ConsoleSpec == ConsoleInit /\ [][ConsoleNext]_consoleVars

ConsoleFairSpec ==
  /\ ConsoleSpec /\ WF_consoleVars(MainStep) /\ WF_consoleVars(CloseProcess)
  /\ \A s \in Streams : WF_consoleVars(ReadOutput(s))
-----------------------------------------------------------------------------
ReadOf(s) == SubSeq(output[s], 1, reader[s].read)

\* What the console shows of a stream is what the command wrote, byte for byte
\* and in order, however the bytes were cut into reads and whether or not the
\* journal takes them; only the decoders hold something back.
OutputIsLossless ==
  "console" \notin failing =>
    \A s \in Streams :
      LET held == Len(reader[s].decoders.bytes)
      IN Original[reader[s].shown] \o reader[s].decoders.text
         = Characters[SubSeq(output[s], 1, reader[s].read - held)]

\* A frame is recognized wherever the reads cut it, if no record is too long.
FramesAreRecognized ==
  \A s \in Streams :
    (reader[s].pc = "ended" /\ ~reader[s].failed /\ ~Oversized(Characters[ReadOf(s)]))
    => reader[s].shown = Meaning[Characters[ReadOf(s)]]

\* The journal of a stream is the beginning of what was shown: no event is
\* kept twice, left out before a later one, or kept after one was refused.
JournalFollowsConsole ==
  "console" \notin failing =>
    \A s \in Streams : IsPrefix(journal.kept[s], reader[s].shown)

\* A run recorded as exited is one whose process ended by itself, and of which
\* every byte was shown and, up to the journal's limit, kept.
ExitedIsComplete ==
  journal.status = "Exited" =>
    /\ root = "exited" /\ journal.writer # "broken"
    /\ \A s \in Streams :
         /\ reader[s].pc = "ended" /\ reader[s].read = written[s]
         /\ reader[s].decoders = NoDecoders
         /\ journal.writer = "good" => journal.kept[s] = reader[s].shown

\* No process of the command runs any more when the journal is ended.
NothingOutlivesTheRun ==
  main \in {"ending", "returned"} => ~RootAlive /\ ~DescendantAlive

\* A command that was canceled or whose process has ended returns, whatever it
\* left running, unless the system refuses to end a process or to wait for it.
CommandReturns ==
  (/\ failing \cap {"terminate", "wait"} = {}
   /\ requested \/ root \in {"exited", "closing", "killed"})
  ~> main = "returned"

\* Besides the types: the console shows everything once, and the journal what
\* the console shows.
OutputSafety ==
  ConsoleTypeOK /\ OutputIsLossless /\ FramesAreRecognized /\ JournalFollowsConsole

\* The ending tells what became of the command and of its output.
EndingIsTrue == ExitedIsComplete /\ NothingOutlivesTheRun
=============================================================================
