-------------------------- MODULE ProcessExecution --------------------------
(***************************************************************************)
(* One started execution: the execution thread of runtime_service (worker),*)
(* the command process it starts in a Job Object, the process's monitor    *)
(* and its two output readers (process_runner), and the threads that       *)
(* cancel or join the execution through DeferredExecutionControl.          *)
(*                                                                         *)
(* The process tree is its root and one descendant, which either holds the *)
(* root's output pipes ("piped") or has redirected its output              *)
(* ("detached").  A process that is terminated runs no more code, but      *)
(* until the system has closed what it holds ("closing") nobody's wait for *)
(* it returns and its pipes stay open; of a detached one that is not seen. *)
(* A step is what a thread does under one mutex, or one call of the        *)
(* operating system.                                                       *)
(***************************************************************************)
EXTENDS Integers, Sequences

CONSTANTS
    Kinds,      \* the kinds of execution: "core", "process"
    Cancelers,  \* calls of cancel
    Joiners,    \* calls of join
    Faults      \* which faults happen

\* A thread that cannot be created, an error or panic before there is a
\* process, a process that cannot be started in its job, a termination or a
\* read that fails.
FaultKinds == {"thread", "prepare", "start", "terminate", "read"}

ASSUME ActorAssumption ==
    /\ Kinds \subseteq {"core", "process"}
    /\ Cancelers \intersect Joiners = {}
    /\ Faults \subseteq FaultKinds

VARIABLES
    kind,             \* PreparedExecution.kind
    worker,           \* where the execution thread is
    root, descendant, \* the process tree
    inJob,            \* the root was assigned to the Job Object
    gate,             \* StartGate.state
    reader, monitor,  \* the threads of process_runner
    monitorError,     \* an error the monitor reports
    reports,          \* the outcomes passed on to the observer
    child, cancelRequested, finished,  \* ChildState
    deferredFailed,   \* the cancel the worker made up for failed
    joinState,        \* WorkerCompletion.state
    caller            \* where each canceler and joiner is

tree == <<root, descendant, inJob>>
threads == <<gate, reader, monitor, monitorError>>
childState == <<child, cancelRequested, finished>>
others == <<kind, deferredFailed, joinState, caller>>
execution == <<kind, worker, threads, reports, deferredFailed>>
vars == <<kind, worker, tree, threads, reports, childState, deferredFailed,
          joinState, caller>>

Streams == {"stdout", "stderr"}
Callers == Cancelers \union Joiners

\* A process that may still run, and one whose handles are still open.
RootAlive == root \in {"suspended", "running"}
DescendantAlive == descendant \in {"piped", "detached"}
RootOpen == RootAlive \/ root = "closing"
TreeGone == ~RootAlive /\ ~DescendantAlive
PipeOpen == RootOpen \/ descendant \in {"piped", "closing"}
ReadersEnded == \A s \in Streams : reader[s] \in {"none", "ended"}

WorkerGoto(label) == worker' = label
WorkerPass(from, to) ==
    /\ worker = from /\ WorkerGoto(to)
    /\ UNCHANGED <<others, tree, threads, reports, childState>>

---------------------------------------------------------------------------
(* OwnedProcessJob *)

\* TerminateJobObject ends the processes of the job, to which descendants
\* belong; it does not wait for them.
TerminateJob ==
    /\ root' = IF inJob /\ RootAlive THEN "closing" ELSE root
    /\ descendant' = CASE descendant = "piped" -> "closing"
                       [] descendant = "detached" -> "dead"
                       [] OTHER -> descendant
    /\ UNCHANGED inJob

TerminateFails == "terminate" \in Faults /\ UNCHANGED tree

\* Seeded fault: a job without JOB_OBJECT_LIMIT_KILL_ON_JOB_CLOSE.
CloseJobOnly(lastHandle) == lastHandle \in BOOLEAN /\ UNCHANGED tree

\* A handle of the job is closed; closing the last one ends its processes.
CloseJob(lastHandle) == IF lastHandle THEN TerminateJob ELSE UNCHANGED tree

\* A canceler inside child.cancel holds the process control and its job.
NoCancelerCalls == \A c \in Cancelers : caller[c] # "call"

---------------------------------------------------------------------------
(* CompletionObserver *)

\* Seeded fault: completed passes every outcome on.
CompleteAgain(outcome) == reports' = Append(reports, outcome)

\* completed: the first outcome is passed on, later ones are not.
Complete(outcome) ==
    reports' = IF reports = <<>> THEN <<outcome>> ELSE reports

---------------------------------------------------------------------------
(* NativeRuntimeExecutionRunner::start and the ends of the execution thread *)

\* start: the thread runs, or start returns an error.
StartWorker ==
    \/ WorkerPass("none", "begin")
    \/ "thread" \in Faults /\ WorkerPass("none", "refused")

AttachWorker ==
    /\ worker \notin {"none", "refused"} /\ joinState = "Pending"
    /\ joinState' = "Ready"
    /\ UNCHANGED <<execution, tree, childState, caller>>

\* The core command ran, or its process was prepared; or an error, or a panic.
Prepare ==
    \/ kind = "core" /\ WorkerPass("begin", "report")
    \/ kind = "process" /\ WorkerPass("begin", "spawn")
    \/ "prepare" \in Faults /\ WorkerPass("begin", "report")
    \/ "prepare" \in Faults /\ WorkerPass("begin", "abort")

\* complete_core, or complete_command_error: Exited in either case.
ReportWithoutChild ==
    /\ worker = "report"
    /\ Complete("Exited")
    /\ WorkerGoto("finish")
    /\ UNCHANGED <<others, tree, threads, childState>>

FinishWithoutChild ==
    /\ worker = "finish"
    /\ finished' = TRUE
    /\ WorkerGoto("ended")
    /\ UNCHANGED <<others, tree, threads, reports, child, cancelRequested>>

\* abort_child; no child is attached where the thread may panic or fail.
AbortChild ==
    /\ worker = "abort"
    /\ finished' = TRUE /\ child' = FALSE
    /\ WorkerGoto("fail")
    /\ UNCHANGED <<others, tree, threads, reports, cancelRequested>>

ReportFailure ==
    /\ worker = "fail"
    /\ Complete("Failed")
    /\ WorkerGoto("return")
    /\ UNCHANGED <<others, tree, threads, childState>>

ReturnFailure == WorkerPass("return", "ended")

---------------------------------------------------------------------------
(* NativeProcessRunner::start *)

\* The root is created suspended.
SpawnRoot ==
    \/ /\ worker = "spawn"
       /\ root' = "suspended"
       /\ WorkerGoto("assign")
       /\ UNCHANGED <<others, descendant, inJob, threads, reports, childState>>
    \/ "start" \in Faults /\ WorkerPass("spawn", "report")

\* The root is assigned and resumed; either may fail.
AssignAndResume ==
    /\ worker = "assign"
    /\ \/ inJob' = TRUE /\ root' = "running" /\ WorkerGoto("stdout")
       \/ /\ "start" \in Faults
          /\ inJob' \in BOOLEAN /\ UNCHANGED root
          /\ WorkerGoto("kill")
    /\ UNCHANGED <<others, descendant, threads, reports, childState>>

\* failed_before_start ends the suspended root in either way.
FailBeforeStart ==
    /\ worker = "kill"
    /\ root' = "dead"
    /\ WorkerGoto("report")
    /\ UNCHANGED <<others, descendant, inJob, threads, reports, childState>>

\* The gate lets nobody pass: readers that wait at it end.
RejectStart ==
    /\ "thread" \in Faults
    /\ gate' = "Rejected"
    /\ WorkerGoto("cleanup")
    /\ UNCHANGED <<reader, monitor>>

SpawnReader(s) ==
    /\ worker = s
    /\ \/ /\ reader' = [reader EXCEPT ![s] = "waiting"]
          /\ WorkerGoto(IF s = "stdout" THEN "stderr" ELSE "monitor")
          /\ UNCHANGED <<gate, monitor>>
       \/ RejectStart
    /\ UNCHANGED <<others, tree, monitorError, reports, childState>>

SpawnMonitor ==
    /\ worker = "monitor"
    /\ \/ /\ monitor' = "wait" /\ WorkerGoto("accept")
          /\ UNCHANGED <<gate, reader>>
       \/ RejectStart
    /\ UNCHANGED <<others, tree, monitorError, reports, childState>>

AcceptStart ==
    /\ worker = "accept"
    /\ gate' = "Accepted"
    /\ WorkerGoto("attach")
    /\ UNCHANGED <<others, tree, reader, monitor, monitorError, reports,
                   childState>>

\* cleanup_unmonitored: cancel the job, or else kill the root.
Cleanup ==
    /\ worker = "cleanup"
    /\ \/ TerminateJob
       \/ /\ "terminate" \in Faults
          /\ root' = IF RootAlive THEN "closing" ELSE root
          /\ UNCHANGED <<descendant, inJob>>
    /\ WorkerGoto("joinReaders")
    /\ UNCHANGED <<others, threads, reports, childState>>

\* Seeded fault: a start that failed leaves its job open.
CleanedUpWithoutClose == WorkerPass("joinReaders", "report") /\ ReadersEnded

\* The root and the readers ended; start returns its error and drops the job.
CleanedUp ==
    /\ worker = "joinReaders"
    /\ ~RootOpen /\ ReadersEnded
    /\ CloseJob(TRUE)
    /\ WorkerGoto("report")
    /\ UNCHANGED <<others, threads, reports, childState>>

---------------------------------------------------------------------------
(* run_execution once the process was started *)

\* Seeded fault: a cancel that came before the child is forgotten.
AttachChildOnly ==
    /\ worker = "attach"
    /\ child' = TRUE
    /\ WorkerGoto("join")
    /\ UNCHANGED <<others, tree, threads, reports, cancelRequested, finished>>

\* attach_child reports whether a cancel was requested meanwhile.
AttachChild ==
    /\ worker = "attach"
    /\ child' = TRUE
    /\ WorkerGoto(IF cancelRequested THEN "cancel" ELSE "join")
    /\ UNCHANGED <<others, tree, threads, reports, cancelRequested, finished>>

CancelChild ==
    /\ worker = "cancel"
    /\ \/ TerminateJob /\ UNCHANGED deferredFailed
       \/ TerminateFails /\ deferredFailed' = TRUE
    /\ WorkerGoto("join")
    /\ UNCHANGED <<kind, threads, reports, childState, joinState, caller>>

\* Seeded fault: the finished child stays attached.
FinishChildAttached ==
    /\ worker = "join" /\ monitor = "ended"
    /\ finished' = TRUE
    /\ WorkerGoto("ended")
    /\ UNCHANGED <<others, tree, threads, reports, child, cancelRequested>>

\* child.join, finish_child, and the thread's own control is dropped.
FinishChild ==
    /\ worker = "join" /\ monitor = "ended"
    /\ finished' = TRUE /\ child' = FALSE
    /\ CloseJob(NoCancelerCalls)
    /\ WorkerGoto(IF deferredFailed THEN "abort" ELSE "ended")
    /\ UNCHANGED <<others, threads, reports, cancelRequested>>

WorkerStep ==
    \/ StartWorker \/ AttachWorker \/ Prepare
    \/ ReportWithoutChild \/ FinishWithoutChild
    \/ AbortChild \/ ReportFailure \/ ReturnFailure
    \/ SpawnRoot \/ AssignAndResume \/ FailBeforeStart
    \/ (\E s \in Streams : SpawnReader(s))
    \/ SpawnMonitor \/ AcceptStart \/ Cleanup \/ CleanedUp
    \/ AttachChild \/ CancelChild \/ FinishChild

---------------------------------------------------------------------------
(* The readers and the monitor *)

ReaderGoto(s, label) ==
    /\ reader' = [reader EXCEPT ![s] = label]
    /\ UNCHANGED <<others, worker, tree, gate, monitor, reports, childState>>

PassGate(s) ==
    /\ reader[s] = "waiting" /\ gate # "Pending"
    /\ ReaderGoto(s, IF gate = "Accepted" THEN "reading" ELSE "ended")
    /\ UNCHANGED monitorError

\* output: there was no completion yet, and the text is passed on.
CheckOutput(s) ==
    /\ reader[s] = "reading" /\ reports = <<>>
    /\ ReaderGoto(s, "deliver")
    /\ UNCHANGED monitorError

\* The pipe has more, or this was the rest of what was in it.
DeliverOutput(s) ==
    /\ reader[s] = "deliver"
    /\ ReaderGoto(s, IF PipeOpen THEN "reading" ELSE "ended")
    /\ UNCHANGED monitorError

EndOfOutput(s) ==
    /\ reader[s] = "reading" /\ ~PipeOpen
    /\ ReaderGoto(s, "ended")
    /\ UNCHANGED monitorError

FailRead(s) ==
    /\ "read" \in Faults /\ reader[s] = "reading"
    /\ ReaderGoto(s, "ended")
    /\ monitorError' = TRUE

ReaderStep(s) ==
    \/ PassGate(s) \/ CheckOutput(s) \/ DeliverOutput(s)
    \/ EndOfOutput(s) \/ FailRead(s)

MonitorGoto(label) ==
    /\ monitor' = label
    /\ UNCHANGED <<others, worker, gate, reader, childState>>

WaitForRoot ==
    /\ monitor = "wait" /\ ~RootOpen
    /\ MonitorGoto("terminate")
    /\ UNCHANGED <<tree, monitorError, reports>>

\* Seeded fault: the root's end is taken for the end of the tree.
KeepRemaining ==
    /\ monitor = "terminate"
    /\ MonitorGoto("joinReaders")
    /\ UNCHANGED <<tree, monitorError, reports>>

\* What the root left behind is ended with it.
TerminateRemaining ==
    /\ monitor = "terminate"
    /\ \/ TerminateJob /\ UNCHANGED monitorError
       \/ TerminateFails /\ monitorError' = TRUE
    /\ MonitorGoto("joinReaders")
    /\ UNCHANGED reports

\* Seeded fault: the completion does not wait for the readers.
SkipReaders ==
    /\ monitor = "joinReaders"
    /\ MonitorGoto("report")
    /\ UNCHANGED <<tree, monitorError, reports>>

JoinReaders ==
    /\ monitor = "joinReaders" /\ ReadersEnded
    /\ MonitorGoto("report")
    /\ UNCHANGED <<tree, monitorError, reports>>

ReportEnd ==
    /\ monitor = "report"
    /\ Complete(IF monitorError THEN "Failed" ELSE "Exited")
    /\ MonitorGoto("ended")
    /\ UNCHANGED <<tree, monitorError>>

MonitorStep == WaitForRoot \/ TerminateRemaining \/ JoinReaders \/ ReportEnd

---------------------------------------------------------------------------
(* DeferredExecutionControl: cancel and join *)

CallerGoto(t, label) == caller' = [caller EXCEPT ![t] = label]

\* cancel, under the mutex; the caller has a control once start returned.
Cancel(c) ==
    /\ caller[c] = "idle" /\ joinState # "Pending"
    /\ CallerGoto(c, IF finished THEN "done"
                     ELSE IF kind = "core" THEN "refused"
                     ELSE IF child THEN "call" ELSE "accepted")
    /\ cancelRequested' = (cancelRequested \/ (~finished /\ kind = "process"))
    /\ UNCHANGED <<execution, tree, child, finished, joinState>>

\* child.cancel outside the mutex; the control may be the last one.
CallCancel(c) ==
    /\ caller[c] = "call"
    /\ \/ TerminateJob /\ CallerGoto(c, "accepted")
       \/ /\ "terminate" \in Faults
          /\ CloseJob(finished /\ \A d \in Cancelers \ {c} : caller[d] # "call")
          /\ CallerGoto(c, "refused")
    /\ UNCHANGED <<execution, childState, joinState>>

Join(j) ==
    /\ caller[j] = "idle" /\ joinState # "Pending"
    /\ CallerGoto(j, "check")
    /\ UNCHANGED <<execution, tree, childState, joinState>>

\* The first joiner takes the thread's handle, the others sleep.
CheckJoin(j) ==
    /\ caller[j] = "check"
    /\ joinState' = IF joinState = "Ready" THEN "Joining" ELSE joinState
    /\ CallerGoto(j, CASE joinState = "Ready" -> "joining"
                       [] joinState = "Joining" -> "asleep"
                       [] OTHER -> "done")
    /\ UNCHANGED <<execution, tree, childState>>

\* Seeded fault: the joiners that sleep are not notified.
FinishJoinSilently(j) ==
    /\ caller[j] = "joining" /\ worker = "ended"
    /\ joinState' = "Completed"
    /\ CallerGoto(j, "done")
    /\ UNCHANGED <<execution, tree, childState>>

\* The thread ended: its result is stored, and everybody is notified.
FinishJoin(j) ==
    /\ caller[j] = "joining" /\ worker = "ended"
    /\ joinState' = "Completed"
    /\ caller' = [t \in Callers |-> IF t = j THEN "done"
                                    ELSE IF caller[t] = "asleep" THEN "check"
                                    ELSE caller[t]]
    /\ UNCHANGED <<execution, tree, childState>>

CallerStep(t) ==
    \/ t \in Cancelers /\ CallCancel(t)
    \/ t \in Joiners /\ (CheckJoin(t) \/ FinishJoin(t))

---------------------------------------------------------------------------
(* The process tree *)

TreeStep ==
    /\ \/ root = "running" /\ root' = "dead" /\ UNCHANGED descendant
       \/ /\ root = "running" /\ descendant = "none"
          /\ descendant' \in {"piped", "detached"} /\ UNCHANGED root
       \/ DescendantAlive /\ descendant' = "dead" /\ UNCHANGED root
    /\ UNCHANGED <<others, worker, inJob, threads, reports, childState>>

\* The system has closed what a terminated process held.
CloseProcess ==
    /\ \/ root = "closing" /\ root' = "dead" /\ UNCHANGED descendant
       \/ descendant = "closing" /\ descendant' = "dead" /\ UNCHANGED root
    /\ UNCHANGED <<others, worker, inJob, threads, reports, childState>>

---------------------------------------------------------------------------
(* The specification *)

Init ==
    /\ kind \in Kinds /\ worker = "none"
    /\ root = "none" /\ descendant = "none" /\ inJob = FALSE
    /\ gate = "Pending" /\ reader = [s \in Streams |-> "none"]
    /\ monitor = "none" /\ monitorError = FALSE
    /\ reports = <<>>
    /\ child = FALSE /\ cancelRequested = FALSE /\ finished = FALSE
    /\ deferredFailed = FALSE
    /\ joinState = "Pending"
    /\ caller = [t \in Callers |-> "idle"]

\* The execution is over, or never began.
Quiescent == worker \in {"ended", "refused"} /\ UNCHANGED vars

Next ==
    \/ WorkerStep
    \/ \E s \in Streams : ReaderStep(s)
    \/ MonitorStep
    \/ \E c \in Cancelers : Cancel(c)
    \/ \E j \in Joiners : Join(j)
    \/ \E t \in Callers : CallerStep(t)
    \/ TreeStep \/ CloseProcess
    \/ Quiescent

Spec == Init /\ [][Next]_vars

\* Threads run, and the system closes what it has terminated; nobody need
\* call, and a process need not end by itself.
FairSpec ==
    /\ Spec
    /\ WF_vars(WorkerStep) /\ WF_vars(MonitorStep) /\ WF_vars(CloseProcess)
    /\ \A s \in Streams : WF_vars(ReaderStep(s))
    /\ \A t \in Callers : WF_vars(CallerStep(t))
---------------------------------------------------------------------------
(* Properties *)

WorkerLabel == {"none", "refused", "begin", "spawn", "assign", "kill", "stdout",
                "stderr", "monitor", "accept", "cleanup", "joinReaders",
                "attach", "cancel", "join", "report", "finish", "abort", "fail",
                "return", "ended"}

ThreadsOK ==
    /\ worker \in WorkerLabel
    /\ gate \in {"Pending", "Accepted", "Rejected"}
    /\ reader \in
         [Streams -> {"none", "waiting", "reading", "deliver", "ended"}]
    /\ monitor \in
         {"none", "wait", "terminate", "joinReaders", "report", "ended"}
    /\ monitorError \in BOOLEAN

TreeOK ==
    /\ root \in {"none", "suspended", "running", "closing", "dead"}
    /\ descendant \in {"none", "piped", "detached", "closing", "dead"}
    /\ inJob \in BOOLEAN

ControlOK ==
    /\ child \in BOOLEAN /\ cancelRequested \in BOOLEAN /\ finished \in BOOLEAN
    /\ child => ~finished
    /\ deferredFailed \in BOOLEAN
    /\ joinState \in {"Pending", "Ready", "Joining", "Completed"}
    /\ caller \in [Callers -> {"idle", "call", "accepted", "refused", "check",
                               "joining", "asleep", "done"}]

\* The types of the variables; the control holds no child once it is finished.
TypeOK ==
    /\ kind \in Kinds /\ ThreadsOK /\ TreeOK /\ ControlOK
    /\ reports \in Seq({"Exited", "Failed"})

\* The observer is told one outcome, and has been told it when the execution
\* thread ends, whichever of the thread and the monitor was to tell it.
CompletedOnce ==
    /\ Len(reports) <= 1
    /\ worker = "ended" => Len(reports) = 1

\* An exit is reported only when no process of the command runs any more and
\* no thread reads its output, after a failed start as well.
ExitedMeansGone ==
    (\E i \in DOMAIN reports : reports[i] = "Exited")
        => TreeGone /\ ReadersEnded

\* No text is passed on to the observer after the outcome, though a reader
\* checks for it without a lock.
OutputPrecedesEnd ==
    \A s \in Streams : reader[s] = "deliver" => reports = <<>>

\* Besides the types: one outcome is told, and it is the last thing told.
ExecutionSafety == TypeOK /\ CompletedOnce /\ OutputPrecedesEnd

\* When the thread has ended and no cancel is under way, no process is left
\* that runs, whichever terminations failed.
NothingOutlivesWorker ==
    worker = "ended" /\ NoCancelerCalls => TreeGone

\* A cancel that returned Ok ends the execution, also if it came before there
\* was a process, unless the termination the thread makes up for then fails.
CancelEnds ==
    (\E c \in Cancelers : caller[c] = "accepted")
        ~> worker = "ended" \/ deferredFailed

\* Once the thread has ended, every join that was called returns.
JoinReturns ==
    worker = "ended" ~> \A j \in Joiners : caller[j] \in {"idle", "done"}

\* What a canceler and the joiners wait for happens.
CallsEnd == CancelEnds /\ JoinReturns

\* The process tree, the report and the end are those of Execution.
Abstract == INSTANCE Execution WITH
    tree <- IF root = "none" THEN "none"
            ELSE IF TreeGone THEN "gone" ELSE "alive",
    report <- IF reports = <<>> THEN "none" ELSE reports[1],
    over <- worker = "ended"

ImplementsExecution == Abstract!Spec
=============================================================================
