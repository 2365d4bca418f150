---------------------------- MODULE RunRegistry ----------------------------
(***************************************************************************)
(* The run registry of the Proj Runtime service (runtime_service/registry):*)
(* admission of command runs and facet queries into a bounded set of       *)
(* active operations, the hand-over of each operation's process control    *)
(* (OperationControl), user cancellation, completion, pruning of finished  *)
(* runs, and the shutdown that marks, awaits and joins every operation.    *)
(*                                                                         *)
(* Threads: the client thread that submitted an operation bears the name   *)
(* of the operation; each Canceler is one HTTP cancel request; a           *)
(* Shutdowner is the host's single shutdown call.  The worker of an        *)
(* operation (the execution thread and its process monitor) is the         *)
(* variable worker.  A step is what a thread does under one mutex.         *)
(***************************************************************************)
EXTENDS Integers, FiniteSets

CONSTANTS
    Runs,            \* command runs that may be submitted
    Queries,         \* facet queries that may be submitted
    Cancelers,       \* user cancel requests
    Shutdowners,     \* the host's shutdown call: empty or one thread
    Uncancelable,    \* operations prepared from a Core command
    MaxActive,       \* MAX_ACTIVE_OPERATIONS
    MaxTerminal,     \* MAX_TERMINAL_RUNS
    CancelMayFail,   \* whether the process control may refuse a cancel
    None

Ops == Runs \union Queries
Threads == Ops \union Cancelers \union Shutdowners

ASSUME ThreadAssumption ==
    /\ Runs \intersect Queries = {}
    /\ Ops \intersect (Cancelers \union Shutdowners) = {}
    /\ Cancelers \intersect Shutdowners = {}
    /\ \A s, t \in Shutdowners : s = t
    /\ Uncancelable \subseteq Ops
    /\ IsFiniteSet(Ops)
    /\ None \notin Ops

ASSUME LimitAssumption ==
    /\ MaxActive \in Nat \ {0}
    /\ MaxTerminal \in Nat
    /\ CancelMayFail \in BOOLEAN

VARIABLES
    accepting,   \* RegistryState.accepting
    active,      \* RegistryState.active
    runs,        \* RegistryState.runs, the registered runs
    born,        \* RegistryState.order, as the position of each push_back
    queries,     \* RegistryState.queries
    status,      \* CommandRun.state.status
    control,     \* OperationControl.state of every operation
    requested,   \* operations whose control state has cancel_requested
    cancelError, \* operations whose control state has a cancel_error
    asleep,      \* threads waiting on their operation's condition variable
    worker,      \* the execution thread of every operation
    killed,      \* operations whose process control accepted a cancel
    rejected,    \* queries whose observer holds a rejection
    pc, target,  \* where each thread is, and the operation it works on
    snapshot, pending  \* shutdown's copied operations, and those left to visit

registryVars == <<accepting, active, runs, born, queries>>
controlVars == <<control, requested, cancelError, asleep>>
workerVars == <<worker, killed>>
shutdownVars == <<snapshot, pending>>
vars == <<registryVars, status, controlVars, workerVars, rejected,
          pc, target, shutdownVars>>

TerminalStatus == {"Exited", "Canceled", "Failed"}
Status == {"None", "Running", "Canceling"} \union TerminalStatus
IsTerminal(r) == status[r] \in TerminalStatus

Label == {"idle", "start", "attach", "attachCall", "failStart", "remove",
          "markFailed", "wait", "cancel", "call", "result", "rollback",
          "begin", "finish", "collect", "join", "drop", "done", "refused"}

Control == {"Starting", "Canceling", "Attached", "StartFailed"}

Cancelable(o) == o \notin Uncancelable
Goto(t, label) == pc' = [pc EXCEPT ![t] = label]
At(t, label) == pc[t] = label /\ t \notin asleep

\* Frames: a step of a thread's own, and a step on an OperationControl.
allButPc == <<registryVars, status, controlVars, workerVars, rejected, target,
              shutdownVars>>
notControl == <<registryVars, status, workerVars, rejected, target, shutdownVars>>
Pass(t, from, to) == At(t, from) /\ Goto(t, to) /\ UNCHANGED allButPc

---------------------------------------------------------------------------
(* OperationControl *)

\* Condvar::notify_all of operation o.
NotifyAll(o) == asleep' = {t \in asleep : target[t] # o}

\* cancel_result keeps waiting.
CancelUnsettled(o) ==
    \/ control[o] = "Starting" /\ o \in requested
    \/ control[o] = "Canceling"

\* cancel_result returns Ok; otherwise the stored error, or "not requested".
CancelSucceeded(o) ==
    \/ control[o] = "StartFailed"
    \/ control[o] = "Attached" /\ o \in requested \ cancelError

\* join keeps waiting for a control to be attached or for the start to fail.
JoinUnsettled(o) == control[o] \in {"Starting", "Canceling"}

\* What join waits for once the control is settled: the worker thread's end.
Joinable(o) ==
    \/ control[o] = "StartFailed"
    \/ control[o] = "Attached" /\ worker[o] = "finished"

\* attach: the runner returned a control to the submitting thread.
Attach(o, afterwards) ==
    /\ At(o, "attach")
    /\ control[o] = "Starting"
    /\ IF o \in requested
       THEN /\ control' = [control EXCEPT ![o] = "Canceling"]
            /\ Goto(o, "attachCall")
            /\ UNCHANGED asleep
       ELSE /\ control' = [control EXCEPT ![o] = "Attached"]
            /\ Goto(o, afterwards)
            /\ NotifyAll(o)
    /\ UNCHANGED <<notControl, requested, cancelError>>

\* Seeded faults of begin_cancel: a control that is not attached yet is
\* canceled, a cancel in progress is repeated, a starting one is not marked.
BeginCancelTooEarly(t, otherwise) ==
    LET o == target[t] IN
    /\ At(t, "cancel")
    /\ control[o] \in {"Starting", "Attached"}
    /\ control' = [control EXCEPT ![o] = "Canceling"]
    /\ requested' = requested \union {o}
    /\ Goto(t, "call")
    /\ UNCHANGED <<notControl, cancelError, asleep>>

BeginCancelTwice(t, otherwise) ==
    LET o == target[t] IN
    /\ At(t, "cancel")
    /\ IF control[o] \in {"Attached", "Canceling"}
       THEN /\ control' = [control EXCEPT ![o] = "Canceling"]
            /\ requested' = requested \union {o}
            /\ Goto(t, "call")
       ELSE Goto(t, otherwise) /\ UNCHANGED <<control, requested>>
    /\ UNCHANGED <<notControl, cancelError, asleep>>

BeginCancelForgetsStarting(t, otherwise) ==
    LET o == target[t] IN
    /\ At(t, "cancel")
    /\ control[o] # "Attached"
    /\ Goto(t, otherwise)
    /\ UNCHANGED allButPc

\* begin_cancel: mark a starting operation, or take the right to cancel an
\* attached one; `otherwise` is where a caller that has nothing to do goes.
BeginCancel(t, otherwise) ==
    LET o == target[t] IN
    /\ At(t, "cancel")
    /\ \/ /\ control[o] = "Starting"
          /\ requested' = requested \union {o}
          /\ Goto(t, otherwise)
          /\ UNCHANGED control
       \/ /\ control[o] = "Attached" /\ o \notin requested
          /\ requested' = requested \union {o}
          /\ control' = [control EXCEPT ![o] = "Canceling"]
          /\ Goto(t, "call")
       \/ /\ \/ control[o] \in {"Canceling", "StartFailed"}
             \/ control[o] = "Attached" /\ o \in requested
          /\ Goto(t, otherwise)
          /\ UNCHANGED <<control, requested>>
    /\ UNCHANGED <<notControl, cancelError, asleep>>

\* Seeded fault of finish_cancel: the waiters are not notified.
FinishCancelSilently(t, label, afterwards) ==
    LET o == target[t] IN
    /\ At(t, label)
    /\ control' = [control EXCEPT ![o] = "Attached"]
    /\ killed' = IF worker[o] = "running" THEN killed \union {o} ELSE killed
    /\ Goto(t, afterwards)
    /\ UNCHANGED <<registryVars, status, requested, cancelError, asleep, worker, rejected,
                   target, shutdownVars>>

\* finish_cancel: control.cancel() and the recording of its result.  They are
\* one step: while the state is Canceling nobody but this thread changes it.
FinishCancel(t, label, afterwards) ==
    LET o == target[t] IN
    /\ At(t, label)
    /\ control' = [control EXCEPT ![o] = "Attached"]
    /\ \/ /\ killed' = IF worker[o] = "running" THEN killed \union {o} ELSE killed
          /\ UNCHANGED cancelError
       \/ /\ CancelMayFail /\ worker[o] \in {"running", "releasing"}
          /\ cancelError' = cancelError \union {o}
          /\ UNCHANGED killed
    /\ NotifyAll(o)
    /\ Goto(t, afterwards)
    /\ UNCHANGED <<registryVars, status, requested, worker, rejected, target, shutdownVars>>

\* The waiting loops of cancel_result and join.
WaitForControl(t) ==
    /\ \/ At(t, "result") /\ CancelUnsettled(target[t])
       \/ At(t, "join") /\ JoinUnsettled(target[t])
    /\ asleep' = asleep \union {t}
    /\ UNCHANGED <<notControl, control, requested, cancelError, pc>>

\* Seeded fault of start_failed: the waiters are not notified.
MarkStartFailedSilently(o, afterwards) ==
    /\ At(o, "markFailed")
    /\ control' = [control EXCEPT ![o] = "StartFailed"]
    /\ Goto(o, afterwards)
    /\ UNCHANGED <<notControl, requested, cancelError, asleep>>

\* start_failed: reported by the submitting thread when no worker exists.
MarkStartFailed(o, afterwards) ==
    /\ At(o, "markFailed")
    /\ control[o] = "Starting"
    /\ control' = [control EXCEPT ![o] = "StartFailed"]
    /\ NotifyAll(o)
    /\ Goto(o, afterwards)
    /\ UNCHANGED <<notControl, requested, cancelError>>

---------------------------------------------------------------------------
(* RegistryState *)

\* prune_terminal: all but the MaxTerminal terminal runs latest in the order.
Prune(registered, st) ==
    {r \in registered :
        st[r] \in TerminalStatus =>
            Cardinality({q \in registered : /\ st[q] \in TerminalStatus
                                            /\ born[q] > born[r]}) < MaxTerminal}

\* Seeded fault of reserve: off by one.
MayReserveOneMore == accepting /\ active <= MaxActive

\* reserve.
MayReserve == accepting /\ active < MaxActive

NextPosition == 1 + Cardinality({r \in Runs : born[r] > 0})

\* RunRegistry::start, up to the release of the registry mutex.
SubmitRun(r) ==
    /\ At(r, "idle")
    /\ \/ /\ MayReserve
          /\ active' = active + 1
          /\ runs' = Prune(runs, status) \union {r}
          /\ born' = [born EXCEPT ![r] = NextPosition]
          /\ status' = [status EXCEPT ![r] = "Running"]
          /\ Goto(r, "start")
       \/ \* no capacity, shutting down, or the journal could not be started
          /\ runs' = Prune(runs, status)
          /\ Goto(r, "refused")
          /\ UNCHANGED <<active, born, status>>
    /\ UNCHANGED <<accepting, queries, controlVars, workerVars, rejected, target,
                   shutdownVars>>

\* register_query.
SubmitQuery(q) ==
    /\ At(q, "idle")
    /\ IF MayReserve
       THEN /\ active' = active + 1
            /\ queries' = queries \union {q}
            /\ Goto(q, "start")
       ELSE /\ Goto(q, "refused")
            /\ UNCHANGED <<active, queries>>
    /\ UNCHANGED <<accepting, runs, born, status, controlVars, workerVars, rejected,
                   target, shutdownVars>>

\* runner.start: the execution thread is spawned, or cannot be.
StartWorker(o) ==
    /\ At(o, "start")
    /\ \/ /\ worker' = [worker EXCEPT ![o] = "running"]
          /\ Goto(o, "attach")
       \/ /\ Goto(o, IF o \in Runs THEN "failStart" ELSE "markFailed")
          /\ UNCHANGED worker
    /\ UNCHANGED <<registryVars, status, controlVars, killed, rejected, target,
                   shutdownVars>>

\* CommandRun::fail_start.
FailStart(r) ==
    /\ At(r, "failStart")
    /\ status' = [status EXCEPT ![r] = IF IsTerminal(r) THEN @ ELSE "Failed"]
    /\ Goto(r, "remove")
    /\ UNCHANGED <<registryVars, controlVars, workerVars, rejected, target, shutdownVars>>

\* Seeded fault of remove_failed_start: the slot is kept.
RemoveFailedStartKeepsSlot(r) ==
    /\ At(r, "remove")
    /\ runs' = runs \ {r}
    /\ Goto(r, "markFailed")
    /\ UNCHANGED <<accepting, active, born, queries, status, controlVars, workerVars,
                   rejected, target, shutdownVars>>

\* remove_failed_start: the slot is returned only if the run is still registered.
RemoveFailedStart(r) ==
    /\ At(r, "remove")
    /\ runs' = runs \ {r}
    /\ active' = IF r \in runs /\ active > 0 THEN active - 1 ELSE active
    /\ Goto(r, "markFailed")
    /\ UNCHANGED <<accepting, born, queries, status, controlVars, workerVars, rejected,
                   target, shutdownVars>>

---------------------------------------------------------------------------
(* The worker and the observers it reports to *)

\* CommandRun::complete: a canceling run ends Canceled whatever the outcome;
\* any ending is Failed instead if the journal cannot be finished.
CompleteRun(r) ==
    /\ r \in Runs /\ worker[r] = "running"
    /\ \E ending \in TerminalStatus :
         /\ status[r] = "Canceling" => ending # "Exited"
         /\ status[r] = "Running" => ending # "Canceled"
         /\ status' = [status EXCEPT ![r] = IF IsTerminal(r) THEN @ ELSE ending]
    /\ worker' = [worker EXCEPT ![r] = IF IsTerminal(r) THEN "finished" ELSE "releasing"]
    /\ UNCHANGED <<registryVars, controlVars, killed, rejected, pc, target, shutdownVars>>

\* RegistryInner::completed_run, then the worker thread ends.
ReleaseRun(r) ==
    /\ r \in Runs /\ worker[r] = "releasing"
    /\ active' = IF active > 0 THEN active - 1 ELSE active
    /\ runs' = Prune(runs, status)
    /\ worker' = [worker EXCEPT ![r] = "finished"]
    /\ UNCHANGED <<accepting, born, queries, status, controlVars, killed, rejected, pc,
                   target, shutdownVars>>

\* QueryObserver::completed stores the outcome, then the worker thread ends.
CompleteQuery(q) ==
    /\ q \in Queries /\ worker[q] = "running"
    /\ worker' = [worker EXCEPT ![q] = "finished"]
    /\ UNCHANGED <<registryVars, status, controlVars, killed, rejected, pc, target,
                   shutdownVars>>

\* QueryObserver::reject without an outcome: stderr, progress, too much output.
RejectOutput(q) ==
    /\ worker[q] = "running"
    /\ q \notin rejected
    /\ rejected' = rejected \union {q}
    /\ UNCHANGED <<registryVars, status, controlVars, workerVars, pc, target, shutdownVars>>

---------------------------------------------------------------------------
(* run_query after the control was attached *)

\* Seeded fault of the wait: there is no timeout.
EndWaitWithoutTimeout(q) ==
    (q \in rejected \/ worker[q] = "finished") /\ Pass(q, "wait", "join")

\* QueryObserver::wait returns Completed, Rejected or (at any time) TimedOut.
EndWait(q) ==
    LET completed == q \notin rejected /\ worker[q] = "finished" IN
    Pass(q, "wait", IF Cancelable(q) /\ ~completed THEN "cancel" ELSE "join")

\* The result of operation.control.cancel() is ignored by run_query.
QueryCancelReturned(q) == Pass(q, "result", "join") /\ ~CancelUnsettled(q)

QueryJoined(q) == Pass(q, "join", "drop") /\ Joinable(q)

\* QueryRegistration::drop, completed_query.
DropRegistration(q) ==
    /\ At(q, "drop")
    /\ queries' = queries \ {q}
    /\ active' = IF q \in queries /\ active > 0 THEN active - 1 ELSE active
    /\ Goto(q, "done")
    /\ UNCHANGED <<accepting, runs, born, status, controlVars, workerVars, rejected,
                   target, shutdownVars>>

---------------------------------------------------------------------------
(* CommandRun::cancel *)

\* Seeded fault of cancel: the run is not made Canceling before the control is
\* asked.
RequestCancelUnmarked(c, r) ==
    /\ At(c, "idle")
    /\ r \in runs
    /\ target' = [target EXCEPT ![c] = r]
    /\ Goto(c, IF Cancelable(r) /\ status[r] = "Running" THEN "cancel" ELSE "done")
    /\ UNCHANGED <<registryVars, status, controlVars, workerVars, rejected, shutdownVars>>

\* Look the run up and, if it is Running and cancelable, make it Canceling.
RequestCancel(c, r) ==
    /\ At(c, "idle")
    /\ r \in runs
    /\ target' = [target EXCEPT ![c] = r]
    /\ IF Cancelable(r) /\ status[r] = "Running"
       THEN /\ status' = [status EXCEPT ![r] = "Canceling"]
            /\ Goto(c, "cancel")
       ELSE Goto(c, "done") /\ UNCHANGED status
    /\ UNCHANGED <<registryVars, controlVars, workerVars, rejected, shutdownVars>>

\* OperationControl::cancel_result returned; an error is rolled back.
CancelReturned(t, onSuccess) ==
    /\ At(t, "result") /\ ~CancelUnsettled(target[t])
    /\ Pass(t, "result", IF CancelSucceeded(target[t]) THEN onSuccess ELSE "rollback")

\* Seeded fault of rollback_cancel: a run that ended meanwhile is reopened.
RollbackCancelAlways(t, afterwards) ==
    /\ At(t, "rollback")
    /\ status' = [status EXCEPT ![target[t]] = "Running"]
    /\ Goto(t, afterwards)
    /\ UNCHANGED <<registryVars, controlVars, workerVars, rejected, target, shutdownVars>>

\* rollback_cancel.
RollbackCancel(t, afterwards) ==
    LET r == target[t] IN
    /\ At(t, "rollback")
    /\ status' = [status EXCEPT ![r] = IF @ = "Canceling" THEN "Running" ELSE @]
    /\ Goto(t, afterwards)
    /\ UNCHANGED <<registryVars, controlVars, workerVars, rejected, target, shutdownVars>>

---------------------------------------------------------------------------
(* RunRegistry::shutdown: three passes over a snapshot, runs before queries *)

\* Seeded faults of the start of shutdown: new operations are still admitted;
\* the operations are not copied for the later passes.
BeginShutdownStillAccepting(s) ==
    /\ At(s, "idle")
    /\ snapshot' = runs \union queries
    /\ pending' = runs \union queries
    /\ Goto(s, "begin")
    /\ UNCHANGED <<registryVars, status, controlVars, workerVars, rejected, target>>

BeginShutdownWithoutCopy(s) ==
    /\ At(s, "idle")
    /\ accepting' = FALSE
    /\ pending' = runs \union queries
    /\ Goto(s, "begin")
    /\ UNCHANGED <<active, runs, born, queries, status, controlVars, workerVars,
                   rejected, target, snapshot>>

\* The registry mutex is held: no new operation, and a copy of the present ones.
BeginShutdown(s) ==
    /\ At(s, "idle")
    /\ accepting' = FALSE
    /\ snapshot' = runs \union queries
    /\ pending' = runs \union queries
    /\ Goto(s, "begin")
    /\ UNCHANGED <<active, runs, born, queries, status, controlVars, workerVars,
                   rejected, target>>

\* The next operation of the current pass.
Visit(s, label, o) ==
    /\ At(s, label)
    /\ o \in pending
    /\ o \in Queries => pending \intersect Runs = {}
    /\ pending' = pending \ {o}
    /\ target' = [target EXCEPT ![s] = o]
    /\ UNCHANGED snapshot

\* begin_shutdown_cancel, up to the call of OperationControl::begin_cancel.
MarkForShutdown(s, o) ==
    /\ Visit(s, "begin", o)
    /\ IF Cancelable(o) /\ (o \in Runs => status[o] = "Running")
       THEN /\ Goto(s, "cancel")
            /\ status' = IF o \in Runs THEN [status EXCEPT ![o] = "Canceling"] ELSE status
            /\ rejected' = IF o \in Queries /\ worker[o] # "finished"
                           THEN rejected \union {o} ELSE rejected
       ELSE UNCHANGED <<pc, status, rejected>>
    /\ UNCHANGED <<registryVars, controlVars, workerVars>>

\* finish_shutdown_cancel, up to the call of OperationControl::cancel_result.
SettleForShutdown(s, o) ==
    /\ Visit(s, "finish", o)
    /\ IF Cancelable(o) /\ (o \in Runs => status[o] = "Canceling")
       THEN Goto(s, "result")
       ELSE UNCHANGED pc
    /\ UNCHANGED <<registryVars, status, controlVars, workerVars, rejected>>

\* A query's error is only reported, a run's is rolled back as well.
ShutdownCancelReturned(s) ==
    target[s] \in Queries /\ Pass(s, "result", "finish") /\ ~CancelUnsettled(target[s])

\* join_control of the next operation, then the wait for its worker thread.
VisitForJoin(s, o) ==
    /\ Visit(s, "collect", o)
    /\ Goto(s, "join")
    /\ UNCHANGED <<registryVars, status, controlVars, workerVars, rejected>>

ShutdownJoined(s) == Pass(s, "join", "collect") /\ Joinable(target[s])

\* A pass over the snapshot ended; the next one visits the snapshot again.
EndPass(s, label, next) ==
    /\ At(s, label) /\ pending = {}
    /\ pending' = IF next = "done" THEN {} ELSE snapshot
    /\ Goto(s, next)
    /\ UNCHANGED <<registryVars, status, controlVars, workerVars, rejected, target,
                   snapshot>>

---------------------------------------------------------------------------
(* The specification *)

Init ==
    /\ accepting = TRUE /\ active = 0
    /\ runs = {} /\ queries = {}
    /\ born = [r \in Runs |-> 0]
    /\ status = [r \in Runs |-> "None"]
    /\ control = [o \in Ops |-> "Starting"]
    /\ requested = {} /\ cancelError = {} /\ asleep = {}
    /\ worker = [o \in Ops |-> "none"]
    /\ killed = {} /\ rejected = {}
    /\ pc = [t \in Threads |-> "idle"]
    /\ target = [t \in Threads |-> IF t \in Ops THEN t ELSE None]
    /\ snapshot = {} /\ pending = {}

RunStep(r) ==
    \/ StartWorker(r)
    \/ Attach(r, "done")
    \/ FinishCancel(r, "attachCall", "done")
    \/ FailStart(r)
    \/ RemoveFailedStart(r)
    \/ MarkStartFailed(r, "done")

QueryStep(q) ==
    \/ StartWorker(q)
    \/ Attach(q, "wait")
    \/ FinishCancel(q, "attachCall", "wait")
    \/ MarkStartFailed(q, "drop")
    \/ EndWait(q)
    \/ BeginCancel(q, "result")
    \/ FinishCancel(q, "call", "result")
    \/ QueryCancelReturned(q)
    \/ QueryJoined(q)
    \/ DropRegistration(q)
    \/ WaitForControl(q)

CancelerStep(c) ==
    \/ BeginCancel(c, "result")
    \/ FinishCancel(c, "call", "result")
    \/ CancelReturned(c, "done")
    \/ RollbackCancel(c, "refused")
    \/ WaitForControl(c)

ShutdownStep(s) ==
    \/ \E o \in Ops : \/ MarkForShutdown(s, o)
                      \/ SettleForShutdown(s, o)
                      \/ VisitForJoin(s, o)
    \/ BeginCancel(s, "begin")
    \/ FinishCancel(s, "call", "begin")
    \/ target[s] \in Runs /\ CancelReturned(s, "finish")
    \/ RollbackCancel(s, "finish")
    \/ ShutdownCancelReturned(s)
    \/ ShutdownJoined(s)
    \/ EndPass(s, "begin", "finish")
    \/ EndPass(s, "finish", "collect")
    \/ EndPass(s, "collect", "done")
    \/ WaitForControl(s)

WorkerStep(o) == CompleteRun(o) \/ ReleaseRun(o) \/ CompleteQuery(o)

\* Nothing is outstanding: the host waits for its next request.
Quiescent ==
    /\ \A t \in Threads : pc[t] \in {"idle", "done", "refused"}
    /\ \A o \in Ops : worker[o] \in {"none", "finished"}
    /\ UNCHANGED vars

Next ==
    \/ \E r \in Runs : SubmitRun(r) \/ RunStep(r)
    \/ \E q \in Queries : SubmitQuery(q) \/ QueryStep(q) \/ RejectOutput(q)
    \/ \E c \in Cancelers : (\E r \in Runs : RequestCancel(c, r)) \/ CancelerStep(c)
    \/ \E s \in Shutdowners : BeginShutdown(s) \/ ShutdownStep(s)
    \/ \E o \in Ops : WorkerStep(o)
    \/ Quiescent

\* Threads that started keep running; requests need not arrive.  A command
\* process need not end by itself, but it does once its Job was terminated,
\* and an in-process Core command returns.
Fairness ==
    /\ \A r \in Runs : WF_vars(RunStep(r)) /\ WF_vars(ReleaseRun(r))
    /\ \A q \in Queries : WF_vars(QueryStep(q))
    /\ \A c \in Cancelers : WF_vars(CancelerStep(c))
    /\ \A s \in Shutdowners : WF_vars(ShutdownStep(s))
    /\ \A o \in Ops : WF_vars((o \in killed \/ ~Cancelable(o)) /\ WorkerStep(o))

Spec == Init /\ [][Next]_vars

FairSpec == Spec /\ Fairness
---------------------------------------------------------------------------
(* Properties *)

TypeOK ==
    /\ accepting \in BOOLEAN /\ active \in Nat
    /\ runs \subseteq Runs /\ queries \subseteq Queries
    /\ born \in [Runs -> Nat]
    /\ status \in [Runs -> Status]
    /\ control \in [Ops -> Control]
    /\ requested \subseteq Ops /\ cancelError \subseteq Ops
    /\ asleep \subseteq Threads
    /\ worker \in [Ops -> {"none", "running", "releasing", "finished"}]
    /\ killed \subseteq Ops /\ rejected \subseteq Queries
    /\ pc \in [Threads -> Label]
    /\ target \in [Threads -> Ops \union {None}]
    /\ snapshot \subseteq Ops /\ pending \subseteq snapshot

\* The operations that were admitted and have not given their slot back.
RunHolds(r) == \/ pc[r] \in {"start", "failStart", "remove"}
               \/ worker[r] \in {"running", "releasing"}
QueryHolds(q) == pc[q] \notin {"idle", "done", "refused"}
Holders == {r \in Runs : RunHolds(r)} \union {q \in Queries : QueryHolds(q)}

\* Whatever starts, completions, failed starts and prunings interleave, the
\* live operations never outnumber MAX_ACTIVE_OPERATIONS, and no saturating_sub
\* of registry.rs ever gives back a slot that somebody still uses.
CapacityRespected == Cardinality(Holders) <= active /\ active <= MaxActive

\* Every slot counted in `active` belongs to a live operation: one that ended,
\* failed to start or was dropped has released its capacity.  Only a failed
\* start that is pruned before it is removed keeps its slot, which takes more
\* than MAX_TERMINAL_RUNS finished runs.
SlotsExact ==
    Cardinality({r \in Runs : IsTerminal(r)}) <= MaxTerminal
        => active = Cardinality(Holders)

\* The process control of an operation is being canceled by at most one
\* thread, exactly while OperationControl is in its Canceling state.
CancelExclusive ==
    \A o \in Ops :
        Cardinality({t \in Threads : /\ target[t] = o
                                     /\ pc[t] \in {"call", "attachCall"}})
            = IF control[o] = "Canceling" THEN 1 ELSE 0

\* However cancels and the shutdown race with the start, the submitting thread
\* finds the control still Starting: attach and start_failed cannot fail.
HandOverIsFresh ==
    \A o \in Ops :
        pc[o] \in {"start", "attach", "failStart", "remove", "markFailed"}
            => control[o] = "Starting"

\* A run whose process control accepted a cancel is not reported as Exited,
\* whatever its end, a refused cancel and the pruning race with; only a
\* shutdown that takes another's cancel for an error may roll it back.
KilledIsNotExited ==
    \A r \in Runs \intersect killed : status[r] = "Exited" => r \in snapshot

\* A recorded ending never changes: neither a late completion, a rollback of a
\* failed cancel, nor a failed start overwrites it.
TerminalIsFinal ==
    [][\A r \in Runs : IsTerminal(r) => status'[r] = status[r]]_status

\* The comment in shutdown (registry.rs:119): every operation is marked before
\* the second pass waits for any of them.  A user who is about to cancel a run
\* makes the shutdown pass it by.
Marked(o) == o \in requested \/ control[o] = "StartFailed"
ShutdownMarksAll ==
    \A s \in Shutdowners : pc[s] \in {"finish", "result", "rollback", "collect"} =>
        \A o \in snapshot \ Uncancelable :
            \/ Marked(o) \/ (o \in Runs /\ IsTerminal(o))
            \/ \E c \in Cancelers : target[c] = o /\ pc[c] = "cancel"

\* When shutdown returns, no worker is running, no run is unfinished and no
\* admitted operation is still to be started.
NothingOutlivesShutdown ==
    \A s \in Shutdowners : pc[s] = "done" =>
        /\ \A o \in Ops : worker[o] # "running" /\ pc[o] # "start"
        /\ \A r \in Runs : status[r] = "None" \/ IsTerminal(r)

\* Besides the types: an ending tells what became of the process, and the
\* shutdown leaves nothing behind.
RegistrySafety == TypeOK /\ KilledIsNotExited /\ NothingOutlivesShutdown

\* Shutdown returns whatever it races with, unless a control refused a cancel:
\* then its process need not end, and the join has no timeout.
ShutdownReturns ==
    \A s \in Shutdowners : pc[s] = "begin" ~> pc[s] = "done" \/ cancelError # {}

\* A user's cancel request returns, and no wake-up of its wait is lost.
CancelReturns == \A c \in Cancelers : pc[c] = "cancel" ~> pc[c] \in {"done", "refused"}

\* A query returns to its caller and releases its slot: it has a timeout, and
\* the timeout cancels it, unless that is refused.
QueryReturns ==
    \A q \in Queries : pc[q] = "start" ~> pc[q] = "done" \/ q \in cancelError

\* Every wait of the registry ends: that of the shutdown for what it joins, of a
\* user for his cancel, of a caller for the answer of his query.
EveryWaitEnds == ShutdownReturns /\ CancelReturns /\ QueryReturns
=============================================================================
