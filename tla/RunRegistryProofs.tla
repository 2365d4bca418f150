------------------------- MODULE RunRegistryProofs -------------------------
(***************************************************************************)
(* Theorems about RunRegistry, for any number of runs, queries, cancel     *)
(* requests and any capacity.                                              *)
(***************************************************************************)
EXTENDS RunRegistry, FiniteSetTheorems, TLAPS

\* The client thread of an operation works on that operation, and a thread
\* inside OperationControl works on some operation.
TargetOK ==
    /\ \A o \in Ops : target[o] = o
    /\ \A t \in Threads :
         pc[t] \in {"cancel", "call", "attachCall", "result", "rollback", "join"}
            => target[t] \in Ops

TypeInv == TypeOK /\ TargetOK

\* A position in RegistryState.order is a number.
LEMMA PositionIsNat == NextPosition \in Nat
<1>1. IsFiniteSet({r \in Runs : born[r] > 0})
  BY FS_Subset, ThreadAssumption DEF Ops
<1>. QED BY <1>1, FS_CardinalityType DEF NextPosition

\* Pruning only removes runs.
LEMMA PruneSubset == \A S, st : Prune(S, st) \subseteq S
BY DEF Prune

LEMMA InitTypeInv == Init => TypeInv
BY ThreadAssumption
   DEF Init, TypeInv, TypeOK, TargetOK, Threads, Ops, Status, Control, Label

\* The steps of a client thread on its own operation.
LEMMA ClientTypeInv ==
    ASSUME TypeInv, NEW o \in Ops,
           \/ o \in Runs /\ SubmitRun(o)
           \/ o \in Queries /\ SubmitQuery(o)
           \/ StartWorker(o)
           \/ Attach(o, "done") \/ Attach(o, "wait")
           \/ MarkStartFailed(o, "done") \/ MarkStartFailed(o, "drop")
           \/ o \in Runs /\ FailStart(o)
           \/ o \in Runs /\ RemoveFailedStart(o)
           \/ DropRegistration(o)
    PROVE  TypeInv'
<1>. USE DEF TypeInv, TypeOK, TargetOK, At, Goto, notControl, registryVars, workerVars,
             shutdownVars, controlVars, Threads, Ops, Label, Control, Status,
             TerminalStatus
<1>1. CASE o \in Runs /\ SubmitRun(o)
  <2>1. runs' \subseteq Runs
    BY <1>1, PruneSubset DEF SubmitRun
  <2>2. born' \in [Runs -> Nat]
    BY <1>1, PositionIsNat DEF SubmitRun
  <2>3. active' \in Nat /\ status' \in [Runs -> Status]
    BY <1>1 DEF SubmitRun
  <2>4. pc' \in [Threads -> Label] /\ TargetOK'
    BY <1>1 DEF SubmitRun
  <2>. QED BY <1>1, <2>1, <2>2, <2>3, <2>4 DEF SubmitRun
<1>2. CASE o \in Queries /\ SubmitQuery(o)
  BY <1>2 DEF SubmitQuery
<1>3. CASE StartWorker(o)
  BY <1>3 DEF StartWorker
<1>4. CASE Attach(o, "done") \/ Attach(o, "wait")
  BY <1>4 DEF Attach, NotifyAll
<1>5. CASE MarkStartFailed(o, "done") \/ MarkStartFailed(o, "drop")
  BY <1>5 DEF MarkStartFailed, NotifyAll
<1>6. CASE o \in Runs /\ FailStart(o)
  BY <1>6 DEF FailStart
<1>7. CASE o \in Runs /\ RemoveFailedStart(o)
  BY <1>7 DEF RemoveFailedStart
<1>8. CASE DropRegistration(o)
  BY <1>8 DEF DropRegistration
<1>. QED BY <1>1, <1>2, <1>3, <1>4, <1>5, <1>6, <1>7, <1>8

\* The waits, cancels and joins of a thread on its target.
LEMMA ControlTypeInv ==
    ASSUME TypeInv, NEW t \in Threads, NEW label, NEW next,
           label \in {"call", "attachCall"},
           next \in {"begin", "finish", "result", "done", "wait"},
           \/ BeginCancel(t, next)
           \/ FinishCancel(t, label, next)
           \/ CancelReturned(t, next)
           \/ RollbackCancel(t, "finish") \/ RollbackCancel(t, "refused")
           \/ WaitForControl(t)
    PROVE  TypeInv'
<1>. USE DEF TypeInv, TypeOK, TargetOK, At, Goto, notControl, registryVars, workerVars,
             shutdownVars, controlVars, Threads, Ops, Label, Control, Status,
             TerminalStatus
<1>1. CASE BeginCancel(t, next)
  BY <1>1 DEF BeginCancel
<1>2. CASE FinishCancel(t, label, next)
  BY <1>2 DEF FinishCancel, NotifyAll
<1>3. CASE CancelReturned(t, next)
  BY <1>3 DEF CancelReturned, Pass, allButPc
<1>4. CASE RollbackCancel(t, "finish") \/ RollbackCancel(t, "refused")
  BY <1>4 DEF RollbackCancel
<1>5. CASE WaitForControl(t)
  BY <1>5 DEF WaitForControl
<1>. QED BY <1>1, <1>2, <1>3, <1>4, <1>5

\* Steps that only move a thread.
LEMMA PassTypeInv ==
    ASSUME TypeInv, NEW t \in Threads, NEW from, NEW next, Pass(t, from, next),
           next \in Label,
           next \in {"cancel", "attachCall", "call", "result", "rollback", "join"}
              => target[t] \in Ops
    PROVE  TypeInv'
BY DEF TypeInv, TypeOK, TargetOK, Pass, allButPc, At, Goto, registryVars, workerVars,
       shutdownVars, controlVars

\* The steps of the workers and of query observers.
LEMMA WorkerTypeInv ==
    ASSUME TypeInv, NEW o \in Ops,
           \/ CompleteRun(o) \/ ReleaseRun(o) \/ CompleteQuery(o)
           \/ o \in Queries /\ RejectOutput(o)
    PROVE  TypeInv'
<1>. USE DEF TypeInv, TypeOK, TargetOK, registryVars, workerVars, shutdownVars,
             controlVars, Ops, Status, TerminalStatus
<1>1. CASE CompleteRun(o)
  BY <1>1 DEF CompleteRun
<1>2. CASE ReleaseRun(o)
  BY <1>2, PruneSubset DEF ReleaseRun
<1>3. CASE CompleteQuery(o)
  BY <1>3 DEF CompleteQuery
<1>4. CASE o \in Queries /\ RejectOutput(o)
  BY <1>4 DEF RejectOutput
<1>. QED BY <1>1, <1>2, <1>3, <1>4

\* The steps of cancel requests and of the shutdown that are their own.
LEMMA RequestTypeInv ==
    ASSUME TypeInv, NEW c \in Cancelers, NEW r \in Runs, RequestCancel(c, r)
    PROVE  TypeInv'
BY ThreadAssumption DEF TypeInv, TypeOK, TargetOK, RequestCancel, At, Goto, registryVars,
   workerVars, shutdownVars, controlVars, Threads, Ops, Label, Status, TerminalStatus

LEMMA VisitTypeInv ==
    ASSUME TypeInv, NEW s \in Shutdowners, NEW o \in Ops,
           MarkForShutdown(s, o) \/ SettleForShutdown(s, o) \/ VisitForJoin(s, o)
    PROVE  TypeInv'
<1>. USE ThreadAssumption
     DEF TypeInv, TypeOK, TargetOK, At, Goto, registryVars, workerVars, shutdownVars,
         controlVars, Threads, Ops, Label, Status, TerminalStatus, Visit
<1>1. CASE MarkForShutdown(s, o)
  BY <1>1 DEF MarkForShutdown
<1>2. CASE SettleForShutdown(s, o)
  BY <1>2 DEF SettleForShutdown
<1>3. CASE VisitForJoin(s, o)
  BY <1>3 DEF VisitForJoin
<1>. QED BY <1>1, <1>2, <1>3

LEMMA PassesTypeInv ==
    ASSUME TypeInv, NEW s \in Shutdowners,
           \/ BeginShutdown(s)
           \/ EndPass(s, "begin", "finish")
           \/ EndPass(s, "finish", "collect")
           \/ EndPass(s, "collect", "done")
    PROVE  TypeInv'
<1>. USE ThreadAssumption
     DEF TypeInv, TypeOK, TargetOK, At, Goto, registryVars, workerVars, shutdownVars,
         controlVars, Threads, Ops, Label
<1>1. CASE BeginShutdown(s)
  BY <1>1 DEF BeginShutdown
<1>2. CASE EndPass(s, "begin", "finish")
  BY <1>2 DEF EndPass
<1>3. CASE EndPass(s, "finish", "collect")
  BY <1>3 DEF EndPass
<1>4. CASE EndPass(s, "collect", "done")
  BY <1>4 DEF EndPass
<1>. QED BY <1>1, <1>2, <1>3, <1>4

\* Every step of the registry preserves the type invariant.
LEMMA NextTypeInv == TypeInv /\ [Next]_vars => TypeInv'
<1>. SUFFICES ASSUME TypeInv, [Next]_vars PROVE TypeInv'
  OBVIOUS
<1>1. ASSUME NEW r \in Runs, SubmitRun(r) \/ RunStep(r) PROVE TypeInv'
  <2>1. r \in Ops /\ r \in Threads
    BY DEF Ops, Threads
  <2>2. CASE FinishCancel(r, "attachCall", "done")
    BY <2>1, <2>2, ControlTypeInv
  <2>3. CASE \/ SubmitRun(r) \/ StartWorker(r) \/ Attach(r, "done")
             \/ FailStart(r) \/ RemoveFailedStart(r) \/ MarkStartFailed(r, "done")
    BY <2>1, <2>3, ClientTypeInv
  <2>. QED BY <1>1, <2>2, <2>3 DEF RunStep
<1>2. ASSUME NEW q \in Queries, SubmitQuery(q) \/ QueryStep(q) \/ RejectOutput(q)
      PROVE  TypeInv'
  <2>1. q \in Ops /\ q \in Threads /\ target[q] \in Ops
    BY DEF Ops, Threads, TypeInv, TargetOK
  <2>2. CASE \/ FinishCancel(q, "attachCall", "wait") \/ FinishCancel(q, "call", "result")
             \/ BeginCancel(q, "result") \/ WaitForControl(q)
    BY <2>1, <2>2, ControlTypeInv
  <2>3. CASE \/ SubmitQuery(q) \/ StartWorker(q) \/ Attach(q, "wait")
             \/ MarkStartFailed(q, "drop") \/ DropRegistration(q)
    BY <2>1, <2>3, ClientTypeInv
  <2>4. CASE EndWait(q)
    BY <2>1, <2>4, PassTypeInv DEF EndWait, Label
  <2>5. CASE QueryCancelReturned(q) \/ QueryJoined(q)
    BY <2>1, <2>5, PassTypeInv DEF QueryCancelReturned, QueryJoined, Label
  <2>6. CASE RejectOutput(q)
    BY <2>1, <2>6, WorkerTypeInv
  <2>. QED BY <1>2, <2>2, <2>3, <2>4, <2>5, <2>6 DEF QueryStep
<1>3. ASSUME NEW c \in Cancelers, (\E r \in Runs : RequestCancel(c, r)) \/ CancelerStep(c)
      PROVE  TypeInv'
  <2>1. c \in Threads
    BY DEF Threads
  <2>2. CASE \E r \in Runs : RequestCancel(c, r)
    BY <2>2, RequestTypeInv
  <2>3. CASE CancelerStep(c)
    BY <2>1, <2>3, ControlTypeInv DEF CancelerStep
  <2>. QED BY <1>3, <2>2, <2>3
<1>4. ASSUME NEW s \in Shutdowners, BeginShutdown(s) \/ ShutdownStep(s)
      PROVE  TypeInv'
  <2>1. s \in Threads
    BY DEF Threads
  <2>2. CASE \E o \in Ops : \/ MarkForShutdown(s, o)
                            \/ SettleForShutdown(s, o)
                            \/ VisitForJoin(s, o)
    BY <2>2, VisitTypeInv
  <2>3. CASE \/ BeginCancel(s, "begin") \/ FinishCancel(s, "call", "begin")
             \/ CancelReturned(s, "finish") \/ RollbackCancel(s, "finish")
             \/ WaitForControl(s)
    BY <2>1, <2>3, ControlTypeInv
  <2>4. CASE ShutdownCancelReturned(s) \/ ShutdownJoined(s)
    BY <2>1, <2>4, PassTypeInv DEF ShutdownCancelReturned, ShutdownJoined, Label
  <2>5. CASE \/ BeginShutdown(s)
             \/ EndPass(s, "begin", "finish") \/ EndPass(s, "finish", "collect")
             \/ EndPass(s, "collect", "done")
    BY <2>5, PassesTypeInv
  <2>. QED BY <1>4, <2>2, <2>3, <2>4, <2>5 DEF ShutdownStep
<1>5. ASSUME NEW o \in Ops, WorkerStep(o) PROVE TypeInv'
  BY <1>5, WorkerTypeInv DEF WorkerStep
<1>6. CASE UNCHANGED vars
  BY <1>6 DEF vars, TypeInv, TypeOK, TargetOK, registryVars, controlVars,
              workerVars, shutdownVars
<1>. QED BY <1>1, <1>2, <1>3, <1>4, <1>5, <1>6 DEF Next, Quiescent

\* The variables of the registry, of every OperationControl and of the threads
\* keep their types, and a thread inside OperationControl works on an operation.
THEOREM TypeCorrect == Spec => []TypeOK
<1>1. Init => TypeInv
  BY InitTypeInv
<1>2. TypeInv /\ [Next]_vars => TypeInv'
  BY NextTypeInv
<1>3. TypeInv => TypeOK
  BY DEF TypeInv
<1>. QED BY <1>1, <1>2, <1>3, PTL DEF Spec

---------------------------------------------------------------------------
(* The hand-over of the process control *)

\* Until the submitting thread hands a control over, the operation has no
\* settled control; until it starts a worker there is none; and a run that was
\* not admitted has no status.
Unstarted == {"idle", "refused", "start", "failStart", "remove", "markFailed"}
EarlyOK ==
    \A o \in Ops :
        /\ pc[o] \in Unstarted => worker[o] = "none"
        /\ pc[o] \in Unstarted \union {"attach"} => control[o] = "Starting"
        /\ o \in Runs /\ pc[o] \in {"idle", "refused"} => status[o] = "None"

\* The threads that are inside control.cancel().
Calling(t) == pc[t] \in {"call", "attachCall"}

\* A control that is being canceled is being canceled by one thread.
CallOK ==
    /\ \A t \in Threads : Calling(t) => control[target[t]] = "Canceling"
    /\ \A t, u \in Threads :
         Calling(t) /\ Calling(u) /\ target[t] = target[u] => t = u
    /\ \A o \in Ops : control[o] = "Canceling"
         => \E t \in Threads : Calling(t) /\ target[t] = o

HandOverInv == EarlyOK /\ CallOK

LEMMA InitHandOver == Init => HandOverInv
BY DEF Init, HandOverInv, EarlyOK, CallOK, Unstarted, Calling, Threads, Ops

LEMMA EarlyStep == TypeInv /\ HandOverInv /\ [Next]_vars => EarlyOK'
<1>. SUFFICES ASSUME TypeInv, HandOverInv, [Next]_vars PROVE EarlyOK'
  OBVIOUS
<1>. USE ThreadAssumption
     DEF EarlyOK, HandOverInv, CallOK, Calling, Unstarted, TypeInv, TypeOK, TargetOK, At,
         Goto, notControl, allButPc, Pass, registryVars, workerVars, shutdownVars,
         controlVars, Threads, Ops
<1>1. ASSUME NEW r \in Runs, SubmitRun(r) \/ RunStep(r) PROVE EarlyOK'
  BY <1>1 DEF SubmitRun, RunStep, StartWorker, Attach, FinishCancel, FailStart,
              RemoveFailedStart, MarkStartFailed
<1>2. ASSUME NEW q \in Queries, SubmitQuery(q) \/ QueryStep(q) \/ RejectOutput(q)
      PROVE  EarlyOK'
  BY <1>2 DEF SubmitQuery, QueryStep, StartWorker, Attach, FinishCancel, MarkStartFailed,
              EndWait, BeginCancel, QueryCancelReturned, QueryJoined, DropRegistration,
              WaitForControl, RejectOutput
<1>3. ASSUME NEW c \in Cancelers, (\E r \in Runs : RequestCancel(c, r)) \/ CancelerStep(c)
      PROVE  EarlyOK'
  BY <1>3 DEF RequestCancel, CancelerStep, BeginCancel, FinishCancel, CancelReturned,
              RollbackCancel, WaitForControl
<1>4. ASSUME NEW s \in Shutdowners, BeginShutdown(s) \/ ShutdownStep(s)
      PROVE  EarlyOK'
  BY <1>4 DEF BeginShutdown, ShutdownStep, MarkForShutdown, SettleForShutdown,
              VisitForJoin, Visit, BeginCancel, FinishCancel, CancelReturned,
              RollbackCancel, ShutdownCancelReturned, ShutdownJoined, EndPass,
              WaitForControl
<1>5. ASSUME NEW o \in Ops, WorkerStep(o) PROVE EarlyOK'
  BY <1>5 DEF WorkerStep, CompleteRun, ReleaseRun, CompleteQuery
<1>6. CASE UNCHANGED vars
  BY <1>6 DEF vars
<1>. QED BY <1>1, <1>2, <1>3, <1>4, <1>5, <1>6 DEF Next, Quiescent

LEMMA CallStep == TypeInv /\ HandOverInv /\ [Next]_vars => CallOK'
<1>. SUFFICES ASSUME TypeInv, HandOverInv, [Next]_vars PROVE CallOK'
  OBVIOUS
<1>. USE ThreadAssumption
     DEF EarlyOK, HandOverInv, CallOK, Calling, Unstarted, TypeInv, TypeOK, TargetOK, At,
         Goto, notControl, allButPc, Pass, registryVars, workerVars, shutdownVars,
         controlVars, Threads, Ops
<1>1. ASSUME NEW r \in Runs, SubmitRun(r) \/ RunStep(r) PROVE CallOK'
  <2>1. CASE Attach(r, "done")
    BY <2>1 DEF Attach
  <2>2. CASE FinishCancel(r, "attachCall", "done")
    BY <2>2 DEF FinishCancel
  <2>3. CASE \/ SubmitRun(r) \/ StartWorker(r) \/ FailStart(r) \/ RemoveFailedStart(r)
             \/ MarkStartFailed(r, "done")
    BY <2>3 DEF SubmitRun, StartWorker, FailStart, RemoveFailedStart, MarkStartFailed
  <2>. QED BY <1>1, <2>1, <2>2, <2>3 DEF RunStep
<1>2. ASSUME NEW q \in Queries, SubmitQuery(q) \/ QueryStep(q) \/ RejectOutput(q)
      PROVE  CallOK'
  <2>1. CASE Attach(q, "wait")
    BY <2>1 DEF Attach
  <2>2. CASE FinishCancel(q, "attachCall", "wait") \/ FinishCancel(q, "call", "result")
    BY <2>2 DEF FinishCancel
  <2>3. CASE BeginCancel(q, "result")
    BY <2>3 DEF BeginCancel
  <2>4. CASE \/ SubmitQuery(q) \/ StartWorker(q) \/ MarkStartFailed(q, "drop")
             \/ EndWait(q) \/ QueryCancelReturned(q) \/ QueryJoined(q)
             \/ DropRegistration(q) \/ WaitForControl(q) \/ RejectOutput(q)
    BY SMTT(15), <2>4
       DEF SubmitQuery, StartWorker, MarkStartFailed, EndWait, QueryCancelReturned,
           QueryJoined, DropRegistration, WaitForControl, RejectOutput
  <2>. QED BY <1>2, <2>1, <2>2, <2>3, <2>4 DEF QueryStep
<1>3. ASSUME NEW c \in Cancelers, (\E r \in Runs : RequestCancel(c, r)) \/ CancelerStep(c)
      PROVE  CallOK'
  <2>1. CASE FinishCancel(c, "call", "result")
    BY <2>1 DEF FinishCancel
  <2>2. CASE BeginCancel(c, "result")
    BY <2>2 DEF BeginCancel
  <2>3. CASE \/ \E r \in Runs : RequestCancel(c, r)
             \/ CancelReturned(c, "done") \/ RollbackCancel(c, "refused")
             \/ WaitForControl(c)
    BY <2>3 DEF RequestCancel, CancelReturned, RollbackCancel, WaitForControl
  <2>. QED BY <1>3, <2>1, <2>2, <2>3 DEF CancelerStep
<1>4. ASSUME NEW s \in Shutdowners, BeginShutdown(s) \/ ShutdownStep(s)
      PROVE  CallOK'
  <2>1. CASE FinishCancel(s, "call", "begin")
    BY <2>1 DEF FinishCancel
  <2>2. CASE BeginCancel(s, "begin")
    BY <2>2 DEF BeginCancel
  <2>3. ASSUME NEW o \in Ops,
               MarkForShutdown(s, o) \/ SettleForShutdown(s, o) \/ VisitForJoin(s, o)
        PROVE  CallOK'
    BY <2>3 DEF MarkForShutdown, SettleForShutdown, VisitForJoin, Visit
  <2>4. CASE \/ BeginShutdown(s) \/ CancelReturned(s, "finish")
             \/ RollbackCancel(s, "finish") \/ ShutdownCancelReturned(s)
             \/ ShutdownJoined(s) \/ EndPass(s, "begin", "finish")
             \/ EndPass(s, "finish", "collect") \/ EndPass(s, "collect", "done")
             \/ WaitForControl(s)
    BY <2>4 DEF BeginShutdown, CancelReturned, RollbackCancel, ShutdownCancelReturned,
                ShutdownJoined, EndPass, WaitForControl
  <2>. QED BY <1>4, <2>1, <2>2, <2>3, <2>4 DEF ShutdownStep
<1>5. ASSUME NEW o \in Ops, WorkerStep(o) PROVE CallOK'
  BY <1>5 DEF WorkerStep, CompleteRun, ReleaseRun, CompleteQuery
<1>6. CASE UNCHANGED vars
  BY <1>6 DEF vars
<1>. QED BY <1>1, <1>2, <1>3, <1>4, <1>5, <1>6 DEF Next, Quiescent

THEOREM HandOverCorrect == Spec => [](TypeInv /\ HandOverInv)
<1>1. Init => TypeInv /\ HandOverInv
  BY InitTypeInv, InitHandOver
<1>2. TypeInv /\ HandOverInv /\ [Next]_vars => (TypeInv /\ HandOverInv)'
  BY NextTypeInv, EarlyStep, CallStep DEF HandOverInv
<1>. QED BY <1>1, <1>2, PTL DEF Spec

\* However cancels and the shutdown race with the start of an operation, its
\* submitting thread finds the control still Starting.
THEOREM HandOverNeverFails == Spec => []HandOverIsFresh
<1>1. HandOverInv => HandOverIsFresh
  BY DEF HandOverInv, EarlyOK, HandOverIsFresh, Unstarted
<1>. QED BY <1>1, HandOverCorrect, PTL

\* At most one thread is inside control.cancel() of an operation, exactly while
\* OperationControl is Canceling.
THEOREM OneCanceler == Spec => []CancelExclusive
<1>1. TypeInv /\ HandOverInv => CancelExclusive
  <2>. SUFFICES ASSUME TypeInv, HandOverInv, NEW o \in Ops
                PROVE  Cardinality({t \in Threads : target[t] = o /\ Calling(t)})
                         = IF control[o] = "Canceling" THEN 1 ELSE 0
    BY DEF CancelExclusive, Calling
  <2>. DEFINE C == {t \in Threads : target[t] = o /\ Calling(t)}
  <2>1. CASE control[o] = "Canceling"
    <3>1. PICK t \in Threads : Calling(t) /\ target[t] = o
      BY <2>1 DEF HandOverInv, CallOK
    <3>2. C = {t}
      BY <3>1 DEF HandOverInv, CallOK
    <3>. QED BY <2>1, <3>2, FS_Singleton
  <2>2. CASE control[o] # "Canceling"
    <3>1. C = {}
      BY <2>2 DEF HandOverInv, CallOK
    <3>. QED BY <2>2, <3>1, FS_EmptySet
  <2>. QED BY <2>1, <2>2
<1>. QED BY <1>1, HandOverCorrect, PTL

\* No step overwrites a recorded ending.
LEMMA EndingStep ==
    ASSUME TypeInv, HandOverInv, [Next]_vars
    PROVE  \A r \in Runs : IsTerminal(r) => status'[r] = status[r]
<1>. SUFFICES ASSUME NEW r \in Runs, IsTerminal(r) PROVE status'[r] = status[r]
  OBVIOUS
<1>. USE DEF TypeInv, TypeOK, HandOverInv, EarlyOK, Unstarted, IsTerminal, TerminalStatus,
             At, Ops
<1>1. ASSUME NEW p \in Runs, SubmitRun(p) \/ RunStep(p) PROVE status'[r] = status[r]
  BY <1>1 DEF SubmitRun, RunStep, StartWorker, Attach, FinishCancel, FailStart,
              RemoveFailedStart, MarkStartFailed, notControl
<1>2. ASSUME NEW q \in Queries, SubmitQuery(q) \/ QueryStep(q) \/ RejectOutput(q)
      PROVE  status'[r] = status[r]
  BY <1>2 DEF SubmitQuery, QueryStep, StartWorker, Attach, FinishCancel,
              MarkStartFailed, EndWait, BeginCancel, QueryCancelReturned, QueryJoined,
              DropRegistration, WaitForControl, RejectOutput, notControl, Pass, allButPc
<1>3. ASSUME NEW c \in Cancelers,
             (\E p \in Runs : RequestCancel(c, p)) \/ CancelerStep(c)
      PROVE  status'[r] = status[r]
  BY <1>3 DEF RequestCancel, CancelerStep, BeginCancel, FinishCancel, CancelReturned,
              RollbackCancel, WaitForControl, notControl, Pass, allButPc
<1>4. ASSUME NEW s \in Shutdowners, BeginShutdown(s) \/ ShutdownStep(s)
      PROVE  status'[r] = status[r]
  BY <1>4 DEF BeginShutdown, ShutdownStep, MarkForShutdown, SettleForShutdown,
              VisitForJoin, BeginCancel, FinishCancel, CancelReturned, RollbackCancel,
              ShutdownCancelReturned, ShutdownJoined, EndPass, WaitForControl,
              notControl, Pass, allButPc
<1>5. ASSUME NEW o \in Ops, WorkerStep(o) PROVE status'[r] = status[r]
  BY <1>5 DEF WorkerStep, CompleteRun, ReleaseRun, CompleteQuery
<1>6. CASE UNCHANGED vars
  BY <1>6 DEF vars
<1>. QED BY <1>1, <1>2, <1>3, <1>4, <1>5, <1>6 DEF Next, Quiescent

\* A recorded ending of a run never changes.
THEOREM EndingsAreFinal == Spec => TerminalIsFinal
<1>1. TypeInv /\ HandOverInv /\ [Next]_vars
        => [\A r \in Runs : IsTerminal(r) => status'[r] = status[r]]_status
  BY EndingStep
<1>. QED BY <1>1, HandOverCorrect, PTL DEF Spec, TerminalIsFinal

---------------------------------------------------------------------------
(* Capacity *)

\* What a step may do to the slots: take one below the limit, give one back
\* that an operation held, or neither.
Takes == /\ active' = active + 1 /\ active < MaxActive
         /\ \E o \in Ops : Holders' \subseteq Holders \union {o}
Releases == /\ active' \in {active - 1, active}
            /\ \E o \in Holders : Holders' \subseteq Holders \ {o}
Keeps == active' = active /\ Holders' \subseteq Holders

LEMMA SlotStep ==
    TypeInv /\ HandOverInv /\ [Next]_vars => Takes \/ Releases \/ Keeps
<1>. SUFFICES ASSUME TypeInv, HandOverInv, [Next]_vars
              PROVE  Takes \/ Releases \/ Keeps
  OBVIOUS
<1>. USE ThreadAssumption
     DEF Takes, Releases, Keeps, Holders, RunHolds, QueryHolds, HandOverInv, EarlyOK,
         Unstarted, TypeInv, TypeOK, TargetOK, At, Goto, notControl, allButPc, Pass,
         registryVars, workerVars, shutdownVars, controlVars, Threads, Ops
<1>1. ASSUME NEW r \in Runs, SubmitRun(r) \/ RunStep(r)
      PROVE  Takes \/ Releases \/ Keeps
  <2>1. CASE SubmitRun(r)
    <3>1. CASE UNCHANGED active
      <4>. Keeps BY <2>1, <3>1 DEF SubmitRun
      <4>. QED OBVIOUS
    <3>2. CASE MayReserve /\ active' = active + 1
      <4>. Takes BY <2>1, <3>2 DEF SubmitRun, MayReserve
      <4>. QED OBVIOUS
    <3>. QED BY <2>1, <3>1, <3>2 DEF SubmitRun
  <2>2. CASE RemoveFailedStart(r)
    <3>. Releases BY <2>2 DEF RemoveFailedStart
    <3>. QED OBVIOUS
  <2>3. CASE \/ StartWorker(r) \/ Attach(r, "done") \/ FinishCancel(r, "attachCall", "done")
             \/ FailStart(r) \/ MarkStartFailed(r, "done")
    <3>. Keeps BY <2>3 DEF StartWorker, Attach, FinishCancel, FailStart, MarkStartFailed
    <3>. QED OBVIOUS
  <2>. QED BY <1>1, <2>1, <2>2, <2>3 DEF RunStep
<1>2. ASSUME NEW q \in Queries, SubmitQuery(q) \/ QueryStep(q) \/ RejectOutput(q)
      PROVE  Takes \/ Releases \/ Keeps
  <2>1. CASE SubmitQuery(q)
    <3>1. CASE MayReserve
      <4>. Takes BY <2>1, <3>1 DEF SubmitQuery, MayReserve
      <4>. QED OBVIOUS
    <3>2. CASE ~MayReserve
      <4>. Keeps BY <2>1, <3>2 DEF SubmitQuery
      <4>. QED OBVIOUS
    <3>. QED BY <3>1, <3>2
  <2>2. CASE DropRegistration(q)
    <3>. Releases BY <2>2 DEF DropRegistration
    <3>. QED OBVIOUS
  <2>3. CASE \/ StartWorker(q) \/ Attach(q, "wait") \/ FinishCancel(q, "attachCall", "wait")
             \/ FinishCancel(q, "call", "result") \/ MarkStartFailed(q, "drop")
             \/ EndWait(q) \/ BeginCancel(q, "result") \/ QueryCancelReturned(q)
             \/ QueryJoined(q) \/ WaitForControl(q) \/ RejectOutput(q)
    <3>. Keeps BY <2>3 DEF StartWorker, Attach, FinishCancel, MarkStartFailed, EndWait,
                           BeginCancel, QueryCancelReturned, QueryJoined,
                           WaitForControl, RejectOutput
    <3>. QED OBVIOUS
  <2>. QED BY <1>2, <2>1, <2>2, <2>3 DEF QueryStep
<1>3. ASSUME NEW c \in Cancelers, (\E r \in Runs : RequestCancel(c, r)) \/ CancelerStep(c)
      PROVE  Keeps
  BY <1>3 DEF RequestCancel, CancelerStep, BeginCancel, FinishCancel, CancelReturned,
              RollbackCancel, WaitForControl
<1>4. ASSUME NEW s \in Shutdowners, BeginShutdown(s) \/ ShutdownStep(s)
      PROVE  Keeps
  BY <1>4 DEF BeginShutdown, ShutdownStep, MarkForShutdown, SettleForShutdown,
              VisitForJoin, Visit, BeginCancel, FinishCancel, CancelReturned,
              RollbackCancel, ShutdownCancelReturned, ShutdownJoined, EndPass,
              WaitForControl
<1>5. ASSUME NEW o \in Ops, WorkerStep(o) PROVE Releases \/ Keeps
  <2>1. CASE ReleaseRun(o)
    <3>. Releases BY <2>1 DEF ReleaseRun
    <3>. QED OBVIOUS
  <2>2. CASE CompleteRun(o) \/ CompleteQuery(o)
    <3>. Keeps BY <2>2 DEF CompleteRun, CompleteQuery
    <3>. QED OBVIOUS
  <2>. QED BY <1>5, <2>1, <2>2 DEF WorkerStep
<1>6. CASE UNCHANGED vars
  <2>. Keeps BY <1>6 DEF vars
  <2>. QED OBVIOUS
<1>. QED BY <1>1, <1>2, <1>3, <1>4, <1>5, <1>6 DEF Next, Quiescent

LEMMA HoldersFinite == IsFiniteSet(Holders) /\ Cardinality(Holders) \in Nat
<1>1. Holders \subseteq Ops
  BY DEF Holders, Ops
<1>. QED BY <1>1, ThreadAssumption, FS_Subset, FS_CardinalityType

LEMMA CapacityStep ==
    TypeInv /\ HandOverInv /\ CapacityRespected /\ [Next]_vars => CapacityRespected'
<1>. SUFFICES ASSUME TypeInv, HandOverInv, CapacityRespected, [Next]_vars
              PROVE  CapacityRespected'
  OBVIOUS
<1>. USE LimitAssumption, HoldersFinite DEF CapacityRespected, TypeInv, TypeOK
<1>0. IsFiniteSet(Holders') /\ Cardinality(Holders') \in Nat
  <2>1. Holders' \subseteq Ops
    BY DEF Holders, Ops
  <2>. QED BY <2>1, ThreadAssumption, FS_Subset, FS_CardinalityType
<1>1. CASE Takes
  <2>1. PICK o \in Ops : Holders' \subseteq Holders \union {o}
    BY <1>1 DEF Takes
  <2>2. /\ IsFiniteSet(Holders \union {o})
        /\ Cardinality(Holders \union {o}) = IF o \in Holders THEN Cardinality(Holders)
                                                ELSE Cardinality(Holders) + 1
    BY HoldersFinite, FS_AddElement, Zenon
  <2>3. Cardinality(Holders') <= Cardinality(Holders \union {o})
    BY <2>1, <2>2, FS_Subset
  <2>4. Cardinality(Holders \union {o}) \in Nat
    BY <2>2, FS_CardinalityType
  <2>. QED BY <1>0, <1>1, <2>2, <2>3, <2>4 DEF Takes
<1>2. CASE Releases
  <2>1. PICK o \in Holders : Holders' \subseteq Holders \ {o}
    BY <1>2 DEF Releases
  <2>2. /\ IsFiniteSet(Holders \ {o})
        /\ Cardinality(Holders \ {o}) = Cardinality(Holders) - 1
    BY <2>1, FS_RemoveElement
  <2>3. Cardinality(Holders') <= Cardinality(Holders \ {o})
    BY <2>1, <2>2, FS_Subset
  <2>. QED BY <1>0, <1>2, <2>2, <2>3 DEF Releases
<1>3. CASE Keeps
  <2>1. Cardinality(Holders') <= Cardinality(Holders)
    BY <1>3, FS_Subset DEF Keeps
  <2>. QED BY <1>0, <1>3, <2>1 DEF Keeps
<1>. QED BY <1>1, <1>2, <1>3, SlotStep

\* The live operations never outnumber MAX_ACTIVE_OPERATIONS, for any number
\* of submissions, failed starts, completions and prunings.
THEOREM CapacityIsRespected == Spec => []CapacityRespected
<1>1. Init => CapacityRespected
  <2>. SUFFICES ASSUME Init PROVE CapacityRespected
    OBVIOUS
  <2>1. Holders = {}
    BY DEF Init, Holders, RunHolds, QueryHolds, Threads, Ops
  <2>. QED BY <2>1, LimitAssumption, FS_EmptySet DEF Init, CapacityRespected
<1>2. TypeInv /\ HandOverInv /\ CapacityRespected /\ [Next]_vars => CapacityRespected'
  BY CapacityStep
<1>. QED BY <1>1, <1>2, HandOverCorrect, PTL DEF Spec

---------------------------------------------------------------------------
(* Endings, cancels and the shutdown *)

\* The status of a run follows its submission and its worker, and a run that
\* has not ended is registered.
RunOK(r) ==
    /\ (status[r] = "None") <=> (pc[r] \in {"idle", "refused"})
    /\ (pc[r] \in {"start", "failStart"} \/ worker[r] = "running")
         => status[r] \in {"Running", "Canceling"}
    /\ (\/ pc[r] \in {"remove", "markFailed"}
        \/ worker[r] \in {"releasing", "finished"}
        \/ control[r] = "StartFailed") => IsTerminal(r)
    /\ IF r \in runs THEN status[r] # "None" ELSE status[r] = "None" \/ IsTerminal(r)
    /\ r \in requested => status[r] # "None"

\* A query is registered while its submitting thread works on it, which does not
\* leave it running.
QueryOK(q) ==
    /\ (q \in queries) <=> (pc[q] \notin {"idle", "refused", "done"})
    /\ pc[q] \in {"drop", "done"} => worker[q] # "running"

\* The process control of an operation is asked to cancel once.
OnceOK(o) ==
    /\ control[o] = "StartFailed" => worker[o] = "none"
    /\ control[o] = "Canceling" => o \in requested
    /\ o \in killed \union cancelError => o \in requested /\ control[o] = "Attached"
    /\ o \notin killed \intersect cancelError

\* A cancel request, from the mark it sets on a run until it has returned.
Engaged(c) == pc[c] \in {"cancel", "call", "result", "rollback"}
CancelerOK(c) ==
    /\ Engaged(c) => target[c] \in Runs /\ status[target[c]] # "None"
    /\ pc[c] = "result" => Marked(target[c])
    /\ pc[c] = "rollback" => target[c] \in cancelError

\* Unless the shutdown takes part, a run has one such request at a time, it is
\* not taken for running meanwhile, and only a refused cancel is taken back.
AloneOK(r) ==
    r \notin snapshot =>
      /\ \A c \in Cancelers : Engaged(c) /\ target[c] = r => status[r] # "Running"
      /\ \A c, d \in Cancelers :
           Engaged(c) /\ Engaged(d) /\ target[c] = r /\ target[d] = r => c = d
      /\ r \in requested /\ status[r] = "Running" => r \in cancelError
      /\ r \in killed => status[r] \notin {"Running", "Exited"}

\* Who has made a run Canceling has asked its control, or is about to.
AboutToCancel(t, o) == target[t] = o /\ pc[t] = "cancel"
CancelingOK(r) ==
    status[r] = "Canceling" =>
      Marked(r) \/ \E t \in Cancelers \union Shutdowners : AboutToCancel(t, r)

\* What the shutdown has done with an operation: asked for its end, ...
Asked(o) == \/ Marked(o) \/ (o \in Runs /\ IsTerminal(o))
            \/ \E c \in Cancelers : AboutToCancel(c, o)
\* ... and seen it.
Over(o) == control[o] = "StartFailed" \/ worker[o] = "finished"

Absent(o) == IF o \in Runs THEN status[o] = "None" \/ IsTerminal(o)
                           ELSE pc[o] \in {"idle", "refused", "done"}

\* Where the shutdown is: it copies the operations once, works on what it has
\* copied, and only a run's cancel is rolled back.
PlaceOK(s) ==
    /\ pc[s] = "idle" => snapshot = {}
    /\ pc[s] \in {"cancel", "call", "result", "rollback", "join"}
         => target[s] \in snapshot
    /\ pc[s] = "rollback" => target[s] \in Runs
    /\ pc[s] = "done" => pending = {}

\* Once it has begun nothing is admitted any more: all that it has not copied is over.
OutsideOK(s) ==
    pc[s] # "idle" => ~accepting /\ \A o \in Ops \ snapshot : Absent(o)

\* Its first pass asks every operation for its end, ...
AskedOK(s) ==
    \A o \in snapshot \ Uncancelable :
        \/ pc[s] \in {"begin", "cancel", "call"} /\ o \in pending
        \/ Asked(o)
        \/ AboutToCancel(s, o)

\* ... and its last pass waits for every end.
SeenOK(s) ==
    pc[s] \in {"collect", "join", "done"} =>
        \A o \in snapshot : \/ o \in pending \/ Over(o)
                            \/ pc[s] = "join" /\ target[s] = o

PlaceInv ==
    /\ \A s \in Shutdowners : PlaceOK(s)
    /\ snapshot # {} => \E s \in Shutdowners : pc[s] # "idle"
    /\ \A r \in snapshot \intersect Runs : status[r] # "None"
OutsideInv == \A s \in Shutdowners : OutsideOK(s)
AskedInv == \A s \in Shutdowners : AskedOK(s)
SeenInv == \A s \in Shutdowners : SeenOK(s)

RunInv == \A r \in Runs : RunOK(r)
QueryInv == \A q \in Queries : QueryOK(q)
OnceInv == \A o \in Ops : OnceOK(o)
CancelerInv == \A c \in Cancelers : CancelerOK(c)
AloneInv == \A r \in Runs : AloneOK(r)
CancelingInv == \A r \in Runs : CancelingOK(r)
CancelInv == /\ RunInv /\ QueryInv /\ OnceInv /\ CancelerInv
             /\ AloneInv /\ CancelingInv
             /\ PlaceInv /\ OutsideInv /\ AskedInv /\ SeenInv

\* The status of a run follows its submission and its worker through every step;
\* pruning unregisters ended runs only.
LEMMA RunStepInv ==
    TypeInv /\ HandOverInv /\ CancelInv /\ [Next]_vars => RunInv'
<1>. SUFFICES ASSUME TypeInv, HandOverInv, CancelInv, [Next]_vars PROVE RunInv'
  OBVIOUS
<1>. USE ThreadAssumption DEF TypeInv, TypeOK, TargetOK, HandOverInv, EarlyOK,
         Unstarted, At, Goto, notControl, allButPc, Pass, registryVars, workerVars,
         shutdownVars, controlVars, Threads, Ops, IsTerminal, TerminalStatus, CancelInv,
         RunInv, RunOK
<1>1. ASSUME NEW p \in Runs, SubmitRun(p) \/ RunStep(p) PROVE RunInv'
  <2>1. CASE SubmitRun(p)
    <3>. SUFFICES ASSUME NEW r \in Runs PROVE RunOK(r)'
      BY DEF RunInv
    <3>1. r \in Prune(runs, status) => r \in runs
      BY PruneSubset
    <3>2. r \in runs \ Prune(runs, status) => IsTerminal(r)
      BY DEF Prune
    <3>3. CASE r = p
      BY <2>1, <3>1, <3>3 DEF SubmitRun
    <3>4. CASE r # p
      BY <2>1, <3>1, <3>2, <3>4 DEF SubmitRun
    <3>. QED BY <3>3, <3>4
  <2>2. CASE StartWorker(p)
    BY <2>2 DEF StartWorker
  <2>3. CASE RemoveFailedStart(p)
    BY <2>3 DEF RemoveFailedStart
  <2>4. CASE MarkStartFailed(p, "done")
    BY <2>4 DEF MarkStartFailed
  <2>5. CASE Attach(p, "done") \/ FinishCancel(p, "attachCall", "done") \/ FailStart(p)
    BY <2>5 DEF Attach, FinishCancel, FailStart
  <2>. QED BY <1>1, <2>1, <2>2, <2>3, <2>4, <2>5 DEF RunStep
<1>2. ASSUME NEW q \in Queries, SubmitQuery(q) \/ QueryStep(q) \/ RejectOutput(q) PROVE
        RunInv'
  BY <1>2 DEF QueryStep, SubmitQuery, StartWorker, Attach, FinishCancel,
     MarkStartFailed, EndWait, BeginCancel, QueryCancelReturned, QueryJoined,
     DropRegistration, WaitForControl, RejectOutput
<1>3. ASSUME NEW c \in Cancelers, (\E p \in Runs : RequestCancel(c, p)) \/
        CancelerStep(c) PROVE RunInv'
  BY <1>3 DEF CancelerStep, RequestCancel, BeginCancel, FinishCancel, CancelReturned,
     RollbackCancel, WaitForControl, CancelerInv, CancelerOK, Engaged
<1>4. ASSUME NEW s \in Shutdowners, BeginShutdown(s) \/ ShutdownStep(s) PROVE RunInv'
  BY <1>4 DEF ShutdownStep, BeginShutdown, MarkForShutdown, Visit, SettleForShutdown,
     VisitForJoin, BeginCancel, FinishCancel, CancelReturned, RollbackCancel,
     ShutdownCancelReturned, ShutdownJoined, EndPass, WaitForControl, PlaceInv, PlaceOK
<1>5. ASSUME NEW o \in Ops, WorkerStep(o) PROVE RunInv'
  <2>1. CASE CompleteRun(o)
    BY <2>1 DEF CompleteRun
  <2>2. CASE ReleaseRun(o)
    BY <2>2 DEF ReleaseRun, Prune
  <2>3. CASE CompleteQuery(o)
    BY <2>3 DEF CompleteQuery
  <2>. QED BY <1>5, <2>1, <2>2, <2>3 DEF WorkerStep
<1>6. CASE UNCHANGED vars
  BY <1>6 DEF vars
<1>. QED BY <1>1, <1>2, <1>3, <1>4, <1>5, <1>6 DEF Next, Quiescent

\* A query is registered from its submission to its drop.
LEMMA QueryStepInv ==
    TypeInv /\ HandOverInv /\ CancelInv /\ [Next]_vars => QueryInv'
<1>. SUFFICES ASSUME TypeInv, HandOverInv, CancelInv, [Next]_vars PROVE QueryInv'
  OBVIOUS
<1>. USE ThreadAssumption DEF TypeInv, TypeOK, TargetOK, HandOverInv, EarlyOK,
         Unstarted, At, Goto, notControl, allButPc, Pass, registryVars, workerVars,
         shutdownVars, controlVars, Threads, Ops, IsTerminal, TerminalStatus, CancelInv,
         QueryInv, QueryOK
<1>1. ASSUME NEW p \in Runs, SubmitRun(p) \/ RunStep(p) PROVE QueryInv'
  BY <1>1 DEF RunStep, SubmitRun, StartWorker, Attach, FinishCancel, FailStart,
     RemoveFailedStart, MarkStartFailed
<1>2. ASSUME NEW q \in Queries, SubmitQuery(q) \/ QueryStep(q) \/ RejectOutput(q) PROVE
        QueryInv'
  BY <1>2 DEF QueryStep, SubmitQuery, StartWorker, Attach, FinishCancel,
     MarkStartFailed, EndWait, BeginCancel, QueryCancelReturned, QueryJoined,
     DropRegistration, WaitForControl, RejectOutput, OnceInv, OnceOK, Joinable
<1>3. ASSUME NEW c \in Cancelers, (\E p \in Runs : RequestCancel(c, p)) \/
        CancelerStep(c) PROVE QueryInv'
  BY <1>3 DEF CancelerStep, RequestCancel, BeginCancel, FinishCancel, CancelReturned,
     RollbackCancel, WaitForControl
<1>4. ASSUME NEW s \in Shutdowners, BeginShutdown(s) \/ ShutdownStep(s) PROVE QueryInv'
  BY <1>4 DEF ShutdownStep, BeginShutdown, MarkForShutdown, Visit, SettleForShutdown,
     VisitForJoin, BeginCancel, FinishCancel, CancelReturned, RollbackCancel,
     ShutdownCancelReturned, ShutdownJoined, EndPass, WaitForControl
<1>5. ASSUME NEW o \in Ops, WorkerStep(o) PROVE QueryInv'
  BY <1>5 DEF WorkerStep, CompleteRun, ReleaseRun, CompleteQuery
<1>6. CASE UNCHANGED vars
  BY <1>6 DEF vars
<1>. QED BY <1>1, <1>2, <1>3, <1>4, <1>5, <1>6 DEF Next, Quiescent

\* Attached with cancel_requested never leads back to a cancel: each control is
\* asked once, and the answer is a kill or an error.
LEMMA OnceStepInv ==
    TypeInv /\ HandOverInv /\ CancelInv /\ [Next]_vars => OnceInv'
<1>. SUFFICES ASSUME TypeInv, HandOverInv, CancelInv, [Next]_vars PROVE OnceInv'
  OBVIOUS
<1>. USE ThreadAssumption DEF TypeInv, TypeOK, TargetOK, HandOverInv, EarlyOK,
         Unstarted, At, Goto, notControl, allButPc, Pass, registryVars, workerVars,
         shutdownVars, controlVars, Threads, Ops, IsTerminal, TerminalStatus, CancelInv,
         OnceInv, OnceOK, CallOK, Calling
<1>1. ASSUME NEW p \in Runs, SubmitRun(p) \/ RunStep(p) PROVE OnceInv'
  BY <1>1 DEF RunStep, SubmitRun, StartWorker, Attach, FinishCancel, FailStart,
     RemoveFailedStart, MarkStartFailed
<1>2. ASSUME NEW q \in Queries, SubmitQuery(q) \/ QueryStep(q) \/ RejectOutput(q) PROVE
        OnceInv'
  BY <1>2 DEF QueryStep, SubmitQuery, StartWorker, Attach, FinishCancel,
     MarkStartFailed, EndWait, BeginCancel, QueryCancelReturned, QueryJoined,
     DropRegistration, WaitForControl, RejectOutput
<1>3. ASSUME NEW c \in Cancelers, (\E p \in Runs : RequestCancel(c, p)) \/
        CancelerStep(c) PROVE OnceInv'
  BY <1>3 DEF CancelerStep, RequestCancel, BeginCancel, FinishCancel, CancelReturned,
     RollbackCancel, WaitForControl
<1>4. ASSUME NEW s \in Shutdowners, BeginShutdown(s) \/ ShutdownStep(s) PROVE OnceInv'
  BY <1>4 DEF ShutdownStep, BeginShutdown, MarkForShutdown, Visit, SettleForShutdown,
     VisitForJoin, BeginCancel, FinishCancel, CancelReturned, RollbackCancel,
     ShutdownCancelReturned, ShutdownJoined, EndPass, WaitForControl
<1>5. ASSUME NEW o \in Ops, WorkerStep(o) PROVE OnceInv'
  BY <1>5 DEF WorkerStep, CompleteRun, ReleaseRun, CompleteQuery
<1>6. CASE UNCHANGED vars
  BY <1>6 DEF vars
<1>. QED BY <1>1, <1>2, <1>3, <1>4, <1>5, <1>6 DEF Next, Quiescent

\* A cancel request waits on what it or another has marked, and rolls back only
\* what the control refused.
LEMMA CancelerStepInv ==
    TypeInv /\ HandOverInv /\ CancelInv /\ [Next]_vars => CancelerInv'
<1>. SUFFICES ASSUME TypeInv, HandOverInv, CancelInv, [Next]_vars PROVE CancelerInv'
  OBVIOUS
<1>. USE ThreadAssumption DEF TypeInv, TypeOK, TargetOK, HandOverInv, EarlyOK,
         Unstarted, At, Goto, notControl, allButPc, Pass, registryVars, workerVars,
         shutdownVars, controlVars, Threads, Ops, IsTerminal, TerminalStatus, CancelInv,
         CancelerInv, CancelerOK, Engaged, Marked, OnceInv, OnceOK, CallOK, Calling
<1>1. ASSUME NEW p \in Runs, SubmitRun(p) \/ RunStep(p) PROVE CancelerInv'
  BY <1>1 DEF RunStep, SubmitRun, StartWorker, Attach, FinishCancel, FailStart,
     RemoveFailedStart, MarkStartFailed
<1>2. ASSUME NEW q \in Queries, SubmitQuery(q) \/ QueryStep(q) \/ RejectOutput(q) PROVE
        CancelerInv'
  BY <1>2 DEF QueryStep, SubmitQuery, StartWorker, Attach, FinishCancel,
     MarkStartFailed, EndWait, BeginCancel, QueryCancelReturned, QueryJoined,
     DropRegistration, WaitForControl, RejectOutput
<1>3. ASSUME NEW c \in Cancelers, (\E p \in Runs : RequestCancel(c, p)) \/
        CancelerStep(c) PROVE CancelerInv'
  <2>1. CASE \E p \in Runs : RequestCancel(c, p)
    BY <2>1 DEF RequestCancel, RunInv, RunOK
  <2>2. CASE BeginCancel(c, "result")
    BY <2>2 DEF BeginCancel
  <2>3. CASE FinishCancel(c, "call", "result")
    BY <2>3 DEF FinishCancel
  <2>4. CASE CancelReturned(c, "done")
    BY <2>4 DEF CancelReturned, CancelUnsettled, CancelSucceeded, Control
  <2>5. CASE RollbackCancel(c, "refused") \/ WaitForControl(c)
    BY <2>5 DEF RollbackCancel, WaitForControl
  <2>. QED BY <1>3, <2>1, <2>2, <2>3, <2>4, <2>5 DEF CancelerStep
<1>4. ASSUME NEW s \in Shutdowners, BeginShutdown(s) \/ ShutdownStep(s) PROVE
        CancelerInv'
  BY <1>4 DEF ShutdownStep, BeginShutdown, MarkForShutdown, Visit, SettleForShutdown,
     VisitForJoin, BeginCancel, FinishCancel, CancelReturned, RollbackCancel,
     ShutdownCancelReturned, ShutdownJoined, EndPass, WaitForControl, RunInv, RunOK, 
     PlaceInv
<1>5. ASSUME NEW o \in Ops, WorkerStep(o) PROVE CancelerInv'
  BY <1>5 DEF WorkerStep, CompleteRun, ReleaseRun, CompleteQuery
<1>6. CASE UNCHANGED vars
  BY <1>6 DEF vars
<1>. QED BY <1>1, <1>2, <1>3, <1>4, <1>5, <1>6 DEF Next, Quiescent

\* Outside a shutdown the status Canceling keeps other requests from a run, until
\* a refused cancel is taken back.
LEMMA AloneStepInv ==
    TypeInv /\ HandOverInv /\ CancelInv /\ [Next]_vars => AloneInv'
<1>. SUFFICES ASSUME TypeInv, HandOverInv, CancelInv, [Next]_vars PROVE AloneInv'
  OBVIOUS
<1>. USE ThreadAssumption DEF TypeInv, TypeOK, TargetOK, HandOverInv, EarlyOK,
         Unstarted, At, Goto, notControl, allButPc, Pass, registryVars, workerVars,
         shutdownVars, controlVars, Threads, Ops, IsTerminal, TerminalStatus, CancelInv,
         AloneInv, AloneOK, CancelerInv, CancelerOK, Engaged, OnceInv, OnceOK, RunInv,
         RunOK, PlaceInv, PlaceOK, CallOK, Calling
<1>1. ASSUME NEW p \in Runs, SubmitRun(p) \/ RunStep(p) PROVE AloneInv'
  <2>1. CASE SubmitRun(p)
    BY <2>1 DEF SubmitRun
  <2>2. CASE FinishCancel(p, "attachCall", "done")
    BY <2>2 DEF FinishCancel
  <2>3. CASE StartWorker(p) \/ Attach(p, "done") \/ FailStart(p) \/ RemoveFailedStart(p)
           \/ MarkStartFailed(p, "done")
    BY <2>3 DEF StartWorker, Attach, FailStart, RemoveFailedStart, MarkStartFailed
  <2>. QED BY <1>1, <2>1, <2>2, <2>3 DEF RunStep
<1>2. ASSUME NEW q \in Queries, SubmitQuery(q) \/ QueryStep(q) \/ RejectOutput(q) PROVE
        AloneInv'
  <2>1. CASE FinishCancel(q, "attachCall", "wait")
    BY <2>1 DEF FinishCancel
  <2>2. CASE FinishCancel(q, "call", "result")
    BY <2>2 DEF FinishCancel
  <2>3. CASE BeginCancel(q, "result")
    BY <2>3 DEF BeginCancel
  <2>4. CASE SubmitQuery(q) \/ StartWorker(q) \/ Attach(q, "wait") \/ MarkStartFailed(q,
           "drop") \/ EndWait(q) \/ QueryCancelReturned(q) \/ QueryJoined(q) \/
           DropRegistration(q) \/ WaitForControl(q) \/ RejectOutput(q)
    BY <2>4 DEF SubmitQuery, StartWorker, Attach, MarkStartFailed, EndWait,
       QueryCancelReturned, QueryJoined, DropRegistration, WaitForControl, RejectOutput
  <2>. QED BY <1>2, <2>1, <2>2, <2>3, <2>4 DEF QueryStep
<1>3. ASSUME NEW c \in Cancelers, (\E p \in Runs : RequestCancel(c, p)) \/
        CancelerStep(c) PROVE AloneInv'
  <2>1. CASE \E p \in Runs : RequestCancel(c, p)
    BY <2>1 DEF RequestCancel
  <2>2. CASE BeginCancel(c, "result")
    BY <2>2 DEF BeginCancel
  <2>3. CASE FinishCancel(c, "call", "result")
    BY <2>3 DEF FinishCancel
  <2>4. CASE CancelReturned(c, "done")
    BY <2>4 DEF CancelReturned
  <2>5. CASE RollbackCancel(c, "refused")
    BY <2>5 DEF RollbackCancel
  <2>6. CASE WaitForControl(c)
    BY <2>6 DEF WaitForControl
  <2>. QED BY <1>3, <2>1, <2>2, <2>3, <2>4, <2>5, <2>6 DEF CancelerStep
<1>4. ASSUME NEW s \in Shutdowners, BeginShutdown(s) \/ ShutdownStep(s) PROVE AloneInv'
  <2>1. CASE BeginShutdown(s)
    BY <2>1 DEF BeginShutdown
  <2>2. CASE \E o \in Ops : MarkForShutdown(s, o)
    BY <2>2 DEF MarkForShutdown, Visit
  <2>3. CASE BeginCancel(s, "begin")
    BY <2>3 DEF BeginCancel
  <2>4. CASE FinishCancel(s, "call", "begin")
    BY <2>4 DEF FinishCancel
  <2>5. CASE target[s] \in Runs /\ CancelReturned(s, "finish")
    BY <2>5 DEF CancelReturned
  <2>6. CASE RollbackCancel(s, "finish")
    BY <2>6 DEF RollbackCancel
  <2>7. CASE (\E o \in Ops : SettleForShutdown(s, o)) \/ (\E o \in Ops : VisitForJoin(s,
           o)) \/ ShutdownCancelReturned(s) \/ ShutdownJoined(s) \/ EndPass(s, "begin",
           "finish") \/ EndPass(s, "finish", "collect") \/ EndPass(s, "collect", "done")
           \/ WaitForControl(s)
    BY <2>7 DEF SettleForShutdown, Visit, VisitForJoin, ShutdownCancelReturned,
       ShutdownJoined, EndPass, WaitForControl
  <2>. QED BY <1>4, <2>1, <2>2, <2>3, <2>4, <2>5, <2>6, <2>7 DEF ShutdownStep
<1>5. ASSUME NEW o \in Ops, WorkerStep(o) PROVE AloneInv'
  <2>1. CASE CompleteRun(o)
    BY <2>1 DEF CompleteRun
  <2>2. CASE ReleaseRun(o) \/ CompleteQuery(o)
    BY <2>2 DEF ReleaseRun, CompleteQuery
  <2>. QED BY <1>5, <2>1, <2>2 DEF WorkerStep
<1>6. CASE UNCHANGED vars
  BY <1>6 DEF vars
<1>. QED BY <1>1, <1>2, <1>3, <1>4, <1>5, <1>6 DEF Next, Quiescent

\* begin_cancel leaves a mark on the control of a run that was made Canceling.
LEMMA CancelingStepInv ==
    TypeInv /\ HandOverInv /\ CancelInv /\ [Next]_vars => CancelingInv'
<1>. SUFFICES ASSUME TypeInv, HandOverInv, CancelInv, [Next]_vars PROVE CancelingInv'
  OBVIOUS
<1>. USE ThreadAssumption DEF TypeInv, TypeOK, TargetOK, HandOverInv, EarlyOK,
         Unstarted, At, Goto, notControl, allButPc, Pass, registryVars, workerVars,
         shutdownVars, controlVars, Threads, Ops, IsTerminal, TerminalStatus, CancelInv,
         CancelingInv, CancelingOK, Marked, AboutToCancel, OnceInv, OnceOK, CallOK,
         Calling, Control
<1>1. ASSUME NEW p \in Runs, SubmitRun(p) \/ RunStep(p) PROVE CancelingInv'
  <2>1. CASE Attach(p, "done")
    BY <2>1 DEF Attach
  <2>2. CASE FinishCancel(p, "attachCall", "done")
    BY <2>2 DEF FinishCancel
  <2>3. CASE SubmitRun(p) \/ StartWorker(p) \/ FailStart(p) \/ RemoveFailedStart(p) \/
           MarkStartFailed(p, "done")
    BY <2>3 DEF SubmitRun, StartWorker, FailStart, RemoveFailedStart, MarkStartFailed
  <2>. QED BY <1>1, <2>1, <2>2, <2>3 DEF RunStep
<1>2. ASSUME NEW q \in Queries, SubmitQuery(q) \/ QueryStep(q) \/ RejectOutput(q) PROVE
        CancelingInv'
  <2>1. CASE FinishCancel(q, "attachCall", "wait")
    BY <2>1 DEF FinishCancel
  <2>2. CASE BeginCancel(q, "result")
    BY <2>2 DEF BeginCancel
  <2>3. CASE FinishCancel(q, "call", "result")
    BY <2>3 DEF FinishCancel
  <2>4. CASE SubmitQuery(q) \/ StartWorker(q) \/ Attach(q, "wait") \/ MarkStartFailed(q,
           "drop") \/ EndWait(q) \/ QueryCancelReturned(q) \/ QueryJoined(q) \/
           DropRegistration(q) \/ WaitForControl(q) \/ RejectOutput(q)
    BY <2>4 DEF SubmitQuery, StartWorker, Attach, MarkStartFailed, EndWait,
       QueryCancelReturned, QueryJoined, DropRegistration, WaitForControl, RejectOutput
  <2>. QED BY <1>2, <2>1, <2>2, <2>3, <2>4 DEF QueryStep
<1>3. ASSUME NEW c \in Cancelers, (\E p \in Runs : RequestCancel(c, p)) \/
        CancelerStep(c) PROVE CancelingInv'
  <2>1. CASE \E p \in Runs : RequestCancel(c, p)
    BY <2>1 DEF RequestCancel
  <2>2. CASE BeginCancel(c, "result")
    BY <2>2 DEF BeginCancel
  <2>3. CASE FinishCancel(c, "call", "result")
    BY <2>3 DEF FinishCancel
  <2>4. CASE CancelReturned(c, "done") \/ RollbackCancel(c, "refused") \/
           WaitForControl(c)
    BY <2>4 DEF CancelReturned, RollbackCancel, WaitForControl
  <2>. QED BY <1>3, <2>1, <2>2, <2>3, <2>4 DEF CancelerStep
<1>4. ASSUME NEW s \in Shutdowners, BeginShutdown(s) \/ ShutdownStep(s) PROVE
        CancelingInv'
  <2>1. CASE BeginShutdown(s)
    BY <2>1 DEF BeginShutdown
  <2>2. CASE \E o \in Ops : MarkForShutdown(s, o)
    BY <2>2 DEF MarkForShutdown, Visit
  <2>3. CASE BeginCancel(s, "begin")
    BY <2>3 DEF BeginCancel
  <2>4. CASE FinishCancel(s, "call", "begin")
    BY <2>4 DEF FinishCancel
  <2>5. CASE (\E o \in Ops : SettleForShutdown(s, o)) \/ (\E o \in Ops : VisitForJoin(s,
           o)) \/ (target[s] \in Runs /\ CancelReturned(s, "finish")) \/
           RollbackCancel(s, "finish") \/ ShutdownCancelReturned(s) \/ ShutdownJoined(s)
           \/ EndPass(s, "begin", "finish") \/ EndPass(s, "finish", "collect") \/
           EndPass(s, "collect", "done") \/ WaitForControl(s)
    BY <2>5 DEF SettleForShutdown, Visit, VisitForJoin, CancelReturned, RollbackCancel,
       ShutdownCancelReturned, ShutdownJoined, EndPass, WaitForControl
  <2>. QED BY <1>4, <2>1, <2>2, <2>3, <2>4, <2>5 DEF ShutdownStep
<1>5. ASSUME NEW o \in Ops, WorkerStep(o) PROVE CancelingInv'
  <2>1. CASE CompleteRun(o)
    BY <2>1 DEF CompleteRun
  <2>2. CASE ReleaseRun(o) \/ CompleteQuery(o)
    BY <2>2 DEF ReleaseRun, CompleteQuery
  <2>. QED BY <1>5, <2>1, <2>2 DEF WorkerStep
<1>6. CASE UNCHANGED vars
  BY <1>6 DEF vars
<1>. QED BY <1>1, <1>2, <1>3, <1>4, <1>5, <1>6 DEF Next, Quiescent

\* The places of the shutdown in its passes.
LEMMA PlaceStepInv ==
    TypeInv /\ HandOverInv /\ CancelInv /\ [Next]_vars => PlaceInv'
<1>. SUFFICES ASSUME TypeInv, HandOverInv, CancelInv, [Next]_vars PROVE PlaceInv'
  OBVIOUS
<1>. USE ThreadAssumption DEF TypeInv, TypeOK, TargetOK, HandOverInv, EarlyOK,
         Unstarted, At, Goto, notControl, allButPc, Pass, registryVars, workerVars,
         shutdownVars, controlVars, Threads, Ops, IsTerminal, TerminalStatus, CancelInv,
         PlaceInv, PlaceOK
<1>1. ASSUME NEW p \in Runs, SubmitRun(p) \/ RunStep(p) PROVE PlaceInv'
  BY <1>1 DEF RunStep, SubmitRun, StartWorker, Attach, FinishCancel, FailStart,
     RemoveFailedStart, MarkStartFailed
<1>2. ASSUME NEW q \in Queries, SubmitQuery(q) \/ QueryStep(q) \/ RejectOutput(q) PROVE
        PlaceInv'
  BY <1>2 DEF QueryStep, SubmitQuery, StartWorker, Attach, FinishCancel,
     MarkStartFailed, EndWait, BeginCancel, QueryCancelReturned, QueryJoined,
     DropRegistration, WaitForControl, RejectOutput
<1>3. ASSUME NEW c \in Cancelers, (\E p \in Runs : RequestCancel(c, p)) \/
        CancelerStep(c) PROVE PlaceInv'
  BY <1>3 DEF CancelerStep, RequestCancel, BeginCancel, FinishCancel, CancelReturned,
     RollbackCancel, WaitForControl
<1>4. ASSUME NEW s \in Shutdowners, BeginShutdown(s) \/ ShutdownStep(s) PROVE PlaceInv'
  <2>1. CASE BeginShutdown(s)
    BY <2>1 DEF BeginShutdown, RunInv, RunOK
  <2>2. CASE \E o \in Ops : MarkForShutdown(s, o)
    BY <2>2 DEF MarkForShutdown, Visit
  <2>3. CASE \E o \in Ops : SettleForShutdown(s, o)
    BY <2>3 DEF SettleForShutdown, Visit
  <2>4. CASE \E o \in Ops : VisitForJoin(s, o)
    BY <2>4 DEF VisitForJoin, Visit
  <2>5. CASE BeginCancel(s, "begin") \/ FinishCancel(s, "call", "begin") \/ (target[s]
           \in Runs /\ CancelReturned(s, "finish"))
    BY <2>5 DEF BeginCancel, FinishCancel, CancelReturned
  <2>6. CASE RollbackCancel(s, "finish") \/ ShutdownCancelReturned(s) \/
           ShutdownJoined(s)
    BY <2>6 DEF RollbackCancel, ShutdownCancelReturned, ShutdownJoined
  <2>7. CASE EndPass(s, "begin", "finish") \/ EndPass(s, "finish", "collect") \/
           EndPass(s, "collect", "done") \/ WaitForControl(s)
    BY <2>7 DEF EndPass, WaitForControl
  <2>. QED BY <1>4, <2>1, <2>2, <2>3, <2>4, <2>5, <2>6, <2>7 DEF ShutdownStep
<1>5. ASSUME NEW o \in Ops, WorkerStep(o) PROVE PlaceInv'
  BY <1>5 DEF WorkerStep, CompleteRun, ReleaseRun, CompleteQuery
<1>6. CASE UNCHANGED vars
  BY <1>6 DEF vars
<1>. QED BY <1>1, <1>2, <1>3, <1>4, <1>5, <1>6 DEF Next, Quiescent

\* Nothing is admitted after the shutdown began.
LEMMA OutsideStepInv ==
    TypeInv /\ HandOverInv /\ CancelInv /\ [Next]_vars => OutsideInv'
<1>. SUFFICES ASSUME TypeInv, HandOverInv, CancelInv, [Next]_vars PROVE OutsideInv'
  OBVIOUS
<1>. USE ThreadAssumption DEF TypeInv, TypeOK, TargetOK, HandOverInv, EarlyOK,
         Unstarted, At, Goto, notControl, allButPc, Pass, registryVars, workerVars,
         shutdownVars, controlVars, Threads, Ops, IsTerminal, TerminalStatus, CancelInv,
         OutsideInv, OutsideOK, Absent
<1>1. ASSUME NEW p \in Runs, SubmitRun(p) \/ RunStep(p) PROVE OutsideInv'
  <2>1. CASE SubmitRun(p)
    BY <2>1 DEF SubmitRun, MayReserve
  <2>2. CASE FinishCancel(p, "attachCall", "done") \/ MarkStartFailed(p, "done")
    BY <2>2 DEF FinishCancel, MarkStartFailed
  <2>3. CASE StartWorker(p) \/ Attach(p, "done") \/ FailStart(p) \/ RemoveFailedStart(p)
    BY <2>3 DEF StartWorker, Attach, FailStart, RemoveFailedStart
  <2>. QED BY <1>1, <2>1, <2>2, <2>3 DEF RunStep
<1>2. ASSUME NEW q \in Queries, SubmitQuery(q) \/ QueryStep(q) \/ RejectOutput(q) PROVE
        OutsideInv'
  <2>1. CASE SubmitQuery(q)
    BY <2>1 DEF SubmitQuery, MayReserve
  <2>2. CASE StartWorker(q) \/ Attach(q, "wait") \/ FinishCancel(q, "attachCall",
           "wait") \/ MarkStartFailed(q, "drop") \/ EndWait(q) \/ BeginCancel(q,
           "result") \/ FinishCancel(q, "call", "result") \/ QueryCancelReturned(q) \/
           QueryJoined(q) \/ DropRegistration(q) \/ WaitForControl(q) \/ RejectOutput(q)
    BY <2>2 DEF StartWorker, Attach, FinishCancel, MarkStartFailed, EndWait,
       BeginCancel, QueryCancelReturned, QueryJoined, DropRegistration, WaitForControl,
       RejectOutput
  <2>. QED BY <1>2, <2>1, <2>2 DEF QueryStep
<1>3. ASSUME NEW c \in Cancelers, (\E p \in Runs : RequestCancel(c, p)) \/
        CancelerStep(c) PROVE OutsideInv'
  BY <1>3 DEF CancelerStep, RequestCancel, BeginCancel, FinishCancel, CancelReturned,
     RollbackCancel, WaitForControl
<1>4. ASSUME NEW s \in Shutdowners, BeginShutdown(s) \/ ShutdownStep(s) PROVE
        OutsideInv'
  <2>1. CASE BeginShutdown(s)
    BY <2>1 DEF BeginShutdown, RunInv, RunOK, QueryInv, QueryOK
  <2>2. CASE \E o \in Ops : MarkForShutdown(s, o)
    BY <2>2 DEF MarkForShutdown, Visit
  <2>3. CASE (\E o \in Ops : SettleForShutdown(s, o)) \/ (\E o \in Ops : VisitForJoin(s,
           o)) \/ BeginCancel(s, "begin") \/ FinishCancel(s, "call", "begin") \/
           (target[s] \in Runs /\ CancelReturned(s, "finish")) \/ RollbackCancel(s,
           "finish") \/ ShutdownCancelReturned(s) \/ ShutdownJoined(s) \/ EndPass(s,
           "begin", "finish") \/ EndPass(s, "finish", "collect") \/ EndPass(s,
           "collect", "done") \/ WaitForControl(s)
    BY <2>3 DEF SettleForShutdown, Visit, VisitForJoin, BeginCancel, FinishCancel,
       CancelReturned, RollbackCancel, ShutdownCancelReturned, ShutdownJoined, EndPass,
       WaitForControl
  <2>. QED BY <1>4, <2>1, <2>2, <2>3 DEF ShutdownStep
<1>5. ASSUME NEW o \in Ops, WorkerStep(o) PROVE OutsideInv'
  <2>1. CASE CompleteRun(o)
    BY <2>1 DEF CompleteRun
  <2>2. CASE ReleaseRun(o) \/ CompleteQuery(o)
    BY <2>2 DEF ReleaseRun, CompleteQuery
  <2>. QED BY <1>5, <2>1, <2>2 DEF WorkerStep
<1>6. CASE UNCHANGED vars
  BY <1>6 DEF vars
<1>. QED BY <1>1, <1>2, <1>3, <1>4, <1>5, <1>6 DEF Next, Quiescent

\* The first pass leaves no cancelable operation unmarked.
LEMMA AskedStepInv ==
    TypeInv /\ HandOverInv /\ CancelInv /\ [Next]_vars => AskedInv'
<1>. SUFFICES ASSUME TypeInv, HandOverInv, CancelInv, [Next]_vars PROVE AskedInv'
  OBVIOUS
<1>. USE ThreadAssumption DEF TypeInv, TypeOK, TargetOK, HandOverInv, EarlyOK,
         Unstarted, At, Goto, notControl, allButPc, Pass, registryVars, workerVars,
         shutdownVars, controlVars, Threads, Ops, IsTerminal, TerminalStatus, CancelInv,
         AskedInv, AskedOK, Asked, Marked, AboutToCancel, PlaceInv, PlaceOK, CallOK,
         Calling, OnceInv, OnceOK, Control
<1>1. ASSUME NEW p \in Runs, SubmitRun(p) \/ RunStep(p) PROVE AskedInv'
  <2>1. CASE SubmitRun(p)
    BY <2>1 DEF SubmitRun
  <2>2. CASE Attach(p, "done")
    BY <2>2 DEF Attach
  <2>3. CASE FinishCancel(p, "attachCall", "done")
    BY <2>3 DEF FinishCancel
  <2>4. CASE MarkStartFailed(p, "done")
    BY <2>4 DEF MarkStartFailed
  <2>5. CASE StartWorker(p) \/ FailStart(p) \/ RemoveFailedStart(p)
    BY <2>5 DEF StartWorker, FailStart, RemoveFailedStart
  <2>. QED BY <1>1, <2>1, <2>2, <2>3, <2>4, <2>5 DEF RunStep
<1>2. ASSUME NEW q \in Queries, SubmitQuery(q) \/ QueryStep(q) \/ RejectOutput(q) PROVE
        AskedInv'
  <2>1. CASE FinishCancel(q, "attachCall", "wait")
    BY <2>1 DEF FinishCancel
  <2>2. CASE BeginCancel(q, "result")
    BY <2>2 DEF BeginCancel
  <2>3. CASE FinishCancel(q, "call", "result")
    BY <2>3 DEF FinishCancel
  <2>4. CASE SubmitQuery(q) \/ StartWorker(q) \/ Attach(q, "wait") \/ MarkStartFailed(q,
           "drop") \/ EndWait(q) \/ QueryCancelReturned(q) \/ QueryJoined(q) \/
           DropRegistration(q) \/ WaitForControl(q) \/ RejectOutput(q)
    BY <2>4 DEF SubmitQuery, StartWorker, Attach, MarkStartFailed, EndWait,
       QueryCancelReturned, QueryJoined, DropRegistration, WaitForControl, RejectOutput
  <2>. QED BY <1>2, <2>1, <2>2, <2>3, <2>4 DEF QueryStep
<1>3. ASSUME NEW c \in Cancelers, (\E p \in Runs : RequestCancel(c, p)) \/
        CancelerStep(c) PROVE AskedInv'
  <2>1. CASE \E p \in Runs : RequestCancel(c, p)
    BY <2>1 DEF RequestCancel
  <2>2. CASE BeginCancel(c, "result")
    BY <2>2 DEF BeginCancel
  <2>3. CASE FinishCancel(c, "call", "result")
    BY <2>3 DEF FinishCancel
  <2>4. CASE RollbackCancel(c, "refused")
    BY <2>4 DEF RollbackCancel
  <2>5. CASE CancelReturned(c, "done") \/ WaitForControl(c)
    BY <2>5 DEF CancelReturned, WaitForControl
  <2>. QED BY <1>3, <2>1, <2>2, <2>3, <2>4, <2>5 DEF CancelerStep
<1>4. ASSUME NEW s \in Shutdowners, BeginShutdown(s) \/ ShutdownStep(s) PROVE AskedInv'
  <2>1. CASE BeginShutdown(s)
    BY <2>1 DEF BeginShutdown
  <2>2. CASE \E o \in Ops : MarkForShutdown(s, o)
    <3>1. PICK o \in Ops : MarkForShutdown(s, o)
      BY <2>2
    <3>. SUFFICES ASSUME NEW x \in snapshot \ Uncancelable
                  PROVE  \/ pc'[s] \in {"begin", "cancel", "call"} /\ x \in pending'
                         \/ Asked(x)' \/ AboutToCancel(s, x)'
      BY <3>1 DEF MarkForShutdown, Visit
    <3>2. CASE x # o
      BY <3>1, <3>2 DEF MarkForShutdown, Visit
    <3>3. CASE x = o /\ o \in Queries
      BY <3>1, <3>3 DEF MarkForShutdown, Visit, Cancelable
    <3>4. CASE x = o /\ o \in Runs
      <4>1. CASE status[o] = "Running"
        BY <3>1, <3>4, <4>1 DEF MarkForShutdown, Visit, Cancelable
      <4>2. CASE status[o] # "Running"
        BY <3>1, <3>4, <4>2
           DEF MarkForShutdown, Visit, CancelingInv, CancelingOK, Status
      <4>. QED BY <4>1, <4>2
    <3>. QED BY <3>2, <3>3, <3>4
  <2>3. CASE \E o \in Ops : SettleForShutdown(s, o)
    BY <2>3 DEF SettleForShutdown, Visit
  <2>4. CASE \E o \in Ops : VisitForJoin(s, o)
    BY <2>4 DEF VisitForJoin, Visit
  <2>5. CASE BeginCancel(s, "begin")
    BY <2>5 DEF BeginCancel
  <2>6. CASE FinishCancel(s, "call", "begin")
    BY <2>6 DEF FinishCancel
  <2>7. CASE RollbackCancel(s, "finish")
    BY <2>7 DEF RollbackCancel
  <2>8. CASE EndPass(s, "begin", "finish")
    BY <2>8 DEF EndPass
  <2>9. CASE (target[s] \in Runs /\ CancelReturned(s, "finish")) \/
           ShutdownCancelReturned(s) \/ ShutdownJoined(s) \/ EndPass(s, "finish",
           "collect") \/ EndPass(s, "collect", "done") \/ WaitForControl(s)
    BY <2>9 DEF CancelReturned, ShutdownCancelReturned, ShutdownJoined, EndPass,
       WaitForControl
  <2>. QED BY <1>4, <2>1, <2>2, <2>3, <2>4, <2>5, <2>6, <2>7, <2>8, <2>9 DEF
           ShutdownStep
<1>5. ASSUME NEW o \in Ops, WorkerStep(o) PROVE AskedInv'
  <2>1. CASE CompleteRun(o)
    BY <2>1 DEF CompleteRun
  <2>2. CASE ReleaseRun(o) \/ CompleteQuery(o)
    BY <2>2 DEF ReleaseRun, CompleteQuery
  <2>. QED BY <1>5, <2>1, <2>2 DEF WorkerStep
<1>6. CASE UNCHANGED vars
  BY <1>6 DEF vars
<1>. QED BY <1>1, <1>2, <1>3, <1>4, <1>5, <1>6 DEF Next, Quiescent

\* The last pass goes on from an operation only when that is over.
LEMMA SeenStepInv ==
    TypeInv /\ HandOverInv /\ CancelInv /\ [Next]_vars => SeenInv'
<1>. SUFFICES ASSUME TypeInv, HandOverInv, CancelInv, [Next]_vars PROVE SeenInv'
  OBVIOUS
<1>. USE ThreadAssumption DEF TypeInv, TypeOK, TargetOK, HandOverInv, EarlyOK,
         Unstarted, At, Goto, notControl, allButPc, Pass, registryVars, workerVars,
         shutdownVars, controlVars, Threads, Ops, IsTerminal, TerminalStatus, CancelInv,
         SeenInv, SeenOK, Over, PlaceInv, PlaceOK, CallOK, Calling, OnceInv, OnceOK
<1>1. ASSUME NEW p \in Runs, SubmitRun(p) \/ RunStep(p) PROVE SeenInv'
  <2>1. CASE StartWorker(p)
    BY <2>1 DEF StartWorker
  <2>2. CASE Attach(p, "done")
    BY <2>2 DEF Attach
  <2>3. CASE FinishCancel(p, "attachCall", "done")
    BY <2>3 DEF FinishCancel
  <2>4. CASE SubmitRun(p) \/ FailStart(p) \/ RemoveFailedStart(p) \/ MarkStartFailed(p,
           "done")
    BY <2>4 DEF SubmitRun, FailStart, RemoveFailedStart, MarkStartFailed
  <2>. QED BY <1>1, <2>1, <2>2, <2>3, <2>4 DEF RunStep
<1>2. ASSUME NEW q \in Queries, SubmitQuery(q) \/ QueryStep(q) \/ RejectOutput(q) PROVE
        SeenInv'
  BY <1>2 DEF QueryStep, SubmitQuery, StartWorker, Attach, FinishCancel,
     MarkStartFailed, EndWait, BeginCancel, QueryCancelReturned, QueryJoined,
     DropRegistration, WaitForControl, RejectOutput
<1>3. ASSUME NEW c \in Cancelers, (\E p \in Runs : RequestCancel(c, p)) \/
        CancelerStep(c) PROVE SeenInv'
  BY <1>3 DEF CancelerStep, RequestCancel, BeginCancel, FinishCancel, CancelReturned,
     RollbackCancel, WaitForControl
<1>4. ASSUME NEW s \in Shutdowners, BeginShutdown(s) \/ ShutdownStep(s) PROVE SeenInv'
  <2>1. CASE BeginShutdown(s)
    BY <2>1 DEF BeginShutdown
  <2>2. CASE \E o \in Ops : MarkForShutdown(s, o)
    BY <2>2 DEF MarkForShutdown, Visit
  <2>3. CASE \E o \in Ops : SettleForShutdown(s, o)
    BY <2>3 DEF SettleForShutdown, Visit
  <2>4. CASE \E o \in Ops : VisitForJoin(s, o)
    BY <2>4 DEF VisitForJoin, Visit
  <2>5. CASE BeginCancel(s, "begin") \/ FinishCancel(s, "call", "begin")
    BY <2>5 DEF BeginCancel, FinishCancel
  <2>6. CASE ShutdownJoined(s)
    BY <2>6 DEF ShutdownJoined, Joinable
  <2>7. CASE EndPass(s, "begin", "finish") \/ EndPass(s, "finish", "collect") \/
           EndPass(s, "collect", "done")
    BY <2>7 DEF EndPass
  <2>8. CASE (target[s] \in Runs /\ CancelReturned(s, "finish")) \/ RollbackCancel(s,
           "finish") \/ ShutdownCancelReturned(s) \/ WaitForControl(s)
    BY <2>8 DEF CancelReturned, RollbackCancel, ShutdownCancelReturned, WaitForControl
  <2>. QED BY <1>4, <2>1, <2>2, <2>3, <2>4, <2>5, <2>6, <2>7, <2>8 DEF ShutdownStep
<1>5. ASSUME NEW o \in Ops, WorkerStep(o) PROVE SeenInv'
  BY <1>5 DEF WorkerStep, CompleteRun, ReleaseRun, CompleteQuery
<1>6. CASE UNCHANGED vars
  BY <1>6 DEF vars
<1>. QED BY <1>1, <1>2, <1>3, <1>4, <1>5, <1>6 DEF Next, Quiescent

LEMMA InitCancelInv == Init => CancelInv
<1>. SUFFICES ASSUME Init PROVE CancelInv
  OBVIOUS
<1>. USE ThreadAssumption
     DEF Init, Threads, Ops, IsTerminal, TerminalStatus, Marked, AboutToCancel
<1>1. RunInv /\ QueryInv /\ OnceInv
  BY DEF RunInv, RunOK, QueryInv, QueryOK, OnceInv, OnceOK
<1>2. CancelerInv /\ AloneInv /\ CancelingInv
  BY DEF CancelerInv, CancelerOK, AloneInv, AloneOK, Engaged, CancelingInv, CancelingOK
<1>3. PlaceInv /\ OutsideInv /\ AskedInv /\ SeenInv
  BY DEF PlaceInv, PlaceOK, OutsideInv, OutsideOK, AskedInv, AskedOK, SeenInv, SeenOK
<1>. QED BY <1>1, <1>2, <1>3 DEF CancelInv

\* What the operations, the cancel requests and the shutdown know of each other.
THEOREM CancelCorrect == Spec => [](TypeInv /\ HandOverInv /\ CancelInv)
<1>1. Init => CancelInv
  BY InitCancelInv
<1>2. TypeInv /\ HandOverInv /\ CancelInv /\ [Next]_vars => CancelInv'
  BY RunStepInv, QueryStepInv, OnceStepInv, CancelerStepInv, AloneStepInv,
     CancelingStepInv, PlaceStepInv, OutsideStepInv, AskedStepInv, SeenStepInv
     DEF CancelInv
<1>. QED BY <1>1, <1>2, HandOverCorrect, PTL DEF Spec

\* A run whose process control accepted a cancel is not reported as Exited unless
\* the shutdown took part, and when the shutdown returns nothing is left: no
\* worker runs, no run is unfinished and nothing is still to be started.
THEOREM EndingsAreTrue == Spec => []RegistrySafety
<1>1. TypeInv /\ HandOverInv /\ CancelInv => RegistrySafety
  <2>. SUFFICES ASSUME TypeInv, HandOverInv, CancelInv
                PROVE  KilledIsNotExited /\ NothingOutlivesShutdown
    BY DEF TypeInv, RegistrySafety
  <2>1. KilledIsNotExited
    BY DEF KilledIsNotExited, CancelInv, AloneInv, AloneOK
  <2>2. ASSUME NEW s \in Shutdowners, pc[s] = "done", NEW o \in Ops
        PROVE  /\ worker[o] # "running" /\ pc[o] # "start"
               /\ o \in Runs => status[o] = "None" \/ IsTerminal(o)
    <3>. USE <2>2 DEF CancelInv
    <3>1. pending = {} /\ (o \in snapshot => Over(o)) /\ (o \notin snapshot => Absent(o))
      BY DEF PlaceInv, PlaceOK, SeenInv, SeenOK, OutsideInv, OutsideOK
    <3>2. CASE o \in snapshot
      BY <3>1, <3>2
         DEF Over, HandOverInv, EarlyOK, Unstarted, OnceInv, OnceOK, RunInv, RunOK, TypeInv,
             TypeOK
    <3>3. CASE o \notin snapshot
      BY <3>1, <3>3
         DEF Absent, HandOverInv, EarlyOK, Unstarted, RunInv, RunOK, QueryInv, QueryOK,
             IsTerminal, TerminalStatus, Ops
    <3>. QED BY <3>2, <3>3
  <2>. QED BY <2>1, <2>2 DEF NothingOutlivesShutdown, Ops
<1>. QED BY <1>1, CancelCorrect, PTL

\* Before the second pass of the shutdown waits for any operation, every one that
\* can be canceled has been asked to, or has ended.
THEOREM ShutdownAsksAll == Spec => []ShutdownMarksAll
<1>1. CancelInv => ShutdownMarksAll
  BY DEF CancelInv, AskedInv, AskedOK, Asked, AboutToCancel, ShutdownMarksAll
<1>. QED BY <1>1, CancelCorrect, PTL

---------------------------------------------------------------------------
(* Slots *)

\* As long as no more runs have ended than are kept, every slot counted is held,
\* and every run that holds one is registered.
Ended == {r \in Runs : IsTerminal(r)}
Exact == /\ active = Cardinality(Holders)
         /\ \A r \in Runs : RunHolds(r) => r \in runs
SlotsInv == Cardinality(Ended) <= MaxTerminal => Exact

LEMMA EndedFinite == IsFiniteSet(Ended) /\ Cardinality(Ended) \in Nat
<1>1. Ended \subseteq Ops
  BY DEF Ended, Ops
<1>. QED BY <1>1, ThreadAssumption, FS_Subset, FS_CardinalityType

\* Pruning keeps everything while the ended runs are not too many: those behind a
\* run that has ended are fewer than all that have.
LEMMA NothingPruned ==
    ASSUME TypeInv, Cardinality(Ended) <= MaxTerminal
    PROVE  Prune(runs, status) = runs
<1>. SUFFICES ASSUME NEW r \in runs, status[r] \in TerminalStatus
              PROVE  Cardinality({q \in runs : /\ status[q] \in TerminalStatus
                                               /\ born[q] > born[r]}) < MaxTerminal
  BY DEF Prune
<1>. DEFINE L == {q \in runs : status[q] \in TerminalStatus /\ born[q] > born[r]}
<1>1. L \subseteq Ended \ {r} /\ r \in Ended
  BY DEF Ended, IsTerminal, TypeInv, TypeOK
<1>2. IsFiniteSet(Ended \ {r}) /\ Cardinality(Ended \ {r}) = Cardinality(Ended) - 1
  BY <1>1, EndedFinite, FS_RemoveElement
<1>3. IsFiniteSet(L) /\ Cardinality(L) <= Cardinality(Ended \ {r})
  BY <1>1, <1>2, FS_Subset
<1>4. Cardinality(L) \in Nat
  BY <1>3, FS_CardinalityType
<1>. QED BY <1>2, <1>3, <1>4, EndedFinite, LimitAssumption

\* An ended run stays one.
LEMMA EndedGrows ==
    ASSUME TypeInv, HandOverInv, [Next]_vars
    PROVE  Cardinality(Ended) <= Cardinality(Ended')
<1>1. Ended \subseteq Ended'
  BY EndingStep DEF Ended, IsTerminal
<1>2. Ended' \subseteq Ops
  BY DEF Ended, Ops
<1>3. IsFiniteSet(Ended')
  BY <1>2, ThreadAssumption, FS_Subset
<1>. QED BY <1>1, <1>3, FS_Subset

\* Then a step takes one free slot, gives back one that was held, or neither.
TakesOne(o) == /\ active' = active + 1
               /\ o \notin Holders /\ Holders' = Holders \union {o}
ReleasesOne(o) == /\ active' = active - 1
                  /\ o \in Holders /\ Holders' = Holders \ {o}
KeepsAll == active' = active /\ Holders' = Holders
Accounts == KeepsAll \/ \E o \in Ops : TakesOne(o) \/ ReleasesOne(o)

\* While nothing is pruned, a run that holds a slot stays registered.
LEMMA RegisteredStep ==
    TypeInv /\ HandOverInv /\ CancelInv /\ Exact /\ Prune(runs, status) = runs
    /\ [Next]_vars => (\A r \in Runs : RunHolds(r) => r \in runs)'
<1>. SUFFICES ASSUME TypeInv, HandOverInv, CancelInv, Exact, Prune(runs, status) = runs,
                [Next]_vars PROVE (\A r \in Runs : RunHolds(r) => r \in runs)'
  OBVIOUS
<1>. USE ThreadAssumption DEF TypeInv, TypeOK, TargetOK, HandOverInv, EarlyOK,
         Unstarted, At, Goto, notControl, allButPc, Pass, registryVars, workerVars,
         shutdownVars, controlVars, Threads, Ops, Exact, RunHolds
<1>1. ASSUME NEW p \in Runs, SubmitRun(p) \/ RunStep(p) PROVE (\A r \in Runs :
        RunHolds(r) => r \in runs)'
  BY <1>1 DEF RunStep, SubmitRun, StartWorker, Attach, FinishCancel, FailStart,
     RemoveFailedStart, MarkStartFailed
<1>2. ASSUME NEW q \in Queries, SubmitQuery(q) \/ QueryStep(q) \/ RejectOutput(q) PROVE
        (\A r \in Runs : RunHolds(r) => r \in runs)'
  BY <1>2 DEF QueryStep, SubmitQuery, StartWorker, Attach, FinishCancel,
     MarkStartFailed, EndWait, BeginCancel, QueryCancelReturned, QueryJoined,
     DropRegistration, WaitForControl, RejectOutput
<1>3. ASSUME NEW c \in Cancelers, (\E p \in Runs : RequestCancel(c, p)) \/
        CancelerStep(c) PROVE (\A r \in Runs : RunHolds(r) => r \in runs)'
  BY <1>3 DEF CancelerStep, RequestCancel, BeginCancel, FinishCancel, CancelReturned,
     RollbackCancel, WaitForControl
<1>4. ASSUME NEW s \in Shutdowners, BeginShutdown(s) \/ ShutdownStep(s) PROVE (\A r \in
        Runs : RunHolds(r) => r \in runs)'
  BY <1>4 DEF ShutdownStep, BeginShutdown, MarkForShutdown, Visit, SettleForShutdown,
     VisitForJoin, BeginCancel, FinishCancel, CancelReturned, RollbackCancel,
     ShutdownCancelReturned, ShutdownJoined, EndPass, WaitForControl
<1>5. ASSUME NEW o \in Ops, WorkerStep(o) PROVE (\A r \in Runs : RunHolds(r) => r \in
        runs)'
  BY <1>5 DEF WorkerStep, CompleteRun, ReleaseRun, CompleteQuery
<1>6. CASE UNCHANGED vars
  BY <1>6 DEF vars
<1>. QED BY <1>1, <1>2, <1>3, <1>4, <1>5, <1>6 DEF Next, Quiescent

\* There is a slot to give back.
LEMMA HeldIsCounted ==
    ASSUME Exact, NEW o \in Holders
    PROVE  active > 0
<1>1. IsFiniteSet(Holders \ {o}) /\ Cardinality(Holders \ {o}) = Cardinality(Holders) - 1
  BY HoldersFinite, FS_RemoveElement
<1>2. Cardinality(Holders \ {o}) \in Nat
  BY <1>1, FS_CardinalityType
<1>. QED BY <1>1, <1>2, HoldersFinite DEF Exact

\* What every step does to the slots.
LEMMA AccountStep ==
    TypeInv /\ HandOverInv /\ CancelInv /\ Exact /\ [Next]_vars
      => Accounts
<1>. SUFFICES ASSUME TypeInv, HandOverInv, CancelInv, Exact, [Next]_vars
              PROVE  Accounts
  OBVIOUS
<1>. USE ThreadAssumption
     DEF Holders, RunHolds, QueryHolds, HandOverInv, EarlyOK,
         Unstarted, TypeInv, TypeOK, TargetOK, At, Goto, notControl, allButPc, Pass,
         registryVars, workerVars, shutdownVars, controlVars, Threads, Ops
<1>1. ASSUME NEW r \in Runs, SubmitRun(r) \/ RunStep(r) PROVE Accounts
  <2>1. CASE SubmitRun(r)
    <3>1. CASE UNCHANGED active
      <4>. KeepsAll BY <2>1, <3>1 DEF SubmitRun, KeepsAll
      <4>. QED BY DEF Accounts
    <3>2. CASE MayReserve /\ active' = active + 1
      <4>. TakesOne(r) BY <2>1, <3>2 DEF SubmitRun, TakesOne
      <4>. QED BY DEF Accounts
    <3>. QED BY <2>1, <3>1, <3>2 DEF SubmitRun
  <2>2. CASE RemoveFailedStart(r)
    <3>1. r \in Holders /\ r \in runs
      BY <2>2 DEF RemoveFailedStart, Exact
    <3>. ReleasesOne(r) BY HeldIsCounted, <2>2, <3>1 DEF RemoveFailedStart, ReleasesOne
    <3>. QED BY DEF Accounts
  <2>3. CASE \/ StartWorker(r) \/ Attach(r, "done") \/ FinishCancel(r, "attachCall", "done")
             \/ FailStart(r) \/ MarkStartFailed(r, "done")
    <3>. KeepsAll BY <2>3 DEF StartWorker, Attach, FinishCancel, FailStart,
                              MarkStartFailed, KeepsAll
    <3>. QED BY DEF Accounts
  <2>. QED BY <1>1, <2>1, <2>2, <2>3 DEF RunStep
<1>2. ASSUME NEW q \in Queries, SubmitQuery(q) \/ QueryStep(q) \/ RejectOutput(q)
      PROVE  Accounts
  <2>1. CASE SubmitQuery(q)
    <3>1. CASE MayReserve
      <4>. TakesOne(q) BY <2>1, <3>1 DEF SubmitQuery, TakesOne
      <4>. QED BY DEF Accounts
    <3>2. CASE ~MayReserve
      <4>. KeepsAll BY <2>1, <3>2 DEF SubmitQuery, KeepsAll
      <4>. QED BY DEF Accounts
    <3>. QED BY <3>1, <3>2
  <2>2. CASE DropRegistration(q)
    <3>1. q \in Holders /\ q \in queries
      BY <2>2 DEF DropRegistration, CancelInv, QueryInv, QueryOK
    <3>. ReleasesOne(q) BY HeldIsCounted, <2>2, <3>1 DEF DropRegistration, ReleasesOne
    <3>. QED BY DEF Accounts
  <2>3. CASE \/ StartWorker(q) \/ Attach(q, "wait") \/ FinishCancel(q, "attachCall", "wait")
             \/ FinishCancel(q, "call", "result") \/ MarkStartFailed(q, "drop")
             \/ EndWait(q) \/ BeginCancel(q, "result") \/ QueryCancelReturned(q)
             \/ QueryJoined(q) \/ WaitForControl(q) \/ RejectOutput(q)
    <3>. KeepsAll BY <2>3 DEF StartWorker, Attach, FinishCancel, MarkStartFailed, EndWait,
                              BeginCancel, QueryCancelReturned, QueryJoined,
                              WaitForControl, RejectOutput, KeepsAll
    <3>. QED BY DEF Accounts
  <2>. QED BY <1>2, <2>1, <2>2, <2>3 DEF QueryStep
<1>3. ASSUME NEW c \in Cancelers, (\E r \in Runs : RequestCancel(c, r)) \/ CancelerStep(c)
      PROVE  KeepsAll
  BY <1>3 DEF RequestCancel, CancelerStep, BeginCancel, FinishCancel, CancelReturned,
              RollbackCancel, WaitForControl, KeepsAll
<1>4. ASSUME NEW s \in Shutdowners, BeginShutdown(s) \/ ShutdownStep(s)
      PROVE  KeepsAll
  BY <1>4 DEF BeginShutdown, ShutdownStep, MarkForShutdown, SettleForShutdown,
              VisitForJoin, Visit, BeginCancel, FinishCancel, CancelReturned,
              RollbackCancel, ShutdownCancelReturned, ShutdownJoined, EndPass,
              WaitForControl, KeepsAll
<1>5. ASSUME NEW o \in Ops, WorkerStep(o) PROVE Accounts
  <2>1. CASE ReleaseRun(o)
    <3>1. o \in Holders
      BY <2>1 DEF ReleaseRun
    <3>. ReleasesOne(o) BY HeldIsCounted, <2>1, <3>1 DEF ReleaseRun, ReleasesOne
    <3>. QED BY DEF Accounts
  <2>2. CASE CompleteRun(o)
    <3>1. ~IsTerminal(o)
      BY <2>2 DEF CompleteRun, CancelInv, RunInv, RunOK, IsTerminal, TerminalStatus
    <3>. KeepsAll BY <2>2, <3>1 DEF CompleteRun, KeepsAll
    <3>. QED BY DEF Accounts
  <2>3. CASE CompleteQuery(o)
    <3>. KeepsAll BY <2>3 DEF CompleteQuery, KeepsAll
    <3>. QED BY DEF Accounts
  <2>. QED BY <1>5, <2>1, <2>2, <2>3 DEF WorkerStep
<1>6. CASE UNCHANGED vars
  <2>. KeepsAll BY <1>6 DEF vars, KeepsAll
  <2>. QED BY DEF Accounts
<1>. QED BY <1>1, <1>2, <1>3, <1>4, <1>5, <1>6 DEF Next, Quiescent, Accounts

LEMMA SlotsStep ==
    TypeInv /\ HandOverInv /\ CancelInv /\ SlotsInv /\ [Next]_vars
      => SlotsInv'
<1>. SUFFICES ASSUME TypeInv, HandOverInv, CancelInv, SlotsInv, [Next]_vars,
                     (Cardinality(Ended) <= MaxTerminal)'
              PROVE  Exact'
  BY DEF SlotsInv
<1>1. Cardinality(Ended) <= MaxTerminal
  <2>1. IsFiniteSet(Ended') /\ Cardinality(Ended') \in Nat
    <3>1. Ended' \subseteq Ops
      BY DEF Ended, Ops
    <3>. QED BY <3>1, ThreadAssumption, FS_Subset, FS_CardinalityType
  <2>. QED BY <2>1, EndedGrows, EndedFinite, LimitAssumption
<1>2. Exact /\ Prune(runs, status) = runs
  BY <1>1, NothingPruned DEF SlotsInv
<1>3. (\A r \in Runs : RunHolds(r) => r \in runs)'
  BY <1>2, RegisteredStep
<1>4. Accounts
  BY <1>2, AccountStep
<1>5. active' = Cardinality(Holders')
  <2>. USE HoldersFinite
  <2>1. CASE KeepsAll
    BY <1>2, <2>1 DEF KeepsAll, Exact
  <2>2. ASSUME NEW o \in Ops, TakesOne(o) PROVE active' = Cardinality(Holders')
    <3>1. Cardinality(Holders \union {o}) = Cardinality(Holders) + 1
      BY <2>2, FS_AddElement DEF TakesOne
    <3>. QED BY <1>2, <2>2, <3>1 DEF TakesOne, Exact
  <2>3. ASSUME NEW o \in Ops, ReleasesOne(o) PROVE active' = Cardinality(Holders')
    <3>1. Cardinality(Holders \ {o}) = Cardinality(Holders) - 1
      BY <2>3, FS_RemoveElement DEF ReleasesOne
    <3>. QED BY <1>2, <2>3, <3>1 DEF ReleasesOne, Exact
  <2>. QED BY <1>4, <2>1, <2>2, <2>3 DEF Accounts
<1>. QED BY <1>3, <1>5 DEF Exact

\* Every slot counted belongs to a live operation, unless a failed start was
\* pruned before it was removed, which takes more than MAX_TERMINAL_RUNS ended
\* runs.
THEOREM SlotsAreExact == Spec => []SlotsExact
<1>1. Init => SlotsInv
  <2>. SUFFICES ASSUME Init PROVE Exact
    BY DEF SlotsInv
  <2>1. Holders = {} /\ \A r \in Runs : ~RunHolds(r)
    BY DEF Init, Holders, RunHolds, QueryHolds, Threads, Ops
  <2>. QED BY <2>1, FS_EmptySet DEF Init, Exact
<1>2. TypeInv /\ HandOverInv /\ CancelInv /\ SlotsInv /\ [Next]_vars
        => SlotsInv'
  BY SlotsStep
<1>3. SlotsInv => SlotsExact
  BY DEF SlotsInv, Exact, SlotsExact, Ended
<1>. QED BY <1>1, <1>2, <1>3, CancelCorrect, PTL DEF Spec
=============================================================================
