--------------------- MODULE ProcessAndInstallProofs ----------------------
(***************************************************************************)
(* Theorems about ProcessExecution and about ToolInstall, which share      *)
(* neither state nor steps.                                                *)
(*                                                                         *)
(* First one execution, for any number of cancelers and joiners and every  *)
(* combination of faults.                                                  *)
(*                                                                         *)
(* The argument: the worker's place determines what has been created so    *)
(* far (CreationInv), each place of the monitor what has been ended        *)
(* (EndInv), and exactly one of the two reports (ReportInv).  The last     *)
(* handle of the job decides about what outlives the worker (HandleInv).   *)
(***************************************************************************)
EXTENDS ProcessExecution, ToolInstall, FiniteSetTheorems, WellFoundedInduction, TLAPS

Unstarted == {"none", "refused", "begin", "spawn"}
Suspended == {"assign", "kill"}
Started == {"accept", "attach", "cancel", "join"}
Resumed ==
    {"stdout", "stderr", "monitor", "cleanup", "joinReaders"} \union Started
Leaving == {"abort", "fail", "return", "ended"}

\* What exists at each place of the worker.
CreationInv ==
    /\ worker \in Unstarted => root = "none"
    /\ worker \in Suspended <=> root = "suspended"
    /\ worker \in Resumed => root \in {"running", "closing", "dead"}
    /\ root \in {"none", "suspended"} => descendant = "none"
    /\ root = "running" => inJob
    /\ worker \in Unstarted \union Suspended \union {"stdout"}
         => \A s \in Streams : reader[s] = "none"
    /\ worker \in Started => monitor # "none"
    /\ monitor # "none" =>
         worker \in Started \/ (monitor = "ended" /\ worker \in Leaving)

\* The worker reports, or ends, and there is no monitor.
WithoutChild ==
    \/ worker \in {"report", "finish"}
    \/ worker \in Leaving /\ monitor = "none"

\* What has ended at each place of the worker and of the monitor.
EndInv ==
    /\ worker = "joinReaders" => root \in {"closing", "dead"}
    /\ WithoutChild => TreeGone /\ ReadersEnded
    /\ monitor \in {"terminate", "joinReaders", "report", "ended"}
         => root = "dead"
    /\ monitor \in {"joinReaders", "report", "ended"}
         => monitorError \/ ~DescendantAlive
    /\ monitor \in {"report", "ended"} => ReadersEnded

\* Who has reported, and what an exit means.
ReportInv ==
    /\ reports \in {<<>>, <<"Exited">>, <<"Failed">>}
    /\ reports # <<>> <=>
         monitor = "ended" \/ worker \in {"finish", "return", "ended"}
    /\ reports = <<"Exited">> => TreeGone /\ ReadersEnded

\* Who holds the job once the worker has dropped its control.
HandleInv ==
    /\ child => worker \in {"cancel", "join"}
    /\ \A c \in Cancelers : caller[c] = "call" => monitor # "none"
    /\ worker \in Leaving /\ monitor = "ended" => finished
    /\ finished => worker \in Leaving
    /\ worker \in Leaving /\ monitor = "ended" /\ NoCancelerCalls => TreeGone

ExecutionInv == TypeOK /\ CreationInv /\ EndInv /\ ReportInv /\ HandleInv
---------------------------------------------------------------------------
(* The invariant is inductive *)

LEMMA InitInv == Init => ExecutionInv
<1>. SUFFICES ASSUME Init PROVE ExecutionInv
  OBVIOUS
<1>1. TypeOK
  <2>1. ThreadsOK
    BY DEF Init, ThreadsOK, WorkerLabel
  <2>2. TreeOK /\ ControlOK
    BY DEF Init, TreeOK, ControlOK
  <2>. QED BY <2>1, <2>2 DEF Init, TypeOK
<1>2. CreationInv /\ EndInv /\ ReportInv
  BY DEF Init, CreationInv, EndInv, ReportInv, Unstarted, Suspended, Started,
         Resumed, Leaving, WithoutChild, TreeGone, RootAlive, DescendantAlive,
         ReadersEnded
<1>3. HandleInv
  BY ActorAssumption DEF Init, HandleInv, Started, Leaving, Callers
<1>. QED BY <1>1, <1>2, <1>3 DEF ExecutionInv

---------------------------------------------------------------------------
(* The steps of each thread *)

\* A termination of the job, successful or not, keeps the tree's type.
LEMMA TerminationTyped ==
    ASSUME TreeOK, TerminateJob \/ TerminateFails PROVE TreeOK'
  BY DEF TreeOK, TerminateJob, TerminateFails, tree

\* The type invariant follows from its parts: what ReportInv says of the
\* reports includes their type.
LEMMA Typed ==
    ASSUME kind' \in Kinds, ThreadsOK', TreeOK', ControlOK', ReportInv'
    PROVE  TypeOK'
<1>1. \A o \in {"Exited", "Failed"} : <<o>> \in Seq({"Exited", "Failed"})
  OBVIOUS
<1>2. <<>> \in Seq({"Exited", "Failed"})
  OBVIOUS
<1>3. reports' \in Seq({"Exited", "Failed"})
  <2>1. reports' = <<>> \/ \E o \in {"Exited", "Failed"} : reports' = <<o>>
    BY DEF ReportInv
  <2>. QED BY <2>1, <1>1, <1>2
<1>. QED BY <1>3 DEF TypeOK

\* The worker keeps the invariant.
LEMMA WorkerKeepsInv ==
    ASSUME ExecutionInv, WorkerStep PROVE ExecutionInv'
<1>. USE DEF ExecutionInv, CreationInv, EndInv, ReportInv, HandleInv,
             TypeOK, ThreadsOK, TreeOK, ControlOK, WorkerLabel,
             Streams, Unstarted, Suspended, Started, Resumed, Leaving,
             WithoutChild, TreeGone, RootAlive, RootOpen, DescendantAlive, ReadersEnded,
             NoCancelerCalls, tree, threads, childState, others, execution,
             WorkerGoto
<1>1. ASSUME StartWorker PROVE ExecutionInv'
  BY <1>1 DEF StartWorker, WorkerPass
<1>2. ASSUME AttachWorker PROVE ExecutionInv'
  BY <1>2 DEF AttachWorker
<1>3. ASSUME Prepare PROVE ExecutionInv'
  BY <1>3 DEF Prepare, WorkerPass
<1>4. ASSUME ReportWithoutChild PROVE ExecutionInv'
  <2>1. kind' \in Kinds /\ ThreadsOK' /\ TreeOK' /\ ControlOK'
    BY <1>4 DEF ReportWithoutChild, Complete
  <2>2. CreationInv' /\ EndInv' /\ ReportInv' /\ HandleInv'
    BY <1>4 DEF ReportWithoutChild, Complete
  <2>. QED BY <2>1, <2>2, Typed
<1>5. ASSUME FinishWithoutChild PROVE ExecutionInv'
  BY <1>5 DEF FinishWithoutChild
<1>6. ASSUME AbortChild PROVE ExecutionInv'
  <2>1. kind' \in Kinds /\ ThreadsOK' /\ TreeOK' /\ ControlOK'
    BY ZenonT(30), <1>6 DEF AbortChild
  <2>2. CreationInv' /\ EndInv' /\ ReportInv' /\ HandleInv'
    BY <1>6 DEF AbortChild
  <2>. QED BY <2>1, <2>2, Typed
<1>7. ASSUME ReportFailure PROVE ExecutionInv'
  <2>1. kind' \in Kinds /\ ThreadsOK' /\ TreeOK' /\ ControlOK'
    BY <1>7 DEF ReportFailure, Complete
  <2>2. CreationInv' /\ EndInv' /\ ReportInv' /\ HandleInv'
    BY <1>7 DEF ReportFailure, Complete
  <2>. QED BY <2>1, <2>2, Typed
<1>8. ASSUME ReturnFailure PROVE ExecutionInv'
  BY <1>8 DEF ReturnFailure, WorkerPass
<1>9. ASSUME SpawnRoot PROVE ExecutionInv'
  <2>1. CASE worker' = "report"
    <3>1. UNCHANGED <<others, tree, threads, reports, childState>> /\ worker = "spawn"
      BY <1>9, <2>1 DEF SpawnRoot, WorkerPass
    <3>. QED BY <2>1, <3>1
  <2>2. CASE worker' = "assign"
    <3>1. /\ UNCHANGED <<others, descendant, inJob, threads, reports, childState>>
          /\ worker = "spawn" /\ root' = "suspended"
      BY <1>9, <2>2 DEF SpawnRoot, WorkerPass
    <3>2. kind' \in Kinds /\ ThreadsOK' /\ TreeOK' /\ ControlOK'
      <4>1. kind' \in Kinds /\ TreeOK'
        BY <3>1
      <4>2. ThreadsOK'
        BY <2>2, <3>1
      <4>3. ControlOK'
        BY ZenonT(30), <3>1
      <4>. QED BY <4>1, <4>2, <4>3
    <3>3. CreationInv' /\ EndInv'
      BY <2>2, <3>1
    <3>4. ReportInv'
      <4>1. reports = <<>> /\ reports' = <<>> /\ monitor' # "ended"
        BY <3>1
      <4>. QED BY <4>1, <2>2 DEF ReportInv
    <3>5. HandleInv'
      BY <2>2, <3>1
    <3>. QED BY <3>2, <3>3, <3>4, <3>5, Typed
  <2>. QED BY <1>9, <2>1, <2>2 DEF SpawnRoot, WorkerPass
<1>10. ASSUME AssignAndResume PROVE ExecutionInv'
  BY ZenonT(30), <1>10 DEF AssignAndResume
<1>11. ASSUME FailBeforeStart PROVE ExecutionInv'
  BY <1>11 DEF FailBeforeStart
<1>12. ASSUME NEW s \in Streams, SpawnReader(s) PROVE ExecutionInv'
  <2>1. kind' \in Kinds /\ ThreadsOK' /\ TreeOK' /\ ControlOK'
    BY <1>12 DEF SpawnReader, RejectStart
  <2>2. CreationInv'
    BY <1>12 DEF SpawnReader, RejectStart
  <2>3. EndInv'
    BY <1>12 DEF SpawnReader, RejectStart
  <2>4. ReportInv' /\ HandleInv'
    BY <1>12 DEF SpawnReader, RejectStart
  <2>. QED BY <2>1, <2>2, <2>3, <2>4, Typed
<1>13. ASSUME SpawnMonitor PROVE ExecutionInv'
  BY <1>13 DEF SpawnMonitor, RejectStart
<1>14. ASSUME AcceptStart PROVE ExecutionInv'
  BY <1>14 DEF AcceptStart
<1>15. ASSUME Cleanup PROVE ExecutionInv'
  <2>1. kind' \in Kinds /\ ThreadsOK' /\ TreeOK' /\ ControlOK'
    BY <1>15 DEF Cleanup, TerminateJob
  <2>2. CreationInv' /\ EndInv' /\ ReportInv' /\ HandleInv'
    BY <1>15 DEF Cleanup, TerminateJob
  <2>. QED BY <2>1, <2>2, Typed
<1>16. ASSUME CleanedUp PROVE ExecutionInv'
  BY <1>16 DEF CleanedUp, CloseJob, TerminateJob
<1>17. ASSUME AttachChild PROVE ExecutionInv'
  BY <1>17 DEF AttachChild
<1>18. ASSUME CancelChild PROVE ExecutionInv'
  <2>1. kind' \in Kinds /\ ThreadsOK' /\ TreeOK' /\ ControlOK'
    <3>1. TreeOK'
      BY <1>18, TerminationTyped DEF CancelChild
    <3>2. kind' \in Kinds /\ ThreadsOK' /\ ControlOK'
      BY ZenonT(30), <1>18 DEF CancelChild
    <3>. QED BY <3>1, <3>2
  <2>2. CreationInv' /\ EndInv' /\ ReportInv' /\ HandleInv'
    BY <1>18 DEF CancelChild, TerminateJob, TerminateFails
  <2>. QED BY <2>1, <2>2, Typed
<1>19. ASSUME FinishChild PROVE ExecutionInv'
  <2>1. kind' \in Kinds /\ ThreadsOK' /\ TreeOK' /\ ControlOK'
    BY ZenonT(30), <1>19 DEF FinishChild, CloseJob, TerminateJob
  <2>2. CreationInv' /\ EndInv' /\ ReportInv' /\ HandleInv'
    BY <1>19 DEF FinishChild, CloseJob, TerminateJob
  <2>. QED BY <2>1, <2>2, Typed
<1>. QED BY <1>1, <1>2, <1>3, <1>4, <1>5, <1>6, <1>7, <1>8, <1>9, <1>10,
              <1>11, <1>12, <1>13, <1>14, <1>15, <1>16, <1>17, <1>18, <1>19
           DEF WorkerStep

\* The monitor and the readers keep it.
LEMMA ThreadsKeepInv ==
    ASSUME ExecutionInv,
           MonitorStep \/ \E s \in Streams : ReaderStep(s)
    PROVE  ExecutionInv'
<1>. USE DEF ExecutionInv, CreationInv, EndInv, ReportInv, HandleInv,
             TypeOK, ThreadsOK, TreeOK, ControlOK, WorkerLabel,
             Streams, Unstarted, Suspended, Started, Resumed, Leaving,
             WithoutChild, TreeGone, RootAlive, RootOpen, DescendantAlive, ReadersEnded,
             NoCancelerCalls, tree, threads, childState, others, execution,
             WorkerGoto, MonitorGoto, ReaderGoto, ReaderStep, MonitorStep
<1>1. ASSUME NEW s \in Streams, PassGate(s) PROVE ExecutionInv'
  BY <1>1 DEF PassGate
<1>2. ASSUME NEW s \in Streams, CheckOutput(s) PROVE ExecutionInv'
  BY <1>2 DEF CheckOutput
<1>3. ASSUME NEW s \in Streams, DeliverOutput(s) PROVE ExecutionInv'
  BY <1>3 DEF DeliverOutput
<1>4. ASSUME NEW s \in Streams, EndOfOutput(s) PROVE ExecutionInv'
  BY <1>4 DEF EndOfOutput
<1>5. ASSUME NEW s \in Streams, FailRead(s) PROVE ExecutionInv'
  BY <1>5 DEF FailRead
<1>6. ASSUME WaitForRoot PROVE ExecutionInv'
  <2>1. kind' \in Kinds /\ ThreadsOK' /\ TreeOK' /\ ControlOK'
    BY <1>6 DEF WaitForRoot
  <2>2. CreationInv' /\ EndInv' /\ ReportInv' /\ HandleInv'
    BY <1>6 DEF WaitForRoot
  <2>. QED BY <2>1, <2>2, Typed
<1>7. ASSUME TerminateRemaining PROVE ExecutionInv'
  <2>1. kind' \in Kinds /\ ThreadsOK' /\ TreeOK' /\ ControlOK'
    <3>1. TreeOK'
      BY <1>7, TerminationTyped DEF TerminateRemaining
    <3>2. kind' \in Kinds /\ ThreadsOK' /\ ControlOK'
      BY ZenonT(30), <1>7 DEF TerminateRemaining
    <3>. QED BY <3>1, <3>2
  <2>2. CreationInv' /\ EndInv' /\ ReportInv' /\ HandleInv'
    BY <1>7 DEF TerminateRemaining, TerminateJob, TerminateFails
  <2>. QED BY <2>1, <2>2, Typed
<1>8. ASSUME JoinReaders PROVE ExecutionInv'
  BY <1>8 DEF JoinReaders
<1>9. ASSUME ReportEnd PROVE ExecutionInv'
  <2>1. kind' \in Kinds /\ ThreadsOK' /\ TreeOK' /\ ControlOK'
    BY <1>9 DEF ReportEnd, Complete
  <2>2. CreationInv' /\ EndInv' /\ ReportInv' /\ HandleInv'
    BY <1>9 DEF ReportEnd, Complete
  <2>. QED BY <2>1, <2>2, Typed
<1>. QED BY <1>1, <1>2, <1>3, <1>4, <1>5, <1>6, <1>7, <1>8, <1>9

\* Cancelers and joiners keep it.
LEMMA CallersKeepInv ==
    ASSUME ExecutionInv,
           \/ \E c \in Cancelers : Cancel(c)
           \/ \E j \in Joiners : Join(j)
           \/ \E t \in Callers : CallerStep(t)
    PROVE  ExecutionInv'
<1>. USE DEF ExecutionInv, CreationInv, EndInv, ReportInv, HandleInv,
             TypeOK, ThreadsOK, TreeOK, ControlOK, WorkerLabel,
             Streams, Unstarted, Suspended, Started, Resumed, Leaving,
             WithoutChild, TreeGone, RootAlive, RootOpen, DescendantAlive, ReadersEnded,
             NoCancelerCalls, tree, threads, childState, others, execution,
             WorkerGoto, CallerGoto, Callers, CallerStep
<1>1. ASSUME NEW c \in Cancelers, Cancel(c) PROVE ExecutionInv'
  BY <1>1, ActorAssumption DEF Cancel
<1>2. ASSUME NEW c \in Cancelers, CallCancel(c) PROVE ExecutionInv'
  BY <1>2, ActorAssumption DEF CallCancel, CloseJob, TerminateJob
<1>3. ASSUME NEW j \in Joiners, Join(j) PROVE ExecutionInv'
  BY <1>3, ActorAssumption DEF Join
<1>4. ASSUME NEW j \in Joiners, CheckJoin(j) PROVE ExecutionInv'
  BY <1>4, ActorAssumption DEF CheckJoin
<1>5. ASSUME NEW j \in Joiners, FinishJoin(j) PROVE ExecutionInv'
  BY <1>5, ActorAssumption DEF FinishJoin
<1>. QED BY <1>1, <1>2, <1>3, <1>4, <1>5

\* So does the process tree, and the system that closes it.
LEMMA TreeKeepsInv ==
    ASSUME ExecutionInv, TreeStep \/ CloseProcess PROVE ExecutionInv'
  BY DEF ExecutionInv, CreationInv, EndInv, ReportInv, HandleInv, TreeStep,
         CloseProcess, RootOpen,
         TypeOK, ThreadsOK, TreeOK, ControlOK, WorkerLabel, Streams, Unstarted,
         Suspended, Started, Resumed, Leaving, WithoutChild, TreeGone,
         RootAlive, RootOpen, DescendantAlive, ReadersEnded, NoCancelerCalls, threads, childState,
         others

LEMMA StutterKeepsInv ==
    ASSUME ExecutionInv, UNCHANGED vars PROVE ExecutionInv'
  BY DEF ExecutionInv, CreationInv, EndInv, ReportInv, HandleInv, WithoutChild,
         TypeOK, ThreadsOK, TreeOK, ControlOK, TreeGone, RootAlive,
         DescendantAlive, ReadersEnded, NoCancelerCalls, vars, tree, threads,
         childState

LEMMA StepInv == ExecutionInv /\ [Next]_vars => ExecutionInv'
<1>. SUFFICES ASSUME ExecutionInv, [Next]_vars PROVE ExecutionInv'
  OBVIOUS
<1>1. CASE WorkerStep
  BY <1>1, WorkerKeepsInv
<1>2. CASE MonitorStep \/ \E s \in Streams : ReaderStep(s)
  BY <1>2, ThreadsKeepInv
<1>3. CASE \/ \E c \in Cancelers : Cancel(c)
           \/ \E j \in Joiners : Join(j)
           \/ \E t \in Callers : CallerStep(t)
  BY <1>3, CallersKeepInv
<1>4. CASE TreeStep \/ CloseProcess
  BY <1>4, TreeKeepsInv
<1>5. CASE Quiescent \/ UNCHANGED vars
  BY <1>5, StutterKeepsInv DEF Quiescent
<1>. QED BY <1>1, <1>2, <1>3, <1>4, <1>5 DEF Next

\* The invariant holds of every reachable state.
THEOREM ExecutionInvariant == Spec => []ExecutionInv
<1>. QED BY InitInv, StepInv, PTL DEF Spec

---------------------------------------------------------------------------
(* What follows from it *)

\* The variables keep their types whichever faults happen.
THEOREM ExecutionTypes == Spec => []TypeOK
<1>1. ExecutionInv => TypeOK
  BY DEF ExecutionInv
<1>. QED BY <1>1, ExecutionInvariant, PTL

\* The worker and the monitor together tell the observer exactly one outcome.
THEOREM ReportedOnce == Spec => []CompletedOnce
<1>1. ExecutionInv => CompletedOnce
  <2>. SUFFICES ASSUME ExecutionInv PROVE CompletedOnce
    OBVIOUS
  <2>1. worker = "ended" => reports # <<>>
    BY DEF ExecutionInv, ReportInv
  <2>2. CASE reports = <<>>
    BY <2>1, <2>2 DEF CompletedOnce
  <2>3. ASSUME NEW o, reports = <<o>> PROVE CompletedOnce
    BY <2>3 DEF CompletedOnce
  <2>. QED BY <2>2, <2>3 DEF ExecutionInv, ReportInv
<1>. QED BY <1>1, ExecutionInvariant, PTL

\* An exit is told only of a tree that is gone and of readers that ended.
THEOREM ExitsAreReal == Spec => []ExitedMeansGone
<1>1. ExecutionInv => ExitedMeansGone
  BY DEF ExecutionInv, ReportInv, ExitedMeansGone
<1>. QED BY <1>1, ExecutionInvariant, PTL

\* No output follows the outcome: when there is one, the readers have ended.
THEOREM OutputIsOrdered == Spec => []OutputPrecedesEnd
<1>1. ExecutionInv => OutputPrecedesEnd
  BY DEF ExecutionInv, CreationInv, EndInv, ReportInv, ReadersEnded, Started,
         Leaving, WithoutChild, OutputPrecedesEnd
<1>. QED BY <1>1, ExecutionInvariant, PTL

\* Whatever could not be terminated ends with the job's last handle.
THEOREM NothingIsLeft == Spec => []NothingOutlivesWorker
<1>1. ExecutionInv => NothingOutlivesWorker
  BY DEF ExecutionInv, TypeOK, ThreadsOK, CreationInv, EndInv, HandleInv,
         Started, Leaving, WithoutChild, NothingOutlivesWorker
<1>. QED BY <1>1, ExecutionInvariant, PTL

---------------------------------------------------------------------------
(* The execution implements Execution *)

\* Every step maps to a step of Execution or to a stutter.
LEMMA StepRefines ==
    ASSUME ExecutionInv, [Next]_vars
    PROVE  Abstract!Next \/ UNCHANGED Abstract!vars
<1>. USE DEF ExecutionInv, TypeOK, ThreadsOK, TreeOK, CreationInv, EndInv,
             ReportInv, Streams, Unstarted, Suspended, Started, Resumed,
             Leaving, WithoutChild, TreeGone, RootAlive, DescendantAlive, tree,
             threads,
             others, execution, WorkerGoto, MonitorGoto, ReaderGoto,
             Abstract!Next, Abstract!vars
<1>1. ASSUME StartWorker \/ Prepare \/ ReturnFailure
      PROVE Abstract!Next \/ UNCHANGED Abstract!vars
  BY <1>1 DEF StartWorker, Prepare, ReturnFailure, WorkerPass, Abstract!End
<1>2. ASSUME AttachWorker \/ FinishWithoutChild \/ AbortChild
      PROVE Abstract!Next \/ UNCHANGED Abstract!vars
  BY <1>2 DEF AttachWorker, FinishWithoutChild, AbortChild, Abstract!End
<1>3. ASSUME ReportWithoutChild PROVE Abstract!Next \/ UNCHANGED Abstract!vars
  BY <1>3 DEF ReportWithoutChild, Complete, Abstract!Report
<1>4. ASSUME ReportFailure PROVE Abstract!Next \/ UNCHANGED Abstract!vars
  BY <1>4 DEF ReportFailure, Complete, Abstract!Report
<1>5. ASSUME SpawnRoot PROVE Abstract!Next \/ UNCHANGED Abstract!vars
  BY <1>5 DEF SpawnRoot, WorkerPass, Abstract!Launch
<1>6. ASSUME AssignAndResume \/ FailBeforeStart
      PROVE Abstract!Next \/ UNCHANGED Abstract!vars
  BY <1>6 DEF AssignAndResume, FailBeforeStart, Abstract!Vanish
<1>7. ASSUME \E s \in Streams : SpawnReader(s)
      PROVE Abstract!Next \/ UNCHANGED Abstract!vars
  BY <1>7 DEF SpawnReader, RejectStart
<1>8. ASSUME SpawnMonitor \/ AcceptStart \/ AttachChild
      PROVE Abstract!Next \/ UNCHANGED Abstract!vars
  BY <1>8 DEF SpawnMonitor, RejectStart, AcceptStart, AttachChild
<1>9. ASSUME Cleanup PROVE Abstract!Next \/ UNCHANGED Abstract!vars
  BY <1>9 DEF Cleanup, TerminateJob, Abstract!Vanish
<1>10. ASSUME CleanedUp PROVE Abstract!Next \/ UNCHANGED Abstract!vars
  BY <1>10 DEF CleanedUp, CloseJob, TerminateJob, Abstract!Vanish
<1>11. ASSUME CancelChild PROVE Abstract!Next \/ UNCHANGED Abstract!vars
  BY <1>11 DEF CancelChild, TerminateJob, TerminateFails, Abstract!Vanish
<1>12. ASSUME FinishChild PROVE Abstract!Next \/ UNCHANGED Abstract!vars
  BY <1>12 DEF FinishChild, CloseJob, TerminateJob, Abstract!Vanish,
     Abstract!End
<1>13. ASSUME \E s \in Streams : ReaderStep(s)
      PROVE Abstract!Next \/ UNCHANGED Abstract!vars
  BY <1>13 DEF ReaderStep, PassGate, CheckOutput, DeliverOutput,
                   EndOfOutput, FailRead
<1>14. ASSUME WaitForRoot \/ JoinReaders
      PROVE Abstract!Next \/ UNCHANGED Abstract!vars
  BY <1>14 DEF WaitForRoot, JoinReaders
<1>15. ASSUME TerminateRemaining PROVE Abstract!Next \/ UNCHANGED Abstract!vars
  BY <1>15 DEF TerminateRemaining, TerminateJob, TerminateFails,
     Abstract!Vanish
<1>16. ASSUME ReportEnd PROVE Abstract!Next \/ UNCHANGED Abstract!vars
  BY <1>16 DEF ReportEnd, Complete, Abstract!Report
<1>17. ASSUME \E c \in Cancelers : Cancel(c)
      PROVE Abstract!Next \/ UNCHANGED Abstract!vars
  BY <1>17 DEF Cancel
<1>18. ASSUME \E c \in Cancelers : CallCancel(c)
      PROVE Abstract!Next \/ UNCHANGED Abstract!vars
  BY <1>18 DEF CallCancel, CloseJob, TerminateJob, HandleInv, Abstract!Vanish
<1>19. ASSUME \E j \in Joiners : Join(j) \/ CheckJoin(j) \/ FinishJoin(j)
      PROVE Abstract!Next \/ UNCHANGED Abstract!vars
  BY <1>19 DEF Join, CheckJoin, FinishJoin
<1>20. ASSUME TreeStep \/ CloseProcess
      PROVE Abstract!Next \/ UNCHANGED Abstract!vars
  BY <1>20 DEF TreeStep, CloseProcess, Abstract!Vanish
<1>21. ASSUME Quiescent \/ UNCHANGED vars
      PROVE Abstract!Next \/ UNCHANGED Abstract!vars
  BY <1>21 DEF Quiescent, vars
<1>. QED BY <1>1, <1>2, <1>3, <1>4, <1>5, <1>6, <1>7, <1>8, <1>9, <1>10,
            <1>11, <1>12, <1>13, <1>14, <1>15, <1>16, <1>17, <1>18, <1>19,
            <1>20, <1>21 DEF Next, WorkerStep, MonitorStep, CallerStep

\* One report, an exit only of a tree that is gone, an end only after the
\* report: what the registry relies on.
THEOREM ExecutionRefines == Spec => ImplementsExecution
<1>1. Init => Abstract!Init
  BY DEF Init, Abstract!Init
<1>2. ExecutionInv /\ [Next]_vars => [Abstract!Next]_Abstract!vars
  BY StepRefines
<1>. QED BY <1>1, <1>2, ExecutionInvariant, PTL
         DEF Spec, ImplementsExecution, Abstract!Spec

\* What is told of an execution: one outcome, after all of its output.
THEOREM ExecutionIsSound == Spec => []ExecutionSafety
  BY ExecutionTypes, ReportedOnce, OutputIsOrdered, PTL DEF ExecutionSafety
-----------------------------------------------------------------------------
(***************************************************************************)
(* ToolInstall, for any installers, Entries, versions and backups, any     *)
(* remains of earlier installations and every combination of faults.       *)
(*                                                                         *)
(* The argument: an installer past its wait holds its Entry's lock, so     *)
(* that of those who work at one place only one can be anywhere but at the *)
(* beginning, and what it has found there stays true until it changes it:  *)
(* nothing else makes a tree, and damage can only spoil a whole one.       *)
(***************************************************************************)
\* The steps at which an installer has taken its lock.
Past(i) == op[i].pc \notin {"idle", "locking"}

\* Only the holder of the Entry's lock is past its wait, and only the holder of
\* the version's lease works with the archive.
LockInv(i) == Past(i) => lock[Entry(i)] = i

LeaseInv(i) ==
  /\ op[i].pc \in {"lease", "ensure"} => tool = "archive"
  /\ op[i].pc \in {"ensure", "stage"} /\ tool = "archive" => lease[Version(i)] = i

\* A work directory exists between its making and its publication.
StagedInv(i) == op[i].staged # "none" => op[i].pc \in {"stage", "publish"}

\* What recovery has found, and not yet decided.
RecoveryInv(i) ==
  /\ op[i].pc \in {"locking", "inspect", "remove", "restore"} => ~op[i].missing
  /\ op[i].pc = "remove" => Here(i) # "whole"
  /\ op[i].pc \in {"remove", "restore"} =>
       \A b \in Backups : backup[cast[i]][b] = "whole" => b \in op[i].valid

\* Where an installation is missing there is neither a target nor a backup.
Missing(i) ==
  \/ op[i].pc = "clean" /\ op[i].missing
  \/ op[i].pc \in {"source", "lease", "ensure", "stage", "publish"}

MissingInv(i) ==
  /\ op[i].pc = "restore" \/ Missing(i) => Here(i) = "none"
  /\ Missing(i) => \A b \in Backups : backup[cast[i]][b] # "whole"

\* Where one is reported, or about to be, it is whole unless it was damaged.
ReadyInv(i) ==
  (\/ op[i].pc = "clean" /\ ~op[i].missing
   \/ op[i].pc = "finish") /\ Undamaged => Here(i) = "whole"

PlaceInv(i) == LockInv(i) /\ RecoveryInv(i) /\ MissingInv(i) /\ ReadyInv(i)

WorkInv(i) == LeaseInv(i) /\ StagedInv(i)

InstallInv == InstallTypeOK /\ \A i \in Installers : PlaceInv(i) /\ WorkInv(i)
-----------------------------------------------------------------------------
\* The order of the numbers, as a relation.
Less == {p \in Nat \X Nat : p[1] < p[2]}

\* A set of numbers has a smallest one.
LEMMA LeastNatural ==
    ASSUME NEW S, S \subseteq Nat, S # {}
    PROVE  \E m \in S : \A n \in S : m <= n
<1>1. OpToRel(<, Nat) = Less
  BY DEF OpToRel, Less
<1>2. IsWellFoundedOn(Less, Nat)
  BY <1>1, NatLessThanWellFounded
<1>3. PICK m \in S : \A n \in S : <<n, m>> \notin Less
  BY <1>2, WFMin
<1>4. ASSUME NEW n \in S PROVE m <= n
  <2>1. <<n, m>> \in Nat \X Nat /\ <<n, m>>[1] = n /\ <<n, m>>[2] = m OBVIOUS
  <2>2. ~(n < m) BY <1>3, <2>1 DEF Less
  <2>. QED BY <2>2
<1>. QED BY <1>4

\* A finite set of numbers has a greatest one: otherwise take a smallest such
\* set and one of its numbers away.
LEMMA GreatestOfFinite ==
    ASSUME NEW S, S \subseteq Nat, IsFiniteSet(S), S # {}
    PROVE  Max(S) \in S /\ \A n \in S : Max(S) >= n
<1> DEFINE Bounded(A) == \E m \in A : \A n \in A : m >= n
           Sizes == {k \in Nat : \E A \in SUBSET S : A # {} /\ ~Bounded(A) /\ Cardinality(A) = k}
<1>1. \A A \in SUBSET S : IsFiniteSet(A) /\ Cardinality(A) \in Nat
  BY FS_Subset, FS_CardinalityType
<1>2. Sizes = {}
  <2>1. SUFFICES ASSUME Sizes # {} PROVE FALSE OBVIOUS
  <2>2. PICK k \in Sizes : \A n \in Sizes : k <= n
    <3>1. Sizes \subseteq Nat OBVIOUS
    <3>. HIDE DEF Sizes
    <3>. QED BY <2>1, <3>1, LeastNatural
  <2>3. PICK A \in SUBSET S : A # {} /\ ~Bounded(A) /\ Cardinality(A) = k OBVIOUS
  <2>4. PICK x \in A : TRUE BY <2>3
  <2>5. IsFiniteSet(A \ {x}) /\ Cardinality(A \ {x}) = k - 1
    BY <1>1, <2>3, <2>4, FS_RemoveElement
  <2>6. k - 1 \in Nat BY <1>1, <2>5
  <2>7. A \ {x} # {} BY <2>3, <2>4
  <2>8. Bounded(A \ {x})
    <3>1. k - 1 \notin Sizes BY <2>2, <2>6
    <3>. QED BY <2>5, <2>6, <2>7, <3>1
  <2>9. PICK m \in A \ {x} : \A n \in A \ {x} : m >= n BY <2>8
  <2>10. Bounded(A)
    <3>1. CASE m >= x BY <2>9, <3>1
    <3>2. CASE x >= m BY <2>9, <2>4, <3>2
    <3>. QED BY <2>9, <2>4, <3>1, <3>2
  <2>. QED BY <2>3, <2>10
<1>3. Bounded(S)
  <2>1. Cardinality(S) \in Nat BY <1>1
  <2>. QED BY <1>2, <2>1
<1>. QED BY <1>3 DEF Max

\* The place of an installer is an Entry and a version.
LEMMA PlaceTypes ==
    ASSUME InstallTypeOK, NEW i \in Installers
    PROVE  cast[i] \in Places /\ Entry(i) \in Entries /\ Version(i) \in Versions
<1>1. cast[i] \in Places BY DEF InstallTypeOK
<1>2. \A p \in Places : p.entry \in Entries /\ p.version \in Versions BY DEF Places
<1>. QED BY <1>1, <1>2 DEF Entry, Version

\* A step that replaces the record of one installer.
LEMMA RecordTypes ==
    ASSUME InstallTypeOK, NEW i \in Installers, NEW o \in Operations,
           op' = [op EXCEPT ![i] = o]
    PROVE  op' \in [Installers -> Operations]
  BY DEF InstallTypeOK

\* An installer at rest.
LEMMA NoOpTyped == NoOp \in Operations
  BY DEF NoOp, Operations, Steps, Trees

\* The return of a call, ...
LEMMA ReturnTypes ==
    ASSUME InstallTypeOK, NEW i \in Installers, Return(i)
    PROVE  /\ op' \in [Installers -> Operations]
           /\ lock' \in [Entries -> Installers \cup {Nobody}]
           /\ lease' \in [Versions -> Installers \cup {Nobody}]
  BY NoOpTyped DEF InstallTypeOK, Return

\* ... a step that only moves on, ...
LEMMA GotoTypes ==
    ASSUME InstallTypeOK, NEW i \in Installers, NEW l \in Steps, Goto(i, l)
    PROVE  op' \in [Installers -> Operations]
  BY DEF InstallTypeOK, Goto, Operations

\* ... and one that fills the work directories.
LEMMA UnpackTypes ==
    ASSUME InstallTypeOK, NEW i \in Installers, Unpack(i)
    PROVE  op' \in [Installers -> Operations]
<1> DEFINE o == [op[i] EXCEPT !.staged = "broken", !.pc = "stage"]
<1>0. op[i] \in Operations BY DEF InstallTypeOK
<1>1. o \in Operations BY <1>0 DEF Operations, Trees, Steps
<1>2. op' = [op EXCEPT ![i] = o] BY DEF Unpack
<1>. HIDE DEF o
<1>. QED BY <1>1, <1>2, RecordTypes

\* Of the backups that tell their time one is the newest.
LEMMA NewestIsOne ==
    ASSUME NEW S, S \subseteq Stamps, S # {}
    PROVE  Max(S) \in S /\ \A n \in S : Max(S) >= n
<1>1. S \subseteq Nat /\ IsFiniteSet(S)
  BY StampsAssumption, FS_Subset
<1>. QED BY <1>1, GreatestOfFinite

\* select_backup takes one of the valid ones, if there is one.
LEMMA SelectChooses ==
    ASSUME NEW valid \in SUBSET Backups
    PROVE  /\ Select(valid) \subseteq valid
           /\ Select(valid) = {} => valid = {}
<1>1. CASE valid \cap Stamps = {}
  BY <1>1 DEF Select
<1>2. CASE valid \cap Stamps # {}
  <2>1. Max(valid \cap Stamps) \in valid \cap Stamps BY <1>2, NewestIsOne
  <2>. QED BY <1>2, <2>1 DEF Select
<1>. QED BY <1>1, <1>2

\* Every step of an installer keeps the types.
LEMMA StepTypes ==
    ASSUME InstallTypeOK, NEW i \in Installers, Request(i) \/ Step(i) \/ Crash(i)
    PROVE  InstallTypeOK'
<1>1. cast[i] \in Places /\ Entry(i) \in Entries /\ Version(i) \in Versions
  BY PlaceTypes
<1>2. /\ faults' \subseteq (UNION FaultCases) \cup {"damaged"}
      /\ tool' \in ToolKinds
      /\ cast' \in [Installers -> Places]
  BY DEF Request, Step, Crash, InstallTypeOK, Lock, Acquire, LockTimeout, Inspect,
     RemoveInvalid, Restore, CleanBackup, CleanWork, Source, Lease, TakeLease,
     LeaseTimeout, Ensure, Stage, Retry, Publish, Check, Finish
<1>3. /\ target' \in [Places -> Trees]
      /\ backup' \in [Places -> [Backups -> Trees]]
  <2>1. CASE RemoveInvalid(i)
    BY <1>1, <2>1 DEF RemoveInvalid, InstallTypeOK, Trees
  <2>2. CASE Restore(i)
    <3>1. CASE UNCHANGED disk BY <3>1 DEF disk, InstallTypeOK
    <3>2. ASSUME NEW b \in Backups,
                 target' = [target EXCEPT ![cast[i]] = backup[cast[i]][b]],
                 backup' = [backup EXCEPT ![cast[i]][b] = "none"]
          PROVE  /\ target' \in [Places -> Trees]
                 /\ backup' \in [Places -> [Backups -> Trees]]
      BY <1>1, <3>2 DEF InstallTypeOK, Trees
    <3>3. Select(op[i].valid) \subseteq Backups
      <4>1. op[i].valid \subseteq Backups BY DEF InstallTypeOK, Operations
      <4>. QED BY <4>1, SelectChooses
    <3>. QED BY <2>2, <3>1, <3>2, <3>3 DEF Restore
  <2>3. CASE CleanBackup(i)
    <3>1. PICK b \in Backups, rest \in Trees : backup' = [backup EXCEPT ![cast[i]][b] = rest]
      <4>1. \A b \in Backups : backup[cast[i]][b] \in Trees
        BY PlaceTypes DEF InstallTypeOK
      <4>2. \E b \in Backups : \E rest \in {"none", "broken", backup[cast[i]][b]} :
              backup' = [backup EXCEPT ![cast[i]][b] = rest]
        BY <2>3 DEF CleanBackup, Left
      <4>. QED BY <4>1, <4>2 DEF Trees
    <3>. QED BY <1>1, <2>3, <3>1 DEF CleanBackup, InstallTypeOK
  <2>4. CASE Publish(i)
    BY <1>1, <2>4 DEF Publish, InstallTypeOK, Trees
  <2>5. CASE Check(i)
    BY <1>1, <2>5 DEF Check, InstallTypeOK, Trees
  <2>6. CASE UNCHANGED <<target, backup>>
    BY <2>6 DEF InstallTypeOK
  <2>. QED
    BY <2>1, <2>2, <2>3, <2>4, <2>5, <2>6 DEF Request, Step, Crash, Lock, Acquire,
       LockTimeout, Inspect, CleanWork, Source, Lease, TakeLease, LeaseTimeout, Ensure,
       Stage, Retry, Finish, disk
<1>5. selection' \in [Entries -> Versions \cup {Nothing}]
  BY <1>1 DEF Request, Step, Crash, InstallTypeOK, Lock, Acquire, LockTimeout, Inspect,
     RemoveInvalid, Restore, CleanBackup, CleanWork, Source, Lease, TakeLease,
     LeaseTimeout, Ensure, Stage, Retry, Publish, Check, Finish, disk
<1>6. cache' \in [Versions -> Archives]
  <2>1. ASSUME NEW a \in Archives, cache' = [cache EXCEPT ![Version(i)] = a]
        PROVE  cache' \in [Versions -> Archives]
    BY <1>1, <2>1 DEF InstallTypeOK
  <2>2. CASE Ensure(i)
    BY <2>1, <2>2 DEF Ensure, Archives, InstallTypeOK
  <2>3. CASE Retry(i)
    BY <2>1, <2>3 DEF Retry, ClearCache, Archives, InstallTypeOK
  <2>4. CASE UNCHANGED cache
    BY <2>4 DEF InstallTypeOK
  <2>. QED
    BY <2>2, <2>3, <2>4 DEF Request, Step, Crash, Lock, Acquire, LockTimeout, Inspect,
       RemoveInvalid, Restore, CleanBackup, CleanWork, Source, Lease, TakeLease,
       LeaseTimeout, Stage, Publish, Check, Finish
<1>7. /\ lock' \in [Entries -> Installers \cup {Nobody}]
      /\ lease' \in [Versions -> Installers \cup {Nobody}]
  BY <1>1, ReturnTypes DEF Request, Step, Crash, InstallTypeOK, Lock, Acquire,
     LockTimeout, Inspect, RemoveInvalid, Restore, CleanBackup, CleanWork, Source, Lease,
     TakeLease, LeaseTimeout, Ensure, Stage, Drop, Retry, ClearCache, Publish, Check,
     Finish, Fails
<1>8. op' \in [Installers -> Operations]
  <2>0. op \in [Installers -> Operations] BY DEF InstallTypeOK
  <2>1. CASE Request(i)
    <3>1. PICK latest \in BOOLEAN :
             op' = [op EXCEPT ![i] = [NoOp EXCEPT !.pc = "locking", !.latest = latest]]
      BY <2>1 DEF Request
    <3>2. [NoOp EXCEPT !.pc = "locking", !.latest = latest] \in Operations
      <4>1. NoOp \in Operations BY DEF NoOp, Operations, Steps, Trees
      <4>. QED BY <4>1 DEF Operations, Steps
    <3> DEFINE o == [NoOp EXCEPT !.pc = "locking", !.latest = latest]
    <3>3. o \in Operations /\ op' = [op EXCEPT ![i] = o] BY <3>1, <3>2
    <3>. HIDE DEF o
    <3>. QED BY <2>0, <3>3
  <2>2. CASE Lock(i)
    BY <2>2, GotoTypes DEF Lock, Acquire, Steps
  <2>3. CASE LockTimeout(i)
    <3>1. NoOp \in Operations BY DEF NoOp, Operations, Steps, Trees
    <3>. QED BY <2>0, <2>3, <3>1 DEF LockTimeout
  <2>4. CASE Inspect(i)
    <3> DEFINE o == [op[i] EXCEPT
                       !.pc = IF Here(i) = "whole" THEN "clean" ELSE "remove",
                       !.valid = {b \in Backups : backup[cast[i]][b] = "whole"}]
    <3>1. o \in Operations BY <2>0 DEF Operations, Steps
    <3>2. op' = [op EXCEPT ![i] = o] \/ Return(i) BY <2>4 DEF Inspect, Fails
    <3>. HIDE DEF o
    <3>. QED BY <3>1, <3>2, RecordTypes, ReturnTypes
  <2>5. CASE RemoveInvalid(i)
    BY <2>5, ReturnTypes, GotoTypes DEF RemoveInvalid, Fails, Steps
  <2>6. CASE Restore(i)
    <3>1. ASSUME op' = [op EXCEPT ![i] = [@ EXCEPT !.pc = "clean", !.missing = TRUE]]
          PROVE  op' \in [Installers -> Operations]
      <4> DEFINE o == [op[i] EXCEPT !.pc = "clean", !.missing = TRUE]
      <4>1. o \in Operations BY <2>0 DEF Operations, Steps
      <4>2. op' = [op EXCEPT ![i] = o] BY <2>0, <3>1
      <4>. HIDE DEF o
      <4>. QED BY <2>0, <4>1, <4>2
    <3>. QED BY <2>6, <3>1, ReturnTypes, GotoTypes DEF Restore, Fails, Steps
  <2>7. CASE CleanBackup(i)
    BY <2>0, <2>7 DEF CleanBackup, Left, Operations
  <2>8. CASE CleanWork(i)
    <3>1. \A j \in Installers : op'[j] \in Operations
      BY <2>0, <2>8 DEF CleanWork, Operations, Steps, Trees
    <3>. QED BY <2>8, <3>1 DEF CleanWork
  <2>9. CASE Source(i)
    BY <2>9, ReturnTypes, GotoTypes, UnpackTypes DEF Source, Fails, Steps
  <2>10. CASE Lease(i)
    BY <2>10, GotoTypes DEF Lease, TakeLease, Steps
  <2>11. CASE Ensure(i)
    BY <2>11, ReturnTypes, UnpackTypes DEF Ensure, Fails
  <2>12. CASE Stage(i)
    <3>1. PICK t \in Trees : op' = [op EXCEPT ![i] = [@ EXCEPT !.staged = t, !.pc = "publish"]]
      <4>1. op[i].staged \in Trees /\ "whole" \in Trees /\ "none" \in Trees
        BY <2>0 DEF Operations, Trees
      <4>2. op' = [op EXCEPT ![i] = [@ EXCEPT
                    !.staged = IF op[i].staged = "none" THEN "none" ELSE "whole",
                    !.pc = "publish"]]
        BY <2>0, <2>12 DEF Stage
      <4>. QED BY <4>1, <4>2
    <3> DEFINE o == [op[i] EXCEPT !.staged = t, !.pc = "publish"]
    <3>2. o \in Operations BY <2>0 DEF Operations, Steps
    <3>3. op' = [op EXCEPT ![i] = o] BY <2>0, <3>1
    <3>. HIDE DEF o
    <3>. QED BY <2>0, <3>2, <3>3
  <2>13. CASE Retry(i)
    <3>1. CASE op[i].attempt = 0 /\ ClearCache(i)
      <4> DEFINE o == [op[i] EXCEPT !.pc = "lease", !.staged = "none",
                                    !.attempt = op[i].attempt + 1]
      <4>1. o \in Operations
        <5>1. op[i] \in Operations /\ op[i].attempt + 1 \in 0..1 BY <2>0, <3>1
        <5>. QED BY <5>1 DEF Operations, Steps, Trees
      <4>2. op' = [op EXCEPT ![i] = o] \/ Return(i) BY <3>1 DEF ClearCache, Fails
      <4>. HIDE DEF o
      <4>. QED BY <4>1, <4>2, RecordTypes, ReturnTypes
    <3>. QED BY <2>13, <3>1, ReturnTypes DEF Retry
  <2>14. CASE Publish(i)
    <3> DEFINE o == [op[i] EXCEPT !.staged = "none", !.pc = "check"]
    <3>1. o \in Operations BY <2>0 DEF Operations, Steps, Trees
    <3>2. op' = [op EXCEPT ![i] = o] \/ Return(i) BY <2>14 DEF Publish
    <3>. HIDE DEF o
    <3>. QED BY <3>1, <3>2, RecordTypes, ReturnTypes
  <2>15. CASE Check(i)
    BY <2>15, ReturnTypes, GotoTypes DEF Check, Steps
  <2>16. CASE LeaseTimeout(i) \/ Finish(i) \/ Crash(i)
    BY <2>16, ReturnTypes DEF LeaseTimeout, Finish, Crash
  <2>. QED
    BY <2>1, <2>2, <2>3, <2>4, <2>5, <2>6, <2>7, <2>8, <2>9, <2>10, <2>11, <2>12, <2>13,
       <2>14, <2>15, <2>16 DEF Step
<1>. QED BY <1>2, <1>3, <1>5, <1>6, <1>7, <1>8 DEF InstallTypeOK

\* What a step of an installer leaves alone: the work of the others, their
\* locks, and every place but its own.
Effect(i) ==
  /\ UNCHANGED <<tool, cast>>
  /\ "damaged" \in faults => "damaged" \in faults'
  /\ \A j \in Installers \ {i} :
       \/ op'[j] = op[j]
       \/ /\ Past(i) /\ Entry(j) = Entry(i)
          /\ op'[j] = [op[j] EXCEPT !.staged = "none"]
  /\ \A e \in Entries : lock[e] \in Installers \ {i} => lock'[e] = lock[e]
  /\ \A v \in Versions : lease[v] \in Installers \ {i} => lease'[v] = lease[v]
  /\ \A p \in Places :
       \/ target'[p] = target[p] /\ backup'[p] = backup[p]
       \/ Past(i) /\ p = cast[i]

\* An installer that has returned relies on nothing.
LEMMA ReturnKeeps ==
    ASSUME InstallTypeOK, NEW i \in Installers, Return(i)
    PROVE  PlaceInv(i)' /\ WorkInv(i)'
<1>1. op'[i] = NoOp
  BY DEF InstallTypeOK, Return
<1>2. op'[i].pc = "idle" /\ op'[i].staged = "none"
  BY <1>1 DEF NoOp
<1>. QED BY <1>2 DEF PlaceInv, LockInv, RecoveryInv, MissingInv, Missing, ReadyInv, Past,
                    WorkInv, LeaseInv, StagedInv

\* A step of an installer keeps what it relies on itself.
LEMMA StepKeepsOwn ==
    ASSUME InstallTypeOK, NEW i \in Installers, PlaceInv(i), WorkInv(i),
           Request(i) \/ Step(i) \/ Crash(i)
    PROVE  PlaceInv(i)' /\ WorkInv(i)'
<1>1. /\ op \in [Installers -> Operations] /\ op[i] \in Operations
      /\ cast[i] \in Places /\ Entry(i) \in Entries /\ Version(i) \in Versions
      /\ lock \in [Entries -> Installers \cup {Nobody}]
      /\ lease \in [Versions -> Installers \cup {Nobody}]
      /\ target \in [Places -> Trees] /\ backup \in [Places -> [Backups -> Trees]]
  BY PlaceTypes DEF InstallTypeOK
<1>2. CASE Return(i)
  BY <1>2, ReturnKeeps
<1>. USE DEF PlaceInv, LockInv, RecoveryInv, MissingInv, Missing, ReadyInv, Past,
             WorkInv, LeaseInv, StagedInv, Undamaged, At, Here, Entry, Version
<1>3. CASE Request(i) \/ LockTimeout(i)
  <2>1. op'[i].pc \in {"idle", "locking"} /\ op'[i].missing = FALSE /\ op'[i].staged = "none"
    <3>1. CASE LockTimeout(i)
      BY <1>1, <3>1 DEF LockTimeout, NoOp
    <3>2. CASE Request(i)
      <4>1. PICK latest \in BOOLEAN :
               op' = [op EXCEPT ![i] = [NoOp EXCEPT !.pc = "locking", !.latest = latest]]
        BY <3>2 DEF Request
      <4>2. op'[i] = [NoOp EXCEPT !.pc = "locking", !.latest = latest]
        BY <1>1, <4>1
      <4>. QED BY <4>2 DEF NoOp
    <3>. QED BY <1>3, <3>1, <3>2
  <2>. QED BY <2>1
<1>4. CASE Lock(i)
  <2>1. op'[i] = [op[i] EXCEPT !.pc = "inspect"] /\ op[i].pc = "locking"
    BY <1>1, <1>4 DEF Lock, Acquire, Goto
  <2>2. lock'[Entry(i)'] = i
    BY <1>1, <1>4 DEF Lock, Acquire
  <2>. QED BY <1>1, <2>1, <2>2 DEF Operations
<1>5. ASSUME Inspect(i), ~Return(i) PROVE PlaceInv(i)' /\ WorkInv(i)'
  <2>1. op'[i] = [op[i] EXCEPT
                    !.pc = IF Here(i) = "whole" THEN "clean" ELSE "remove",
                    !.valid = {b \in Backups : backup[cast[i]][b] = "whole"}]
    BY <1>1, <1>5 DEF Inspect, Fails
  <2>2. /\ UNCHANGED <<faults, cast, target, backup, lock, lease>>
        /\ op[i].pc = "inspect"
    BY <1>5 DEF Inspect, Fails, disk
  <2>3. /\ op'[i].pc = (IF Here(i) = "whole" THEN "clean" ELSE "remove")
        /\ op'[i].valid = {b \in Backups : backup[cast[i]][b] = "whole"}
        /\ op'[i].missing = op[i].missing /\ op'[i].staged = op[i].staged
    BY <1>1, <2>1 DEF Operations
  <2>. QED BY <2>2, <2>3
<1>6. ASSUME RemoveInvalid(i), ~Return(i) PROVE PlaceInv(i)' /\ WorkInv(i)'
  <2>1. /\ op'[i] = [op[i] EXCEPT !.pc = "restore"] /\ op[i].pc = "remove"
        /\ target'[cast[i]] = "none" /\ UNCHANGED <<cast, backup, lock>>
    BY <1>1, <1>6 DEF RemoveInvalid, Fails, Goto
  <2>. QED BY <1>1, <2>1 DEF Operations
<1>7. ASSUME Restore(i), ~Return(i) PROVE PlaceInv(i)' /\ WorkInv(i)'
  <2>1. op[i].valid \in SUBSET Backups /\ op[i].pc = "restore"
    BY <1>1, <1>7 DEF Restore, Operations
  <2>2. CASE Select(op[i].valid) = {}
    <3>1. ~(Cardinality(Select(op[i].valid)) > 1)
      BY <2>2, FS_EmptySet
    <3>2. /\ op' = [op EXCEPT ![i] = [@ EXCEPT !.pc = "clean", !.missing = TRUE]]
          /\ UNCHANGED <<cast, target, backup, lock>>
      BY <1>7, <2>2, <3>1 DEF Restore, disk
    <3>3. op'[i] = [op[i] EXCEPT !.pc = "clean", !.missing = TRUE]
      BY <1>1, <3>2
    <3>4. \A b \in Backups : backup[cast[i]][b] # "whole"
      BY <2>1, <2>2, SelectChooses
    <3>. QED BY <1>1, <2>1, <3>2, <3>3, <3>4 DEF Operations
  <2>3. CASE Select(op[i].valid) # {}
    <3>1. PICK b \in Select(op[i].valid) :
             /\ target' = [target EXCEPT ![cast[i]] = backup[cast[i]][b]]
             /\ backup[cast[i]][b] = "whole" /\ Goto(i, "clean")
             /\ UNCHANGED <<cast, lock>>
      BY <1>7, <2>3 DEF Restore, Fails
    <3>2. op'[i] = [op[i] EXCEPT !.pc = "clean"] /\ target'[cast[i]] = "whole"
      BY <1>1, <3>1 DEF Goto
    <3>. QED BY <1>1, <2>1, <3>1, <3>2 DEF Operations
  <2>. QED BY <2>2, <2>3
<1>8. CASE CleanBackup(i)
  <2>0. PICK b \in Backups :
           /\ \E rest \in {"none", "broken", backup[cast[i]][b]} :
                backup' = [backup EXCEPT ![cast[i]][b] = rest]
           /\ op' = [op EXCEPT ![i].tried = @ \cup {b}]
    BY <1>8 DEF CleanBackup, Left
  <2>1. PICK rest \in {"none", "broken", backup[cast[i]][b]} :
           /\ backup' = [backup EXCEPT ![cast[i]][b] = rest]
           /\ op' = [op EXCEPT ![i].tried = @ \cup {b}]
    BY <2>0
  <2>2. /\ op'[i] = [op[i] EXCEPT !.tried = @ \cup {b}] /\ op[i].pc = "clean"
        /\ UNCHANGED <<faults, cast, target, lock>>
    BY <1>1, <1>8, <2>1 DEF CleanBackup
  <2>3. \A c \in Backups : backup'[cast[i]][c] = "whole" => backup[cast[i]][c] = "whole"
    BY <1>1, <2>1
  <2>. QED BY <1>1, <2>2, <2>3 DEF Operations
<1>9. CASE CleanWork(i)
  <2>1. /\ op'[i] = [op[i] EXCEPT !.pc = IF op[i].missing THEN "source" ELSE "finish"]
        /\ op[i].pc = "clean" /\ UNCHANGED <<faults, cast, target, backup, lock>>
    BY <1>1, <1>9 DEF CleanWork, disk
  <2>. QED BY <1>1, <2>1 DEF Operations
<1>10. ASSUME Source(i), ~Return(i) PROVE PlaceInv(i)' /\ WorkInv(i)'
  <2>1. /\ UNCHANGED <<faults, tool, cast, target, backup, lock, lease>>
        /\ op[i].pc = "source"
    BY <1>10 DEF Source, Fails, disk
  <2>2. CASE tool = "archive"
    <3>1. op'[i] = [op[i] EXCEPT !.pc = "lease"]
      BY <1>1, <1>10, <2>2 DEF Source, Fails, Goto
    <3>. QED BY <1>1, <2>1, <2>2, <3>1 DEF Operations
  <2>3. CASE tool # "archive"
    <3>1. op'[i] = [op[i] EXCEPT !.staged = "broken", !.pc = "stage"]
      BY <1>1, <1>10, <2>3 DEF Source, Fails, Unpack
    <3>. QED BY <1>1, <2>1, <2>3, <3>1 DEF Operations
  <2>. QED BY <2>2, <2>3
<1>11. CASE Lease(i)
  <2>1. /\ op'[i] = [op[i] EXCEPT !.pc = "ensure"] /\ op[i].pc = "lease"
        /\ UNCHANGED <<faults, tool, cast, target, backup, lock>>
    BY <1>1, <1>11 DEF Lease, TakeLease, Goto, disk
  <2>2. lease'[Version(i)] = i
    BY <1>1, <1>11 DEF Lease, TakeLease
  <2>. QED BY <1>1, <2>1, <2>2 DEF Operations
<1>12. ASSUME Ensure(i), ~Return(i) PROVE PlaceInv(i)' /\ WorkInv(i)'
  <2>1. /\ op'[i] = [op[i] EXCEPT !.staged = "broken", !.pc = "stage"]
        /\ op[i].pc = "ensure"
        /\ UNCHANGED <<faults, tool, cast, target, backup, lock, lease>>
    BY <1>1, <1>12 DEF Ensure, Fails, Unpack, disk
  <2>. QED BY <1>1, <2>1 DEF Operations
<1>13. CASE Stage(i)
  <2>1. /\ op'[i] = [op[i] EXCEPT
                       !.staged = IF op[i].staged = "none" THEN "none" ELSE "whole",
                       !.pc = "publish"]
        /\ op[i].pc = "stage"
        /\ UNCHANGED <<faults, tool, cast, target, backup, lock>>
    BY <1>1, <1>13 DEF Stage, disk
  <2>. QED BY <1>1, <2>1 DEF Operations
<1>14. ASSUME Retry(i), ~Return(i) PROVE PlaceInv(i)' /\ WorkInv(i)'
  <2>1. /\ op'[i] = [op[i] EXCEPT !.pc = "lease", !.staged = "none",
                                  !.attempt = op[i].attempt + 1]
        /\ op[i].pc = "stage" /\ tool = "archive"
        /\ UNCHANGED <<faults, tool, cast, target, backup, lock>>
    BY <1>1, <1>14 DEF Retry, StagingFails, ClearCache, Fails, disk
  <2>. QED BY <1>1, <2>1 DEF Operations
<1>15. ASSUME Publish(i), ~Return(i) PROVE PlaceInv(i)' /\ WorkInv(i)'
  <2>1. /\ op'[i] = [op[i] EXCEPT !.staged = "none", !.pc = "check"]
        /\ op[i].pc = "publish" /\ UNCHANGED <<cast, lock>>
    BY <1>1, <1>15 DEF Publish
  <2>. QED BY <1>1, <2>1 DEF Operations
<1>16. ASSUME Check(i), ~Return(i) PROVE PlaceInv(i)' /\ WorkInv(i)'
  <2>1. /\ op'[i] = [op[i] EXCEPT !.pc = "finish"] /\ op[i].pc = "check"
        /\ Here(i) = "whole" /\ UNCHANGED <<cast, target, lock>>
    BY <1>1, <1>16 DEF Check, Goto
  <2>. QED BY <1>1, <2>1 DEF Operations
<1>. QED BY <1>2, <1>3, <1>4, <1>5, <1>6, <1>7, <1>8, <1>9, <1>10, <1>11, <1>12, <1>13,
            <1>14, <1>15, <1>16 DEF Step, LeaseTimeout, Finish, Crash

\* The steps have these effects on others only.
LEMMA StepEffects ==
    ASSUME InstallTypeOK, NEW i \in Installers, WorkInv(i),
           Request(i) \/ Step(i) \/ Crash(i)
    PROVE  Effect(i)
<1>1. /\ op \in [Installers -> Operations] /\ cast[i] \in Places
      /\ Entry(i) \in Entries /\ Version(i) \in Versions
      /\ lock \in [Entries -> Installers \cup {Nobody}]
      /\ lease \in [Versions -> Installers \cup {Nobody}]
      /\ target \in [Places -> Trees] /\ backup \in [Places -> [Backups -> Trees]]
  BY PlaceTypes DEF InstallTypeOK
<1>2. UNCHANGED <<tool, cast>> /\ ("damaged" \in faults => "damaged" \in faults')
  BY DEF Request, Step, Crash, Lock, Acquire, LockTimeout, Inspect, RemoveInvalid,
     Restore, CleanBackup, CleanWork, Source, Lease, TakeLease, LeaseTimeout, Ensure,
     Stage, Retry, Publish, Check, Finish
<1>3. \A j \in Installers \ {i} :
        \/ op'[j] = op[j]
        \/ /\ Past(i) /\ Entry(j) = Entry(i)
           /\ op'[j] = [op[j] EXCEPT !.staged = "none"]
  <2>1. CASE CleanWork(i)
    BY <2>1 DEF CleanWork, At, Past
  <2>2. CASE \E o : op' = [op EXCEPT ![i] = o]
    BY <2>2, <1>1
  <2>. QED BY <2>1, <2>2 DEF Request, Step, Crash, Lock, Acquire, LockTimeout, Inspect,
              RemoveInvalid, Restore, CleanBackup, Source, Unpack, Lease, TakeLease,
              LeaseTimeout, Ensure, Stage, Retry, ClearCache, Publish, Check, Finish,
              Fails, Return, Goto
<1>4. \A e \in Entries : lock[e] \in Installers \ {i} => lock'[e] = lock[e]
  BY <1>1, NobodyAssumption DEF Request, Step, Crash, Lock, Acquire, LockTimeout, Inspect,
     RemoveInvalid, Restore, CleanBackup, CleanWork, Source, Lease, TakeLease,
     LeaseTimeout, Ensure, Stage, Retry, ClearCache, Publish, Check, Finish, Fails, Return
<1>5. \A v \in Versions : lease[v] \in Installers \ {i} => lease'[v] = lease[v]
  <2>1. CASE Stage(i) \/ Retry(i)
    <3>1. op[i].pc = "stage"
      BY <2>1 DEF Stage, Retry, StagingFails, At
    <3>2. CASE tool = "archive" /\ Drop(i)
      BY <1>1, <3>1, <3>2 DEF Drop, WorkInv, LeaseInv
    <3>3. CASE UNCHANGED lease
      BY <3>3
    <3>4. CASE Return(i)
      BY <1>1, <3>4 DEF Return
    <3>. QED BY <2>1, <3>2, <3>3, <3>4 DEF Stage, Retry, ClearCache, Fails
  <2>. QED BY <2>1, <1>1, NobodyAssumption DEF Request, Step, Crash, Lock, Acquire,
              LockTimeout, Inspect, RemoveInvalid, Restore, CleanBackup, CleanWork,
              Source, Lease, TakeLease, LeaseTimeout, Ensure, Publish, Check, Finish,
              Fails, Return
<1>6. \A p \in Places :
        \/ target'[p] = target[p] /\ backup'[p] = backup[p]
        \/ Past(i) /\ p = cast[i]
  <2>1. CASE UNCHANGED <<target, backup>>
    BY <2>1
  <2>2. CASE /\ Past(i)
             /\ UNCHANGED target \/ \E t : target' = [target EXCEPT ![cast[i]] = t]
             /\ UNCHANGED backup \/ \E b, t : backup' = [backup EXCEPT ![cast[i]][b] = t]
    BY <1>1, <2>2
  <2>. QED BY <2>1, <2>2 DEF Request, Step, Crash, Lock, Acquire, LockTimeout, Inspect,
              RemoveInvalid, Restore, CleanBackup, CleanWork, Source, Lease, TakeLease,
              LeaseTimeout, Ensure, Stage, Retry, Publish, Check, Finish, Past, At, disk
<1>. QED BY <1>2, <1>3, <1>4, <1>5, <1>6 DEF Effect

\* Two installers past their wait work in different Entries.
LEMMA OneAtAPlace ==
    ASSUME NEW i \in Installers, NEW j \in Installers, i # j, PlaceInv(i), PlaceInv(j),
           Past(i), Past(j)
    PROVE  Entry(i) # Entry(j) /\ cast[i] # cast[j]
  BY DEF PlaceInv, LockInv, Entry

\* What an installer relies on is kept by the steps of the others.
LEMMA StepKeepsOthers ==
    ASSUME InstallInv, NEW i \in Installers, NEW j \in Installers, i # j, Effect(i)
    PROVE  PlaceInv(j)' /\ WorkInv(j)'
<1>1. /\ op[j] \in Operations /\ cast[j] \in Places
      /\ Entry(j) \in Entries /\ Version(j) \in Versions
  BY PlaceTypes DEF InstallInv, InstallTypeOK
<1>2. PlaceInv(i) /\ PlaceInv(j) /\ WorkInv(j) /\ UNCHANGED <<tool, cast>>
  BY DEF InstallInv, Effect
<1>3. /\ op'[j].pc = op[j].pc /\ op'[j].missing = op[j].missing
      /\ op'[j].valid = op[j].valid /\ op'[j].staged \in {op[j].staged, "none"}
  BY <1>1 DEF Effect, Operations
<1>4. WorkInv(j)'
  BY <1>1, <1>2, <1>3 DEF Effect, WorkInv, LeaseInv, StagedInv, Version
<1>5. LockInv(j)'
  BY <1>1, <1>2, <1>3 DEF Effect, PlaceInv, LockInv, Past, Entry
<1>6. ASSUME ~Past(j) PROVE PlaceInv(j)'
  BY <1>2, <1>3, <1>5, <1>6 DEF PlaceInv, RecoveryInv, MissingInv, Missing, ReadyInv, Past
<1>7. ASSUME Past(j) PROVE PlaceInv(j)'
  <2>1. target'[cast[j]] = target[cast[j]] /\ backup'[cast[j]] = backup[cast[j]]
    BY <1>1, <1>2, <1>7, OneAtAPlace DEF Effect
  <2>2. Undamaged' => Undamaged
    BY DEF Effect, Undamaged
  <2>. QED BY <1>2, <1>3, <1>5, <2>1, <2>2
           DEF PlaceInv, RecoveryInv, MissingInv, Missing, ReadyInv, Here
<1>. QED BY <1>4, <1>6, <1>7

\* Everything holds in the beginning, whatever an earlier installation left.
LEMMA InstallInitInv == InstallInit /\ StartsAssumption => InstallInv
<1>. SUFFICES ASSUME InstallInit, StartsAssumption PROVE InstallInv
  OBVIOUS
<1>1. \A i \in Installers : op[i].pc = "idle" /\ op[i].staged = "none"
  BY DEF InstallInit, NoOp
<1>2. InstallTypeOK
  <2>1. PICK s \in Starts : /\ tool = s.kind /\ cast = s.cast /\ cache = s.cache
                            /\ target = s.target /\ backup = s.backup
    BY DEF InstallInit
  <2>2. /\ tool \in ToolKinds /\ cast \in [Installers -> Places]
        /\ target \in [Places -> Trees] /\ backup \in [Places -> [Backups -> Trees]]
        /\ cache \in [Versions -> Archives]
    BY <2>1 DEF StartsAssumption
  <2>3. faults \subseteq (UNION FaultCases) \cup {"damaged"}
    BY DEF InstallInit
  <2>4. op \in [Installers -> Operations]
    BY NoOpTyped DEF InstallInit
  <2>. QED BY <2>2, <2>3, <2>4 DEF InstallInit, InstallTypeOK
<1>3. \A i \in Installers : PlaceInv(i) /\ WorkInv(i)
  BY <1>1 DEF PlaceInv, LockInv, RecoveryInv, MissingInv, Missing, ReadyInv, Past,
              WorkInv, LeaseInv, StagedInv
<1>. QED BY <1>2, <1>3 DEF InstallInv

\* Damage spoils a whole t; it makes none, and removes none.
LEMMA DamageKeepsInv ==
    ASSUME InstallInv, NEW p \in Places, Damage(p)
    PROVE  InstallInv'
<1>1. InstallTypeOK /\ \A i \in Installers : PlaceInv(i) /\ WorkInv(i)
  BY DEF InstallInv
<1>2. /\ target \in [Places -> Trees] /\ backup \in [Places -> [Backups -> Trees]]
      /\ \A i \in Installers : cast[i] \in Places
  BY <1>1 DEF InstallTypeOK
<1>3. UNCHANGED <<tool, cast, selection, cache, lock, lease, op>> /\ ~Undamaged'
  BY DEF Damage, Undamaged
<1>4. /\ target' \in [Places -> Trees]
      /\ \A q \in Places : /\ target'[q] = "whole" => target[q] = "whole"
                           /\ target[q] = "none" => target'[q] = "none"
  BY <1>2 DEF Damage, Trees
<1>5. /\ backup' \in [Places -> [Backups -> Trees]]
      /\ \A q \in Places, b \in Backups :
           backup'[q][b] = "whole" => backup[q][b] = "whole"
  <2>1. CASE UNCHANGED backup
    BY <1>2, <2>1
  <2>2. CASE \E b \in Backups : backup' = [backup EXCEPT ![p][b] = "broken"]
    BY <1>2, <2>2 DEF Trees
  <2>. QED BY <2>1, <2>2 DEF Damage
<1>6. InstallTypeOK'
  <2>1. faults' \subseteq (UNION FaultCases) \cup {"damaged"}
    <3>1. faults \subseteq (UNION FaultCases) \cup {"damaged"}
      BY <1>1 DEF InstallTypeOK
    <3>2. \A f \in faults' : f \in faults \/ f = "damaged"
      BY DEF Damage
    <3>. QED BY <3>1, <3>2
  <2>. QED BY <1>1, <1>3, <1>4, <1>5, <2>1 DEF InstallTypeOK
<1>7. ASSUME NEW i \in Installers PROVE PlaceInv(i)' /\ WorkInv(i)'
  <2>1. cast[i] \in Places /\ PlaceInv(i) /\ WorkInv(i)
    BY <1>1, <1>2
  <2>2. WorkInv(i)' /\ LockInv(i)'
    BY <2>1, <1>3 DEF PlaceInv, LockInv, Past, Entry, Version, WorkInv, LeaseInv,
       StagedInv
  <2>3. /\ target'[cast[i]] = "whole" => target[cast[i]] = "whole"
        /\ target[cast[i]] = "none" => target'[cast[i]] = "none"
        /\ \A b \in Backups : backup'[cast[i]][b] = "whole" => backup[cast[i]][b] = "whole"
    BY <2>1, <1>4, <1>5
  <2>4. RecoveryInv(i)' /\ MissingInv(i)' /\ ReadyInv(i)'
    BY <2>1, <2>3, <1>3 DEF PlaceInv, RecoveryInv, MissingInv, Missing, ReadyInv, Here
  <2>. QED BY <2>2, <2>4 DEF PlaceInv
<1>. QED BY <1>6, <1>7 DEF InstallInv

\* Every step keeps the invariant.
LEMMA InstallStepInv == InstallInv /\ [InstallNext]_installVars => InstallInv'
<1>. SUFFICES ASSUME InstallInv, [InstallNext]_installVars PROVE InstallInv'
  OBVIOUS
<1>1. ASSUME NEW i \in Installers, Request(i) \/ Step(i) \/ Crash(i)
      PROVE  InstallInv'
  <2>1. InstallTypeOK /\ PlaceInv(i) /\ WorkInv(i)
    BY DEF InstallInv
  <2>2. InstallTypeOK' /\ Effect(i) /\ PlaceInv(i)' /\ WorkInv(i)'
    BY <1>1, <2>1, StepTypes, StepEffects, StepKeepsOwn
  <2>3. \A j \in Installers : PlaceInv(j)' /\ WorkInv(j)'
    BY <2>2, StepKeepsOthers
  <2>. QED BY <2>2, <2>3 DEF InstallInv
<1>2. CASE UNCHANGED installVars
  BY <1>2 DEF installVars, disk, InstallInv, InstallTypeOK, PlaceInv, LockInv,
     RecoveryInv, MissingInv, Missing, ReadyInv, Past, Here, Entry, Version, WorkInv,
     LeaseInv, StagedInv, Undamaged
<1>. QED BY <1>1, <1>2, DamageKeepsInv DEF InstallNext

\* What each installer relies on while it recovers, stages and publishes
\* (install_archive_tool and the toolchain setup) holds always.
THEOREM InstallInvariant == InstallSpec => []InstallInv
  BY InstallInitInv, InstallStepInv, StartsAssumption, PTL DEF InstallSpec

\* A publication finds no target in its way, and an installation that is
\* reported as ready is whole unless something else has damaged it.
THEOREM InstallIsSafe == InstallSpec => []InstallSafety
<1>1. InstallInv => InstallSafety
  BY DEF InstallInv, InstallSafety, PublishFindsNoTarget, ReportedIsWhole, PlaceInv,
     MissingInv, Missing, ReadyInv, At
<1>. QED BY <1>1, InstallInvariant, PTL

\* No step gives up the last whole tree of a place: an invalid target is all
\* that is removed, and what is cleaned up lies beside a whole one.
LEMMA KeepsStep ==
    ASSUME InstallInv, [InstallNext]_installVars, Undamaged', NEW p \in Places, HasWhole(p)
    PROVE  HasWhole(p)'
<1>1. InstallTypeOK /\ \A i \in Installers : PlaceInv(i) /\ WorkInv(i)
  BY DEF InstallInv
<1>2. /\ target \in [Places -> Trees] /\ backup \in [Places -> [Backups -> Trees]]
      /\ op \in [Installers -> Operations]
  BY <1>1 DEF InstallTypeOK
<1>3. CASE UNCHANGED <<target, backup>>
  BY <1>3 DEF HasWhole
<1>4. ASSUME NEW i \in Installers,
             RemoveInvalid(i) \/ Restore(i) \/ CleanBackup(i) \/ Publish(i) \/ Check(i)
      PROVE  HasWhole(p)'
  <2>1. PlaceInv(i) /\ cast[i] \in Places
    BY <1>1, PlaceTypes
  <2>2. CASE p # cast[i]
    <3>1. Effect(i)
      BY <1>1, <1>4, StepEffects DEF Step
    <3>. QED BY <2>2, <3>1 DEF Effect, HasWhole
  <2>3. CASE p = cast[i]
    <3>1. CASE RemoveInvalid(i)
      BY <1>2, <2>1, <2>3, <3>1 DEF RemoveInvalid, At, HasWhole, PlaceInv, RecoveryInv,
         Here
    <3>2. CASE Restore(i)
      <4>1. target[p] = "none"
        BY <2>1, <2>3, <3>2 DEF Restore, At, PlaceInv, MissingInv, Here
      <4>2. op[i].valid \in SUBSET Backups
        BY <1>2 DEF Operations
      <4>3. CASE UNCHANGED disk
        BY <4>3 DEF disk, HasWhole
      <4>4. ASSUME NEW b \in Select(op[i].valid),
                   target' = [target EXCEPT ![cast[i]] = backup[cast[i]][b]],
                   backup' = [backup EXCEPT ![cast[i]][b] = "none"]
            PROVE  HasWhole(p)'
        <5>1. b \in Backups
          BY <4>2, SelectChooses
        <5>. QED BY <1>2, <2>1, <2>3, <4>1, <4>4, <5>1 DEF HasWhole
      <4>. QED BY <3>2, <4>3, <4>4 DEF Restore
    <3>3. CASE CleanBackup(i)
      <4>1. op[i].pc = "clean" /\ UNCHANGED <<faults, target>>
        BY <3>3 DEF CleanBackup, At
      <4>2. op[i].missing \in BOOLEAN
        BY <1>2 DEF Operations
      <4>3. ~op[i].missing
        BY <2>1, <2>3, <4>1 DEF PlaceInv, MissingInv, Missing, HasWhole, Here
      <4>. QED BY <2>1, <2>3, <4>1, <4>3 DEF PlaceInv, ReadyInv, HasWhole, Here, Undamaged
    <3>4. CASE Publish(i)
      BY <1>2, <2>1, <2>3, <3>4 DEF Publish, HasWhole
    <3>5. CASE Check(i)
      BY <1>2, <2>1, <2>3, <3>5 DEF Check, HasWhole, Here
    <3>. QED BY <1>4, <3>1, <3>2, <3>3, <3>4, <3>5
  <2>. QED BY <2>2, <2>3
<1>5. ASSUME NEW q \in Places, Damage(q) PROVE FALSE
  BY <1>5 DEF Damage, Undamaged
<1>. QED BY <1>3, <1>4, <1>5 DEF InstallNext, installVars, disk, Request, Step, Crash,
            Lock, Acquire, LockTimeout, Inspect, CleanWork, Source, Lease, TakeLease,
            LeaseTimeout, Ensure, Stage, Retry, Finish

\* A whole tree appears at a place where a backup leaves only by a restoration,
\* and that one takes the newest.
LEMMA NewestStep ==
    ASSUME InstallInv, [InstallNext]_installVars, NEW p \in Places, NEW b \in Stamps,
           target[p] # "whole", target'[p] = "whole", backup[p][b] = "whole",
           NEW c \in Backups, backup[p][c] = "whole", backup'[p][c] = "none"
    PROVE  ~(c \in Legacy \/ c < b)
<1>1. InstallTypeOK /\ \A i \in Installers : PlaceInv(i) /\ WorkInv(i)
  BY DEF InstallInv
<1>2. /\ target \in [Places -> Trees] /\ backup \in [Places -> [Backups -> Trees]]
      /\ op \in [Installers -> Operations] /\ b \in Backups
  BY <1>1 DEF InstallTypeOK, Backups
<1>3. PICK i \in Installers : Restore(i) /\ ~UNCHANGED disk
  <2>1. ~UNCHANGED target /\ ~UNCHANGED backup
    OBVIOUS
  <2>2. ASSUME NEW q \in Places PROVE ~Damage(q)
    BY <2>1 DEF Damage
  <2>. QED BY <2>1, <2>2 DEF InstallNext, installVars, disk, Request, Step, Crash, Lock,
              Acquire, LockTimeout, Inspect, RemoveInvalid, CleanBackup, CleanWork,
              Source, Lease, TakeLease, LeaseTimeout, Ensure, Stage, Retry, Publish,
              Check, Finish
<1>4. PlaceInv(i) /\ cast[i] \in Places /\ op[i].valid \in SUBSET Backups /\ op[i].pc = "restore"
  <2>1. op[i] \in Operations
    BY <1>2
  <2>. QED BY <1>1, <1>3, <2>1, PlaceTypes DEF Restore, At, Operations
<1>5. PICK d \in Select(op[i].valid) : backup' = [backup EXCEPT ![cast[i]][d] = "none"]
  BY <1>3 DEF Restore, Fails, disk
<1>6. d \in Backups
  BY <1>4, SelectChooses
<1>7. p = cast[i] /\ c = d
  BY <1>2, <1>4, <1>5, <1>6
<1>8. b \in op[i].valid \cap Stamps
  BY <1>2, <1>4, <1>7 DEF PlaceInv, RecoveryInv
<1>9. d = Max(op[i].valid \cap Stamps)
  BY <1>5, <1>8 DEF Select
<1>10. d \in Stamps /\ d >= b
  BY <1>8, <1>9, NewestIsOne
<1>. QED BY <1>7, <1>10, StampsAssumption

\* Another installer empties work directories only while it holds the lock of
\* the Entry, that is, when there is nothing in them.
LEMMA PrivateStep ==
    ASSUME InstallInv, [InstallNext]_installVars, NEW i \in Installers,
           op[i].staged # "none", op'[i].staged = "none"
    PROVE  op'[i].pc # op[i].pc
<1>1. InstallTypeOK /\ \A j \in Installers : PlaceInv(j) /\ WorkInv(j)
  BY DEF InstallInv
<1>2. op \in [Installers -> Operations] /\ op[i] \in Operations
  BY <1>1 DEF InstallTypeOK
<1>3. op[i].pc \in {"stage", "publish"} /\ PlaceInv(i)
  BY <1>1 DEF WorkInv, StagedInv
<1>4. ASSUME NEW j \in Installers, Request(j) \/ Step(j) \/ Crash(j), j # i
      PROVE  op'[i].pc # op[i].pc
  <2>1. Effect(j) /\ PlaceInv(j)
    BY <1>1, <1>4, StepEffects
  <2>2. Past(i) /\ op'[i] # op[i]
    BY <1>3 DEF Past
  <2>. QED BY <1>3, <1>4, <2>1, <2>2, OneAtAPlace DEF Effect
<1>5. CASE Request(i) \/ Step(i) \/ Crash(i)
  <2>1. CASE Return(i)
    <3>1. op'[i] = NoOp
      BY <1>2, <2>1 DEF Return
    <3>. QED BY <1>3, <3>1 DEF NoOp
  <2>2. CASE Stage(i) \/ Publish(i)
    <3>1. ASSUME op' = [op EXCEPT ![i] = op'[i]], op'[i].pc \in {"publish", "check"},
                 op'[i].pc = "check" \/ op[i].pc = "stage", op[i].pc # "check"
          PROVE  op'[i].pc # op[i].pc
      BY <3>1
    <3>. QED BY <1>2, <2>1, <2>2 DEF Stage, Publish, At, Operations
  <2>3. CASE Retry(i)
    BY <1>2, <2>1, <2>3 DEF Retry, StagingFails, ClearCache, Fails, At, Operations
  <2>. QED BY <1>3, <1>5, <2>1, <2>2, <2>3 DEF Request, Step, Crash, Lock, Acquire,
              LockTimeout, Inspect, RemoveInvalid, Restore, CleanBackup, CleanWork,
              Source, Lease, TakeLease, LeaseTimeout, Ensure, Check, Finish, Fails, At
<1>6. CASE UNCHANGED op
  BY <1>6
<1>. QED BY <1>4, <1>5, <1>6 DEF InstallNext, installVars, Damage

\* The archive of a version changes only under the lease of that version.
LEMMA ArchiveStep ==
    ASSUME InstallInv, [InstallNext]_installVars, NEW i \in Installers,
           tool = "archive", op[i].pc = "stage", op'[i].pc = "stage"
    PROVE  cache'[Version(i)] = cache[Version(i)]
<1>1. InstallTypeOK /\ \A j \in Installers : PlaceInv(j) /\ WorkInv(j)
  BY DEF InstallInv
<1>2. op \in [Installers -> Operations] /\ cache \in [Versions -> Archives]
  BY <1>1 DEF InstallTypeOK
<1>3. CASE UNCHANGED cache
  BY <1>3
<1>4. ASSUME NEW j \in Installers, Ensure(j) \/ Retry(j), ~UNCHANGED cache
      PROVE  cache'[Version(i)] = cache[Version(i)]
  <2>1. /\ tool = "archive" /\ op[j].pc \in {"ensure", "stage"}
        /\ \E a : cache' = [cache EXCEPT ![Version(j)] = a]
    BY <1>4 DEF Ensure, Retry, StagingFails, ClearCache, At
  <2>2. lease[Version(i)] = i /\ lease[Version(j)] = j
    BY <1>1, <2>1 DEF WorkInv, LeaseInv
  <2>3. i # j
    <3>1. CASE Return(j)
      BY <1>2, <3>1 DEF Return, NoOp
    <3>2. CASE Ensure(j)
      BY <3>2 DEF Ensure, At
    <3>3. CASE Retry(j) /\ ~Return(j)
      BY <1>2, <1>4, <3>3 DEF Retry, ClearCache, Fails, Operations
    <3>. QED BY <1>4, <3>1, <3>2, <3>3
  <2>. QED BY <1>2, <2>1, <2>2, <2>3
<1>. QED BY <1>3, <1>4 DEF InstallNext, installVars, Damage, Request, Step, Crash, Lock,
            Acquire, LockTimeout, Inspect, RemoveInvalid, Restore, CleanBackup, CleanWork,
            Source, Lease, TakeLease, LeaseTimeout, Stage, Publish, Check, Finish

\* A selection is made where there is none.
LEMMA LatestStep ==
    ASSUME InstallInv, [InstallNext]_installVars, NEW e \in Entries, selection[e] # Nothing
    PROVE  selection'[e] = selection[e]
<1>1. selection \in [Entries -> Versions \cup {Nothing}]
  BY DEF InstallInv, InstallTypeOK
<1>2. CASE UNCHANGED selection
  BY <1>2
<1>3. ASSUME NEW i \in Installers, Finish(i) PROVE selection'[e] = selection[e]
  BY <1>1, <1>3 DEF Finish
<1>. QED BY <1>2, <1>3 DEF InstallNext, installVars, disk, Damage, Request, Step, Crash,
            Lock, Acquire, LockTimeout, Inspect, RemoveInvalid, Restore, CleanBackup,
            CleanWork, Source, Lease, TakeLease, LeaseTimeout, Ensure, Stage, Retry,
            Publish, Check

\* No installation takes away what another one, or an earlier one, has made:
\* the last valid tree, the newest backup, what is staged, the archive it is
\* staged from, and the version selected as "latest".
THEOREM InstallLosesNothing == InstallSpec => NothingIsLost
<1>1. InstallInv /\ [InstallNext]_installVars =>
        [Undamaged' => \A p \in Places : HasWhole(p) => HasWhole(p)']_installVars
  BY KeepsStep
<1>2. InstallInv /\ [InstallNext]_installVars =>
        [\A p \in Places, b \in Stamps :
           (target[p] # "whole" /\ target'[p] = "whole" /\ backup[p][b] = "whole")
           => ~\E c \in Backups :
                /\ backup[p][c] = "whole" /\ backup'[p][c] = "none"
                /\ c \in Legacy \/ c < b]_installVars
  BY NewestStep
<1>3. InstallInv /\ [InstallNext]_installVars =>
        [\A i \in Installers :
           (op[i].staged # "none" /\ op'[i].staged = "none") => op'[i].pc # op[i].pc]_installVars
  BY PrivateStep
<1>4. InstallInv /\ [InstallNext]_installVars =>
        [\A i \in Installers :
           (tool = "archive" /\ op[i].pc = "stage" /\ op'[i].pc = "stage")
           => cache'[Version(i)] = cache[Version(i)]]_installVars
  BY ArchiveStep
<1>5. InstallInv /\ [InstallNext]_installVars =>
        [\A e \in Entries : selection[e] # Nothing => selection'[e] = selection[e]]_installVars
  BY LatestStep
<1>. QED BY <1>1, <1>2, <1>3, <1>4, <1>5, InstallInvariant, PTL DEF InstallSpec,
            NothingIsLost, KeepsAnInstallation, RestoresNewest, StageIsPrivate,
            ArchiveIsKept, LatestIsStable
=============================================================================
