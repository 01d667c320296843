----------------------- MODULE DetachedTaskRefinement -----------------------
(***************************************************************************)
(* DetachedTask implements TaskContract: every step of the launcher, the   *)
(* worker and the other invocations is a step of the contract or leaves    *)
(* what the contract speaks of unchanged.                                  *)
(***************************************************************************)
EXTENDS DetachedTaskProof

Abstract == [Contract!Next]_(Contract!vars)

\* Workspace work does not begin.
NoNewWork == Work' \in {Work, "over"}

\* A step that leaves the record alone can only end the work.
LEMMA OnlyWorkStops ==
  ASSUME task' = task, NoNewWork
  PROVE  Abstract
<1>1. UNCHANGED <<Outcome, task.cancelRequested, task.file = "deleted">>
  BY DEF Outcome
<1>2. CASE Work' = Work
  BY <1>1, <1>2 DEF Abstract, Contract!vars
<1>3. CASE Work' # Work
  BY <1>1, <1>3 DEF Abstract, NoNewWork, Contract!Next, Contract!StopWork
<1> QED BY <1>2, <1>3

\* A step that may record an outcome, and nothing else the contract sees.
LEMMA OnlyOutcome ==
  ASSUME IndInv, IndInv', NoNewWork,
         task.file = "present", task'.file = "present",
         task'.cancelRequested = task.cancelRequested,
         KeepsOutcome(task', task),
         ~Terminal(task) /\ Terminal(task') =>
           /\ task.cancelRequested => Work # "yes"
           /\ task'.status = "succeeded" => Work = "yes"
           /\ task'.err = "abandoned" => Work # "yes"
  PROVE  Abstract
<1>1. UNCHANGED <<task.cancelRequested, task.file = "deleted">>
  OBVIOUS
<1>2. CASE Outcome' = Outcome
  <2>1. CASE Work' = Work
    BY <1>1, <1>2, <2>1 DEF Abstract, Contract!vars
  <2>2. CASE Work' # Work
    BY <1>1, <1>2, <2>2 DEF Abstract, NoNewWork, Contract!Next,
       Contract!StopWork
  <2> QED BY <2>1, <2>2
<1>3. CASE Outcome' # Outcome
  <2>1. ~Terminal(task) /\ Terminal(task')
    BY <1>3 DEF Outcome, KeepsOutcome, Terminal
  <2>2. Outcome = "open"
    BY <2>1 DEF Outcome
  <2>3. /\ Outcome' \in Contract!Ends
        /\ task.cancelRequested => Outcome' = "canceled"
        /\ Outcome' = "succeeded" => Work = "yes"
        /\ Outcome' = "abandoned" => Work # "yes"
    BY <2>1 DEF IndInv, OutcomeInv, TypeOK, Record, Statuses, Errors,
       Outcome, Canceled, Terminal, Contract!Ends
  <2>4. Contract!Settle(Outcome')
    BY <1>1, <2>1, <2>2, <2>3 DEF NoNewWork, Contract!Settle
  <2> QED BY <2>3, <2>4 DEF Abstract, Contract!Next
<1> QED BY <1>2, <1>3

\* Killing the tree does not begin work.
LEMMA KillStopsWork ==
  ASSUME IndInv, KillTree
  PROVE  NoNewWork
<1>1. TypeOK
  BY DEF IndInv
<1> QED BY <1>1, KillTreeFacts DEF NoNewWork, Work

\* The steps of the launcher.
LEMMA LauncherImplements ==
  ASSUME IndInv, IndInv', LauncherNext
  PROVE  Abstract
<1>1. task \in Record /\ TypeOK
  BY DEF IndInv, TypeOK
<1>2. KeepsOutcome(task', task)
  BY LauncherKeepsOutcome
<1>3. CASE CreateLaunch
  <2>1. /\ Outcome = "unsubmitted" /\ task.cancelRequested = FALSE
        /\ task.file = "absent" /\ UNCHANGED worker
    BY <1>3 DEF CreateLaunch, IndInv, LaunchInv, Outcome,
       TypeOK, Record, processes
  <2>2. Outcome' = "open" /\ task'.cancelRequested = FALSE /\ task'.file = "present"
    BY <1>3 DEF CreateLaunch, NoTask, Outcome, Terminal
  <2>3. Contract!Submit
    BY <2>1, <2>2 DEF Contract!Submit, Work
  <2> QED BY <2>3 DEF Abstract, Contract!Next
<1>4. CASE PrepareProcessOwnership \/ PublishProcess \/ CommitLaunch
  <2>1. /\ task.file = "present" /\ task'.file = "present"
        /\ task'.cancelRequested = task.cancelRequested
        /\ task'.status = task.status
        /\ UNCHANGED worker
    BY <1>1, <1>4 DEF PrepareProcessOwnership, PublishProcess, CommitLaunch,
       At, Record, processes
  <2> QED BY <1>2, <2>1, OnlyOutcome DEF NoNewWork, Work, Terminal
<1>5. CASE FailLaunch
  <2>1. UNCHANGED worker
    BY <1>5 DEF FailLaunch, processes
  <2>2. CASE task.file # "present"
    <3>1. task' = task
      BY <1>5, <2>2 DEF FailLaunch
    <3> QED BY <2>1, <3>1, OnlyWorkStops DEF NoNewWork, Work
  <2>3. CASE task.file = "present"
    <3>1. task' = RecordFailure(task, "failed", TRUE)
      BY <1>5, <2>3 DEF FailLaunch
    <3>2. /\ task'.file = "present"
          /\ task'.cancelRequested = task.cancelRequested
          /\ ~Terminal(task) /\ Terminal(task') =>
               ~task.cancelRequested /\ task'.status = "failed"
               /\ task'.err = "failed"
      BY <1>1, <2>3, <3>1, LaunchFails DEF Terminal
    <3> QED BY <1>2, <2>1, <2>3, <3>2, OnlyOutcome DEF NoNewWork, Work
  <2> QED BY <2>2, <2>3
<1>6. CASE StartWorker
  <2>1. Work = "no"
    BY <1>6 DEF StartWorker, At, IndInv, LaunchInv, Work
  <2>2. Work' = "no" /\ task' = task
    BY <1>1, <1>6 DEF StartWorker, TypeOK, Work
  <2> QED BY <2>1, <2>2, OnlyWorkStops DEF NoNewWork
<1>7. CASE AbortSupervisedLaunch
  <2>1. Work' = "over" /\ task' = task
    BY <1>1, <1>7 DEF AbortSupervisedLaunch, TypeOK, Work
  <2> QED BY <2>1, OnlyWorkStops DEF NoNewWork
<1>8. CASE task' = task /\ worker' = worker
  BY <1>8, OnlyWorkStops DEF NoNewWork, Work
<1> QED BY <1>3, <1>4, <1>5, <1>6, <1>7, <1>8 DEF LauncherNext,
     StartWorkerFails, CaptureProcessFails, CommitTimeout,
     ReleaseLauncherLock, ReleaseLauncherLockFails, FailLaunchUnrecorded,
     FailLaunchRelease, processes

\* The steps of the worker.
LEMMA WorkerImplements ==
  ASSUME IndInv, IndInv', WorkerNext
  PROVE  Abstract
<1>1. task \in Record /\ TypeOK
  BY DEF IndInv, TypeOK
<1>2. KeepsOutcome(task', task)
  BY WorkerKeepsOutcome
<1>3. ASSUME task' = task, NEW l \in WorkerPCs \ {"work"}, WorkerGoto(l),
             l \notin {"exit", "dead"} =>
               worker.pc \notin {"work", "exit", "doomed", "dead"}
      PROVE  Abstract
  BY <1>1, <1>3, WorkerGotoFacts, OnlyWorkStops DEF NoNewWork, Work, WorkerPCs
<1>4. CASE HoldWorkerLock \/ WaitForTaskLaunchTick \/ WaitForTaskLaunchTimeout
           \/ LauncherAlive \/ LauncherProbed \/ CheckWorkerLauncher \/ WorkerDies
           \/ WorkerCrashes
  BY <1>3, <1>4 DEF HoldWorkerLock, WaitForTaskLaunchTick,
     WaitForTaskLaunchTimeout, LauncherAlive, LauncherProbed, CheckWorkerLauncher, WorkerDies, WorkerCrashes, WorkerPCs
<1>5. CASE WaitForTaskLaunch
  <2>1. task' = task /\ worker.pc = "wait" /\ Work = "no"
    BY <1>5 DEF WaitForTaskLaunch, Work
  <2>2. CASE worker'.pc = "work"
    <3>1. /\ task.file = "present" /\ ~Terminal(task)
          /\ ~task.cancelRequested
      BY <1>1, <1>5, <2>2 DEF WaitForTaskLaunch, WorkerGoto, TypeOK
    <3>2. Contract!BeginWork
      BY <2>1, <2>2, <3>1 DEF Contract!BeginWork, Outcome, Work
    <3> QED BY <3>2 DEF Abstract, Contract!Next
  <2>3. CASE worker'.pc # "work"
    BY <2>1, <2>3, OnlyWorkStops DEF NoNewWork, Work
  <2> QED BY <2>2, <2>3
<1>6. CASE AcknowledgeWorkerLaunch
  <2>1. Work = "no" /\ worker'.pc \in {"select", "fail"}
    BY <1>1, <1>6 DEF AcknowledgeWorkerLaunch, WorkerGoto, TypeOK, Work
  <2>2. CASE task' = task
    BY <2>1, <2>2, OnlyWorkStops DEF NoNewWork, Work
  <2>3. CASE task' # task
    <3>1. /\ task.file = "present" /\ task'.file = "present"
          /\ task'.cancelRequested = task.cancelRequested
          /\ task'.status = task.status
      BY <1>1, <1>6, <2>3 DEF AcknowledgeWorkerLaunch, Record
    <3> QED BY <1>2, <2>1, <3>1, OnlyOutcome DEF NoNewWork, Work, Terminal
  <2> QED BY <2>2, <2>3
<1>7. ASSUME NEW cause \in {"failed", "canceled"}, task.file = "present",
             task' = RecordFailure(task, cause, FALSE), NoNewWork
      PROVE  Abstract
  <2>1. /\ task'.file = "present"
        /\ task'.cancelRequested = task.cancelRequested
        /\ ~Terminal(task) /\ Terminal(task') =>
             ~task.cancelRequested /\ task'.status = "failed"
             /\ task'.err = cause
    BY <1>1, <1>7, TaskFails DEF Terminal
  <2> QED BY <1>2, <1>7, <2>1, OnlyOutcome
<1>8. ASSUME task.file = "present", NoNewWork, Work = "yes",
             \/ task' = Succeed(task)
             \/ \E event \in {"started", "recoverable", "failed", "canceled"} :
                  task' = Report(task, event)
      PROVE  Abstract
  <2>1. /\ SameLaunch(task', task)
        /\ task'.cancelRequested = task.cancelRequested
        /\ Terminal(task) \/ task.cancelRequested => task' = task
        /\ task'.err # task.err => task'.err # "abandoned"
    BY <1>1, <1>8, WorkerUpdateFacts
  <2>2. task.err # "abandoned"
    BY <1>8 DEF IndInv, OutcomeInv, WorkerAlive, Work
  <2>3. /\ task'.file = "present"
        /\ ~Terminal(task) /\ Terminal(task') =>
             ~task.cancelRequested /\ task'.err # "abandoned"
    BY <1>8, <2>1, <2>2 DEF SameLaunch
  <2> QED BY <1>2, <1>8, <2>1, <2>3, OnlyOutcome
<1>9. CASE OpenTaskFails
  <2>1. NoNewWork
    BY <1>1, <1>9, WorkerGotoFacts DEF OpenTaskFails, WorkerPCs, NoNewWork, Work
  <2> QED BY <1>7, <1>9, <2>1, OnlyWorkStops DEF OpenTaskFails
<1>10. CASE WorkerReports
  BY <1>8, <1>10 DEF WorkerReports, NoNewWork, Work
<1>11. CASE WorkerFinishes
  <2>1. NoNewWork /\ Work = "yes"
    BY <1>1, <1>11, WorkerGotoFacts
    DEF WorkerFinishes, WorkerPCs, NoNewWork, Work
  <2> QED BY <1>7, <1>8, <1>11, <2>1, OnlyWorkStops DEF WorkerFinishes
<1>12. CASE WorkerStartsProcesses
  BY <1>12, OnlyWorkStops DEF WorkerStartsProcesses, NoNewWork, Work
<1> QED BY <1>4, <1>5, <1>6, <1>9, <1>10, <1>11, <1>12 DEF WorkerNext

\* The steps of reconcileLaunch and the early returns.
LEMMA LaunchCleanupImplements ==
  ASSUME IndInv, IndInv', NEW p \in Procs,
         LaunchCleanupNext(p) \/ Abort(p) \/ RecordGone(p)
  PROVE  Abstract
<1>1. CASE FinishAbandoned(p)
  <2>1. /\ task \in Record /\ Aborting(p) \in BOOLEAN
        /\ task' = FinishAbandonedLaunch(task, Aborting(p))
        /\ task.file = "present" /\ UNCHANGED worker
        /\ worker.pc \in {"none", "dead"}
    BY <1>1 DEF IndInv, TypeOK, CleanupInv, Aborting, FinishAbandoned, Step,
       At, processes
  <2>2. /\ SameLaunch(task', task) /\ KeepsOutcome(task', task)
        /\ task'.cancelRequested = task.cancelRequested
        /\ ~Terminal(task) => task'.status # "succeeded"
    BY <2>1, FinishAbandonedFacts DEF Canceled, Terminal
  <2>3. Work # "yes" /\ NoNewWork
    BY <2>1 DEF Work, NoNewWork
  <2> QED BY <2>1, <2>2, <2>3, OnlyOutcome DEF SameLaunch
<1>2. CASE task' = task /\ KillTree
  BY <1>2, KillStopsWork, OnlyWorkStops
<1>3. CASE task' = task /\ worker' = worker
  BY <1>3, OnlyWorkStops DEF NoNewWork, Work
<1> QED BY <1>1, <1>2, <1>3 DEF LaunchCleanupNext, ReconcileLaunch,
     LaunchState, LaunchTerminate, LaunchCleanup, LaunchLease, SignalTree,
     Abort, RecordGone, processes

\* The steps of the other invocations.
LEMMA CallerImplements ==
  ASSUME IndInv, IndInv', NEW p \in Callers,
         \/ CancelNext(p) \/ CleanupNext(p) \/ ReconcileNext(p)
         \/ \E o \in Ops : Call(p, o)
  PROVE  Abstract
<1>1. task \in Record /\ TypeOK /\ KeepsOutcome(task', task)
  BY CallerKeepsOutcome DEF IndInv, TypeOK
<1>2. CASE task' = task /\ KillTree
  BY <1>2, KillStopsWork, OnlyWorkStops
<1>3. CASE task' = task /\ worker' = worker
  BY <1>3, OnlyWorkStops DEF NoNewWork, Work
<1>4. CASE task.file = "present" /\ task' = RequestCancel(task)
           /\ worker' = worker
  <2>1. CASE Terminal(task)
    BY <1>3, <1>4, <2>1 DEF RequestCancel
  <2>2. CASE ~Terminal(task)
    <3>1. task' = [task EXCEPT !.cancelRequested = TRUE]
      BY <1>4, <2>2 DEF RequestCancel
    <3>2. /\ task'.file = "present" /\ task'.status = task.status
          /\ task'.cancelRequested = TRUE
      BY <1>1, <1>4, <3>1 DEF Record
    <3>3. Contract!RequestCancel
      BY <1>4, <2>2, <3>2 DEF Contract!RequestCancel, Outcome, Work, Terminal
    <3> QED BY <3>3 DEF Abstract, Contract!Next
  <2> QED BY <2>1, <2>2
<1>5. CASE task.file = "present" /\ task' = FinalizeCanceled(task)
           /\ worker' = worker
  <2>1. CASE Terminal(task) \/ ~task.cancelRequested
    BY <1>3, <1>5, <2>1 DEF FinalizeCanceled
  <2>2. CASE ~Terminal(task) /\ task.cancelRequested
    <3>1. /\ SameLaunch(task', task) /\ Canceled(task') /\ task'.cleanup
          /\ task'.cancelRequested = task.cancelRequested
      BY <1>1, <1>5, <2>2, FinalizeCanceledFacts
    <3>2. ~WorkerAlive'
      BY <3>1 DEF IndInv, CleanupInv
    <3>3. Work # "yes" /\ NoNewWork
      BY <1>5, <3>2 DEF WorkerAlive, Work, NoNewWork
    <3> QED BY <1>1, <1>5, <3>1, <3>3, OnlyOutcome DEF SameLaunch, Canceled
  <2> QED BY <2>1, <2>2
<1>6. CASE task.file = "present" /\ worker' = worker
           /\ task' = RecordFailure(task, "abandoned", FALSE)
  <2>1. /\ task'.file = "present"
        /\ task'.cancelRequested = task.cancelRequested
        /\ ~Terminal(task) /\ Terminal(task') =>
             ~task.cancelRequested /\ task'.status = "failed"
             /\ task'.err = "abandoned"
    BY <1>1, <1>6, TaskFails DEF Terminal
  <2>2. task'.err = "abandoned" => Work # "yes"
    BY <1>6 DEF IndInv, OutcomeInv, WorkerAlive, Work
  <2>3. NoNewWork
    BY <1>6 DEF NoNewWork, Work
  <2> QED BY <1>1, <1>6, <2>1, <2>2, <2>3, OnlyOutcome
<1>7. CASE task.file = "present" /\ task' = [task EXCEPT !.cleanup = TRUE]
           /\ worker' = worker
  <2>1. /\ task'.file = "present" /\ task'.status = task.status
        /\ task'.cancelRequested = task.cancelRequested
    BY <1>1, <1>7 DEF Record
  <2> QED BY <1>1, <1>7, <2>1, OnlyOutcome DEF NoNewWork, Work, Terminal
<1>8. CASE /\ task.file = "present" /\ worker' = worker
           /\ task' = [task EXCEPT !.file = "deleted"]
  <2>1. /\ task'.file = "deleted" /\ task'.status = task.status
        /\ task'.err = task.err /\ task'.cleanup = task.cleanup
        /\ task'.cancelRequested = task.cancelRequested
    BY <1>1, <1>8 DEF Record
  <2>2. /\ Terminal(task')
        /\ task'.err \in {"abandoned", "canceled"} => ~WorkerAlive'
        /\ task'.status = "failed" => task'.err # "none"
    BY <2>1 DEF IndInv, OutcomeInv, CleanupInv
  <2>3. Outcome' = Outcome /\ Outcome \in Contract!Ends
    BY <1>1, <1>8, <2>1, <2>2 DEF Outcome, Terminal, Contract!Ends, Record,
       Statuses, Errors
  <2>4. Outcome \in {"canceled", "abandoned"} => Work # "yes"
    BY <1>8, <2>1, <2>2 DEF Outcome, Terminal, Work, WorkerAlive
  <2>5. Contract!Forget
    BY <1>8, <2>1, <2>3, <2>4 DEF Contract!Forget, Work
  <2> QED BY <2>5 DEF Abstract, Contract!Next
<1>9. CASE CancelNext(p)
  BY <1>2, <1>3, <1>4, <1>5, <1>9 DEF CancelNext, ListTasks,
     RequestCancelStep, QuiesceStep, TryFinalize, ObserveWorker,
     WorkerObserved, TerminateWorker, TerminateWorkerFails, WaitForLaunch, CleanupWorker, FinalizeCanceledStep,
     SignalTree, Step, At, processes
<1>10. CASE CleanupNext(p)
  BY <1>2, <1>3, <1>7, <1>8, <1>10 DEF CleanupNext, CleanupCanceled,
     CleanupCanceledStep, FinishCanceled, CleanupCanceledTree,
     MarkCanceledComplete, CleanupExited, AfterLaunchCleanup, ClaimExited,
     ExitedState, CleanupExitedTree, MarkExitedComplete, Remove, SignalTree,
     Step, At, processes
<1>11. CASE ReconcileNext(p)
  BY <1>2, <1>3, <1>5, <1>6, <1>7, <1>11 DEF ReconcileNext, ReconcileTask,
     ClaimDead, ReconcileClaimed, CleanupClaimed, FinalizeClaimed,
     FailAbandoned, MarkAbandonedComplete, SignalTree, At, processes
<1>12. CASE \E o \in Ops : Call(p, o)
  BY <1>3, <1>12 DEF Call, processes
<1> QED BY <1>9, <1>10, <1>11, <1>12

\* Whatever crashes, times out or interleaves, a detached task keeps the
\* contract.
THEOREM TaskKeepsContract == Spec => ImplementsContract
<1>1. Init => Contract!Init
  BY DEF Init, NoTask, Contract!Init, Outcome, Work
<1>2. ASSUME IndInv, IndInv', [Next]_vars
      PROVE  Abstract
  <2>1. CASE UNCHANGED vars
    BY <2>1, OnlyWorkStops DEF vars, NoNewWork, Work
  <2>2. CASE Next
    BY <1>2, <2>2, LauncherImplements, WorkerImplements,
       LaunchCleanupImplements, CallerImplements DEF Next
  <2> QED BY <1>2, <2>1, <2>2
<1>3. IndInv /\ IndInv' /\ [Next]_vars => [Contract!Next]_(Contract!vars)
  BY <1>2 DEF Abstract
<1> QED BY <1>1, <1>3, Invariance, PTL
     DEF Spec, ImplementsContract, Contract!Spec

=============================================================================
