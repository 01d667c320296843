---------------------------- MODULE DetachedTask ----------------------------
(***************************************************************************)
(* One detached `up` task: the JSON record in the task store, the launcher *)
(* that creates it and starts the worker process, the worker, and the CLI  *)
(* invocations that follow, cancel, quiesce and delete it meanwhile        *)
(* (pkg/task, cmd/workspace/up/detach.go, pkg/workspace/quiesce.go).       *)
(*                                                                         *)
(* Every update of the record is one step: Store.updateIf reads, mutates   *)
(* and atomically replaces the file under the state lock.  What interleaves*)
(* is everything between two such steps: a Get whose result is used later, *)
(* the two TryLock files, the launch lease and the signals.                *)
(***************************************************************************)
EXTENDS Naturals, TaskRecord

CONSTANTS
  Callers,    \* CLI invocations other than the launcher and the worker
  Followers,  \* the callers that are `task logs -f`: they only reconcile
  Launcher,   \* the `up --detach` process
  Worker,     \* the re-executed `up --task-id` process
  Nobody,     \* a lock file that exists and is not held
  Absent,     \* a lock file that was never created
  Ops,        \* the operations the callers perform
  MaxFaults   \* bound on crashes, timeouts and failed signals

AllOps == {"cancel", "quiesce", "rm", "rmForce", "reconcile", "status"}

ASSUME ProcessesDiffer ==
  /\ Launcher \notin Callers
  /\ Worker \notin Callers \cup {Launcher}
  /\ Nobody \notin Callers \cup {Launcher, Worker}
  /\ Absent \notin Callers \cup {Launcher, Worker, Nobody}

ASSUME FollowersAssumption == Followers \subseteq Callers

ASSUME OpsAssumption == Ops \subseteq AllOps

ASSUME FaultsAssumption == MaxFaults \in Nat

VARIABLES
  task,          \* the persisted State and whether its file exists
  workerLock,    \* holder of <id>.json.worker.lock
  launcherLock,  \* holder of <id>.json.launcher.lock
  lease,         \* the launcher still has the launch lease open
  worker,        \* the worker process and what it remembers of its last read
  tree,          \* processes the worker started are alive in its group
  pc, op, saw, ret,  \* per process: next step, operation, snapshot, return
  committed,     \* history: CommitLaunch authorised workspace work
  faults         \* crashes, timeouts and failed signals so far

vars == <<task, workerLock, launcherLock, lease, worker, tree,
          pc, op, saw, ret, committed, faults>>
locks == <<workerLock, launcherLock, lease>>
processes == <<worker, tree>>
calls == <<op, saw, ret>>

Procs == Callers \cup {Launcher}

-----------------------------------------------------------------------------
(* Control of the calling processes.                                       *)

CallPCs ==
  {"idle", "listTasks", "requestCancel", "quiesceStep", "tryFinalize",
   "observeWorker", "observed", "terminateWorker", "waitForLaunch",
   "cleanupWorker", "finalizeCanceled",
   "cleanupCanceled", "cleanupCanceledStep", "finishCanceled",
   "cleanupCanceledTree", "markCanceledComplete",
   "cleanupExited", "afterLaunchCleanup", "claimExited", "exitedState",
   "cleanupExitedTree", "markExitedComplete", "remove",
   "reconcileTask", "claimDead", "reconcileClaimed", "cleanupClaimed",
   "finalizeClaimed", "failAbandoned", "markAbandonedComplete"}

\* reconcileLaunch is shared by the callers and by the launcher's FailLaunch.
LaunchCleanupPCs ==
  {"reconcileLaunch", "launchState", "launchTerminate", "launchCleanup",
   "launchLease", "finishAbandoned"}

LauncherPCs ==
  {"create", "prepare", "spawn", "publish", "commit", "release", "kill",
   "failLaunch", "failRelease", "done"}

WorkerPCs ==
  {"none", "boot", "wait", "probe", "probed", "latest", "ack", "select",
   "fail", "work", "exit", "doomed", "dead"}

\* The worker is running the user's `up`, or may still come to run it.
WorkerAlive == worker.pc \notin {"none", "exit", "doomed", "dead"}

Rest(p) == IF p = Launcher THEN "done" ELSE "idle"

Goto(p, label) == pc' = [pc EXCEPT ![p] = label]

\* Every return path runs the deferred Unlocks; so does the death of p.
ReleaseAll(p) ==
  /\ workerLock' = IF workerLock = p THEN Nobody ELSE workerLock
  /\ launcherLock' = IF launcherLock = p THEN Nobody ELSE launcherLock
  /\ lease' = (lease /\ p # Launcher)

Unlock(lock, p) == IF lock = p THEN Nobody ELSE lock

\* The invocation returns.
Return(p) ==
  /\ Goto(p, Rest(p))
  /\ ReleaseAll(p)

Available(lock) == lock \in {Nobody, Absent}

\* What SIGKILL of the worker's process group does.  The kernel closes the
\* worker's locks and lease only when the process is gone: WorkerDies.
KillTree ==
  /\ worker' = IF worker.pc \in {"none", "dead"} THEN worker
               ELSE [worker EXCEPT !.pc = "doomed"]
  /\ tree' = FALSE

\* A Terminate or CleanupAfterExit that succeeds.
SignalTree(p, from, to) ==
  /\ pc[p] = from
  /\ KillTree
  /\ Goto(p, to)
  /\ UNCHANGED <<task, locks, calls, committed, faults>>

At(p, label) == pc[p] = label /\ task.file = "present"

Step(p, from, to) == At(p, from) /\ Goto(p, to)

Fault == faults < MaxFaults /\ faults' = faults + 1

-----------------------------------------------------------------------------
(* The launcher: runDetached, StartSupervisedBackground, FailLaunch.       *)

CreateLaunch ==
  /\ pc[Launcher] = "create"
  /\ task' = [NoTask EXCEPT !.file = "present", !.launchPending = TRUE]
  /\ launcherLock' = Launcher
  /\ lease' = TRUE
  /\ Goto(Launcher, "prepare")
  /\ UNCHANGED <<workerLock, processes, calls, committed, faults>>

PrepareProcessOwnership ==
  /\ At(Launcher, "prepare")
  /\ IF AcceptsLaunch(task) /\ ~task.owned
     THEN /\ task' = [task EXCEPT !.owned = TRUE]
          /\ Goto(Launcher, "spawn")
     ELSE /\ Goto(Launcher, "failLaunch")
          /\ UNCHANGED task
  /\ UNCHANGED <<locks, processes, calls, committed, faults>>

\* cmd.Start: the child inherits the lease descriptor.
StartWorker ==
  /\ At(Launcher, "spawn")
  /\ worker' = [worker EXCEPT !.pc = "boot"]
  /\ Goto(Launcher, "publish")
  /\ UNCHANGED <<task, locks, tree, calls, committed, faults>>

StartWorkerFails ==
  /\ Step(Launcher, "spawn", "failLaunch")
  /\ Fault
  /\ UNCHANGED <<task, locks, processes, calls, committed>>

PublishProcess ==
  /\ At(Launcher, "publish")
  /\ IF AcceptsLaunch(task) /\ ~task.ref
     THEN /\ task' = [task EXCEPT !.ref = TRUE]
          /\ Goto(Launcher, "commit")
     ELSE /\ Goto(Launcher, "kill")
          /\ UNCHANGED task
  /\ UNCHANGED <<locks, processes, calls, committed, faults>>

\* The reference cannot be captured: the child is killed unpublished.
CaptureProcessFails ==
  /\ Step(Launcher, "publish", "kill")
  /\ Fault
  /\ UNCHANGED <<task, locks, processes, calls, committed>>

CommitLaunch ==
  /\ At(Launcher, "commit")
  /\ \/ /\ ~AcceptsLaunch(task) \/ ~task.ref
        /\ Goto(Launcher, "kill")
        /\ UNCHANGED <<task, committed>>
     \/ /\ AcceptsLaunch(task) /\ task.ref /\ task.ready
        /\ task' = [task EXCEPT !.launchPending = FALSE]
        /\ committed' = TRUE
        /\ Goto(Launcher, "release")
  /\ UNCHANGED <<locks, processes, calls, faults>>

\* Mutant: the deadline is honoured only before the worker is published.
CommitTimeoutUnpublished ==
  /\ Step(Launcher, "commit", "kill")
  /\ ~task.ref
  /\ UNCHANGED <<task, locks, processes, calls, committed, faults>>

\* detachedLaunchTimeout: the worker did not acknowledge in 30 s.
CommitTimeout ==
  /\ Step(Launcher, "commit", "kill")
  /\ UNCHANGED <<task, locks, processes, calls, committed, faults>>

ReleaseLauncherLock ==
  /\ pc[Launcher] = "release"
  /\ Return(Launcher)
  /\ UNCHANGED <<task, processes, calls, committed, faults>>

\* Closing the lease reports an error although the lock is released.
ReleaseLauncherLockFails ==
  /\ pc[Launcher] = "release"
  /\ Goto(Launcher, "kill")
  /\ ReleaseAll(Launcher)
  /\ Fault
  /\ UNCHANGED <<task, processes, calls, committed>>

\* terminateProcessRef, abortSupervisedLaunch, then cmd.Wait reaps the child.
AbortSupervisedLaunch ==
  /\ pc[Launcher] = "kill"
  /\ worker' = [worker EXCEPT !.pc = "dead"]
  /\ tree' = FALSE
  /\ workerLock' = Unlock(workerLock, Worker)
  /\ launcherLock' = Unlock(launcherLock, Worker)
  /\ Goto(Launcher, "failLaunch")
  /\ UNCHANGED <<task, lease, calls, committed, faults>>

\* A rejected publication fails with ErrCanceled, but then the record is
\* terminal or cancel-requested and keeps its outcome.
FailLaunch ==
  /\ pc[Launcher] = "failLaunch"
  /\ task' = IF task.file = "present"
             THEN RecordFailure(task, "failed", TRUE) ELSE task
  /\ Goto(Launcher, "failRelease")
  /\ UNCHANGED <<locks, processes, calls, committed, faults>>

\* The failure cannot be recorded (the state lock timed out): FailLaunch
\* releases and reconciles all the same.
FailLaunchUnrecorded ==
  /\ pc[Launcher] = "failLaunch"
  /\ Goto(Launcher, "failRelease")
  /\ Fault
  /\ UNCHANGED <<task, locks, processes, calls, committed>>

FailLaunchRelease ==
  /\ pc[Launcher] = "failRelease"
  /\ ReleaseAll(Launcher)
  /\ Goto(Launcher, "reconcileLaunch")
  /\ ret' = [ret EXCEPT ![Launcher] = "done"]
  /\ UNCHANGED <<task, processes, op, saw, committed, faults>>

LauncherNext ==
  \/ CreateLaunch \/ PrepareProcessOwnership
  \/ StartWorker \/ StartWorkerFails
  \/ PublishProcess \/ CaptureProcessFails
  \/ CommitLaunch \/ CommitTimeout
  \/ ReleaseLauncherLock \/ ReleaseLauncherLockFails
  \/ AbortSupervisedLaunch \/ FailLaunch \/ FailLaunchUnrecorded
  \/ FailLaunchRelease

-----------------------------------------------------------------------------
(* Store.reconcileLaunch, for every process that calls it.                 *)

\* What follows the two cleanups: a quiesced or force-removed task is cleaned
\* once more by quiesceTask or Delete after its cancellation returned.
AfterCleanup(p) ==
  \/ /\ op[p] \in {"cancel", "quiesceClean"}
     /\ Goto(p, "idle")
     /\ UNCHANGED op
  \/ /\ op[p] = "quiesce"
     /\ op' = [op EXCEPT ![p] = "quiesceClean"]
     /\ Goto(p, "cleanupCanceled")
  \/ /\ op[p] = "rmForce"
     /\ op' = [op EXCEPT ![p] = "rmForceDelete"]
     /\ Goto(p, "cleanupCanceled")
  \/ /\ op[p] \in {"rm", "rmForceDelete"}
     /\ Goto(p, "remove")
     /\ UNCHANGED op

\* CleanupExitedWorkerTree from the reading stateAfterLaunchCleanup returned; it
\* fails while another process owns the launch.
ExitedDecision(p) ==
  \/ /\ task.launchPending
     /\ Goto(p, "idle")
     /\ UNCHANGED op
  \/ /\ ~task.launchPending /\ NeedsExitedWorkerCleanup(task)
     /\ Goto(p, "claimExited")
     /\ UNCHANGED op
  \/ /\ ~task.launchPending /\ ~NeedsExitedWorkerCleanup(task)
     /\ AfterCleanup(p)

Aborting(p) == p = Launcher

ReconcileLaunch(p) ==
  /\ At(p, "reconcileLaunch")
  /\ IF Available(launcherLock)
     THEN /\ launcherLock' = p
          /\ Goto(p, "launchState")
     ELSE /\ Goto(p, ret[p])
          /\ UNCHANGED launcherLock
  /\ UNCHANGED <<task, workerLock, lease, processes, calls, committed, faults>>

\* An early return hands this reading to the caller; a caller of the other
\* exits, and waitForLaunch, read the record once more.
LaunchState(p) ==
  /\ At(p, "launchState")
  /\ \/ /\ (~task.launchPending /\ ~Aborting(p)) \/ task.cleanup
        /\ launcherLock' = Nobody
        /\ IF ret[p] = "afterLaunchCleanup"
           THEN ExitedDecision(p)
           ELSE Goto(p, ret[p]) /\ UNCHANGED op
     \/ /\ (task.launchPending \/ Aborting(p)) /\ ~task.cleanup
        /\ Goto(p, IF task.ref THEN "launchTerminate" ELSE "launchLease")
        /\ UNCHANGED <<launcherLock, op>>
  /\ UNCHANGED <<task, workerLock, lease, processes, saw, ret, committed, faults>>

\* cleanupPendingLaunch: Terminate, then CleanupAfterExit, then the lease.
LaunchTerminate(p) ==
  SignalTree(p, "launchTerminate", "launchCleanup")

LaunchCleanup(p) ==
  SignalTree(p, "launchCleanup", "launchLease")

\* Mutant: the worker's copy of the lease is overlooked.
LauncherLeaseFree == ~lease

\* CleanupUnpublishedLaunch: the lease is free only when the launcher has
\* closed it and the worker, which inherited it, has exited.
LeaseFree == ~lease /\ worker.pc \in {"none", "dead"}

LaunchLease(p) ==
  /\ pc[p] = "launchLease"
  /\ IF LeaseFree
     THEN Goto(p, "finishAbandoned") /\ UNCHANGED locks
     ELSE Return(p)
  /\ UNCHANGED <<task, processes, calls, committed, faults>>

\* Mutant: the whole invocation ends with the launch cleanup.
FinishAbandonedReturns(p) ==
  /\ Step(p, "finishAbandoned", "idle")
  /\ task' = FinishAbandonedLaunch(task, Aborting(p))
  /\ launcherLock' = Nobody
  /\ UNCHANGED <<workerLock, lease, processes, calls, committed, faults>>

FinishAbandoned(p) ==
  /\ Step(p, "finishAbandoned", ret[p])
  /\ task' = FinishAbandonedLaunch(task, Aborting(p))
  /\ launcherLock' = Nobody
  /\ UNCHANGED <<workerLock, lease, processes, calls, committed, faults>>

LaunchCleanupNext(p) ==
  \/ ReconcileLaunch(p) \/ LaunchState(p) \/ LaunchTerminate(p)
  \/ LaunchCleanup(p) \/ LaunchLease(p) \/ FinishAbandoned(p)

-----------------------------------------------------------------------------
(* Task.CancelContext and the quiesce that calls it.                       *)

FirstStep(o) ==
  CASE o \in {"cancel", "rmForce"} -> "requestCancel"
    [] o = "quiesce" -> "listTasks"
    [] o = "rm" -> "cleanupCanceled"
    [] OTHER -> "reconcileTask"

Call(p, o) ==
  /\ At(p, "idle")
  /\ p \in Followers => o = "reconcile" /\ ~Terminal(task)
  /\ op' = [op EXCEPT ![p] = o]
  /\ saw' = [saw EXCEPT ![p] = [ref |-> FALSE, cancel |-> FALSE]]
  /\ ret' = [ret EXCEPT ![p] = "idle"]
  /\ Goto(p, FirstStep(o))
  /\ UNCHANGED <<task, locks, processes, committed, faults>>

\* quiesceTask acts on the snapshot List returned.
ListTasks(p) ==
  /\ At(p, "listTasks")
  /\ \/ /\ ~NeedsQuiesce(task)
        /\ Goto(p, "idle")
        /\ UNCHANGED op
     \/ /\ NeedsQuiesce(task) /\ Terminal(task)
        /\ op' = [op EXCEPT ![p] = "quiesceClean"]
        /\ Goto(p, "cleanupCanceled")
     \/ /\ ~Terminal(task)
        /\ Goto(p, "requestCancel")
        /\ UNCHANGED op
  /\ UNCHANGED <<task, locks, processes, saw, ret, committed, faults>>

RequestCancelStep(p) ==
  /\ At(p, "requestCancel")
  /\ task' = RequestCancel(task)
  /\ Goto(p, IF Terminal(task) THEN "cleanupCanceled" ELSE "quiesceStep")
  /\ UNCHANGED <<locks, processes, calls, committed, faults>>

QuiesceStep(p) ==
  /\ At(p, "quiesceStep")
  /\ Goto(p, IF Terminal(task) THEN "cleanupCanceled" ELSE "tryFinalize")
  /\ saw' = [saw EXCEPT ![p].ref = task.ref]
  /\ UNCHANGED <<task, locks, processes, op, ret, committed, faults>>

\* tryFinalizeWithoutWorker, then processCancellationObservation.
TryFinalize(p) ==
  /\ pc[p] = "tryFinalize"
  /\ IF Available(workerLock)
     THEN workerLock' = p /\ Goto(p, "waitForLaunch")
     ELSE /\ Goto(p, IF saw[p].ref THEN "terminateWorker" ELSE "observeWorker")
          /\ UNCHANGED workerLock
  /\ UNCHANGED <<task, launcherLock, lease, processes, calls, committed, faults>>

\* WaitForWorkerObservation: another quiesceStep follows once the reference, an
\* outcome or a free worker lock is seen.  The lock is tried and given back.
ObserveWorker(p) ==
  /\ At(p, "observeWorker")
  /\ \/ /\ Terminal(task) \/ task.ref
        /\ Goto(p, "quiesceStep")
        /\ UNCHANGED workerLock
     \/ /\ ~Terminal(task) /\ ~task.ref
        /\ Available(workerLock)
        /\ workerLock' = p
        /\ Goto(p, "observed")
  /\ UNCHANGED <<task, launcherLock, lease, processes, calls, committed, faults>>

WorkerObserved(p) ==
  /\ pc[p] = "observed"
  /\ workerLock' = Nobody
  /\ Goto(p, "quiesceStep")
  /\ UNCHANGED <<task, launcherLock, lease, processes, calls, committed, faults>>

\* Mutant: the signal is not sent.
TerminateWorkerSilently(p) ==
  /\ pc[p] = "terminateWorker"
  /\ Goto(p, "quiesceStep")
  /\ UNCHANGED <<task, locks, processes, calls, committed, faults>>

\* A reference already signalled is not signalled again; a second KillTree of
\* the same tree changes nothing.
TerminateWorker(p) ==
  SignalTree(p, "terminateWorker", "quiesceStep")

TerminateWorkerFails(p) ==
  /\ pc[p] = "terminateWorker"
  /\ Available(workerLock)
  /\ workerLock' = p
  /\ Goto(p, "waitForLaunch")
  /\ Fault
  /\ UNCHANGED <<task, launcherLock, lease, processes, calls, committed>>

\* cancelWithoutWorker holds the worker lock from here to its return.
WaitForLaunch(p) ==
  /\ At(p, "waitForLaunch")
  /\ \/ /\ Terminal(task)
        /\ workerLock' = Nobody
        /\ Goto(p, "cleanupCanceled")
        /\ UNCHANGED ret
     \/ /\ ~Terminal(task) /\ ~task.launchPending
        /\ Goto(p, IF task.ref THEN "cleanupWorker" ELSE "finalizeCanceled")
        /\ UNCHANGED <<workerLock, ret>>
     \/ /\ ~Terminal(task) /\ task.launchPending
        /\ ret' = [ret EXCEPT ![p] = "waitForLaunch"]
        /\ Goto(p, "reconcileLaunch")
        /\ UNCHANGED workerLock
  /\ UNCHANGED <<task, launcherLock, lease, processes, op, saw, committed, faults>>

CleanupWorker(p) ==
  SignalTree(p, "cleanupWorker", "finalizeCanceled")

FinalizeCanceledStep(p) ==
  /\ Step(p, "finalizeCanceled", "cleanupCanceled")
  /\ task' = FinalizeCanceled(task)
  /\ workerLock' = Nobody
  /\ UNCHANGED <<launcherLock, lease, processes, calls, committed, faults>>

CancelNext(p) ==
  \/ ListTasks(p) \/ RequestCancelStep(p) \/ QuiesceStep(p) \/ TryFinalize(p)
  \/ ObserveWorker(p) \/ WorkerObserved(p)
  \/ TerminateWorker(p) \/ TerminateWorkerFails(p) \/ WaitForLaunch(p)
  \/ CleanupWorker(p) \/ FinalizeCanceledStep(p)

-----------------------------------------------------------------------------
(* CleanupCanceledWorkerTree, CleanupExitedWorkerTree and Delete.          *)

CleanupCanceled(p) ==
  /\ At(p, "cleanupCanceled")
  /\ Goto(p, IF NeedsCanceledWorkerCleanup(task)
             THEN "cleanupCanceledStep" ELSE "cleanupExited")
  /\ UNCHANGED <<task, locks, processes, calls, committed, faults>>

CleanupCanceledStep(p) ==
  /\ pc[p] = "cleanupCanceledStep"
  /\ IF Available(workerLock)
     THEN /\ workerLock' = p
          /\ Goto(p, "finishCanceled")
          /\ UNCHANGED processes
     ELSE KillTree /\ UNCHANGED <<workerLock, pc>>
  /\ UNCHANGED <<task, launcherLock, lease, calls, committed, faults>>

FinishCanceled(p) ==
  /\ At(p, "finishCanceled")
  /\ IF NeedsCanceledWorkerCleanup(task)
     THEN Goto(p, "cleanupCanceledTree") /\ UNCHANGED workerLock
     ELSE Goto(p, "cleanupExited") /\ workerLock' = Nobody
  /\ UNCHANGED <<task, launcherLock, lease, processes, calls, committed, faults>>

CleanupCanceledTree(p) ==
  SignalTree(p, "cleanupCanceledTree", "markCanceledComplete")

MarkCanceledComplete(p) ==
  /\ Step(p, "markCanceledComplete", "cleanupExited")
  /\ task' = [task EXCEPT !.cleanup = TRUE]
  /\ workerLock' = Nobody
  /\ UNCHANGED <<launcherLock, lease, processes, calls, committed, faults>>

CleanupExited(p) ==
  /\ At(p, "cleanupExited")
  /\ \/ /\ task.launchPending
        /\ ret' = [ret EXCEPT ![p] = "afterLaunchCleanup"]
        /\ Goto(p, "reconcileLaunch")
        /\ UNCHANGED op
     \/ /\ ~task.launchPending /\ NeedsExitedWorkerCleanup(task)
        /\ Goto(p, "claimExited")
        /\ UNCHANGED <<op, ret>>
     \/ /\ ~task.launchPending /\ ~NeedsExitedWorkerCleanup(task)
        /\ AfterCleanup(p)
        /\ UNCHANGED ret
  /\ UNCHANGED <<task, locks, processes, saw, committed, faults>>

AfterLaunchCleanup(p) ==
  /\ At(p, "afterLaunchCleanup")
  /\ ExitedDecision(p)
  /\ UNCHANGED <<task, locks, processes, saw, ret, committed, faults>>

\* Mutant: a worker is taken for dead without trying its lock.
ClaimAnyWorkerLock(p, next) ==
  workerLock' = p /\ Goto(p, next)

\* claimDeadWorkerLock.  Its branch for a missing lock file serves records
\* of older versions only: see ClaimFindsLockFile.
ClaimDeadWorkerLock(p, next) ==
  IF workerLock = Nobody
  THEN workerLock' = p /\ Goto(p, next)
  ELSE Goto(p, "idle") /\ UNCHANGED workerLock

ClaimExited(p) ==
  /\ pc[p] = "claimExited"
  /\ ClaimDeadWorkerLock(p, "exitedState")
  /\ UNCHANGED <<task, launcherLock, lease, processes, calls, committed, faults>>

ExitedState(p) ==
  /\ At(p, "exitedState")
  /\ IF NeedsExitedWorkerCleanup(task)
     THEN Goto(p, "cleanupExitedTree") /\ UNCHANGED <<workerLock, op>>
     ELSE AfterCleanup(p) /\ workerLock' = Nobody
  /\ UNCHANGED <<task, launcherLock, lease, processes, saw, ret, committed, faults>>

CleanupExitedTree(p) ==
  SignalTree(p, "cleanupExitedTree", "markExitedComplete")

MarkExitedComplete(p) ==
  /\ At(p, "markExitedComplete")
  /\ task' = [task EXCEPT !.cleanup = TRUE]
  /\ workerLock' = Nobody
  /\ AfterCleanup(p)
  /\ UNCHANGED <<launcherLock, lease, processes, saw, ret, committed, faults>>

\* Delete: the check and the removal are one step under the state lock.
Remove(p) ==
  /\ Step(p, "remove", "idle")
  /\ task' = IF CheckDeletion(task, op[p] = "rmForceDelete")
             THEN [task EXCEPT !.file = "deleted"] ELSE task
  /\ UNCHANGED <<locks, processes, calls, committed, faults>>

CleanupNext(p) ==
  \/ CleanupCanceled(p) \/ CleanupCanceledStep(p) \/ FinishCanceled(p)
  \/ CleanupCanceledTree(p) \/ MarkCanceledComplete(p)
  \/ CleanupExited(p) \/ AfterLaunchCleanup(p) \/ ClaimExited(p)
  \/ ExitedState(p) \/ CleanupExitedTree(p) \/ MarkExitedComplete(p)
  \/ Remove(p)

-----------------------------------------------------------------------------
(* ReconcileTask (task followers) and ReconcileState (workspace status).   *)

ReconcileTask(p) ==
  /\ At(p, "reconcileTask")
  /\ \/ /\ task.launchPending
        /\ Goto(p, "reconcileLaunch")
     \/ /\ ~task.launchPending /\ ~NeedsReconciliation(task)
        /\ Goto(p, "idle")
     \/ /\ NeedsReconciliation(task)
        /\ Goto(p, "claimDead")
  /\ UNCHANGED <<task, locks, processes, calls, committed, faults>>

ClaimDead(p) ==
  /\ pc[p] = "claimDead"
  /\ ClaimDeadWorkerLock(p, "reconcileClaimed")
  /\ UNCHANGED <<task, launcherLock, lease, processes, calls, committed, faults>>

\* ReconcileState leaves the tree of an abandoned task to a later cleanup.
ReconcileClaimed(p) ==
  /\ At(p, "reconcileClaimed")
  /\ IF ~NeedsReconciliation(task)
     THEN Return(p) /\ UNCHANGED saw
     ELSE /\ saw' = [saw EXCEPT ![p] = [ref |-> task.ref,
                                        cancel |-> task.cancelRequested]]
          /\ Goto(p, IF task.ref /\ (task.cancelRequested \/ op[p] = "reconcile")
                     THEN "cleanupClaimed"
                     ELSE IF task.cancelRequested THEN "finalizeClaimed"
                     ELSE "failAbandoned")
          /\ UNCHANGED locks
  /\ UNCHANGED <<task, processes, op, ret, committed, faults>>

CleanupClaimed(p) ==
  SignalTree(p, "cleanupClaimed",
             IF saw[p].cancel THEN "finalizeClaimed" ELSE "failAbandoned")

FinalizeClaimed(p) ==
  /\ At(p, "finalizeClaimed")
  /\ task' = FinalizeCanceled(task)
  /\ Return(p)
  /\ UNCHANGED <<processes, calls, committed, faults>>

\* failAbandoned, then finishClaimedReconciliation when the tree was cleaned.
FailAbandoned(p) ==
  /\ At(p, "failAbandoned")
  /\ task' = RecordFailure(task, "abandoned", FALSE)
  /\ IF op[p] = "reconcile" /\ saw[p].ref
        /\ task'.status = "failed" /\ task'.err = "abandoned"
     THEN Goto(p, "markAbandonedComplete") /\ UNCHANGED locks
     ELSE Return(p)
  /\ UNCHANGED <<processes, calls, committed, faults>>

MarkAbandonedComplete(p) ==
  /\ At(p, "markAbandonedComplete")
  /\ task' = [task EXCEPT !.cleanup = TRUE]
  /\ Return(p)
  /\ UNCHANGED <<processes, calls, committed, faults>>

ReconcileNext(p) ==
  \/ ReconcileTask(p) \/ ClaimDead(p) \/ ReconcileClaimed(p)
  \/ CleanupClaimed(p) \/ FinalizeClaimed(p) \/ FailAbandoned(p)
  \/ MarkAbandonedComplete(p)

-----------------------------------------------------------------------------
(* The worker: openTask, waitForTaskLaunch, the run, finalizeWorkerTask.   *)

WorkerGoto(label) == worker' = [worker EXCEPT !.pc = label]

WorkerStays == UNCHANGED <<pc, calls, committed, faults>>

HoldWorkerLock ==
  /\ worker.pc = "boot"
  /\ IF Available(workerLock)
     THEN workerLock' = Worker /\ WorkerGoto("wait")
     ELSE WorkerGoto("exit") /\ UNCHANGED workerLock
  /\ UNCHANGED <<task, launcherLock, lease, tree>> /\ WorkerStays

\* Mutant: a published worker begins without waiting for the commit.
WaitForPublicationOnly ==
  /\ worker.pc = "wait"
  /\ IF task.file # "present" \/ Terminal(task) \/ task.cancelRequested
     THEN /\ WorkerGoto("exit")
          /\ workerLock' = Nobody
     ELSE /\ worker' = [pc |-> IF task.ref THEN "work" ELSE "probe",
                        owner |-> task.ref, ready |-> task.ready]
          /\ UNCHANGED workerLock
  /\ UNCHANGED <<task, launcherLock, lease, tree>> /\ WorkerStays

\* readWorkerLaunchState and the part of advanceTaskLaunch that needs no other
\* file.  Failing with ErrCanceled records nothing: see RecordFailure.
WaitForTaskLaunch ==
  /\ worker.pc = "wait"
  /\ IF task.file # "present" \/ Terminal(task) \/ task.cancelRequested
     THEN /\ WorkerGoto("exit")
          /\ workerLock' = Nobody
     ELSE /\ worker' = [pc |-> IF task.launchPending THEN "probe"
                               ELSE IF task.ref THEN "work" ELSE "fail",
                        owner |-> task.ref, ready |-> task.ready]
          /\ UNCHANGED workerLock
  /\ UNCHANGED <<task, launcherLock, lease, tree>> /\ WorkerStays

\* The select of waitForTaskLaunch: the next tick, or its 5 s deadline.
WaitForTaskLaunchTick ==
  /\ worker.pc = "select"
  /\ WorkerGoto("wait")
  /\ UNCHANGED <<task, locks, tree>> /\ WorkerStays

WaitForTaskLaunchTimeout ==
  /\ worker.pc = "select"
  /\ WorkerGoto("fail")
  /\ UNCHANGED <<task, locks, tree>> /\ WorkerStays

\* LauncherAlive: a TryLock that is undone at once, and still excludes others.
LauncherAlive ==
  /\ worker.pc = "probe"
  /\ IF Available(launcherLock)
     THEN launcherLock' = Worker /\ WorkerGoto("probed")
     ELSE WorkerGoto("ack") /\ UNCHANGED launcherLock
  /\ UNCHANGED <<task, workerLock, lease, tree>> /\ WorkerStays

LauncherProbed ==
  /\ worker.pc = "probed"
  /\ launcherLock' = Nobody
  /\ WorkerGoto("latest")
  /\ UNCHANGED <<task, workerLock, lease, tree>> /\ WorkerStays

\* checkWorkerLauncher reads the record again once the launcher is gone.
CheckWorkerLauncher ==
  /\ worker.pc = "latest"
  /\ WorkerGoto(IF task.file # "present" \/ task.launchPending
                THEN "fail" ELSE "ack")
  /\ UNCHANGED <<task, locks, tree>> /\ WorkerStays

\* acknowledgeWorkerLaunch and WorkerLaunchReady.
AcknowledgeWorkerLaunch ==
  /\ worker.pc = "ack"
  /\ IF ~worker.owner \/ worker.ready
     THEN WorkerGoto("select") /\ UNCHANGED task
     ELSE IF task.file = "present" /\ AcceptsLaunch(task)
     THEN /\ task' = [task EXCEPT !.ready = TRUE]
          /\ WorkerGoto("select")
     ELSE WorkerGoto("fail") /\ UNCHANGED task
  /\ UNCHANGED <<locks, tree>> /\ WorkerStays

\* openTask's error path: only a verified owner records the failure.
OpenTaskFails ==
  /\ worker.pc = "fail"
  /\ task' = IF worker.owner /\ task.file = "present"
             THEN RecordFailure(task, "failed", FALSE) ELSE task
  /\ workerLock' = Nobody
  /\ WorkerGoto("exit")
  /\ UNCHANGED <<launcherLock, lease, tree>> /\ WorkerStays

WorkerReports ==
  /\ worker.pc = "work" /\ task.file = "present"
  /\ \E event \in {"started", "recoverable", "failed", "canceled"} :
       task' = Report(task, event)
  /\ UNCHANGED <<locks, worker, tree>> /\ WorkerStays

WorkerStartsProcesses ==
  /\ worker.pc = "work"
  /\ tree' = TRUE
  /\ UNCHANGED <<task, locks, worker>> /\ WorkerStays

\* runWorkspace ends in Succeed or in an error finalizeWorkerTask records;
\* both are followed by ReleaseWorkerLock.
WorkerFinishes ==
  /\ worker.pc = "work"
  /\ task' \in IF task.file = "present"
               THEN {Succeed(task), RecordFailure(task, "failed", FALSE),
                     RecordFailure(task, "canceled", FALSE)}
               ELSE {task}
  /\ workerLock' = Nobody
  /\ WorkerGoto("exit")
  /\ UNCHANGED <<launcherLock, lease, tree>> /\ WorkerStays

\* The process is gone: the kernel closes its locks and its lease.
WorkerDies ==
  /\ worker.pc \in {"exit", "doomed"}
  /\ WorkerGoto("dead")
  /\ workerLock' = Unlock(workerLock, Worker)
  /\ launcherLock' = Unlock(launcherLock, Worker)
  /\ UNCHANGED <<task, lease, tree>> /\ WorkerStays

\* A crash leaves the processes the worker started behind.
WorkerCrashes ==
  /\ worker.pc \notin {"none", "doomed", "dead"}
  /\ WorkerGoto("dead")
  /\ workerLock' = Unlock(workerLock, Worker)
  /\ launcherLock' = Unlock(launcherLock, Worker)
  /\ Fault
  /\ UNCHANGED <<task, lease, tree, pc, calls, committed>>

WorkerNext ==
  \/ HoldWorkerLock \/ WaitForTaskLaunch
  \/ WaitForTaskLaunchTick \/ WaitForTaskLaunchTimeout
  \/ LauncherAlive \/ LauncherProbed \/ CheckWorkerLauncher
  \/ AcknowledgeWorkerLaunch \/ OpenTaskFails
  \/ WorkerReports \/ WorkerStartsProcesses \/ WorkerFinishes
  \/ WorkerDies \/ WorkerCrashes

-----------------------------------------------------------------------------
(* A calling process stops early.                                          *)

InCall(p) == pc[p] \notin {"idle", "create", "done"}

\* A timeout, a failed signal or lock file, or the death of the process.
Abort(p) ==
  /\ InCall(p)
  /\ Return(p)
  /\ Fault
  /\ UNCHANGED <<task, processes, calls, committed>>

\* Reading a deleted record is an error, and every step that reads returns it.
RecordGone(p) ==
  /\ pc[p] \in (CallPCs \cup LaunchCleanupPCs) \ {"idle"}
  /\ task.file = "deleted"
  /\ Return(p)
  /\ UNCHANGED <<task, processes, calls, committed, faults>>

Next ==
  \/ LauncherNext
  \/ WorkerNext
  \/ \E p \in Procs :
       \/ LaunchCleanupNext(p) \/ Abort(p) \/ RecordGone(p)
  \/ \E p \in Callers :
       \/ CancelNext(p) \/ CleanupNext(p) \/ ReconcileNext(p)
       \/ \E o \in Ops : Call(p, o)

Init ==
  /\ task = NoTask
  /\ workerLock = Absent
  /\ launcherLock = Absent
  /\ lease = FALSE
  /\ worker = [pc |-> "none", owner |-> FALSE, ready |-> FALSE]
  /\ tree = FALSE
  /\ pc = [p \in Procs |-> IF p = Launcher THEN "create" ELSE "idle"]
  /\ op = [p \in Procs |-> "none"]
  /\ saw = [p \in Procs |-> [ref |-> FALSE, cancel |-> FALSE]]
  /\ ret = [p \in Procs |-> Rest(p)]
  /\ committed = FALSE
  /\ faults = 0

Spec == Init /\ [][Next]_vars

\* Every process that is neither stopped nor blocked runs on, deadlines pass,
\* and a follower polls until the record is terminal.  The worker's deadline is
\* strongly fair: once it has passed, some later select of the loop takes it.
\* Nothing is assumed of how long workspace work takes: WorkerFinishes is not
\* fair.
Fairness ==
  /\ WF_vars(CreateLaunch \/ PrepareProcessOwnership \/ StartWorker
             \/ PublishProcess \/ CommitLaunch \/ ReleaseLauncherLock
             \/ AbortSupervisedLaunch \/ FailLaunch \/ FailLaunchRelease)
  /\ WF_vars(CommitTimeout)
  /\ WF_vars(HoldWorkerLock \/ WaitForTaskLaunch \/ WaitForTaskLaunchTick
             \/ LauncherAlive \/ LauncherProbed \/ CheckWorkerLauncher
             \/ AcknowledgeWorkerLaunch \/ OpenTaskFails \/ WorkerDies)
  /\ SF_vars(WaitForTaskLaunchTimeout)
  /\ \A p \in Procs : WF_vars(LaunchCleanupNext(p) \/ RecordGone(p))
  /\ \A p \in Callers :
       WF_vars(CancelNext(p) \/ CleanupNext(p) \/ ReconcileNext(p))
  /\ \A p \in Followers : WF_vars(Call(p, "reconcile"))

FairSpec == Spec /\ Fairness

-----------------------------------------------------------------------------
(* Properties.                                                             *)

\* Every variable keeps its type, and only the launcher runs launcher steps.
TypeOK ==
  /\ task \in Record
  /\ workerLock \in Procs \cup {Worker, Nobody, Absent}
  /\ launcherLock \in Procs \cup {Worker, Nobody, Absent}
  /\ lease \in BOOLEAN
  /\ worker \in [pc : WorkerPCs, owner : BOOLEAN, ready : BOOLEAN]
  /\ tree \in BOOLEAN
  /\ pc \in [Procs -> CallPCs \cup LaunchCleanupPCs \cup LauncherPCs]
  /\ pc[Launcher] \in LauncherPCs \cup LaunchCleanupPCs
  /\ \A p \in Callers : pc[p] \in CallPCs \cup LaunchCleanupPCs
  /\ op \in [Procs -> AllOps \cup {"none", "quiesceClean", "rmForceDelete"}]
  /\ saw \in [Procs -> [ref : BOOLEAN, cancel : BOOLEAN]]
  /\ ret \in [Procs -> {"idle", "done", "waitForLaunch", "afterLaunchCleanup"}]
  /\ \A p \in Procs : ret[p] = "done" <=> p = Launcher
  /\ committed \in BOOLEAN
  /\ faults \in 0 .. MaxFaults

\* The worker runs the workspace only after the launcher's CommitLaunch: the
\* two-phase launch of PublishProcess, WorkerLaunchReady and CommitLaunch
\* (launch.go) against cancellation, timeouts and crashes of either side.
WorkNeedsCommit == worker.pc = "work" => committed

\* ProcessCleanupComplete is recorded only when nothing is left to clean: no
\* worker that can still run and no process it started.  Delete and quiesce
\* rely on it without looking at a process again.
CleanupMeansGone == task.cleanup => ~WorkerAlive /\ ~tree

\* A cancellation requested before the task ended is how it ends: Succeed, Fail
\* and Report of a worker that finishes meanwhile change nothing.
CancellationWins ==
  task.cancelRequested /\ Terminal(task) => Canceled(task)

\* ErrAbandoned is recorded only of a worker that cannot run any more, although
\* failAbandoned writes what a lock and a reading before it showed.
AbandonedMeansDead == task.err = "abandoned" => ~WorkerAlive

\* Delete removes only finished records, and the record of a canceled or
\* abandoned task only when its processes are gone: nobody could find them
\* afterwards.
DeletedIsFinished ==
  task.file = "deleted" =>
    /\ Terminal(task)
    /\ task.err \in {"abandoned", "canceled"} => ~WorkerAlive /\ ~tree

\* Whoever claims the lock of a dead worker finds the lock file: a committed
\* worker has created it.  The branch of claimDeadWorkerLock for a missing file
\* is reachable only for records of older versions.
ClaimFindsLockFile ==
  \A p \in Callers :
    pc[p] \in {"claimDead", "claimExited"} => workerLock # Absent

\* The first outcome recorded is final: no later report, failure, cancellation
\* or reconciliation rewrites the status or the error of a terminal task.
OutcomeIsFinal ==
  [][Terminal(task) => /\ task'.status = task.status
                       /\ task'.err = task.err]_vars

\* needsQuiesce skips a terminal task "once its worker and launch cleanup are
\* done": what it skips has no worker that still runs.  The code does not keep
\* this: Report records a failed event while the worker runs on.
TerminalIsTornDown ==
  task.file = "present" /\ ~NeedsQuiesce(task) => ~WorkerAlive

\* Every launch ends: the worker is committed or the task gets an outcome,
\* whatever crashes and however the 30 s and 5 s deadlines race.
LaunchResolves == task.file = "present" ~> committed \/ Terminal(task)

\* Once the worker is dead, a polling follower makes the record terminal:
\* nobody waits forever for a worker that is gone.
DeadWorkerIsReported == worker.pc = "dead" ~> Terminal(task)

\* A cancellation that meets no more faults ends the task, whether it catches
\* the launch, the worker or the moment between them.
CancelCompletes ==
  \A p \in Callers :
    pc[p] = "quiesceStep" /\ faults = MaxFaults ~> Terminal(task)

-----------------------------------------------------------------------------
(* The abstract specification this one implements.                         *)

Outcome ==
  IF task.file = "absent" THEN "unsubmitted"
  ELSE IF ~Terminal(task) THEN "open"
  ELSE IF task.status = "succeeded" THEN "succeeded" ELSE task.err

Work ==
  IF worker.pc = "work" THEN "yes"
  ELSE IF worker.pc \in {"exit", "doomed", "dead"} THEN "over" ELSE "no"

Contract == INSTANCE TaskContract WITH
  outcome <- Outcome,
  cancelRequested <- task.cancelRequested,
  work <- Work,
  forgotten <- (task.file = "deleted")

\* The protocol keeps the promises of TaskContract to the task's user.
ImplementsContract == Contract!Spec

=============================================================================
