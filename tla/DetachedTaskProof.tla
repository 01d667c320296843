------------------------- MODULE DetachedTaskProof --------------------------
(***************************************************************************)
(* Proofs about DetachedTask, for every set of callers, every set of       *)
(* operations and every number of faults.                                  *)
(***************************************************************************)
EXTENDS DetachedTask, TLAPS

-----------------------------------------------------------------------------
(* The inductive strengthening of the invariants above.                    *)

\* Steps at which a process holds the launcher lock.
LauncherLockPCs ==
  {"launchState", "launchTerminate", "launchCleanup", "launchLease",
   "finishAbandoned"}

\* Steps at which a caller holds the worker lock.
WorkerLockPCs ==
  {"observed", "waitForLaunch", "cleanupWorker", "finalizeCanceled",
   "finishCanceled",
   "cleanupCanceledTree", "markCanceledComplete", "exitedState",
   "cleanupExitedTree", "markExitedComplete", "reconcileClaimed",
   "cleanupClaimed", "finalizeClaimed", "failAbandoned",
   "markAbandonedComplete"}

InWaitForLaunch(p) ==
  pc[p] \in LaunchCleanupPCs /\ ret[p] = "waitForLaunch"

\* Who is past a TryLock and before the matching Unlock holds the lock.
LockInv ==
  /\ \A p \in Procs : pc[p] \in LauncherLockPCs => launcherLock = p
  /\ pc[Launcher] \in {"prepare", "spawn", "publish", "commit", "release"} =>
       launcherLock = Launcher
  /\ \A p \in Callers :
       pc[p] \in WorkerLockPCs \/ InWaitForLaunch(p) => workerLock = p
  /\ worker.pc \in {"wait", "probe", "probed", "latest", "ack", "select",
                   "fail", "work"}
       => workerLock = Worker
  /\ worker.pc = "probed" => launcherLock = Worker

\* The order of the launch: spawn, publication, acknowledgement, commit, work.
LaunchInv ==
  /\ pc[Launcher] = "create" =>
       /\ task.file = "absent" /\ ~Terminal(task)
       /\ ~task.ref /\ ~task.cancelRequested
       /\ \A p \in Callers : pc[p] = "idle" /\ op[p] = "none"
  /\ worker.pc # "none" => pc[Launcher] \notin {"create", "prepare", "spawn"}
  /\ worker.owner => task.ref
  /\ task.ready => /\ worker.pc \notin {"none", "boot"}
                   /\ task.ref
                   /\ workerLock # Absent
  /\ committed =>
       /\ task.ready
       /\ pc[Launcher] \notin {"create", "prepare", "spawn", "publish", "commit"}
  /\ worker.pc = "work" \/ tree => committed
  /\ task.file # "absent" /\ ~Terminal(task) /\ ~task.launchPending =>
       committed

\* What the recorded outcome says of the run.
OutcomeInv ==
  /\ task.err \in {"abandoned", "canceled"} =>
       task.status = "failed" /\ (task.cleanup \/ committed)
  /\ task.status = "failed" => task.err # "none"
  /\ task.cancelRequested /\ Terminal(task) => Canceled(task)
  /\ task.err = "abandoned" => ~WorkerAlive
  /\ task.file = "deleted" =>
       /\ Terminal(task)
       /\ task.err \in {"abandoned", "canceled"} => task.cleanup

\* Steps that act on a task whose committed worker is known to have exited.
ExitedWorkerPCs ==
  {"cleanupWorker", "finalizeCanceled", "cleanupCanceledTree",
   "markCanceledComplete", "claimExited", "cleanupExitedTree",
   "markExitedComplete", "claimDead", "cleanupClaimed", "finalizeClaimed",
   "failAbandoned", "markAbandonedComplete"}

\* Steps that come after the process tree was signalled.
CleanedPCs ==
  {"finalizeCanceled", "markCanceledComplete", "markExitedComplete",
   "finalizeClaimed", "markAbandonedComplete"}

\* Cleanup is recorded only when nothing is left to clean up.
CleanupInv ==
  /\ task.cleanup =>
       /\ ~WorkerAlive /\ ~tree
       /\ pc[Launcher] \notin {"create", "prepare", "spawn"}
  /\ \A p \in Callers :
       /\ pc[p] \in ExitedWorkerPCs => committed
       /\ pc[p] \in CleanedPCs => ~tree
       /\ pc[p] = "failAbandoned" /\ op[p] = "reconcile" /\ saw[p].ref =>
            ~tree
  /\ \A p \in Procs :
       /\ pc[p] \in {"launchCleanup", "launchLease", "finishAbandoned"} =>
            ~tree /\ (committed => ~WorkerAlive)
       /\ pc[p] = "finishAbandoned" => worker.pc \in {"none", "dead"}

\* Steps of the two cleanups that follow a cancellation.
CleanupPCs ==
  {"cleanupCanceled", "cleanupCanceledStep", "finishCanceled",
   "cleanupCanceledTree", "markCanceledComplete", "cleanupExited",
   "afterLaunchCleanup", "claimExited", "exitedState", "cleanupExitedTree",
   "markExitedComplete"}

CancelingPCs ==
  {"quiesceStep", "tryFinalize", "observeWorker", "observed",
   "terminateWorker", "waitForLaunch", "cleanupWorker", "finalizeCanceled"}

\* A cancellation that got as far as the cleanups has ended the task.
CancelInv ==
  \A p \in Callers :
    /\ pc[p] \in CancelingPCs \/ InWaitForLaunch(p) =>
         task.cancelRequested \/ Terminal(task)
    /\ /\ op[p] \in {"cancel", "quiesce", "rmForce"}
       /\ \/ pc[p] \in CleanupPCs
          \/ pc[p] \in LaunchCleanupPCs /\ ret[p] = "afterLaunchCleanup"
       => Terminal(task)
    /\ op[p] = "rmForceDelete" => Terminal(task)
    /\ pc[p] = "reconcileTask" => ret[p] = "idle"

IndInv ==
  TypeOK /\ LockInv /\ LaunchInv /\ OutcomeInv /\ CleanupInv /\ CancelInv

-----------------------------------------------------------------------------
(* What the updates of the record keep and change.                         *)

\* The fields of the record that no outcome update touches.
SameLaunch(r, t) ==
  /\ r.file = t.file
  /\ r.ref = t.ref
  /\ r.ready = t.ready

\* A recorded outcome survives the update.
KeepsOutcome(r, t) ==
  Terminal(t) => r.status = t.status /\ r.err = t.err

\* The same for a failed launch, which also becomes cleanup-pending again
\* unless its cleanup is complete.
LEMMA RecordLaunchFailureFacts ==
  ASSUME NEW t \in Record, NEW r,
         r = RecordFailure(t, "failed", TRUE)
  PROVE  /\ r \in Record
         /\ SameLaunch(r, t) /\ KeepsOutcome(r, t)
         /\ r.cancelRequested = t.cancelRequested
         /\ r.cleanup = t.cleanup
         /\ t.launchPending => r.launchPending
         /\ Terminal(t) \/ t.cancelRequested =>
              r.status = t.status /\ r.err = t.err
         /\ ~Terminal(t) /\ ~t.cancelRequested =>
              r.status = "failed" /\ r.err = "failed"
<1> DEFINE m == IF ~t.cleanup THEN [t EXCEPT !.launchPending = TRUE] ELSE t
<1>1. /\ m \in Record
      /\ m.file = t.file /\ m.ref = t.ref /\ m.ready = t.ready
      /\ m.status = t.status /\ m.err = t.err
      /\ m.cancelRequested = t.cancelRequested /\ m.cleanup = t.cleanup
      /\ t.launchPending => m.launchPending
  BY DEF Record
<1>2. r = IF Terminal(t) \/ t.cancelRequested THEN m
          ELSE [m EXCEPT !.status = "failed", !.err = "failed"]
  BY DEF RecordFailure
<1> HIDE DEF m
<1>3. CASE Terminal(t) \/ t.cancelRequested
  BY <1>1, <1>2, <1>3 DEF SameLaunch, KeepsOutcome, Terminal
<1>4. CASE ~(Terminal(t) \/ t.cancelRequested)
  <2>1. r = [m EXCEPT !.status = "failed", !.err = "failed"]
    BY <1>2, <1>4
  <2>2. "failed" \in Errors /\ m \in Record
    BY <1>1 DEF Errors
  <2>3. /\ r \in Record
        /\ r.status = "failed" /\ r.err = "failed"
        /\ r.file = m.file /\ r.ref = m.ref /\ r.ready = m.ready
        /\ r.launchPending = m.launchPending
        /\ r.cancelRequested = m.cancelRequested /\ r.cleanup = m.cleanup
    BY <2>1, <2>2 DEF Record, Statuses, Errors
  <2> QED BY <1>1, <1>4, <2>3 DEF SameLaunch, KeepsOutcome
<1> QED BY <1>3, <1>4

\* finalizeCanceled ends exactly the open tasks whose cancellation was
\* requested, and records that nothing is left to clean up.
LEMMA FinalizeCanceledFacts ==
  ASSUME NEW t \in Record, NEW r, r = FinalizeCanceled(t)
  PROVE  /\ r \in Record
         /\ SameLaunch(r, t) /\ KeepsOutcome(r, t)
         /\ r.cancelRequested = t.cancelRequested
         /\ Terminal(t) \/ ~t.cancelRequested => r = t
         /\ ~Terminal(t) /\ t.cancelRequested =>
              Canceled(r) /\ r.cleanup /\ ~r.launchPending
  BY DEF FinalizeCanceled, MarkCanceled, Canceled, Record, Statuses, Errors,
         Terminal, SameLaunch, KeepsOutcome

\* finishAbandonedLaunch ends an open task as canceled or abandoned, and
\* records that nothing is left to clean up.
LEMMA FinishAbandonedFacts ==
  ASSUME NEW t \in Record, NEW aborting \in BOOLEAN, NEW r,
         r = FinishAbandonedLaunch(t, aborting)
  PROVE  /\ r \in Record
         /\ SameLaunch(r, t) /\ KeepsOutcome(r, t)
         /\ r.cancelRequested = t.cancelRequested
         /\ t.launchPending \/ aborting =>
               /\ r.cleanup /\ ~r.launchPending
               /\ ~Terminal(t) /\ t.cancelRequested => Canceled(r)
               /\ ~Terminal(t) /\ ~t.cancelRequested =>
                    r.status = "failed" /\ r.err = "abandoned"
         /\ ~t.launchPending /\ ~aborting => r = t
<1> DEFINE d == [t EXCEPT !.launchPending = FALSE, !.cleanup = TRUE]
<1>1. /\ d \in Record
      /\ d.file = t.file /\ d.ref = t.ref /\ d.ready = t.ready
      /\ d.status = t.status /\ d.err = t.err
      /\ d.cancelRequested = t.cancelRequested
      /\ d.cleanup /\ ~d.launchPending
  BY DEF Record
<1>2. CASE ~t.launchPending /\ ~aborting
  BY <1>2 DEF FinishAbandonedLaunch, SameLaunch, KeepsOutcome
<1>3. CASE (t.launchPending \/ aborting) /\ Terminal(t)
  <2>1. r = d BY <1>3 DEF FinishAbandonedLaunch
  <2> QED BY <1>1, <1>3, <2>1 DEF SameLaunch, KeepsOutcome
<1>4. CASE (t.launchPending \/ aborting) /\ ~Terminal(t) /\ t.cancelRequested
  <2>1. r = [d EXCEPT !.status = "failed", !.err = "canceled"]
    BY <1>4 DEF FinishAbandonedLaunch, MarkCanceled
  <2> HIDE DEF d
  <2>2. "canceled" \in Errors /\ d \in Record
    BY <1>1 DEF Errors
  <2>3. /\ r \in Record
        /\ r.status = "failed" /\ r.err = "canceled"
        /\ r.file = d.file /\ r.ref = d.ref /\ r.ready = d.ready
        /\ r.launchPending = d.launchPending
        /\ r.cancelRequested = d.cancelRequested /\ r.cleanup = d.cleanup
    BY <2>1, <2>2 DEF Record, Statuses, Errors
  <2> QED BY <1>1, <1>4, <2>3 DEF SameLaunch, KeepsOutcome, Canceled
<1>5. CASE (t.launchPending \/ aborting) /\ ~Terminal(t) /\ ~t.cancelRequested
  <2>1. r = [d EXCEPT !.status = "failed", !.err = "abandoned"]
    BY <1>5 DEF FinishAbandonedLaunch
  <2> HIDE DEF d
  <2>2. "abandoned" \in Errors /\ d \in Record
    BY <1>1 DEF Errors
  <2>3. /\ r \in Record
        /\ r.status = "failed" /\ r.err = "abandoned"
        /\ r.file = d.file /\ r.ref = d.ref /\ r.ready = d.ready
        /\ r.launchPending = d.launchPending
        /\ r.cancelRequested = d.cancelRequested /\ r.cleanup = d.cleanup
    BY <2>1, <2>2 DEF Record, Statuses, Errors
  <2> QED BY <1>1, <1>5, <2>3 DEF SameLaunch, KeepsOutcome, Canceled
<1> QED BY <1>2, <1>3, <1>4, <1>5

\* What a worker reports or achieves is ignored once the task is terminal or
\* its cancellation was requested, and is never "abandoned".
LEMMA WorkerUpdateFacts ==
  ASSUME NEW t \in Record, NEW r,
         \/ r = Succeed(t)
         \/ \E event \in {"started", "recoverable", "failed", "canceled"} :
              r = Report(t, event)
  PROVE  /\ r \in Record
         /\ SameLaunch(r, t) /\ KeepsOutcome(r, t)
         /\ r.cancelRequested = t.cancelRequested
         /\ r.cleanup = t.cleanup /\ r.launchPending = t.launchPending
         /\ Terminal(t) \/ t.cancelRequested => r = t
         /\ r.err # t.err => r.err # "abandoned"
         /\ r.err = "canceled" /\ t.err # "canceled" => r.status = "failed"
         /\ r.status = "failed" /\ t.status # "failed" =>
              r.err \in {"failed", "canceled"}
<1> USE DEF SameLaunch, KeepsOutcome
<1>1. CASE Terminal(t) \/ t.cancelRequested
  BY <1>1 DEF Succeed, Report
<1>2. CASE ~(Terminal(t) \/ t.cancelRequested) /\ r = Succeed(t)
  <2>1. r = [t EXCEPT !.status = "succeeded", !.err = "none"]
    BY <1>2 DEF Succeed
  <2> QED BY <1>2, <2>1 DEF Record, Statuses, Errors
<1>3. ASSUME NEW event \in {"started", "recoverable", "failed", "canceled"},
             ~(Terminal(t) \/ t.cancelRequested), r = Report(t, event)
      PROVE  /\ r \in Record
             /\ SameLaunch(r, t) /\ KeepsOutcome(r, t)
             /\ r.cancelRequested = t.cancelRequested
             /\ r.cleanup = t.cleanup /\ r.launchPending = t.launchPending
             /\ r.err # t.err => r.err # "abandoned"
             /\ r.err = "canceled" /\ t.err # "canceled" =>
                  r.status = "failed"
             /\ r.status = "failed" /\ t.status # "failed" =>
                  r.err \in {"failed", "canceled"}
  <2>1. CASE event \in {"failed", "canceled"}
    <3>1. r = [t EXCEPT !.status = "failed", !.err = event]
      BY <1>3, <2>1 DEF Report
    <3> QED BY <1>3, <2>1, <3>1 DEF Record, Statuses, Errors
  <2>2. CASE event = "recoverable"
    <3>1. r = [t EXCEPT !.status = "running", !.err = "failed"]
      BY <1>3, <2>2 DEF Report
    <3> QED BY <1>3, <3>1 DEF Record, Statuses, Errors
  <2>3. CASE event = "started"
    <3>1. r = [t EXCEPT !.status = "running"]
      BY <1>3, <2>3 DEF Report
    <3> QED BY <1>3, <3>1 DEF Record, Statuses, Errors
  <2> QED BY <2>1, <2>2, <2>3
<1> QED BY <1>1, <1>2, <1>3

\* One more fault stays within the bound.
LEMMA FaultBound ==
  ASSUME faults \in 0 .. MaxFaults, Fault
  PROVE  faults' \in 0 .. MaxFaults
  BY FaultsAssumption DEF Fault

\* A killed tree holds no process that could still run, and the worker keeps
\* what it remembers.
LEMMA KillTreeFacts ==
  ASSUME TypeOK, KillTree
  PROVE  /\ worker' \in [pc : WorkerPCs, owner : BOOLEAN, ready : BOOLEAN]
         /\ worker'.pc \in {"none", "doomed", "dead"}
         /\ worker'.pc = "none" <=> worker.pc = "none"
         /\ worker'.pc = "dead" <=> worker.pc = "dead"
         /\ worker'.owner = worker.owner
         /\ tree' = FALSE
  BY DEF KillTree, TypeOK, WorkerPCs

\* A signalled tree keeps the types when the caller goes to one of its steps.
LEMMA SignalTreeTypes ==
  ASSUME TypeOK, NEW p \in Procs, NEW from, NEW to,
         SignalTree(p, from, to),
         to \in CallPCs \cup LaunchCleanupPCs,
         p = Launcher => to \in LaunchCleanupPCs
  PROVE  TypeOK'
<1>1. worker' \in [pc : WorkerPCs, owner : BOOLEAN, ready : BOOLEAN] /\ tree' = FALSE
  BY KillTreeFacts DEF SignalTree
<1>2. /\ pc' \in [Procs -> CallPCs \cup LaunchCleanupPCs \cup LauncherPCs]
      /\ pc'[Launcher] \in LauncherPCs \cup LaunchCleanupPCs
      /\ \A q \in Callers : pc'[q] \in CallPCs \cup LaunchCleanupPCs
  BY DEF TypeOK, SignalTree, Goto, Procs
<1>3. UNCHANGED <<task, locks, calls, committed, faults>>
  BY DEF SignalTree
<1> QED BY <1>1, <1>2, <1>3 DEF TypeOK, locks, calls

\* Moving the worker to another step changes nothing else of it.
LEMMA WorkerGotoFacts ==
  ASSUME TypeOK, NEW l \in WorkerPCs, WorkerGoto(l)
  PROVE  /\ worker' \in [pc : WorkerPCs, owner : BOOLEAN, ready : BOOLEAN]
         /\ worker'.pc = l /\ worker'.owner = worker.owner
  BY DEF WorkerGoto, TypeOK

\* A failure recorded by anyone but the launcher.
LEMMA TaskFails ==
  ASSUME TypeOK, NEW cause \in {"failed", "canceled", "abandoned"},
         task' = RecordFailure(task, cause, FALSE)
  PROVE  /\ task' \in Record
         /\ task'.file = task.file /\ task'.ref = task.ref
         /\ task'.ready = task.ready
         /\ task'.cancelRequested = task.cancelRequested
         /\ task'.cleanup = task.cleanup
         /\ task'.launchPending = task.launchPending
         /\ Terminal(task) \/ task.cancelRequested =>
              task'.status = task.status /\ task'.err = task.err
         /\ ~Terminal(task) /\ ~task.cancelRequested =>
              task'.status = "failed" /\ task'.err = cause
<1>1. task \in Record
  BY DEF TypeOK
<1>2. CASE Terminal(task) \/ task.cancelRequested
  <2>1. task' = task
    BY <1>2 DEF RecordFailure
  <2> QED BY <1>1, <1>2, <2>1
<1>3. CASE ~(Terminal(task) \/ task.cancelRequested)
  <2>1. task' = [task EXCEPT !.status = "failed", !.err = cause]
    BY <1>3 DEF RecordFailure
  <2> QED BY <1>1, <1>3, <2>1 DEF Record, Statuses, Errors
<1> QED BY <1>2, <1>3

\* A failure recorded by FailLaunch.
LEMMA LaunchFails ==
  ASSUME TypeOK, task' = RecordFailure(task, "failed", TRUE)
  PROVE  /\ task' \in Record
         /\ task'.file = task.file /\ task'.ref = task.ref
         /\ task'.ready = task.ready
         /\ task'.cancelRequested = task.cancelRequested
         /\ task'.cleanup = task.cleanup
         /\ task.launchPending => task'.launchPending
         /\ Terminal(task) \/ task.cancelRequested =>
              task'.status = task.status /\ task'.err = task.err
         /\ ~Terminal(task) /\ ~task.cancelRequested =>
              task'.status = "failed" /\ task'.err = "failed"
<1>1. task \in Record
  BY DEF TypeOK
<1> QED BY <1>1, RecordLaunchFailureFacts DEF SameLaunch

-----------------------------------------------------------------------------
(* Every step preserves the inductive invariant.                           *)

\* The steps of the launcher.
LEMMA LauncherPreserves ==
  ASSUME IndInv, LauncherNext
  PROVE  IndInv'
<1> USE ProcessesDiffer
  DEF IndInv, TypeOK, LockInv, LaunchInv, OutcomeInv, CleanupInv, CancelInv,
      InWaitForLaunch, WorkerAlive, LauncherLockPCs, WorkerLockPCs,
      ExitedWorkerPCs, CleanedPCs, CleanupPCs, CancelingPCs, CallPCs,
      LaunchCleanupPCs, LauncherPCs, WorkerPCs, Procs, Record, Statuses,
      Errors, Terminal, Canceled, AcceptsLaunch, locks, calls, processes,
      Goto, At, Step, AllOps
<1>1. CASE CreateLaunch
  <2>1. /\ task' \in Record
        /\ task'.file = "present" /\ task'.status = "pending"
        /\ task'.err = "none" /\ ~task'.ref /\ ~task'.ready
        /\ task'.launchPending /\ ~task'.cancelRequested /\ ~task'.cleanup
    BY <1>1 DEF CreateLaunch, NoTask
  <2>2. TypeOK'
    <3> HIDE DEF Record, WorkerPCs, LockInv, LaunchInv, OutcomeInv,
             CleanupInv, CancelInv
    <3> QED BY <1>1, <2>1 DEF CreateLaunch
  <2>3. LockInv'
    BY <1>1, <2>1 DEF CreateLaunch
  <2>4. LaunchInv'
    BY <1>1, <2>1 DEF CreateLaunch
  <2>5. OutcomeInv'
    BY <1>1, <2>1 DEF CreateLaunch
  <2>6. CleanupInv'
    BY <1>1, <2>1 DEF CreateLaunch
  <2>7. CancelInv'
    BY <1>1, <2>1 DEF CreateLaunch
  <2> QED BY <2>2, <2>3, <2>4, <2>5, <2>6, <2>7
<1>2. CASE PrepareProcessOwnership
  <2>1. /\ task' \in Record
        /\ task'.file = task.file /\ task'.status = task.status
        /\ task'.err = task.err /\ task'.ref = task.ref
        /\ task'.ready = task.ready
        /\ task'.launchPending = task.launchPending
        /\ task'.cancelRequested = task.cancelRequested
        /\ task'.cleanup = task.cleanup
        /\ ~(AcceptsLaunch(task) /\ ~task.owned) => task' = task
    <3>1. CASE AcceptsLaunch(task) /\ ~task.owned
      <4>1. task' = [task EXCEPT !.owned = TRUE]
        BY <1>2, <3>1 DEF PrepareProcessOwnership
      <4> QED BY <3>1, <4>1
    <3>2. CASE ~(AcceptsLaunch(task) /\ ~task.owned)
      <4>1. task' = task
        BY <1>2, <3>2 DEF PrepareProcessOwnership
      <4> QED BY <3>2, <4>1
    <3> QED BY <3>1, <3>2
  <2>2. TypeOK'
    <3> HIDE DEF Record, WorkerPCs, LockInv, LaunchInv, OutcomeInv,
             CleanupInv, CancelInv
    <3> QED BY <1>2, <2>1 DEF PrepareProcessOwnership
  <2>3. LockInv'
    BY <1>2, <2>1 DEF PrepareProcessOwnership
  <2>4. LaunchInv'
    BY <1>2, <2>1 DEF PrepareProcessOwnership
  <2>5. OutcomeInv'
    BY <1>2, <2>1 DEF PrepareProcessOwnership
  <2>6. CleanupInv'
    BY <1>2, <2>1 DEF PrepareProcessOwnership
  <2>7. CancelInv'
    BY <1>2, <2>1 DEF PrepareProcessOwnership
  <2> QED BY <2>2, <2>3, <2>4, <2>5, <2>6, <2>7
<1>3. CASE StartWorker
  BY <1>3 DEF StartWorker
<1>4. CASE StartWorkerFails
  <2>1. faults' \in 0 .. MaxFaults
    BY <1>4, FaultBound DEF StartWorkerFails
  <2> QED BY <1>4, <2>1 DEF StartWorkerFails
<1>5. CASE PublishProcess
  <2>1. /\ task' \in Record
        /\ task'.file = task.file /\ task'.status = task.status
        /\ task'.err = task.err /\ task'.ready = task.ready
        /\ task'.launchPending = task.launchPending
        /\ task'.cancelRequested = task.cancelRequested
        /\ task'.cleanup = task.cleanup
        /\ AcceptsLaunch(task) /\ ~task.ref => task'.ref
        /\ ~(AcceptsLaunch(task) /\ ~task.ref) => task' = task
    <3>1. CASE AcceptsLaunch(task) /\ ~task.ref
      <4>1. task' = [task EXCEPT !.ref = TRUE]
        BY <1>5, <3>1 DEF PublishProcess
      <4> QED BY <3>1, <4>1
    <3>2. CASE ~(AcceptsLaunch(task) /\ ~task.ref)
      <4>1. task' = task
        BY <1>5, <3>2 DEF PublishProcess
      <4> QED BY <3>2, <4>1
    <3> QED BY <3>1, <3>2
  <2>2. TypeOK'
    <3> HIDE DEF Record, WorkerPCs, LockInv, LaunchInv, OutcomeInv,
             CleanupInv, CancelInv
    <3> QED BY <1>5, <2>1 DEF PublishProcess
  <2>3. LockInv'
    BY <1>5, <2>1 DEF PublishProcess
  <2>4. LaunchInv'
    BY <1>5, <2>1 DEF PublishProcess
  <2>5. OutcomeInv'
    BY <1>5, <2>1 DEF PublishProcess
  <2>6. CleanupInv'
    BY <1>5, <2>1 DEF PublishProcess
  <2>7. CancelInv'
    BY <1>5, <2>1 DEF PublishProcess
  <2> QED BY <2>2, <2>3, <2>4, <2>5, <2>6, <2>7
<1>6. CASE CaptureProcessFails
  <2>1. faults' \in 0 .. MaxFaults
    BY <1>6, FaultBound DEF CaptureProcessFails
  <2> QED BY <1>6, <2>1 DEF CaptureProcessFails
<1>7. CASE CommitLaunch
  <2>1. /\ task' \in Record
        /\ task'.file = task.file /\ task'.status = task.status
        /\ task'.err = task.err /\ task'.ref = task.ref
        /\ task'.ready = task.ready
        /\ task'.cancelRequested = task.cancelRequested
        /\ task'.cleanup = task.cleanup
        /\ AcceptsLaunch(task) /\ task.ref /\ task.ready =>
             ~task'.launchPending
        /\ ~(AcceptsLaunch(task) /\ task.ref /\ task.ready) => task' = task
    <3>1. CASE AcceptsLaunch(task) /\ task.ref /\ task.ready
      <4>1. task' = [task EXCEPT !.launchPending = FALSE]
        BY <1>7, <3>1 DEF CommitLaunch
      <4> QED BY <3>1, <4>1
    <3>2. CASE ~(AcceptsLaunch(task) /\ task.ref /\ task.ready)
      <4>1. task' = task
        BY <1>7, <3>2 DEF CommitLaunch
      <4> QED BY <3>2, <4>1
    <3> QED BY <3>1, <3>2
  <2>2. /\ pc[Launcher] = "commit" /\ task.file = "present"
        /\ \/ Goto(Launcher, "kill") /\ UNCHANGED <<task, committed>>
           \/ /\ AcceptsLaunch(task) /\ task.ref /\ task.ready
              /\ committed' = TRUE /\ Goto(Launcher, "release")
        /\ UNCHANGED <<locks, processes, calls, faults>>
    BY <1>7 DEF CommitLaunch
  <2>3. TypeOK'
    <3> HIDE DEF Record, WorkerPCs, LockInv, LaunchInv, OutcomeInv,
             CleanupInv, CancelInv
    <3>1. CASE Goto(Launcher, "kill") /\ UNCHANGED <<task, committed>>
      BY <2>1, <2>2, <3>1
    <3>2. CASE committed' = TRUE /\ Goto(Launcher, "release")
      BY <2>1, <2>2, <3>2
    <3> QED BY <2>2, <3>1, <3>2
  <2>4. LockInv'
    BY <2>1, <2>2
  <2>5. LaunchInv'
    BY <2>1, <2>2
  <2>6. OutcomeInv'
    BY <2>1, <2>2
  <2>7. CleanupInv'
    BY <2>1, <2>2
  <2>8. CancelInv'
    BY <2>1, <2>2
  <2> QED BY <2>3, <2>4, <2>5, <2>6, <2>7, <2>8
<1>8. CASE CommitTimeout
  BY <1>8 DEF CommitTimeout
<1>9. CASE ReleaseLauncherLock
  BY <1>9 DEF ReleaseLauncherLock, Return, ReleaseAll, Rest
<1>10. CASE ReleaseLauncherLockFails
  <2>1. faults' \in 0 .. MaxFaults
    BY <1>10, FaultBound DEF ReleaseLauncherLockFails
  <2> QED BY <1>10, <2>1 DEF ReleaseLauncherLockFails, ReleaseAll
<1>11. CASE AbortSupervisedLaunch
  <2>1. /\ worker' \in [pc : WorkerPCs, owner : BOOLEAN, ready : BOOLEAN]
        /\ worker'.pc = "dead" /\ worker'.owner = worker.owner
    BY <1>11 DEF AbortSupervisedLaunch
  <2>2. TypeOK'
    <3> HIDE DEF Record, WorkerPCs, LockInv, LaunchInv, OutcomeInv,
             CleanupInv, CancelInv
    <3> QED BY <1>11, <2>1 DEF AbortSupervisedLaunch, Unlock
  <2>3. LockInv'
    BY <1>11, <2>1 DEF AbortSupervisedLaunch, Unlock
  <2>4. LaunchInv'
    BY <1>11, <2>1 DEF AbortSupervisedLaunch, Unlock
  <2>5. OutcomeInv'
    BY <1>11, <2>1 DEF AbortSupervisedLaunch, Unlock
  <2>6. CleanupInv'
    BY <1>11, <2>1 DEF AbortSupervisedLaunch, Unlock
  <2>7. CancelInv'
    BY <1>11, <2>1 DEF AbortSupervisedLaunch, Unlock
  <2> QED BY <2>2, <2>3, <2>4, <2>5, <2>6, <2>7
<1>12. CASE FailLaunch
  <2>1. /\ task' \in Record
        /\ task'.file = task.file
        /\ task'.ref = task.ref
        /\ task'.ready = task.ready
        /\ task'.cancelRequested = task.cancelRequested
        /\ task'.cleanup = task.cleanup
        /\ task.launchPending => task'.launchPending
        /\ Terminal(task) \/ task.cancelRequested =>
             task'.status = task.status /\ task'.err = task.err
        /\ task.file = "present" /\ ~Terminal(task) /\ ~task.cancelRequested =>
             task'.status = "failed" /\ task'.err = "failed"
        /\ task.file # "present" => task' = task
    <3>1. CASE task.file = "present"
      <4>1. task' = RecordFailure(task, "failed", TRUE)
        BY <1>12, <3>1 DEF FailLaunch
      <4>2. TypeOK
        OBVIOUS
      <4> HIDE DEF TypeOK, Record, Terminal
      <4> QED BY <3>1, <4>1, <4>2, LaunchFails
    <3>2. CASE ~(task.file = "present")
      <4>1. task' = task
        BY <1>12, <3>2 DEF FailLaunch
      <4> QED BY <3>2, <4>1
    <3> QED BY <3>1, <3>2
  <2>2. /\ pc[Launcher] = "failLaunch" /\ Goto(Launcher, "failRelease")
        /\ UNCHANGED <<locks, processes, calls, committed, faults>>
    BY <1>12 DEF FailLaunch
  <2>3. TypeOK'
    <3> HIDE DEF Record, WorkerPCs, LockInv, LaunchInv, OutcomeInv,
             CleanupInv, CancelInv
    <3> QED BY <2>1, <2>2
  <2>4. LockInv'
    BY <2>1, <2>2
  <2>5. LaunchInv'
    BY <2>1, <2>2
  <2>6. OutcomeInv'
    BY <2>1, <2>2
  <2>7. CleanupInv'
    BY <2>1, <2>2
  <2>8. CancelInv'
    BY <2>1, <2>2
  <2> QED BY <2>3, <2>4, <2>5, <2>6, <2>7, <2>8
<1>13. CASE FailLaunchUnrecorded
  <2>1. faults' \in 0 .. MaxFaults
    BY <1>13, FaultBound DEF FailLaunchUnrecorded
  <2> QED BY <1>13, <2>1 DEF FailLaunchUnrecorded
<1>14. CASE FailLaunchRelease
  BY <1>14 DEF FailLaunchRelease, ReleaseAll
<1> QED BY <1>1, <1>2, <1>3, <1>4, <1>5, <1>6, <1>7, <1>8, <1>9, <1>10, <1>11,
           <1>12, <1>13, <1>14 DEF LauncherNext

\* The steps of reconcileLaunch.
LEMMA LaunchCleanupPreserves ==
  ASSUME IndInv, NEW p \in Procs, LaunchCleanupNext(p)
  PROVE  IndInv'
<1> USE ProcessesDiffer
  DEF IndInv, TypeOK, LockInv, LaunchInv, OutcomeInv, CleanupInv, CancelInv,
      InWaitForLaunch, WorkerAlive, LauncherLockPCs, WorkerLockPCs,
      ExitedWorkerPCs, CleanedPCs, CleanupPCs, CancelingPCs, CallPCs,
      LaunchCleanupPCs, LauncherPCs, WorkerPCs, Procs, Record, Statuses,
      Errors, Terminal, Canceled, AcceptsLaunch, locks, calls, processes,
      Goto, At, Step, AllOps
<1>1. CASE ReconcileLaunch(p)
  BY <1>1 DEF ReconcileLaunch, Available
<1>2. CASE LaunchState(p)
  BY <1>2 DEF LaunchState, Aborting, ExitedDecision, AfterCleanup,
     NeedsExitedWorkerCleanup
<1>3. CASE LaunchTerminate(p)
  <2>1. /\ worker' \in [pc : WorkerPCs, owner : BOOLEAN, ready : BOOLEAN]
        /\ worker'.pc \in {"none", "doomed", "dead"}
        /\ worker'.pc = "none" <=> worker.pc = "none"
        /\ worker'.pc = "dead" <=> worker.pc = "dead"
        /\ worker'.owner = worker.owner
        /\ tree' = FALSE
    BY <1>3, KillTreeFacts DEF LaunchTerminate, SignalTree
  <2>2. TypeOK'
    <3>1. SignalTree(p, "launchTerminate", "launchCleanup")
      BY <1>3 DEF LaunchTerminate
    <3>2. p \in Procs /\ "launchCleanup" \in LaunchCleanupPCs
      OBVIOUS
    <3> HIDE DEF TypeOK, LockInv, LaunchInv, OutcomeInv, CleanupInv,
             CancelInv, Procs, CallPCs, LaunchCleanupPCs
    <3> QED BY <3>1, <3>2, SignalTreeTypes
  <2>3. LockInv'
    BY <1>3, <2>1 DEF LaunchTerminate, SignalTree
  <2>4. LaunchInv'
    BY <1>3, <2>1 DEF LaunchTerminate, SignalTree
  <2>5. OutcomeInv'
    BY <1>3, <2>1 DEF LaunchTerminate, SignalTree
  <2>6. CleanupInv'
    BY <1>3, <2>1 DEF LaunchTerminate, SignalTree
  <2>7. CancelInv'
    BY <1>3, <2>1 DEF LaunchTerminate, SignalTree
  <2> QED BY <2>2, <2>3, <2>4, <2>5, <2>6, <2>7
<1>4. CASE LaunchCleanup(p)
  <2>1. /\ worker' \in [pc : WorkerPCs, owner : BOOLEAN, ready : BOOLEAN]
        /\ worker'.pc \in {"none", "doomed", "dead"}
        /\ worker'.pc = "none" <=> worker.pc = "none"
        /\ worker'.pc = "dead" <=> worker.pc = "dead"
        /\ worker'.owner = worker.owner
        /\ tree' = FALSE
    BY <1>4, KillTreeFacts DEF LaunchCleanup, SignalTree
  <2>2. TypeOK'
    <3>1. SignalTree(p, "launchCleanup", "launchLease")
      BY <1>4 DEF LaunchCleanup
    <3>2. p \in Procs /\ "launchLease" \in LaunchCleanupPCs
      OBVIOUS
    <3> HIDE DEF TypeOK, LockInv, LaunchInv, OutcomeInv, CleanupInv,
             CancelInv, Procs, CallPCs, LaunchCleanupPCs
    <3> QED BY <3>1, <3>2, SignalTreeTypes
  <2>3. LockInv'
    BY <1>4, <2>1 DEF LaunchCleanup, SignalTree
  <2>4. LaunchInv'
    BY <1>4, <2>1 DEF LaunchCleanup, SignalTree
  <2>5. OutcomeInv'
    BY <1>4, <2>1 DEF LaunchCleanup, SignalTree
  <2>6. CleanupInv'
    BY <1>4, <2>1 DEF LaunchCleanup, SignalTree
  <2>7. CancelInv'
    BY <1>4, <2>1 DEF LaunchCleanup, SignalTree
  <2> QED BY <2>2, <2>3, <2>4, <2>5, <2>6, <2>7
<1>5. CASE LaunchLease(p)
  BY <1>5 DEF LaunchLease, LeaseFree, Return, ReleaseAll, Rest
<1>6. CASE FinishAbandoned(p)
  <2>1. /\ task' \in Record
        /\ task'.file = task.file
        /\ task'.ref = task.ref
        /\ task'.ready = task.ready
        /\ task'.cancelRequested = task.cancelRequested
        /\ Terminal(task) =>
             task'.status = task.status /\ task'.err = task.err
        /\ task.launchPending \/ Aborting(p) =>
             /\ task'.cleanup /\ ~task'.launchPending
             /\ ~Terminal(task) /\ task.cancelRequested => Canceled(task')
             /\ ~Terminal(task) /\ ~task.cancelRequested =>
                  task'.status = "failed" /\ task'.err = "abandoned"
        /\ ~task.launchPending /\ ~Aborting(p) => task' = task
    <3>1. /\ task' = FinishAbandonedLaunch(task, Aborting(p))
          /\ task \in Record /\ Aborting(p) \in BOOLEAN
      BY <1>6 DEF FinishAbandoned, Aborting
    <3> QED BY <3>1, FinishAbandonedFacts DEF SameLaunch, KeepsOutcome
  <2>2. TypeOK'
    <3> HIDE DEF Record, WorkerPCs, LockInv, LaunchInv, OutcomeInv,
             CleanupInv, CancelInv
    <3> QED BY <1>6, <2>1 DEF FinishAbandoned, Aborting
  <2>3. LockInv'
    BY <1>6, <2>1 DEF FinishAbandoned, Aborting
  <2>4. LaunchInv'
    BY <1>6, <2>1 DEF FinishAbandoned, Aborting
  <2>5. OutcomeInv'
    BY <1>6, <2>1 DEF FinishAbandoned, Aborting
  <2>6. CleanupInv'
    BY <1>6, <2>1 DEF FinishAbandoned, Aborting
  <2>7. CancelInv'
    BY <1>6, <2>1 DEF FinishAbandoned, Aborting
  <2> QED BY <2>2, <2>3, <2>4, <2>5, <2>6, <2>7
<1> QED BY <1>1, <1>2, <1>3, <1>4, <1>5, <1>6 DEF LaunchCleanupNext

\* The steps of CancelContext.
LEMMA CancelPreserves ==
  ASSUME IndInv, NEW p \in Callers, CancelNext(p)
  PROVE  IndInv'
<1> USE ProcessesDiffer
  DEF IndInv, TypeOK, LockInv, LaunchInv, OutcomeInv, CleanupInv, CancelInv,
      InWaitForLaunch, WorkerAlive, LauncherLockPCs, WorkerLockPCs,
      ExitedWorkerPCs, CleanedPCs, CleanupPCs, CancelingPCs, CallPCs,
      LaunchCleanupPCs, LauncherPCs, WorkerPCs, Procs, Record, Statuses,
      Errors, Terminal, Canceled, AcceptsLaunch, locks, calls, processes,
      Goto, At, Step, AllOps
<1>1. CASE ListTasks(p)
  BY <1>1 DEF ListTasks, NeedsQuiesce, NeedsExitedWorkerCleanup,
     NeedsCanceledWorkerCleanup
<1>2. CASE RequestCancelStep(p)
  <2>1. /\ task' \in Record
        /\ Terminal(task) => task' = task
        /\ ~Terminal(task) => task'.cancelRequested
        /\ task'.file = task.file
        /\ task'.ref = task.ref
        /\ task'.ready = task.ready
        /\ task'.status = task.status /\ task'.err = task.err
        /\ task'.cleanup = task.cleanup
        /\ task'.launchPending = task.launchPending
    BY <1>2 DEF RequestCancelStep, RequestCancel
  <2>2. TypeOK'
    <3> HIDE DEF Record, WorkerPCs, LockInv, LaunchInv, OutcomeInv,
             CleanupInv, CancelInv
    <3> QED BY <1>2, <2>1 DEF RequestCancelStep
  <2>3. LockInv'
    BY <1>2, <2>1 DEF RequestCancelStep
  <2>4. LaunchInv'
    BY <1>2, <2>1 DEF RequestCancelStep
  <2>5. OutcomeInv'
    BY <1>2, <2>1 DEF RequestCancelStep
  <2>6. CleanupInv'
    BY <1>2, <2>1 DEF RequestCancelStep
  <2>7. CancelInv'
    BY <1>2, <2>1 DEF RequestCancelStep
  <2> QED BY <2>2, <2>3, <2>4, <2>5, <2>6, <2>7
<1>3. CASE QuiesceStep(p)
  BY <1>3 DEF QuiesceStep
<1>4. CASE TryFinalize(p)
  BY <1>4 DEF TryFinalize, Available
<1>5. CASE ObserveWorker(p)
  BY <1>5 DEF ObserveWorker, Available
<1>6. CASE WorkerObserved(p)
  BY <1>6 DEF WorkerObserved
<1>7. CASE TerminateWorker(p)
  <2>1. /\ worker' \in [pc : WorkerPCs, owner : BOOLEAN, ready : BOOLEAN]
        /\ worker'.pc \in {"none", "doomed", "dead"}
        /\ worker'.pc = "none" <=> worker.pc = "none"
        /\ worker'.pc = "dead" <=> worker.pc = "dead"
        /\ worker'.owner = worker.owner
        /\ tree' = FALSE
    BY <1>7, KillTreeFacts DEF TerminateWorker, SignalTree
  <2>2. TypeOK'
    <3>1. SignalTree(p, "terminateWorker", "quiesceStep")
      BY <1>7 DEF TerminateWorker
    <3>2. p \in Procs /\ "quiesceStep" \in CallPCs /\ p # Launcher
      OBVIOUS
    <3> HIDE DEF TypeOK, LockInv, LaunchInv, OutcomeInv, CleanupInv,
             CancelInv, Procs, CallPCs, LaunchCleanupPCs
    <3> QED BY <3>1, <3>2, SignalTreeTypes
  <2>3. LockInv'
    BY <1>7, <2>1 DEF TerminateWorker, SignalTree
  <2>4. LaunchInv'
    BY <1>7, <2>1 DEF TerminateWorker, SignalTree
  <2>5. OutcomeInv'
    BY <1>7, <2>1 DEF TerminateWorker, SignalTree
  <2>6. CleanupInv'
    BY <1>7, <2>1 DEF TerminateWorker, SignalTree
  <2>7. CancelInv'
    BY <1>7, <2>1 DEF TerminateWorker, SignalTree
  <2> QED BY <2>2, <2>3, <2>4, <2>5, <2>6, <2>7
<1>8. CASE TerminateWorkerFails(p)
  <2>1. faults' \in 0 .. MaxFaults
    BY <1>8, FaultBound DEF TerminateWorkerFails
  <2> QED BY <1>8, <2>1 DEF TerminateWorkerFails, Available
<1>9. CASE WaitForLaunch(p)
  BY <1>9 DEF WaitForLaunch
<1>10. CASE CleanupWorker(p)
  <2>1. /\ worker' \in [pc : WorkerPCs, owner : BOOLEAN, ready : BOOLEAN]
        /\ worker'.pc \in {"none", "doomed", "dead"}
        /\ worker'.pc = "none" <=> worker.pc = "none"
        /\ worker'.pc = "dead" <=> worker.pc = "dead"
        /\ worker'.owner = worker.owner
        /\ tree' = FALSE
    BY <1>10, KillTreeFacts DEF CleanupWorker, SignalTree
  <2>2. TypeOK'
    <3>1. SignalTree(p, "cleanupWorker", "finalizeCanceled")
      BY <1>10 DEF CleanupWorker
    <3>2. p \in Procs /\ "finalizeCanceled" \in CallPCs /\ p # Launcher
      OBVIOUS
    <3> HIDE DEF TypeOK, LockInv, LaunchInv, OutcomeInv, CleanupInv,
             CancelInv, Procs, CallPCs, LaunchCleanupPCs
    <3> QED BY <3>1, <3>2, SignalTreeTypes
  <2>3. LockInv'
    BY <1>10, <2>1 DEF CleanupWorker, SignalTree
  <2>4. LaunchInv'
    BY <1>10, <2>1 DEF CleanupWorker, SignalTree
  <2>5. OutcomeInv'
    BY <1>10, <2>1 DEF CleanupWorker, SignalTree
  <2>6. CleanupInv'
    BY <1>10, <2>1 DEF CleanupWorker, SignalTree
  <2>7. CancelInv'
    BY <1>10, <2>1 DEF CleanupWorker, SignalTree
  <2> QED BY <2>2, <2>3, <2>4, <2>5, <2>6, <2>7
<1>11. CASE FinalizeCanceledStep(p)
  <2>1. /\ task' \in Record
        /\ task'.file = task.file
        /\ task'.ref = task.ref
        /\ task'.ready = task.ready
        /\ task'.cancelRequested = task.cancelRequested
        /\ Terminal(task) =>
             task'.status = task.status /\ task'.err = task.err
        /\ Terminal(task) \/ ~task.cancelRequested => task' = task
        /\ ~Terminal(task) /\ task.cancelRequested =>
             Canceled(task') /\ task'.cleanup /\ ~task'.launchPending
    BY <1>11, FinalizeCanceledFacts DEF FinalizeCanceledStep, SameLaunch,
       KeepsOutcome
  <2>2. TypeOK'
    <3> HIDE DEF Record, WorkerPCs, LockInv, LaunchInv, OutcomeInv,
             CleanupInv, CancelInv
    <3> QED BY <1>11, <2>1 DEF FinalizeCanceledStep
  <2>3. LockInv'
    BY <1>11, <2>1 DEF FinalizeCanceledStep
  <2>4. LaunchInv'
    BY <1>11, <2>1 DEF FinalizeCanceledStep
  <2>5. OutcomeInv'
    BY <1>11, <2>1 DEF FinalizeCanceledStep
  <2>6. CleanupInv'
    BY <1>11, <2>1 DEF FinalizeCanceledStep
  <2>7. CancelInv'
    BY <1>11, <2>1 DEF FinalizeCanceledStep
  <2> QED BY <2>2, <2>3, <2>4, <2>5, <2>6, <2>7
<1> QED BY <1>1, <1>2, <1>3, <1>4, <1>5, <1>6, <1>7, <1>8, <1>9, <1>10, <1>11
           DEF CancelNext

\* The steps of the two cleanups and of Delete.
LEMMA CleanupPreserves ==
  ASSUME IndInv, NEW p \in Callers, CleanupNext(p)
  PROVE  IndInv'
<1> USE ProcessesDiffer
  DEF IndInv, TypeOK, LockInv, LaunchInv, OutcomeInv, CleanupInv, CancelInv,
      InWaitForLaunch, WorkerAlive, LauncherLockPCs, WorkerLockPCs,
      ExitedWorkerPCs, CleanedPCs, CleanupPCs, CancelingPCs, CallPCs,
      LaunchCleanupPCs, LauncherPCs, WorkerPCs, Procs, Record, Statuses,
      Errors, Terminal, Canceled, AcceptsLaunch, locks, calls, processes,
      Goto, At, Step, AllOps
<1>1. CASE CleanupCanceled(p)
  BY <1>1 DEF CleanupCanceled, NeedsCanceledWorkerCleanup
<1>2. CASE CleanupCanceledStep(p)
  <2>1. /\ ~Available(workerLock) => KillTree /\ UNCHANGED <<workerLock, pc>>
        /\ ~Available(workerLock) =>
             /\ worker' \in [pc : WorkerPCs, owner : BOOLEAN, ready : BOOLEAN]
             /\ worker'.pc \in {"none", "doomed", "dead"}
             /\ worker'.pc = "none" <=> worker.pc = "none"
             /\ worker'.pc = "dead" <=> worker.pc = "dead"
             /\ worker'.owner = worker.owner
             /\ tree' = FALSE
    BY <1>2, KillTreeFacts DEF CleanupCanceledStep
  <2>2. /\ pc[p] = "cleanupCanceledStep"
        /\ \/ /\ workerLock \in {Nobody, Absent} /\ workerLock' = p
              /\ Goto(p, "finishCanceled") /\ UNCHANGED processes
           \/ /\ workerLock \notin {Nobody, Absent} /\ UNCHANGED <<workerLock, pc>>
        /\ UNCHANGED <<task, launcherLock, lease, calls, committed, faults>>
    BY <1>2 DEF CleanupCanceledStep, Available
  <2>3. TypeOK'
    <3> HIDE DEF Record, WorkerPCs, LockInv, LaunchInv, OutcomeInv,
             CleanupInv, CancelInv
    <3>1. CASE Available(workerLock)
      BY <2>1, <2>2, <3>1 DEF Available
    <3>2. CASE ~Available(workerLock)
      <4>1. /\ worker' \in [pc : WorkerPCs, owner : BOOLEAN, ready : BOOLEAN]
            /\ tree' \in BOOLEAN
        BY <2>1, <3>2
      <4>2. UNCHANGED <<task, workerLock, launcherLock, lease, pc, op, saw,
                        ret, committed, faults>>
        BY <2>2, <3>2, ProcessesDiffer DEF Available
      <4> QED BY <4>1, <4>2
    <3> QED BY <3>1, <3>2
  <2>4. LockInv'
    BY <2>1, <2>2 DEF Available
  <2>5. LaunchInv'
    BY <2>1, <2>2 DEF Available
  <2>6. OutcomeInv'
    BY <2>1, <2>2 DEF Available
  <2>7. CleanupInv'
    BY <2>1, <2>2 DEF Available
  <2>8. CancelInv'
    BY <2>1, <2>2 DEF Available
  <2> QED BY <2>3, <2>4, <2>5, <2>6, <2>7, <2>8
<1>3. CASE FinishCanceled(p)
  BY <1>3 DEF FinishCanceled, NeedsCanceledWorkerCleanup
<1>4. CASE CleanupCanceledTree(p)
  <2>1. /\ worker' \in [pc : WorkerPCs, owner : BOOLEAN, ready : BOOLEAN]
        /\ worker'.pc \in {"none", "doomed", "dead"}
        /\ worker'.pc = "none" <=> worker.pc = "none"
        /\ worker'.pc = "dead" <=> worker.pc = "dead"
        /\ worker'.owner = worker.owner
        /\ tree' = FALSE
    BY <1>4, KillTreeFacts DEF CleanupCanceledTree, SignalTree
  <2>2. TypeOK'
    <3>1. SignalTree(p, "cleanupCanceledTree", "markCanceledComplete")
      BY <1>4 DEF CleanupCanceledTree
    <3>2. p \in Procs /\ "markCanceledComplete" \in CallPCs /\ p # Launcher
      OBVIOUS
    <3> HIDE DEF TypeOK, LockInv, LaunchInv, OutcomeInv, CleanupInv,
             CancelInv, Procs, CallPCs, LaunchCleanupPCs
    <3> QED BY <3>1, <3>2, SignalTreeTypes
  <2>3. LockInv'
    BY <1>4, <2>1 DEF CleanupCanceledTree, SignalTree
  <2>4. LaunchInv'
    BY <1>4, <2>1 DEF CleanupCanceledTree, SignalTree
  <2>5. OutcomeInv'
    BY <1>4, <2>1 DEF CleanupCanceledTree, SignalTree
  <2>6. CleanupInv'
    BY <1>4, <2>1 DEF CleanupCanceledTree, SignalTree
  <2>7. CancelInv'
    BY <1>4, <2>1 DEF CleanupCanceledTree, SignalTree
  <2> QED BY <2>2, <2>3, <2>4, <2>5, <2>6, <2>7
<1>5. CASE MarkCanceledComplete(p)
  <2>1. /\ task' \in Record
        /\ task'.cleanup
        /\ task'.file = task.file /\ task'.status = task.status
        /\ task'.err = task.err /\ task'.ref = task.ref
        /\ task'.ready = task.ready
        /\ task'.launchPending = task.launchPending
        /\ task'.cancelRequested = task.cancelRequested
    BY <1>5 DEF MarkCanceledComplete
  <2>2. TypeOK'
    <3> HIDE DEF Record, WorkerPCs, LockInv, LaunchInv, OutcomeInv,
             CleanupInv, CancelInv
    <3> QED BY <1>5, <2>1 DEF MarkCanceledComplete
  <2>3. LockInv'
    BY <1>5, <2>1 DEF MarkCanceledComplete
  <2>4. LaunchInv'
    BY <1>5, <2>1 DEF MarkCanceledComplete
  <2>5. OutcomeInv'
    BY <1>5, <2>1 DEF MarkCanceledComplete
  <2>6. CleanupInv'
    BY <1>5, <2>1 DEF MarkCanceledComplete
  <2>7. CancelInv'
    BY <1>5, <2>1 DEF MarkCanceledComplete
  <2> QED BY <2>2, <2>3, <2>4, <2>5, <2>6, <2>7
<1>6. CASE CleanupExited(p)
  BY <1>6 DEF CleanupExited, NeedsExitedWorkerCleanup, AfterCleanup
<1>7. CASE AfterLaunchCleanup(p)
  BY <1>7 DEF AfterLaunchCleanup, NeedsExitedWorkerCleanup, ExitedDecision,
     AfterCleanup
<1>8. CASE ClaimExited(p)
  BY <1>8 DEF ClaimExited, ClaimDeadWorkerLock
<1>9. CASE ExitedState(p)
  BY <1>9 DEF ExitedState, NeedsExitedWorkerCleanup, AfterCleanup
<1>10. CASE CleanupExitedTree(p)
  <2>1. /\ worker' \in [pc : WorkerPCs, owner : BOOLEAN, ready : BOOLEAN]
        /\ worker'.pc \in {"none", "doomed", "dead"}
        /\ worker'.pc = "none" <=> worker.pc = "none"
        /\ worker'.pc = "dead" <=> worker.pc = "dead"
        /\ worker'.owner = worker.owner
        /\ tree' = FALSE
    BY <1>10, KillTreeFacts DEF CleanupExitedTree, SignalTree
  <2>2. TypeOK'
    <3>1. SignalTree(p, "cleanupExitedTree", "markExitedComplete")
      BY <1>10 DEF CleanupExitedTree
    <3>2. p \in Procs /\ "markExitedComplete" \in CallPCs /\ p # Launcher
      OBVIOUS
    <3> HIDE DEF TypeOK, LockInv, LaunchInv, OutcomeInv, CleanupInv,
             CancelInv, Procs, CallPCs, LaunchCleanupPCs
    <3> QED BY <3>1, <3>2, SignalTreeTypes
  <2>3. LockInv'
    BY <1>10, <2>1 DEF CleanupExitedTree, SignalTree
  <2>4. LaunchInv'
    BY <1>10, <2>1 DEF CleanupExitedTree, SignalTree
  <2>5. OutcomeInv'
    BY <1>10, <2>1 DEF CleanupExitedTree, SignalTree
  <2>6. CleanupInv'
    BY <1>10, <2>1 DEF CleanupExitedTree, SignalTree
  <2>7. CancelInv'
    BY <1>10, <2>1 DEF CleanupExitedTree, SignalTree
  <2> QED BY <2>2, <2>3, <2>4, <2>5, <2>6, <2>7
<1>11. CASE MarkExitedComplete(p)
  <2>1. /\ task' \in Record
        /\ task'.cleanup
        /\ task'.file = task.file /\ task'.status = task.status
        /\ task'.err = task.err /\ task'.ref = task.ref
        /\ task'.ready = task.ready
        /\ task'.launchPending = task.launchPending
        /\ task'.cancelRequested = task.cancelRequested
    BY <1>11 DEF MarkExitedComplete
  <2>2. TypeOK'
    <3> HIDE DEF Record, WorkerPCs, LockInv, LaunchInv, OutcomeInv,
             CleanupInv, CancelInv
    <3> QED BY <1>11, <2>1 DEF MarkExitedComplete, AfterCleanup
  <2>3. LockInv'
    BY <1>11, <2>1 DEF MarkExitedComplete, AfterCleanup
  <2>4. LaunchInv'
    BY <1>11, <2>1 DEF MarkExitedComplete, AfterCleanup
  <2>5. OutcomeInv'
    BY <1>11, <2>1 DEF MarkExitedComplete, AfterCleanup
  <2>6. CleanupInv'
    BY <1>11, <2>1 DEF MarkExitedComplete, AfterCleanup
  <2>7. CancelInv'
    BY <1>11, <2>1 DEF MarkExitedComplete, AfterCleanup
  <2> QED BY <2>2, <2>3, <2>4, <2>5, <2>6, <2>7
<1>12. CASE Remove(p)
  BY <1>12 DEF Remove, CheckDeletion, NeedsExitedWorkerCleanup,
     NeedsCanceledWorkerCleanup
<1> QED BY <1>1, <1>2, <1>3, <1>4, <1>5, <1>6, <1>7, <1>8, <1>9, <1>10, <1>11,
           <1>12 DEF CleanupNext

\* The steps of ReconcileTask and ReconcileState.
LEMMA ReconcilePreserves ==
  ASSUME IndInv, NEW p \in Callers, ReconcileNext(p)
  PROVE  IndInv'
<1> USE ProcessesDiffer
  DEF IndInv, TypeOK, LockInv, LaunchInv, OutcomeInv, CleanupInv, CancelInv,
      InWaitForLaunch, WorkerAlive, LauncherLockPCs, WorkerLockPCs,
      ExitedWorkerPCs, CleanedPCs, CleanupPCs, CancelingPCs, CallPCs,
      LaunchCleanupPCs, LauncherPCs, WorkerPCs, Procs, Record, Statuses,
      Errors, Terminal, Canceled, AcceptsLaunch, locks, calls, processes,
      Goto, At, Step, AllOps
<1>1. CASE ReconcileTask(p)
  <2>1. TypeOK'
    <3> HIDE DEF Record, WorkerPCs, LockInv, LaunchInv, OutcomeInv,
             CleanupInv, CancelInv
    <3> QED BY <1>1 DEF ReconcileTask, NeedsReconciliation
  <2>2. LockInv'
    BY <1>1 DEF ReconcileTask, NeedsReconciliation
  <2>3. LaunchInv'
    BY <1>1 DEF ReconcileTask, NeedsReconciliation
  <2>4. OutcomeInv'
    BY <1>1 DEF ReconcileTask, NeedsReconciliation
  <2>5. CleanupInv'
    BY <1>1 DEF ReconcileTask, NeedsReconciliation
  <2>6. CancelInv'
    BY <1>1 DEF ReconcileTask, NeedsReconciliation
  <2> QED BY <2>1, <2>2, <2>3, <2>4, <2>5, <2>6
<1>2. CASE ClaimDead(p)
  BY <1>2 DEF ClaimDead, ClaimDeadWorkerLock
<1>3. CASE ReconcileClaimed(p)
  BY <1>3 DEF ReconcileClaimed, NeedsReconciliation, Return, ReleaseAll, Rest
<1>4. CASE CleanupClaimed(p)
  <2>1. /\ worker' \in [pc : WorkerPCs, owner : BOOLEAN, ready : BOOLEAN]
        /\ worker'.pc \in {"none", "doomed", "dead"}
        /\ worker'.pc = "none" <=> worker.pc = "none"
        /\ worker'.pc = "dead" <=> worker.pc = "dead"
        /\ worker'.owner = worker.owner
        /\ tree' = FALSE
    BY <1>4, KillTreeFacts DEF CleanupClaimed, SignalTree
  <2>2. TypeOK'
    <3>1. PICK to \in {"finalizeClaimed", "failAbandoned"} :
            SignalTree(p, "cleanupClaimed", to)
      BY <1>4 DEF CleanupClaimed
    <3>2. p \in Procs /\ to \in CallPCs /\ p # Launcher
      BY <3>1
    <3> HIDE DEF TypeOK, LockInv, LaunchInv, OutcomeInv, CleanupInv,
             CancelInv, Procs, CallPCs, LaunchCleanupPCs
    <3> QED BY <3>1, <3>2, SignalTreeTypes
  <2>3. LockInv'
    BY <1>4, <2>1 DEF CleanupClaimed, SignalTree
  <2>4. LaunchInv'
    BY <1>4, <2>1 DEF CleanupClaimed, SignalTree
  <2>5. OutcomeInv'
    BY <1>4, <2>1 DEF CleanupClaimed, SignalTree
  <2>6. CleanupInv'
    BY <1>4, <2>1 DEF CleanupClaimed, SignalTree
  <2>7. CancelInv'
    BY <1>4, <2>1 DEF CleanupClaimed, SignalTree
  <2> QED BY <2>2, <2>3, <2>4, <2>5, <2>6, <2>7
<1>5. CASE FinalizeClaimed(p)
  <2>1. /\ task' \in Record
        /\ task'.file = task.file
        /\ task'.ref = task.ref
        /\ task'.ready = task.ready
        /\ task'.cancelRequested = task.cancelRequested
        /\ Terminal(task) =>
             task'.status = task.status /\ task'.err = task.err
        /\ Terminal(task) \/ ~task.cancelRequested => task' = task
        /\ ~Terminal(task) /\ task.cancelRequested =>
             Canceled(task') /\ task'.cleanup /\ ~task'.launchPending
    BY <1>5, FinalizeCanceledFacts DEF FinalizeClaimed, SameLaunch,
       KeepsOutcome
  <2>2. TypeOK'
    <3> HIDE DEF Record, WorkerPCs, LockInv, LaunchInv, OutcomeInv,
             CleanupInv, CancelInv
    <3> QED BY <1>5, <2>1 DEF FinalizeClaimed, Return, ReleaseAll, Rest
  <2>3. LockInv'
    BY <1>5, <2>1 DEF FinalizeClaimed, Return, ReleaseAll, Rest
  <2>4. LaunchInv'
    BY <1>5, <2>1 DEF FinalizeClaimed, Return, ReleaseAll, Rest
  <2>5. OutcomeInv'
    BY <1>5, <2>1 DEF FinalizeClaimed, Return, ReleaseAll, Rest
  <2>6. CleanupInv'
    BY <1>5, <2>1 DEF FinalizeClaimed, Return, ReleaseAll, Rest
  <2>7. CancelInv'
    BY <1>5, <2>1 DEF FinalizeClaimed, Return, ReleaseAll, Rest
  <2> QED BY <2>2, <2>3, <2>4, <2>5, <2>6, <2>7
<1>6. CASE FailAbandoned(p)
  <2>1. /\ task' \in Record
        /\ task'.file = task.file
        /\ task'.ref = task.ref
        /\ task'.ready = task.ready
        /\ task'.cancelRequested = task.cancelRequested
        /\ task'.cleanup = task.cleanup
        /\ task'.launchPending = task.launchPending
        /\ Terminal(task) \/ task.cancelRequested =>
             task'.status = task.status /\ task'.err = task.err
        /\ ~Terminal(task) /\ ~task.cancelRequested =>
             task'.status = "failed" /\ task'.err = "abandoned"
    <3>1. task' = RecordFailure(task, "abandoned", FALSE)
      BY <1>6 DEF FailAbandoned
    <3>2. TypeOK
      OBVIOUS
    <3> HIDE DEF TypeOK, Record, Terminal
    <3> QED BY <3>1, <3>2, TaskFails
  <2>2. /\ UNCHANGED <<processes, calls, committed, faults>>
        /\ pc[p] = "failAbandoned"
        /\ task.file = "present"
        /\ \/ Goto(p, "idle") /\ ReleaseAll(p)
           \/ /\ Goto(p, "markAbandonedComplete") /\ UNCHANGED locks
              /\ op[p] = "reconcile" /\ saw[p].ref
    BY <1>6 DEF FailAbandoned, Return, Rest
  <2>3. TypeOK'
    <3> HIDE DEF Record, WorkerPCs, LockInv, LaunchInv, OutcomeInv,
             CleanupInv, CancelInv
    <3> QED BY <2>1, <2>2 DEF ReleaseAll
  <2>4. LockInv'
    BY <2>1, <2>2 DEF ReleaseAll
  <2>5. LaunchInv'
    BY <2>1, <2>2 DEF ReleaseAll
  <2>6. OutcomeInv'
    BY <2>1, <2>2 DEF ReleaseAll
  <2>7. CleanupInv'
    BY <2>1, <2>2 DEF ReleaseAll
  <2>8. CancelInv'
    BY <2>1, <2>2 DEF ReleaseAll
  <2> QED BY <2>3, <2>4, <2>5, <2>6, <2>7, <2>8
<1>7. CASE MarkAbandonedComplete(p)
  <2>1. /\ task' \in Record
        /\ task'.cleanup
        /\ task'.file = task.file /\ task'.status = task.status
        /\ task'.err = task.err /\ task'.ref = task.ref
        /\ task'.ready = task.ready
        /\ task'.launchPending = task.launchPending
        /\ task'.cancelRequested = task.cancelRequested
    BY <1>7 DEF MarkAbandonedComplete
  <2>2. TypeOK'
    <3> HIDE DEF Record, WorkerPCs, LockInv, LaunchInv, OutcomeInv,
             CleanupInv, CancelInv
    <3> QED BY <1>7, <2>1 DEF MarkAbandonedComplete, Return, ReleaseAll, Rest
  <2>3. LockInv'
    BY <1>7, <2>1 DEF MarkAbandonedComplete, Return, ReleaseAll, Rest
  <2>4. LaunchInv'
    BY <1>7, <2>1 DEF MarkAbandonedComplete, Return, ReleaseAll, Rest
  <2>5. OutcomeInv'
    BY <1>7, <2>1 DEF MarkAbandonedComplete, Return, ReleaseAll, Rest
  <2>6. CleanupInv'
    BY <1>7, <2>1 DEF MarkAbandonedComplete, Return, ReleaseAll, Rest
  <2>7. CancelInv'
    BY <1>7, <2>1 DEF MarkAbandonedComplete, Return, ReleaseAll, Rest
  <2> QED BY <2>2, <2>3, <2>4, <2>5, <2>6, <2>7
<1> QED BY <1>1, <1>2, <1>3, <1>4, <1>5, <1>6, <1>7 DEF ReconcileNext

\* The steps of the worker.
LEMMA WorkerPreserves ==
  ASSUME IndInv, WorkerNext
  PROVE  IndInv'
<1> USE ProcessesDiffer
  DEF IndInv, TypeOK, LockInv, LaunchInv, OutcomeInv, CleanupInv, CancelInv,
      InWaitForLaunch, WorkerAlive, LauncherLockPCs, WorkerLockPCs,
      ExitedWorkerPCs, CleanedPCs, CleanupPCs, CancelingPCs, CallPCs,
      LaunchCleanupPCs, LauncherPCs, WorkerPCs, Procs, Record, Statuses,
      Errors, Terminal, Canceled, AcceptsLaunch, locks, calls, processes,
      Goto, At, Step, AllOps
<1>1. CASE HoldWorkerLock
  BY <1>1 DEF HoldWorkerLock, WorkerGoto, WorkerStays, Available
<1>2. CASE WaitForTaskLaunch
  BY <1>2 DEF WaitForTaskLaunch, WorkerGoto, WorkerStays
<1>3. CASE WaitForTaskLaunchTick
  BY <1>3 DEF WaitForTaskLaunchTick, WorkerGoto, WorkerStays
<1>4. CASE WaitForTaskLaunchTimeout
  BY <1>4 DEF WaitForTaskLaunchTimeout, WorkerGoto, WorkerStays
<1>5. CASE LauncherAlive
  BY <1>5 DEF LauncherAlive, WorkerGoto, WorkerStays, Available
<1>6. CASE LauncherProbed
  BY <1>6 DEF LauncherProbed, WorkerGoto, WorkerStays
<1>7. CASE CheckWorkerLauncher
  BY <1>7 DEF CheckWorkerLauncher, WorkerGoto, WorkerStays
<1>8. CASE AcknowledgeWorkerLaunch
  <2>1. /\ worker' \in [pc : WorkerPCs, owner : BOOLEAN, ready : BOOLEAN]
        /\ worker'.pc \in {"select", "fail"} /\ worker'.owner = worker.owner
    BY <1>8, WorkerGotoFacts DEF AcknowledgeWorkerLaunch
  <2>2. /\ task' \in Record
        /\ task'.file = task.file /\ task'.ref = task.ref
        /\ task'.status = task.status /\ task'.err = task.err
        /\ task'.launchPending = task.launchPending
        /\ task'.cleanup = task.cleanup
        /\ task'.cancelRequested = task.cancelRequested
        /\ task.ready => task'.ready
        /\ task'.ready # task.ready => worker.owner /\ task.file = "present"
    <3>1. CASE task' = task
      BY <3>1
    <3>2. CASE /\ task' = [task EXCEPT !.ready = TRUE]
               /\ worker.owner /\ task.file = "present"
      BY <3>2
    <3> QED BY <1>8, <3>1, <3>2 DEF AcknowledgeWorkerLaunch
  <2>3. /\ worker.pc = "ack"
        /\ UNCHANGED <<locks, tree, pc, calls, committed, faults>>
    BY <1>8 DEF AcknowledgeWorkerLaunch, WorkerStays
  <2>4. TypeOK'
    <3> HIDE DEF Record, WorkerPCs, LockInv, LaunchInv, OutcomeInv,
             CleanupInv, CancelInv
    <3> QED BY <2>1, <2>2, <2>3
  <2>5. LockInv'
    BY <2>1, <2>2, <2>3
  <2>6. LaunchInv'
    BY <2>1, <2>2, <2>3
  <2>7. OutcomeInv'
    BY <2>1, <2>2, <2>3
  <2>8. CleanupInv'
    BY <2>1, <2>2, <2>3
  <2>9. CancelInv'
    BY <2>1, <2>2, <2>3
  <2> QED BY <2>4, <2>5, <2>6, <2>7, <2>8, <2>9
<1>9. CASE OpenTaskFails
  <2>1. /\ worker' \in [pc : WorkerPCs, owner : BOOLEAN, ready : BOOLEAN]
        /\ worker'.pc = "exit" /\ worker'.owner = worker.owner
    BY <1>9, WorkerGotoFacts DEF OpenTaskFails
  <2>2. /\ task' \in Record
        /\ task'.file = task.file
        /\ task'.ref = task.ref
        /\ task'.ready = task.ready
        /\ task'.cancelRequested = task.cancelRequested
        /\ task'.cleanup = task.cleanup
        /\ task'.launchPending = task.launchPending
        /\ Terminal(task) \/ task.cancelRequested =>
             task'.status = task.status /\ task'.err = task.err
        /\ worker.owner /\ task.file = "present" /\ ~Terminal(task) /\ ~task.cancelRequested =>
             task'.status = "failed" /\ task'.err = "failed"
        /\ ~(worker.owner /\ task.file = "present") => task' = task
    <3>1. CASE worker.owner /\ task.file = "present"
      <4>1. task' = RecordFailure(task, "failed", FALSE)
        BY <1>9, <2>1, <3>1 DEF OpenTaskFails
      <4>2. TypeOK
        OBVIOUS
      <4> HIDE DEF TypeOK, Record, Terminal
      <4> QED BY <3>1, <4>1, <4>2, TaskFails
    <3>2. CASE ~(worker.owner /\ task.file = "present")
      <4>1. task' = task
        BY <1>9, <2>1, <3>2 DEF OpenTaskFails
      <4> QED BY <3>2, <4>1
    <3> QED BY <3>1, <3>2
  <2>3. /\ worker.pc = "fail" /\ workerLock' = Nobody
        /\ UNCHANGED <<launcherLock, lease, tree, pc, calls, committed, faults>>
    BY <1>9 DEF OpenTaskFails, WorkerStays
  <2>4. TypeOK'
    <3> HIDE DEF Record, WorkerPCs, LockInv, LaunchInv, OutcomeInv,
             CleanupInv, CancelInv
    <3> QED BY <2>1, <2>2, <2>3
  <2>5. LockInv'
    BY <2>1, <2>2, <2>3
  <2>6. LaunchInv'
    BY <2>1, <2>2, <2>3
  <2>7. OutcomeInv'
    BY <2>1, <2>2, <2>3
  <2>8. CleanupInv'
    BY <2>1, <2>2, <2>3
  <2>9. CancelInv'
    BY <2>1, <2>2, <2>3
  <2> QED BY <2>4, <2>5, <2>6, <2>7, <2>8, <2>9
<1>10. CASE WorkerReports
  <2>1. /\ task' \in Record
        /\ task'.file = task.file
        /\ task'.ref = task.ref
        /\ task'.ready = task.ready
        /\ task'.cancelRequested = task.cancelRequested
        /\ task'.cleanup = task.cleanup
        /\ task'.launchPending = task.launchPending
        /\ Terminal(task) \/ task.cancelRequested =>
             task'.status = task.status /\ task'.err = task.err
        /\ task'.err # task.err => task'.err # "abandoned"
        /\ task'.err = "canceled" /\ task.err # "canceled" =>
             task'.status = "failed"
        /\ task'.status = "failed" /\ task.status # "failed" =>
             task'.err \in {"failed", "canceled"}
    BY <1>10, WorkerUpdateFacts DEF WorkerReports, SameLaunch, KeepsOutcome
  <2>2. TypeOK'
    <3> HIDE DEF Record, WorkerPCs, LockInv, LaunchInv, OutcomeInv,
             CleanupInv, CancelInv
    <3> QED BY <1>10, <2>1 DEF WorkerReports, WorkerStays
  <2>3. LockInv'
    BY <1>10, <2>1 DEF WorkerReports, WorkerStays
  <2>4. LaunchInv'
    BY <1>10, <2>1 DEF WorkerReports, WorkerStays
  <2>5. OutcomeInv'
    BY <1>10, <2>1 DEF WorkerReports, WorkerStays
  <2>6. CleanupInv'
    BY <1>10, <2>1 DEF WorkerReports, WorkerStays
  <2>7. CancelInv'
    BY <1>10, <2>1 DEF WorkerReports, WorkerStays
  <2> QED BY <2>2, <2>3, <2>4, <2>5, <2>6, <2>7
<1>11. CASE WorkerStartsProcesses
  BY <1>11 DEF WorkerStartsProcesses, WorkerGoto, WorkerStays
<1>12. CASE WorkerFinishes
  <2>1. /\ worker' \in [pc : WorkerPCs, owner : BOOLEAN, ready : BOOLEAN]
        /\ worker'.pc = "exit" /\ worker'.owner = worker.owner
    BY <1>12, WorkerGotoFacts DEF WorkerFinishes
  <2>2. /\ task' \in Record
        /\ task'.file = task.file
        /\ task'.ref = task.ref
        /\ task'.ready = task.ready
        /\ task'.cancelRequested = task.cancelRequested
        /\ task'.cleanup = task.cleanup
        /\ task'.launchPending = task.launchPending
        /\ Terminal(task) \/ task.cancelRequested =>
             task'.status = task.status /\ task'.err = task.err
        /\ task'.err # task.err => task'.err # "abandoned"
        /\ task'.err = "canceled" /\ task.err # "canceled" =>
             task'.status = "failed"
        /\ task'.status = "failed" /\ task.status # "failed" =>
             task'.err \in {"failed", "canceled"}
    <3>1. task \in Record
      OBVIOUS
    <3>2. CASE task' = task
      BY <3>1, <3>2
    <3>3. CASE task' = Succeed(task)
      BY <3>1, <3>3, WorkerUpdateFacts DEF SameLaunch, KeepsOutcome
    <3>4. ASSUME NEW cause \in {"failed", "canceled"},
                 task' = RecordFailure(task, cause, FALSE)
          PROVE  /\ task' \in Record
                 /\ task'.file = task.file
                 /\ task'.ref = task.ref
                 /\ task'.ready = task.ready
                 /\ task'.cancelRequested = task.cancelRequested
                 /\ task'.cleanup = task.cleanup
                 /\ task'.launchPending = task.launchPending
                 /\ Terminal(task) \/ task.cancelRequested =>
                      task'.status = task.status /\ task'.err = task.err
                 /\ task'.err # task.err => task'.err # "abandoned"
                 /\ task'.err = "canceled" /\ task.err # "canceled" =>
                      task'.status = "failed"
                 /\ task'.status = "failed" /\ task.status # "failed" =>
                      task'.err \in {"failed", "canceled"}
      <4>1. TypeOK
        OBVIOUS
      <4> HIDE DEF TypeOK, Record, Terminal
      <4>2. /\ task' \in Record
            /\ task'.file = task.file /\ task'.ref = task.ref
            /\ task'.ready = task.ready
            /\ task'.cancelRequested = task.cancelRequested
            /\ task'.cleanup = task.cleanup
            /\ task'.launchPending = task.launchPending
            /\ Terminal(task) \/ task.cancelRequested =>
                 task'.status = task.status /\ task'.err = task.err
            /\ ~Terminal(task) /\ ~task.cancelRequested =>
                 task'.status = "failed" /\ task'.err = cause
        BY <3>4, <4>1, TaskFails
      <4> QED BY <3>4, <4>2
    <3> QED BY <1>12, <2>1, <3>2, <3>3, <3>4 DEF WorkerFinishes
  <2>3. TypeOK'
    <3> HIDE DEF Record, WorkerPCs, LockInv, LaunchInv, OutcomeInv,
             CleanupInv, CancelInv
    <3> QED BY <1>12, <2>1, <2>2 DEF WorkerFinishes, WorkerStays
  <2>4. LockInv'
    BY <1>12, <2>1, <2>2 DEF WorkerFinishes, WorkerStays
  <2>5. LaunchInv'
    BY <1>12, <2>1, <2>2 DEF WorkerFinishes, WorkerStays
  <2>6. OutcomeInv'
    BY <1>12, <2>1, <2>2 DEF WorkerFinishes, WorkerStays
  <2>7. CleanupInv'
    BY <1>12, <2>1, <2>2 DEF WorkerFinishes, WorkerStays
  <2>8. CancelInv'
    BY <1>12, <2>1, <2>2 DEF WorkerFinishes, WorkerStays
  <2> QED BY <2>3, <2>4, <2>5, <2>6, <2>7, <2>8
<1>13. CASE WorkerDies
  BY <1>13 DEF WorkerDies, WorkerGoto, WorkerStays, Unlock
<1>14. CASE WorkerCrashes
  <2>1. faults' \in 0 .. MaxFaults
    BY <1>14, FaultBound DEF WorkerCrashes
  <2>2. /\ worker' \in [pc : WorkerPCs, owner : BOOLEAN, ready : BOOLEAN]
        /\ worker'.pc = "dead" /\ worker'.owner = worker.owner
    BY <1>14, <2>1, WorkerGotoFacts DEF WorkerCrashes
  <2>3. TypeOK'
    <3> HIDE DEF Record, WorkerPCs, LockInv, LaunchInv, OutcomeInv,
             CleanupInv, CancelInv
    <3> QED BY <1>14, <2>1, <2>2 DEF WorkerCrashes, Unlock
  <2>4. LockInv'
    BY <1>14, <2>1, <2>2 DEF WorkerCrashes, Unlock
  <2>5. LaunchInv'
    BY <1>14, <2>1, <2>2 DEF WorkerCrashes, Unlock
  <2>6. OutcomeInv'
    BY <1>14, <2>1, <2>2 DEF WorkerCrashes, Unlock
  <2>7. CleanupInv'
    BY <1>14, <2>1, <2>2 DEF WorkerCrashes, Unlock
  <2>8. CancelInv'
    BY <1>14, <2>1, <2>2 DEF WorkerCrashes, Unlock
  <2> QED BY <2>3, <2>4, <2>5, <2>6, <2>7, <2>8
<1> QED BY <1>1, <1>2, <1>3, <1>4, <1>5, <1>6, <1>7, <1>8, <1>9, <1>10, <1>11,
           <1>12, <1>13, <1>14 DEF WorkerNext

\* An invocation begins.
LEMMA CallPreserves ==
  ASSUME IndInv, NEW p \in Callers, NEW o \in Ops, Call(p, o)
  PROVE  IndInv'
<1> USE ProcessesDiffer
  DEF IndInv, TypeOK, LockInv, LaunchInv, OutcomeInv, CleanupInv, CancelInv,
      InWaitForLaunch, WorkerAlive, LauncherLockPCs, WorkerLockPCs,
      ExitedWorkerPCs, CleanedPCs, CleanupPCs, CancelingPCs, CallPCs,
      LaunchCleanupPCs, LauncherPCs, WorkerPCs, Procs, Record, Statuses,
      Errors, Terminal, Canceled, AcceptsLaunch, locks, calls, processes,
      Goto, At, Step, AllOps
<1>1. /\ o \in AllOps
      /\ FirstStep(o) \in {"requestCancel", "listTasks", "cleanupCanceled",
                           "reconcileTask"}
      /\ FirstStep(o) = "cleanupCanceled" => o = "rm"
  BY OpsAssumption DEF FirstStep
<1>2. TypeOK'
  <2> HIDE DEF Record, WorkerPCs, LockInv, LaunchInv, OutcomeInv,
             CleanupInv, CancelInv
  <2> QED BY <1>1 DEF Call
<1>3. LockInv' /\ LaunchInv'
  BY <1>1 DEF Call
<1>4. OutcomeInv' /\ CleanupInv'
  BY <1>1 DEF Call
<1>5. CancelInv'
  BY <1>1 DEF Call
<1> QED BY <1>2, <1>3, <1>4, <1>5

\* An invocation ends early, by a fault or because the record is gone.
LEMMA ReturnPreserves ==
  ASSUME IndInv, NEW p \in Procs, Abort(p) \/ RecordGone(p)
  PROVE  IndInv'
<1> USE ProcessesDiffer
  DEF IndInv, TypeOK, LockInv, LaunchInv, OutcomeInv, CleanupInv, CancelInv,
      InWaitForLaunch, WorkerAlive, LauncherLockPCs, WorkerLockPCs,
      ExitedWorkerPCs, CleanedPCs, CleanupPCs, CancelingPCs, CallPCs,
      LaunchCleanupPCs, LauncherPCs, WorkerPCs, Procs, Record, Statuses,
      Errors, Terminal, Canceled, AcceptsLaunch, locks, calls, processes,
      Goto, At, Step, AllOps
<1>1. /\ Return(p)
      /\ faults' \in 0 .. MaxFaults
      /\ UNCHANGED <<task, processes, calls, committed>>
  BY FaultBound DEF Abort, RecordGone
<1>2. pc[p] # "create"
  BY DEF Abort, RecordGone, InCall
<1> QED BY <1>1, <1>2 DEF Return, ReleaseAll, Rest

\* No step leaves the inductive invariant.
LEMMA NextPreserves ==
  ASSUME IndInv, [Next]_vars
  PROVE  IndInv'
<1>1. CASE UNCHANGED vars
  BY <1>1
  DEF vars, IndInv, TypeOK, LockInv, LaunchInv, OutcomeInv, CleanupInv, CancelInv,
      InWaitForLaunch, WorkerAlive, LauncherLockPCs, WorkerLockPCs,
      ExitedWorkerPCs, CleanedPCs, CleanupPCs, CancelingPCs, CallPCs,
      LaunchCleanupPCs, LauncherPCs, WorkerPCs, Procs, Record, Statuses,
      Errors, Terminal, Canceled, AcceptsLaunch, locks, calls, processes,
      Goto, At, Step, AllOps
<1>2. CASE Next
  <2>1. CASE LauncherNext
    BY <2>1, LauncherPreserves
  <2>2. CASE WorkerNext
    BY <2>2, WorkerPreserves
  <2>3. ASSUME NEW p \in Procs,
               LaunchCleanupNext(p) \/ Abort(p) \/ RecordGone(p)
        PROVE  IndInv'
    BY <2>3, LaunchCleanupPreserves, ReturnPreserves
  <2>4. ASSUME NEW p \in Callers,
               \/ CancelNext(p) \/ CleanupNext(p) \/ ReconcileNext(p)
               \/ \E o \in Ops : Call(p, o)
        PROVE  IndInv'
    BY <2>4, CancelPreserves, CleanupPreserves, ReconcilePreserves,
       CallPreserves
  <2> QED BY <1>2, <2>1, <2>2, <2>3, <2>4 DEF Next
<1> QED BY <1>1, <1>2

\* Nothing has happened yet: no record, no worker, no lock.
LEMMA InitEstablishes ==
  ASSUME Init
  PROVE  IndInv
<1> USE ProcessesDiffer
  DEF IndInv, TypeOK, LockInv, LaunchInv, OutcomeInv, CleanupInv, CancelInv,
      InWaitForLaunch, WorkerAlive, LauncherLockPCs, WorkerLockPCs,
      ExitedWorkerPCs, CleanedPCs, CleanupPCs, CancelingPCs, CallPCs,
      LaunchCleanupPCs, LauncherPCs, WorkerPCs, Procs, Record, Statuses,
      Errors, Terminal, Canceled, AcceptsLaunch, locks, calls, processes,
      Goto, At, Step, AllOps
<1>1. TypeOK
  <2>1. task \in Record
    BY DEF Init, NoTask
  <2>2. faults \in 0 .. MaxFaults
    BY FaultsAssumption DEF Init
  <2>3. worker \in [pc : WorkerPCs, owner : BOOLEAN, ready : BOOLEAN]
    BY DEF Init
  <2>4. saw \in [Procs -> [ref : BOOLEAN, cancel : BOOLEAN]]
    BY DEF Init
  <2> HIDE DEF Record, WorkerPCs, LockInv, LaunchInv, OutcomeInv,
             CleanupInv, CancelInv
  <2> QED BY <2>1, <2>2, <2>3, <2>4 DEF Init, Rest
<1>2. LockInv /\ LaunchInv
  BY DEF Init, NoTask
<1>3. OutcomeInv /\ CleanupInv /\ CancelInv
  BY DEF Init, NoTask
<1> QED BY <1>1, <1>2, <1>3

-----------------------------------------------------------------------------
(* The theorems.                                                           *)

\* The inductive invariant holds in every reachable state.
THEOREM Invariance == Spec => []IndInv
<1>1. Init => IndInv
  BY InitEstablishes
<1>2. IndInv /\ [Next]_vars => IndInv'
  BY NextPreserves
<1> QED BY <1>1, <1>2, PTL DEF Spec

\* Every variable keeps its type; in particular reconcileLaunch returns to
\* a step of its caller, and no caller runs a step of the launcher.
THEOREM TypeCorrect == Spec => []TypeOK
<1>1. IndInv => TypeOK
  BY DEF IndInv
<1> QED BY <1>1, Invariance, PTL

\* The worker runs the workspace only after CommitLaunch authorised it.
THEOREM WorkIsCommitted == Spec => []WorkNeedsCommit
<1>1. IndInv => WorkNeedsCommit
  BY DEF IndInv, LaunchInv, WorkNeedsCommit
<1> QED BY <1>1, Invariance, PTL

\* ProcessCleanupComplete is never recorded while the worker can still run or a
\* process it started is alive.
THEOREM CleanupIsGone == Spec => []CleanupMeansGone
<1>1. IndInv => CleanupMeansGone
  BY DEF IndInv, CleanupInv, CleanupMeansGone
<1> QED BY <1>1, Invariance, PTL

\* A task whose cancellation was requested before it ended ends as canceled.
THEOREM CancellationIsOutcome == Spec => []CancellationWins
<1>1. IndInv => CancellationWins
  BY DEF IndInv, OutcomeInv, CancellationWins
<1> QED BY <1>1, Invariance, PTL

\* No live worker is ever reported abandoned.
THEOREM AbandonedIsDead == Spec => []AbandonedMeansDead
<1>1. IndInv => AbandonedMeansDead
  BY DEF IndInv, OutcomeInv, AbandonedMeansDead
<1> QED BY <1>1, Invariance, PTL

\* Delete removes only finished records, and canceled or abandoned ones
\* only when their processes are gone.
THEOREM DeletedIsDone == Spec => []DeletedIsFinished
<1>1. IndInv => DeletedIsFinished
  BY DEF IndInv, OutcomeInv, CleanupInv, DeletedIsFinished
<1> QED BY <1>1, Invariance, PTL

\* claimDeadWorkerLock always finds the lock file of a worker that was
\* committed, so its branch for a missing file is never taken.
THEOREM ClaimsFindLockFiles == Spec => []ClaimFindsLockFile
<1>1. IndInv => ClaimFindsLockFile
  BY DEF IndInv, LaunchInv, CleanupInv, ExitedWorkerPCs, ClaimFindsLockFile
<1> QED BY <1>1, Invariance, PTL

\* A recorded outcome survives every step of the launcher.
LEMMA LauncherKeepsOutcome ==
  ASSUME IndInv, LauncherNext
  PROVE  KeepsOutcome(task', task)
<1>1. task \in Record /\ TypeOK
  BY DEF IndInv, TypeOK
<1>2. CASE CreateLaunch
  BY <1>2 DEF CreateLaunch, IndInv, LaunchInv, KeepsOutcome
<1>3. CASE PrepareProcessOwnership \/ PublishProcess \/ CommitLaunch
  BY <1>1, <1>3 DEF PrepareProcessOwnership, PublishProcess, CommitLaunch,
     AcceptsLaunch, KeepsOutcome
<1>4. CASE FailLaunch
  <2>1. CASE task' = RecordFailure(task, "failed", TRUE)
    BY <1>1, <2>1, LaunchFails DEF KeepsOutcome
  <2>2. CASE task' = task
    BY <2>2 DEF KeepsOutcome
  <2> QED BY <1>4, <2>1, <2>2 DEF FailLaunch
<1>5. CASE task' = task
  BY <1>5 DEF KeepsOutcome
<1> QED BY <1>2, <1>3, <1>4, <1>5 DEF LauncherNext, StartWorker,
     StartWorkerFails, CaptureProcessFails, CommitTimeout,
     ReleaseLauncherLock, ReleaseLauncherLockFails, AbortSupervisedLaunch,
     FailLaunchUnrecorded, FailLaunchRelease

\* A recorded outcome survives every step of the worker.
LEMMA WorkerKeepsOutcome ==
  ASSUME IndInv, WorkerNext
  PROVE  KeepsOutcome(task', task)
<1>1. task \in Record /\ TypeOK
  BY DEF IndInv, TypeOK
<1>2. CASE AcknowledgeWorkerLaunch
  BY <1>1, <1>2 DEF AcknowledgeWorkerLaunch, AcceptsLaunch, KeepsOutcome
<1>3. ASSUME NEW cause \in {"failed", "canceled"},
             task' = RecordFailure(task, cause, FALSE)
      PROVE  KeepsOutcome(task', task)
  BY <1>1, <1>3, TaskFails DEF KeepsOutcome
<1>4. CASE \/ task' = Succeed(task)
           \/ \E event \in {"started", "recoverable", "failed", "canceled"} :
                task' = Report(task, event)
  BY <1>1, <1>4, WorkerUpdateFacts
<1>5. CASE task' = task
  BY <1>5 DEF KeepsOutcome
<1>6. CASE OpenTaskFails
  BY <1>3, <1>5, <1>6 DEF OpenTaskFails
<1>7. CASE WorkerFinishes
  BY <1>3, <1>4, <1>5, <1>7 DEF WorkerFinishes
<1>8. CASE WorkerReports
  BY <1>4, <1>8 DEF WorkerReports
<1> QED BY <1>2, <1>5, <1>6, <1>7, <1>8 DEF WorkerNext, HoldWorkerLock,
     WaitForTaskLaunch, WaitForTaskLaunchTick, WaitForTaskLaunchTimeout,
     LauncherAlive, LauncherProbed, CheckWorkerLauncher, WorkerStartsProcesses, WorkerDies,
     WorkerCrashes

\* A recorded outcome survives every step of reconcileLaunch and every early
\* return.
LEMMA LaunchCleanupKeepsOutcome ==
  ASSUME IndInv, NEW p \in Procs,
         LaunchCleanupNext(p) \/ Abort(p) \/ RecordGone(p)
  PROVE  KeepsOutcome(task', task)
<1>1. task \in Record /\ Aborting(p) \in BOOLEAN
  BY DEF IndInv, TypeOK, Aborting
<1>2. CASE FinishAbandoned(p)
  <2>1. task' = FinishAbandonedLaunch(task, Aborting(p))
    BY <1>2 DEF FinishAbandoned
  <2> QED BY <1>1, <2>1, FinishAbandonedFacts
<1>3. CASE task' = task
  BY <1>3 DEF KeepsOutcome
<1> QED BY <1>2, <1>3 DEF LaunchCleanupNext, ReconcileLaunch, LaunchState,
     LaunchTerminate, LaunchCleanup, LaunchLease, SignalTree, Abort, RecordGone

\* A recorded outcome survives every step of the other invocations.
LEMMA CallerKeepsOutcome ==
  ASSUME IndInv, NEW p \in Callers,
         \/ CancelNext(p) \/ CleanupNext(p) \/ ReconcileNext(p)
         \/ \E o \in Ops : Call(p, o)
  PROVE  KeepsOutcome(task', task)
<1>1. task \in Record /\ TypeOK
  BY DEF IndInv, TypeOK
<1>2. CASE task' = RequestCancel(task)
  BY <1>1, <1>2 DEF RequestCancel, KeepsOutcome
<1>3. CASE task' = FinalizeCanceled(task)
  BY <1>1, <1>3, FinalizeCanceledFacts
<1>4. CASE task' = RecordFailure(task, "abandoned", FALSE)
  BY <1>1, <1>4, TaskFails DEF KeepsOutcome
<1>5. CASE \/ task' = [task EXCEPT !.cleanup = TRUE]
           \/ task' = [task EXCEPT !.file = "deleted"]
  BY <1>1, <1>5 DEF Record, KeepsOutcome
<1>6. CASE task' = task
  BY <1>6 DEF KeepsOutcome
<1>7. CASE CancelNext(p)
  BY <1>2, <1>3, <1>6, <1>7 DEF CancelNext, ListTasks, RequestCancelStep,
     QuiesceStep, TryFinalize, ObserveWorker, WorkerObserved, TerminateWorker,
     TerminateWorkerFails, WaitForLaunch, CleanupWorker, FinalizeCanceledStep, SignalTree
<1>8. CASE CleanupNext(p)
  BY <1>5, <1>6, <1>8 DEF CleanupNext, CleanupCanceled, CleanupCanceledStep,
     FinishCanceled, CleanupCanceledTree, MarkCanceledComplete, CleanupExited,
     AfterLaunchCleanup, ClaimExited, ExitedState, CleanupExitedTree,
     MarkExitedComplete, Remove, SignalTree
<1>9. CASE ReconcileNext(p)
  BY <1>3, <1>4, <1>5, <1>6, <1>9 DEF ReconcileNext, ReconcileTask, ClaimDead,
     ReconcileClaimed, CleanupClaimed, FinalizeClaimed, FailAbandoned,
     MarkAbandonedComplete, SignalTree
<1>10. CASE \E o \in Ops : Call(p, o)
  BY <1>6, <1>10 DEF Call
<1> QED BY <1>7, <1>8, <1>9, <1>10

\* The first outcome recorded is the outcome for good, whatever the launcher,
\* the worker and the other invocations do after it.
THEOREM OutcomeNeverChanges == Spec => OutcomeIsFinal
<1>1. ASSUME IndInv, Next
      PROVE  KeepsOutcome(task', task)
  BY <1>1, LauncherKeepsOutcome, WorkerKeepsOutcome,
     LaunchCleanupKeepsOutcome,
     CallerKeepsOutcome DEF Next
<1>2. IndInv /\ [Next]_vars =>
        [Terminal(task) => /\ task'.status = task.status
                           /\ task'.err = task.err]_vars
  BY <1>1 DEF KeepsOutcome
<1> QED BY <1>2, Invariance, PTL DEF Spec, OutcomeIsFinal

=============================================================================
