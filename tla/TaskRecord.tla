----------------------------- MODULE TaskRecord -----------------------------
(***************************************************************************)
(* The record of a detached task, as this version writes it (launch        *)
(* protocol 1), and the updates of it that Store.updateIf applies.  PID,   *)
(* Process and ProcessTreeIdentity are the one field ref: the record names *)
(* the worker or it does not.  err keeps the classes of Error and ErrorCode*)
(* the code tells apart.                                                   *)
(***************************************************************************)

Statuses == {"pending", "running", "succeeded", "failed"}
Errors == {"none", "failed", "canceled", "abandoned"}

Record == [file : {"absent", "present", "deleted"},
           status : Statuses, err : Errors,
           ref : BOOLEAN, owned : BOOLEAN, ready : BOOLEAN,
           launchPending : BOOLEAN, cancelRequested : BOOLEAN,
           cleanup : BOOLEAN]

NoTask == [file |-> "absent", status |-> "pending", err |-> "none",
           ref |-> FALSE, owned |-> FALSE, ready |-> FALSE,
           launchPending |-> FALSE, cancelRequested |-> FALSE,
           cleanup |-> FALSE]

Terminal(t) == t.status \in {"succeeded", "failed"}

AcceptsLaunch(t) ==
  t.launchPending /\ ~Terminal(t) /\ ~t.cancelRequested

Canceled(t) == t.status = "failed" /\ t.err = "canceled"

NeedsExitedWorkerCleanup(t) ==
  t.status = "failed" /\ t.err = "abandoned" /\ ~t.cleanup /\ t.ref

NeedsCanceledWorkerCleanup(t) == Canceled(t) /\ ~t.cleanup /\ t.ref

\* Mutants: a pending launch is reconciled like a run; only a run that has
\* reported something is.
ReconcilesPendingLaunch(t) == ~Terminal(t)
ReconcilesRunningOnly(t) == t.status = "running" /\ ~t.launchPending

NeedsReconciliation(t) == ~Terminal(t) /\ ~t.launchPending

NeedsQuiesce(t) ==
  \/ ~Terminal(t) \/ t.launchPending
  \/ NeedsExitedWorkerCleanup(t) \/ NeedsCanceledWorkerCleanup(t)

MarkCanceled(t) == [t EXCEPT !.status = "failed", !.err = "canceled"]

\* Mutant: a failure overwrites an outcome.
RecordFailureAlways(t, cause, failedLaunch) ==
  LET marked == IF failedLaunch /\ ~t.cleanup
                THEN [t EXCEPT !.launchPending = TRUE] ELSE t
  IN  [marked EXCEPT !.status = "failed", !.err = cause]

\* recordFailure: a failed launch also becomes cleanup-pending again.
RecordFailure(t, cause, failedLaunch) ==
  LET marked == IF failedLaunch /\ ~t.cleanup
                THEN [t EXCEPT !.launchPending = TRUE] ELSE t
  IN  IF Terminal(t) \/ t.cancelRequested THEN marked
      ELSE [marked EXCEPT !.status = "failed", !.err = cause]

\* Mutant: a success is recorded although a cancellation was requested.
SucceedDespiteCancel(t) ==
  IF Terminal(t) THEN t
  ELSE [t EXCEPT !.status = "succeeded", !.err = "none"]

Succeed(t) ==
  IF Terminal(t) \/ t.cancelRequested THEN t
  ELSE [t EXCEPT !.status = "succeeded", !.err = "none"]

\* taskReporter.Report: a failed event ends the task unless its phase has a
\* documented fallback; any other event only leaves pending.
Report(t, event) ==
  IF Terminal(t) \/ t.cancelRequested THEN t
  ELSE IF event \in {"failed", "canceled"}
  THEN [t EXCEPT !.status = "failed", !.err = event]
  ELSE IF event = "recoverable"
  THEN [t EXCEPT !.status = "running", !.err = "failed"]
  ELSE [t EXCEPT !.status = "running"]

\* Mutant: a finished task accepts a cancellation.
RequestCancelAlways(t) == [t EXCEPT !.cancelRequested = TRUE]

RequestCancel(t) ==
  IF Terminal(t) THEN t ELSE [t EXCEPT !.cancelRequested = TRUE]

FinalizeCanceled(t) ==
  IF Terminal(t) \/ ~t.cancelRequested THEN t
  ELSE [MarkCanceled(t) EXCEPT !.launchPending = FALSE, !.cleanup = TRUE]

FinishAbandonedLaunch(t, aborting) ==
  LET done == [t EXCEPT !.launchPending = FALSE, !.cleanup = TRUE]
  IN  IF ~t.launchPending /\ ~aborting THEN t
      ELSE IF Terminal(t) THEN done
      ELSE IF t.cancelRequested THEN MarkCanceled(done)
      ELSE [done EXCEPT !.status = "failed", !.err = "abandoned"]

\* Mutant: processes of an abandoned worker do not prevent the deletion.
CheckDeletionIgnoresTree(t, force) ==
  /\ ~t.launchPending
  /\ ~NeedsCanceledWorkerCleanup(t)
  /\ force \/ Terminal(t)

CheckDeletion(t, force) ==
  /\ ~t.launchPending
  /\ ~NeedsExitedWorkerCleanup(t)
  /\ ~NeedsCanceledWorkerCleanup(t)
  /\ force \/ Terminal(t)

=============================================================================
