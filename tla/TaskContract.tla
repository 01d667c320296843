---------------------------- MODULE TaskContract ----------------------------
(***************************************************************************)
(* What a detached task promises its user, whatever crashes on the way:    *)
(* workspace work begins at most once, and never after a cancellation was  *)
(* requested or an outcome recorded; the outcome is recorded once; a       *)
(* requested cancellation can only end as "canceled", and only with no     *)
(* work in progress; a task is reported abandoned only when its work has   *)
(* stopped; a record is forgotten only after its outcome.                  *)
(***************************************************************************)

VARIABLES
  outcome,          \* "unsubmitted", "open", or how the task ended
  cancelRequested,  \* a cancellation was accepted
  work,             \* workspace work: "no", "yes" or "over"
  forgotten         \* the record was deleted

vars == <<outcome, cancelRequested, work, forgotten>>

Ends == {"succeeded", "failed", "canceled", "abandoned"}

Init ==
  /\ outcome = "unsubmitted"
  /\ cancelRequested = FALSE
  /\ work = "no"
  /\ forgotten = FALSE

Submit ==
  /\ outcome = "unsubmitted"
  /\ outcome' = "open"
  /\ UNCHANGED <<cancelRequested, work, forgotten>>

BeginWork ==
  /\ outcome = "open" /\ ~cancelRequested /\ work = "no"
  /\ work' = "yes"
  /\ UNCHANGED <<outcome, cancelRequested, forgotten>>

\* Also what a worker does that stops before it began.
StopWork ==
  /\ work # "over"
  /\ work' = "over"
  /\ UNCHANGED <<outcome, cancelRequested, forgotten>>

RequestCancel ==
  /\ outcome = "open"
  /\ cancelRequested' = TRUE
  /\ UNCHANGED <<outcome, work, forgotten>>

\* The worker may stop in the step that records how it ended.
Settle(end) ==
  /\ outcome = "open"
  /\ cancelRequested => end = "canceled" /\ work # "yes"
  /\ end = "succeeded" => work = "yes"
  /\ end = "abandoned" => work # "yes"
  /\ outcome' = end
  /\ work' \in {work, "over"}
  /\ UNCHANGED <<cancelRequested, forgotten>>

Forget ==
  /\ outcome \in Ends /\ ~forgotten
  /\ outcome \in {"canceled", "abandoned"} => work # "yes"
  /\ forgotten' = TRUE
  /\ UNCHANGED <<outcome, cancelRequested, work>>

Next ==
  \/ Submit \/ BeginWork \/ StopWork \/ RequestCancel \/ Forget
  \/ \E end \in Ends : Settle(end)

Spec == Init /\ [][Next]_vars

=============================================================================
