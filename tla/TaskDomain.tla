----------------------------- MODULE TaskDomain -----------------------------
(***************************************************************************)
(* The task state machine of tasks/domain.py: the persisted statuses, the  *)
(* commands, the transition table and the cancellation decision.  Every    *)
(* writer of a task row (the API service and the worker repository) goes   *)
(* through these operators.                                                *)
(***************************************************************************)

TaskStatus ==
  {"pending_approval", "approved", "running", "succeeded", "failed", "cancelled"}

TerminalStatus == {"succeeded", "failed", "cancelled"}

TaskCommand ==
  {"approve", "cancel", "start", "succeed", "fail", "retry", "finalize_cancellation"}

AttemptStatus ==
  {"running", "succeeded", "retry_scheduled", "failed", "cancelled", "lease_expired"}

\* The status a command leads to, or "rejected": InvalidTaskTransitionError.
ApplyTaskCommand(status, command) ==
  CASE command = "approve" /\ status \in {"pending_approval", "approved"} -> "approved"
    [] command = "cancel" /\ status \in {"pending_approval", "approved", "cancelled"} -> "cancelled"
    [] command = "cancel" /\ status = "running" -> "running"
    [] command = "start" /\ status = "approved" -> "running"
    [] command = "succeed" /\ status = "running" -> "succeeded"
    [] command = "fail" /\ status = "running" -> "failed"
    [] command = "retry" /\ status = "running" -> "approved"
    [] command = "finalize_cancellation" /\ status = "running" -> "cancelled"
    [] OTHER -> "rejected"

Allowed(status, command) == ApplyTaskCommand(status, command) # "rejected"

\* The request_cancellation half of decide_cancellation: whether this cancel
\* command records a new cancellation marker.
RequestsCancellation(status, alreadyRequested) ==
  /\ status \in {"pending_approval", "approved", "running"}
  /\ ~alreadyRequested
=============================================================================
