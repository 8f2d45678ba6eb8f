---------------------------- MODULE TaskContract ----------------------------
(***************************************************************************)
(* What the task API promises its customer, with no worker in sight: a     *)
(* task waits for approval, is started at most MaxAttempts times, and ends *)
(* in one terminal status that never changes again.  A running task whose  *)
(* cancellation was accepted can only end as cancelled.  WorkerExecution   *)
(* is shown to implement this module.                                      *)
(***************************************************************************)
EXTENDS TaskDomain, Naturals

CONSTANTS Task,         \* task identifiers
          MaxAttempts   \* max_attempts of every task

VARIABLE record         \* record[t]: the customer-visible part of a task

Record == [status : TaskStatus, cancellation_requested : BOOLEAN, attempt_count : Nat]

Fresh == [status |-> "pending_approval", cancellation_requested |-> FALSE, attempt_count |-> 0]

ContractInit == record = [t \in Task |-> Fresh]

Becomes(t, command) ==
  /\ Allowed(record[t].status, command)
  /\ record' = [record EXCEPT ![t].status = ApplyTaskCommand(record[t].status, command)]

Approve(t) == record[t].status = "pending_approval" /\ Becomes(t, "approve")

\* An accepted cancellation: immediate for a task that is not running,
\* a durable request for one that is.
Cancel(t) ==
  /\ RequestsCancellation(record[t].status, record[t].cancellation_requested)
  /\ record' = [record EXCEPT ![t].status = ApplyTaskCommand(record[t].status, "cancel"),
                              ![t].cancellation_requested = TRUE]

Start(t) ==
  /\ record[t].status = "approved"
  /\ record[t].attempt_count < MaxAttempts
  /\ record' = [record EXCEPT ![t].status = "running", ![t].attempt_count = @ + 1]

\* Without an accepted cancellation an attempt ends the task, or returns it
\* to the queue while attempts are left.
Finish(t) ==
  /\ ~record[t].cancellation_requested
  /\ \/ Becomes(t, "succeed")
     \/ Becomes(t, "fail")
     \/ Becomes(t, "retry") /\ record[t].attempt_count < MaxAttempts

FinishCancelled(t) ==
  /\ record[t].cancellation_requested
  /\ Becomes(t, "finalize_cancellation")

ContractNext ==
  \E t \in Task : Approve(t) \/ Cancel(t) \/ Start(t) \/ Finish(t) \/ FinishCancelled(t)

ContractSpec == ContractInit /\ [][ContractNext]_record
=============================================================================
