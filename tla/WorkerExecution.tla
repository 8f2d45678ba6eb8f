-------------------------- MODULE WorkerExecution --------------------------
(***************************************************************************)
(* The reliable worker: tasks and attempts in PostgreSQL, the commands of  *)
(* the task API on them (tasks/service.py), the fenced transactions of     *)
(* worker/repository.py and the processes of worker/runner.py that run     *)
(* them.  One transaction on a locked row is one step; a transaction that  *)
(* captures the database clock and only later reaches the row is two.      *)
(*                                                                         *)
(* Time is kept as what the code compares: a lease is live or lapsed, a    *)
(* queued task is due now or later.  A captured database_now is kept as    *)
(* the result of comparing it with lease_expires_at.                       *)
(***************************************************************************)
EXTENDS TaskDomain, Naturals, FiniteSets

CONSTANTS Task,         \* task identifiers
          Worker,       \* worker processes (one slot, restarted with a fresh worker_id)
          MaxAttempts,  \* max_attempts of every task
          NoTask,       \* the task of a process that holds no claim
          NoWorker,     \* worker_id IS NULL
          Supervised    \* processes that are started again whenever they end

ASSUME ConstantsAssumption ==
  /\ MaxAttempts \in Nat \ {0}
  /\ NoTask \notin Task
  /\ NoWorker \notin Worker
  /\ Supervised \subseteq Worker

VARIABLES
  tasks,         \* table tasks
  attempts,      \* table task_attempts, by task and attempt_number
  issued,        \* how many lease tokens have been drawn
  pc,            \* where each process is in WorkerRunner.run / _execute_claim
  claim,         \* the ClaimedTask a process executes
  op,            \* the repository call that is to end the claim
  fresh,         \* finalisation in flight: lease_expires_at > its database_now
  handler,       \* the handler coroutine: running, or how it ended
  heartbeat,     \* the heartbeat loop
  timedOut,      \* the handler timeout has fired
  shutdown,      \* request_stop was called
  stopClaiming   \* WorkerRunner._stop_claiming

tables == <<tasks, attempts, issued>>
local == <<pc, claim, op, fresh, handler, heartbeat, timedOut, shutdown, stopClaiming>>
vars == <<tasks, attempts, issued, pc, claim, op, fresh, handler, heartbeat,
          timedOut, shutdown, stopClaiming>>

-----------------------------------------------------------------------------
(* Rows and claims *)

Number == 1 .. MaxAttempts

TaskRow ==
  [status : TaskStatus, cancellation_requested : BOOLEAN,
   available_at : {"null", "later", "due"}, attempt_count : Nat,
   worker_id : Worker \cup {NoWorker}, lease_token : Nat,
   lease : {"null", "live", "lapsed"}, result : BOOLEAN]

AttemptRow == [status : AttemptStatus \cup {"absent"}, lease_token : Nat]

Claim == [task : Task \cup {NoTask}, number : Nat, token : Nat]

NewTask ==
  [status |-> "pending_approval", cancellation_requested |-> FALSE,
   available_at |-> "null", attempt_count |-> 0, worker_id |-> NoWorker,
   lease_token |-> 0, lease |-> "null", result |-> FALSE]

NoAttempt == [status |-> "absent", lease_token |-> 0]

NoClaim == [task |-> NoTask, number |-> 0, token |-> 0]

Outcome ==
  {"result", "retryable", "permanent", "task_cancelled", "ownership_lost", "aborted"}

Operation == {"none", "success", "retry", "fail", "cancel"}

ProgramPoint ==
  {"recover", "claim", "executing", "grace", "stopping", "begin", "update", "classify", "down"}

HeartbeatState ==
  {"off", "sleeping", "fresh", "stale", "cancellation_requested", "lost"}

\* The fence of _active_fence but for its clock comparison.
Owns(w) ==
  /\ claim[w].task \in Task
  /\ tasks[claim[w].task].status = "running"
  /\ tasks[claim[w].task].worker_id = w
  /\ tasks[claim[w].task].attempt_count = claim[w].number
  /\ tasks[claim[w].task].lease_token = claim[w].token

\* The attempt row the repository's second UPDATE must match exactly once.
AttemptRunning(t, n, token) ==
  n \in Number /\ attempts[t][n] = [status |-> "running", lease_token |-> token]

\* Faulty variant: the lease columns are cleared, worker_id is forgotten.
ReleasedKeepingWorker(row, newStatus, available, hasResult) ==
  [row EXCEPT !.status = newStatus, !.available_at = available,
              !.lease_token = 0, !.lease = "null", !.result = hasResult]

\* Faulty variant: an attempt that ends without a result is not counted.
ReleasedRefunding(row, newStatus, available, hasResult) ==
  [row EXCEPT !.status = newStatus, !.available_at = available,
              !.worker_id = NoWorker, !.lease_token = 0, !.lease = "null",
              !.result = hasResult,
              !.attempt_count = IF newStatus = "approved" THEN @ - 1 ELSE @]

\* A task row as it is written when its lease is given up.
Released(row, newStatus, available, hasResult) ==
  [row EXCEPT !.status = newStatus, !.available_at = available,
              !.worker_id = NoWorker, !.lease_token = 0, !.lease = "null",
              !.result = hasResult]

Init ==
  /\ tasks = [t \in Task |-> NewTask]
  /\ attempts = [t \in Task |-> [n \in Number |-> NoAttempt]]
  /\ issued = 0
  /\ pc = [w \in Worker |-> "recover"]
  /\ claim = [w \in Worker |-> NoClaim]
  /\ op = [w \in Worker |-> "none"]
  /\ fresh = [w \in Worker |-> FALSE]
  /\ handler = [w \in Worker |-> "idle"]
  /\ heartbeat = [w \in Worker |-> "off"]
  /\ timedOut = [w \in Worker |-> FALSE]
  /\ shutdown = [w \in Worker |-> FALSE]
  /\ stopClaiming = [w \in Worker |-> FALSE]

-----------------------------------------------------------------------------
(* The task API and the passing of time *)

\* approve_task; the replayed approval of an approved task changes nothing.
ApproveTask(t) ==
  /\ Allowed(tasks[t].status, "approve")
  /\ ApplyTaskCommand(tasks[t].status, "approve") # tasks[t].status
  /\ tasks' = [tasks EXCEPT ![t] = [tasks[t] EXCEPT
                 !.status = ApplyTaskCommand(tasks[t].status, "approve"),
                 !.available_at = "due"]]
  /\ UNCHANGED <<attempts, issued, local>>

\* cancel_task; a replayed cancellation changes nothing.
CancelTask(t) ==
  LET newStatus == ApplyTaskCommand(tasks[t].status, "cancel")
      requests == RequestsCancellation(tasks[t].status, tasks[t].cancellation_requested)
  IN /\ Allowed(tasks[t].status, "cancel")
     /\ newStatus # tasks[t].status \/ requests
     /\ tasks' = [tasks EXCEPT ![t] = [tasks[t] EXCEPT
                    !.status = newStatus,
                    !.cancellation_requested = @ \/ requests,
                    !.available_at = IF newStatus = "cancelled" THEN "null" ELSE @]]
     /\ UNCHANGED <<attempts, issued, local>>

\* The clock passes available_at.
BecomesDue(t) ==
  /\ tasks[t].available_at = "later"
  /\ tasks' = [tasks EXCEPT ![t].available_at = "due"]
  /\ UNCHANGED <<attempts, issued, local>>

\* The clock passes lease_expires_at.
LeaseLapses(t) ==
  /\ tasks[t].lease = "live"
  /\ tasks' = [tasks EXCEPT ![t].lease = "lapsed"]
  /\ UNCHANGED <<attempts, issued, local>>

-----------------------------------------------------------------------------
(* The worker loop: recover one expired lease, claim one task *)

\* Faulty variants: the bound of the retry budget is off by one; the
\* cancellation marker is not looked at.
RecoveredStatusOffByOne(t) ==
  IF tasks[t].cancellation_requested
  THEN ApplyTaskCommand("running", "finalize_cancellation")
  ELSE IF tasks[t].attempt_count > MaxAttempts
       THEN ApplyTaskCommand("running", "fail")
       ELSE ApplyTaskCommand("running", "retry")

RecoveredStatusIgnoringCancellation(t) ==
  IF tasks[t].attempt_count >= MaxAttempts
  THEN ApplyTaskCommand("running", "fail")
  ELSE ApplyTaskCommand("running", "retry")

\* Where recover_one_expired takes the task of an expired lease.
RecoveredStatus(t) ==
  IF tasks[t].cancellation_requested
  THEN ApplyTaskCommand("running", "finalize_cancellation")
  ELSE IF tasks[t].attempt_count >= MaxAttempts
       THEN ApplyTaskCommand("running", "fail")
       ELSE ApplyTaskCommand("running", "retry")

\* The while condition of run() holds.
Polling(w) == pc[w] = "recover" /\ ~shutdown[w] /\ ~stopClaiming[w]

\* Faulty variants: recovery takes live leases too; recovery leaves cancelled
\* tasks to their worker.
ExpiredOrLive(t) == tasks[t].status = "running"

ExpiredUncancelled(t) ==
  /\ tasks[t].status = "running" /\ tasks[t].lease = "lapsed"
  /\ ~tasks[t].cancellation_requested

\* What recover_one_expired selects.
Expired(t) == tasks[t].status = "running" /\ tasks[t].lease = "lapsed"

\* The transaction may commit and its reply be lost: the exception handler
\* polls again instead of going on to claim_one.
RecoverExpired(w, t) ==
  /\ Polling(w)
  /\ Expired(t)
  /\ AttemptRunning(t, tasks[t].attempt_count, tasks[t].lease_token)
  /\ attempts' = [attempts EXCEPT ![t][tasks[t].attempt_count].status = "lease_expired"]
  /\ tasks' = [tasks EXCEPT ![t] = Released(tasks[t], RecoveredStatus(t),
                 IF RecoveredStatus(t) = "approved" THEN "later" ELSE "null", FALSE)]
  /\ \E next \in {"claim", "recover"} : pc' = [pc EXCEPT ![w] = next]
  /\ UNCHANGED <<issued, claim, op, fresh, handler, heartbeat, timedOut, shutdown, stopClaiming>>

\* No expired lease is found (or every one is locked: SKIP LOCKED).
RecoverNothing(w) ==
  /\ Polling(w)
  /\ pc' = [pc EXCEPT ![w] = "claim"]
  /\ UNCHANGED <<tables, claim, op, fresh, handler, heartbeat, timedOut, shutdown, stopClaiming>>

\* The committed half of claim_one.
ClaimRows(w, t) ==
  LET number == tasks[t].attempt_count + 1 IN
  /\ tasks[t].status = "approved"
  /\ tasks[t].available_at = "due"
  /\ tasks[t].attempt_count < MaxAttempts
  /\ attempts[t][number].status = "absent"
  /\ issued' = issued + 1
  /\ tasks' = [tasks EXCEPT ![t] = [tasks[t] EXCEPT
                 !.status = ApplyTaskCommand(tasks[t].status, "start"),
                 !.available_at = "null", !.attempt_count = number,
                 !.worker_id = w, !.lease_token = issued + 1,
                 !.lease = "live", !.result = FALSE]]
  /\ attempts' = [attempts EXCEPT ![t][number] =
                    [status |-> "running", lease_token |-> issued + 1]]

\* claim_one returns a claim; its handler and heartbeat loop start.
ClaimTask(w, t) ==
  /\ pc[w] = "claim"
  /\ ClaimRows(w, t)
  /\ claim' = [claim EXCEPT ![w] =
                 [task |-> t, number |-> tasks[t].attempt_count + 1, token |-> issued + 1]]
  /\ pc' = [pc EXCEPT ![w] = "executing"]
  /\ handler' = [handler EXCEPT ![w] = "running"]
  /\ heartbeat' = [heartbeat EXCEPT ![w] = "sleeping"]
  /\ UNCHANGED <<op, fresh, timedOut, shutdown, stopClaiming>>

\* The claim commits but the reply is lost: nobody executes this attempt.
ClaimReplyLost(w, t) ==
  /\ pc[w] = "claim"
  /\ ClaimRows(w, t)
  /\ pc' = [pc EXCEPT ![w] = "recover"]
  /\ UNCHANGED <<claim, op, fresh, handler, heartbeat, timedOut, shutdown, stopClaiming>>

\* No task is found, or the transaction fails.
ClaimNothing(w) ==
  /\ pc[w] = "claim"
  /\ pc' = [pc EXCEPT ![w] = "recover"]
  /\ UNCHANGED <<tables, claim, op, fresh, handler, heartbeat, timedOut, shutdown, stopClaiming>>

-----------------------------------------------------------------------------
(* What runs beside the main coroutine while a claim is executed *)

InClaim(w) ==
  pc[w] \in {"executing", "grace", "stopping", "begin", "update", "classify"}

\* heartbeat reads the database clock.
HeartbeatBegin(w) ==
  /\ InClaim(w)
  /\ heartbeat[w] = "sleeping"
  /\ heartbeat' = [heartbeat EXCEPT ![w] =
                     IF Owns(w) /\ tasks[claim[w].task].lease = "live" THEN "fresh" ELSE "stale"]
  /\ UNCHANGED <<tables, pc, claim, op, fresh, handler, timedOut, shutdown, stopClaiming>>

\* The two UPDATEs of heartbeat match their rows.
HeartbeatMatches(w) ==
  /\ heartbeat[w] = "fresh"
  /\ Owns(w)
  /\ AttemptRunning(claim[w].task, claim[w].number, claim[w].token)

\* The lease is extended, also one that lapsed since the clock was read; a
\* finalisation of the same process in flight then finds it unexpired.
ExtendLease(w) ==
  /\ tasks' = [tasks EXCEPT ![claim[w].task].lease = "live"]
  /\ fresh' = [fresh EXCEPT ![w] = pc[w] \in {"update", "classify"}]

HeartbeatActive(w) ==
  /\ HeartbeatMatches(w)
  /\ ~tasks[claim[w].task].cancellation_requested
  /\ ExtendLease(w)
  /\ heartbeat' = [heartbeat EXCEPT ![w] = "sleeping"]
  /\ UNCHANGED <<attempts, issued, pc, claim, op, handler, timedOut, shutdown, stopClaiming>>

\* With a cancellation pending the lease keeps its expiry and the loop ends.
HeartbeatCancellation(w) ==
  /\ HeartbeatMatches(w)
  /\ tasks[claim[w].task].cancellation_requested
  /\ heartbeat' = [heartbeat EXCEPT ![w] = "cancellation_requested"]
  /\ UNCHANGED <<tables, pc, claim, op, fresh, handler, timedOut, shutdown, stopClaiming>>

\* The fence does not match, the database fails, or its reply is lost.
HeartbeatLost(w) ==
  /\ heartbeat[w] \in {"fresh", "stale"}
  /\ heartbeat' = [heartbeat EXCEPT ![w] = "lost"]
  /\ \/ UNCHANGED <<tasks, fresh>>
     \/ /\ HeartbeatMatches(w)
        /\ ~tasks[claim[w].task].cancellation_requested
        /\ ExtendLease(w)
  /\ UNCHANGED <<attempts, issued, pc, claim, op, handler, timedOut, shutdown, stopClaiming>>

\* The handler coroutine ends.  TaskCancelled and OwnershipLostError are
\* raised by its context only after the heartbeat loop has set their event;
\* a handler that was already cancelled or abandoned just stops.
HandlerEnds(w, outcome) ==
  /\ handler[w] = "running"
  /\ outcome = "task_cancelled" => heartbeat[w] = "cancellation_requested"
  /\ outcome = "ownership_lost" => heartbeat[w] = "lost"
  /\ handler' = [handler EXCEPT ![w] =
                   IF pc[w] \in {"executing", "grace"} THEN outcome ELSE "idle"]
  /\ UNCHANGED <<tables, pc, claim, op, fresh, heartbeat, timedOut, shutdown, stopClaiming>>

TimeoutFires(w) ==
  /\ pc[w] \in {"executing", "grace"}
  /\ ~timedOut[w]
  /\ timedOut' = [timedOut EXCEPT ![w] = TRUE]
  /\ UNCHANGED <<tables, pc, claim, op, fresh, handler, heartbeat, shutdown, stopClaiming>>

\* SIGTERM or SIGINT.
RequestStop(w) ==
  /\ pc[w] # "down"
  /\ ~shutdown[w]
  /\ shutdown' = [shutdown EXCEPT ![w] = TRUE]
  /\ UNCHANGED <<tables, pc, claim, op, fresh, handler, heartbeat, timedOut, stopClaiming>>

-----------------------------------------------------------------------------
(* The main coroutine: waiting, stopping the handler, ending the claim *)

\* Faulty variant: one retry too many.
FailurePolicyOffByOne(w, retryable) ==
  IF retryable /\ claim[w].number <= MaxAttempts THEN "retry" ELSE "fail"

\* _finalize_failure_policy: retry while the claim has attempts left.
FailurePolicy(w, retryable) ==
  IF retryable /\ claim[w].number < MaxAttempts THEN "retry" ELSE "fail"

HandlerDone(w) == handler[w] # "running"
HeartbeatDone(w) == heartbeat[w] \in {"cancellation_requested", "lost"}

\* _completed_cause: a finished heartbeat loop outranks the timeout, and
\* both outrank whatever the handler returned.
StopCause(w) == HeartbeatDone(w) \/ timedOut[w]

\* What a stop cause leaves to be written for the claim.
StopOperation(w) ==
  CASE heartbeat[w] = "cancellation_requested" -> "cancel"
    [] heartbeat[w] = "lost" -> "none"
    [] OTHER -> FailurePolicy(w, TRUE)

\* _handle_handler_completion up to the repository call.
CompletionOperation(w) ==
  CASE handler[w] = "result" -> "success"
    [] handler[w] = "retryable" -> FailurePolicy(w, TRUE)
    [] handler[w] = "permanent" -> FailurePolicy(w, FALSE)
    [] handler[w] = "task_cancelled" -> "cancel"
    [] OTHER -> "none"

\* What became of the handler has been read; one that did not stop lives on.
HandlerRead(w) ==
  /\ handler' = [handler EXCEPT ![w] = IF handler[w] = "running" THEN "running" ELSE "idle"]
  /\ timedOut' = [timedOut EXCEPT ![w] = FALSE]

\* The claim is over for this process.
EndClaim(w) ==
  /\ pc' = [pc EXCEPT ![w] = "recover"]
  /\ claim' = [claim EXCEPT ![w] = NoClaim]
  /\ op' = [op EXCEPT ![w] = "none"]
  /\ fresh' = [fresh EXCEPT ![w] = FALSE]
  /\ HandlerRead(w)
  /\ heartbeat' = [heartbeat EXCEPT ![w] = "off"]

\* Continue at point p with operation o on behalf of the claim.
Continue(w, p, o) ==
  /\ pc' = [pc EXCEPT ![w] = p]
  /\ op' = [op EXCEPT ![w] = o]
  /\ HandlerRead(w)
  /\ UNCHANGED <<claim, fresh, heartbeat>>

\* A stop cause is honoured: handler_task.cancel().
Stop(w) ==
  /\ StopCause(w)
  /\ Continue(w, "stopping", StopOperation(w))
  /\ stopClaiming' = [stopClaiming EXCEPT ![w] = @ \/ heartbeat[w] = "lost"]

\* The handler ended and nothing stopped it first.
Complete(w) ==
  /\ ~StopCause(w)
  /\ HandlerDone(w)
  /\ IF CompletionOperation(w) = "none"
     THEN EndClaim(w) /\ stopClaiming' = [stopClaiming EXCEPT ![w] = TRUE]
     ELSE Continue(w, "begin", CompletionOperation(w)) /\ UNCHANGED stopClaiming

\* The first asyncio.wait returns, or the one of the grace period does.
Wake(w) ==
  /\ pc[w] \in {"executing", "grace"}
  /\ Stop(w) \/ Complete(w)
  /\ UNCHANGED <<tables, shutdown>>

\* Only the shutdown event is set: the handler gets its grace period.
StartGrace(w) ==
  /\ pc[w] = "executing"
  /\ shutdown[w]
  /\ ~StopCause(w) /\ ~HandlerDone(w)
  /\ Continue(w, "grace", "none")
  /\ UNCHANGED <<tables, shutdown, stopClaiming>>

\* Nothing ended within the grace period: WORKER_SHUTDOWN.
GraceExpires(w) ==
  /\ pc[w] = "grace"
  /\ ~StopCause(w) /\ ~HandlerDone(w)
  /\ Continue(w, "stopping", "none")
  /\ UNCHANGED <<tables, shutdown, stopClaiming>>

\* Faulty variant: a handler that did not stop does not retire the process.
FinishStoppingCarelessly(w) ==
  /\ pc[w] = "stopping"
  /\ IF op[w] = "none" THEN EndClaim(w) ELSE Continue(w, "begin", op[w])
  /\ UNCHANGED <<tables, shutdown, stopClaiming>>

\* The cancelled handler has stopped, or the wait for it has expired.
FinishStopping(w) ==
  /\ pc[w] = "stopping"
  /\ stopClaiming' = [stopClaiming EXCEPT ![w] = @ \/ ~HandlerDone(w)]
  /\ IF op[w] = "none" THEN EndClaim(w) ELSE Continue(w, "begin", op[w])
  /\ UNCHANGED <<tables, shutdown>>

-----------------------------------------------------------------------------
(* _finalize: one fenced transaction *)

FinalizeBegin(w) ==
  /\ pc[w] = "begin"
  /\ pc' = [pc EXCEPT ![w] = "update"]
  /\ fresh' = [fresh EXCEPT ![w] = Owns(w) /\ tasks[claim[w].task].lease = "live"]
  /\ UNCHANGED <<tables, claim, op, handler, heartbeat, timedOut, shutdown, stopClaiming>>

Fence(w) == Owns(w) /\ fresh[w]

\* Faulty variant: a completion ignores a pending cancellation.
FinalizeMatchesCancelled(w) == Fence(w)

FinalizeMatches(w) ==
  /\ Fence(w)
  /\ tasks[claim[w].task].cancellation_requested <=> op[w] = "cancel"

FinalRow(row, operation) ==
  CASE operation = "success" -> Released(row, "succeeded", "null", TRUE)
    [] operation = "retry" -> Released(row, "approved", "later", FALSE)
    [] operation = "fail" -> Released(row, "failed", "null", FALSE)
    [] OTHER -> Released(row, "cancelled", "null", FALSE)

\* Faulty variants: the attempt row gets the status of the task row; a retry
\* leaves its attempt open; a cancelled attempt counts as failed.
FinalAttemptStatusOfTask(operation) ==
  CASE operation = "success" -> "succeeded"
    [] operation = "retry" -> "approved"
    [] operation = "fail" -> "failed"
    [] OTHER -> "cancelled"

FinalAttemptStatusOpen(operation) ==
  CASE operation = "success" -> "succeeded"
    [] operation = "retry" -> "running"
    [] operation = "fail" -> "failed"
    [] OTHER -> "cancelled"

FinalAttemptStatusFailed(operation) ==
  IF operation = "success" THEN "succeeded"
  ELSE IF operation = "retry" THEN "retry_scheduled" ELSE "failed"

FinalAttemptStatus(operation) ==
  CASE operation = "success" -> "succeeded"
    [] operation = "retry" -> "retry_scheduled"
    [] operation = "fail" -> "failed"
    [] OTHER -> "cancelled"

\* The two UPDATEs of the transaction, and its commit.
FinalizeRows(w) ==
  LET t == claim[w].task IN
  /\ FinalizeMatches(w)
  /\ AttemptRunning(t, claim[w].number, claim[w].token)
  /\ tasks' = [tasks EXCEPT ![t] = FinalRow(tasks[t], op[w])]
  /\ attempts' = [attempts EXCEPT ![t][claim[w].number].status = FinalAttemptStatus(op[w])]
  /\ UNCHANGED issued

FinalizeApplied(w) ==
  /\ pc[w] = "update"
  /\ FinalizeRows(w)
  /\ EndClaim(w)
  /\ UNCHANGED <<shutdown, stopClaiming>>

FinalizeRejected(w) ==
  /\ pc[w] = "update"
  /\ ~FinalizeMatches(w)
  /\ pc' = [pc EXCEPT ![w] = "classify"]
  /\ UNCHANGED <<tables, claim, op, fresh, handler, heartbeat, timedOut, shutdown, stopClaiming>>

\* _classify_failed_fence and what the runner makes of its answer: a pending
\* cancellation is finalised instead, anything else retires the process.
FinalizeClassify(w) ==
  /\ pc[w] = "classify"
  /\ IF /\ Fence(w)
        /\ tasks[claim[w].task].cancellation_requested
        /\ op[w] # "cancel"
     THEN Continue(w, "begin", "cancel") /\ UNCHANGED stopClaiming
     ELSE EndClaim(w) /\ stopClaiming' = [stopClaiming EXCEPT ![w] = TRUE]
  /\ UNCHANGED <<tables, shutdown>>

-----------------------------------------------------------------------------
(* The process ends and is started again *)

\* Every coroutine of the process but possibly a handler that does not stop.
Leave(w, left) ==
  /\ pc' = [pc EXCEPT ![w] = "down"]
  /\ claim' = [claim EXCEPT ![w] = NoClaim]
  /\ op' = [op EXCEPT ![w] = "none"]
  /\ fresh' = [fresh EXCEPT ![w] = FALSE]
  /\ handler' = [handler EXCEPT ![w] = left]
  /\ heartbeat' = [heartbeat EXCEPT ![w] = "off"]
  /\ timedOut' = [timedOut EXCEPT ![w] = FALSE]
  /\ shutdown' = [shutdown EXCEPT ![w] = FALSE]
  /\ stopClaiming' = [stopClaiming EXCEPT ![w] = FALSE]

Remains(w) == IF handler[w] = "running" THEN "running" ELSE "idle"

\* The while condition of run() fails; asyncio.run waits for a late handler.
LoopExits(w) ==
  /\ pc[w] = "recover"
  /\ shutdown[w] \/ stopClaiming[w]
  /\ Leave(w, Remains(w))
  /\ UNCHANGED tables

\* A finalisation raises, its transaction rolled back or its commit
\* unacknowledged: the exception leaves run() and ends the process.
FinalizeRaises(w) ==
  /\ pc[w] \in {"begin", "update", "classify"}
  /\ Leave(w, Remains(w))
  /\ UNCHANGED tables \/ (pc[w] = "update" /\ FinalizeRows(w))

\* SIGKILL, power loss.
Crash(w) ==
  /\ pc[w] # "down" \/ handler[w] = "running"
  /\ Leave(w, "idle")
  /\ UNCHANGED tables

\* The process is started again, under a new worker_id.
Restart(w) ==
  /\ pc[w] = "down"
  /\ handler[w] = "idle"
  /\ pc' = [pc EXCEPT ![w] = "recover"]
  /\ UNCHANGED <<tables, claim, op, fresh, handler, heartbeat, timedOut, shutdown, stopClaiming>>

-----------------------------------------------------------------------------

TaskStep(t) == ApproveTask(t) \/ CancelTask(t) \/ BecomesDue(t) \/ LeaseLapses(t)

PollStep(w) ==
  \/ RecoverNothing(w) \/ ClaimNothing(w) \/ LoopExits(w)
  \/ \E t \in Task : RecoverExpired(w, t) \/ ClaimTask(w, t) \/ ClaimReplyLost(w, t)

HeartbeatStep(w) ==
  HeartbeatBegin(w) \/ HeartbeatActive(w) \/ HeartbeatCancellation(w) \/ HeartbeatLost(w)

ClaimStep(w) ==
  \/ Wake(w) \/ StartGrace(w) \/ GraceExpires(w) \/ FinishStopping(w)
  \/ FinalizeBegin(w) \/ FinalizeApplied(w) \/ FinalizeRejected(w)
  \/ FinalizeClassify(w) \/ FinalizeRaises(w)

Next ==
  \/ \E t \in Task : TaskStep(t)
  \/ \E w \in Worker :
       \/ PollStep(w) \/ HeartbeatStep(w) \/ ClaimStep(w)
       \/ \E outcome \in Outcome : HandlerEnds(w, outcome)
       \/ TimeoutFires(w) \/ RequestStop(w) \/ Crash(w) \/ Restart(w)

Spec == Init /\ [][Next]_vars

-----------------------------------------------------------------------------
(* Fairness.  PostgreSQL and the processes keep running, except for finitely *)
(* many disturbances; handlers honour asyncio cancellation in the end.       *)

\* A process renews the lease of t as long as its heartbeat loop runs.
Renewing(t) ==
  \E w \in Worker :
    claim[w].task = t /\ Owns(w) /\ heartbeat[w] \in {"sleeping", "fresh"}

Disturbance(w) ==
  \/ Crash(w) \/ FinalizeRaises(w) \/ RequestStop(w)
  \/ \E t \in Task : ClaimReplyLost(w, t)

\* The scans are ordered by lease_expires_at and by available_at, so a row
\* that stays at their head is taken: strong fairness of each task.
Fairness ==
  /\ \A t \in Task :
       /\ WF_vars(LeaseLapses(t) /\ ~Renewing(t))
       /\ WF_vars(BecomesDue(t))
       /\ SF_vars(\E w \in Worker : RecoverExpired(w, t))
       /\ SF_vars(\E w \in Worker : ClaimTask(w, t))
  /\ \A w \in Worker :
       /\ WF_vars(PollStep(w))
       /\ WF_vars(HeartbeatStep(w))
       /\ WF_vars(ClaimStep(w))
       /\ WF_vars(TimeoutFires(w))
       /\ WF_vars(pc[w] = "down" /\ \E outcome \in Outcome : HandlerEnds(w, outcome))
  /\ \A w \in Supervised : WF_vars(Restart(w))

EventuallyCalm == <>[][\A w \in Worker : ~Disturbance(w)]_vars

FairSpec == Spec /\ Fairness /\ EventuallyCalm

-----------------------------------------------------------------------------
(* Properties *)

\* The variables have the shape the tables and the runner give them.
TypeOK ==
  /\ tasks \in [Task -> TaskRow]
  /\ attempts \in [Task -> [Number -> AttemptRow]]
  /\ issued \in Nat
  /\ pc \in [Worker -> ProgramPoint]
  /\ claim \in [Worker -> Claim]
  /\ op \in [Worker -> Operation]
  /\ fresh \in [Worker -> BOOLEAN]
  /\ handler \in [Worker -> Outcome \cup {"idle", "running"}]
  /\ heartbeat \in [Worker -> HeartbeatState]
  /\ timedOut \in [Worker -> BOOLEAN]
  /\ shutdown \in [Worker -> BOOLEAN]
  /\ stopClaiming \in [Worker -> BOOLEAN]

\* The CHECK constraints of the tasks table: no interleaving of the API, the
\* workers and recovery may build a row PostgreSQL would refuse, since the
\* refused transaction would leave the task where it was.
TableConstraints ==
  \A t \in Task : LET row == tasks[t] IN
    /\ row.attempt_count <= MaxAttempts
    /\ row.status = "approved" => row.available_at # "null"
    /\ IF row.status = "running"
       THEN /\ row.worker_id # NoWorker /\ row.lease_token # 0
            /\ row.lease # "null" /\ row.attempt_count > 0
       ELSE row.worker_id = NoWorker /\ row.lease_token = 0 /\ row.lease = "null"
    /\ row.result <=> row.status = "succeeded"
    /\ row.cancellation_requested => row.status \in {"running", "cancelled"}

\* Tasks and attempts, written by two statements of one transaction, agree: a
\* running task has exactly one running attempt, its newest, under the token
\* of its lease; every older attempt is closed and no later one exists.
AttemptLedger ==
  \A t \in Task : \A n \in Number :
    /\ (attempts[t][n].status = "absent") <=> (n > tasks[t].attempt_count)
    /\ AttemptRunning(t, n, attempts[t][n].lease_token) <=>
         /\ tasks[t].status = "running"
         /\ n = tasks[t].attempt_count
         /\ attempts[t][n].lease_token = tasks[t].lease_token

\* An approved task always has an attempt left: claim_one would otherwise
\* never select it, and it would stay approved for ever.  A task waiting for
\* approval has used none.
RetryBudget ==
  \A t \in Task :
    /\ tasks[t].status = "approved" => tasks[t].attempt_count < MaxAttempts
    /\ tasks[t].status = "pending_approval" => tasks[t].attempt_count = 0

\* A process that is about to claim executes no handler and has not been
\* retired: a cancelled handler that does not stop, an uncertain heartbeat and
\* a rejected write all keep the process from taking a second task.
OneHandlerPerProcess ==
  \A w \in Worker :
    pc[w] = "claim" => handler[w] = "idle" /\ ~stopClaiming[w]

\* Where a process is decides what it may have left: a finalisation has an
\* operation to perform and attempts to retry with, and outside a claim a
\* handler still running means a process that will not claim again.
RunnerState ==
  \A w \in Worker :
    /\ pc[w] \in {"begin", "update", "classify"} => op[w] # "none"
    /\ ~InClaim(w) => op[w] = "none"
    /\ op[w] = "retry" => claim[w].number < MaxAttempts
    /\ (pc[w] \in {"begin", "update", "classify"} /\ handler[w] = "running") => stopClaiming[w]
    /\ (pc[w] = "recover" /\ handler[w] # "idle") => stopClaiming[w]
    /\ pc[w] = "down" => ~stopClaiming[w] /\ ~shutdown[w]

\* Attempts are append-only evidence: a closed attempt never changes, and an
\* attempt is closed as lease_expired only when its lease had lapsed.
AttemptsAppendOnly ==
  [][\A t \in Task : \A n \in Number :
       LET before == attempts[t][n]
           after == attempts'[t][n] IN
       /\ before.status \in AttemptStatus => after.lease_token = before.lease_token
       /\ before.status \in AttemptStatus \ {"running"} => after = before
       /\ before.status = "absent" => after.status \in {"absent", "running"}
       /\ (before.status = "running" /\ after.status = "lease_expired")
            => tasks[t].lease = "lapsed"]_attempts

\* Whatever ends a running attempt, the status of the attempt and the new
\* status of its task tell the same story.
SameOutcome(attemptStatus, taskStatus) ==
  CASE attemptStatus = "retry_scheduled" -> taskStatus = "approved"
    [] attemptStatus = "lease_expired" -> taskStatus \in {"approved", "failed", "cancelled"}
    [] OTHER -> taskStatus = attemptStatus

\* A running attempt is closed in the step that ends the run of its task, and
\* other than by recovery only on behalf of the process that holds the claim.
OutcomesAgree ==
  [][\A t \in Task : tasks[t].status = "running" /\ tasks'[t].status # "running" =>
       LET n == tasks[t].attempt_count IN
       /\ SameOutcome(attempts'[t][n].status, tasks'[t].status)
       /\ attempts'[t][n].status # "lease_expired" =>
            \E w \in Worker : /\ claim[w] = [task |-> t, number |-> n,
                                             token |-> attempts[t][n].lease_token]
                              /\ claim'[w] = NoClaim]_vars

Contract == INSTANCE TaskContract WITH
  record <- [t \in Task |-> [status |-> tasks[t].status,
                             cancellation_requested |-> tasks[t].cancellation_requested,
                             attempt_count |-> tasks[t].attempt_count]]

\* The worker implements the contract of the task API, whatever crashes,
\* expires or races.
ImplementsContract == Contract!ContractSpec

Fencing == INSTANCE AttemptFence WITH
  begun <- {e \in Task \X Number : e[2] <= tasks[e[1]].attempt_count},
  fenced <- {e \in Task \X Number :
               tasks[e[1]].status = "running" /\ e[2] = tasks[e[1]].attempt_count}

\* The worker gives the attempts of a task the order and the exclusive fence
\* the integration handlers rely on, whatever crashes, expires or races.
ImplementsFence == Fencing!FenceSpec

\* An approved task reaches a terminal status.
EventuallyTerminal ==
  \A t \in Task : tasks[t].status = "approved" ~> tasks[t].status \in TerminalStatus

\* An accepted cancellation is carried out.
CancellationServed ==
  \A t \in Task : tasks[t].cancellation_requested ~> tasks[t].status = "cancelled"
=============================================================================
