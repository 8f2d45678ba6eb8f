----------------------- MODULE WorkerExecutionProofs -----------------------
(***************************************************************************)
(* Proofs about WorkerExecution for every set of tasks, every set of       *)
(* worker processes and every retry budget.                                *)
(***************************************************************************)
EXTENDS WorkerExecution, TLAPS

USE DEF tables, local

-----------------------------------------------------------------------------
(* Type correctness *)

\* A row that gives up its lease is a row.
LEMMA ReleasedRow ==
  ASSUME NEW row \in TaskRow, NEW s \in TaskStatus, NEW b \in BOOLEAN,
         NEW a \in {"null", "later", "due"}
  PROVE  Released(row, s, a, b) \in TaskRow
BY DEF TaskRow, Released

\* The field updates of the other writers make rows of rows.
LEMMA QueuedRow ==
  ASSUME NEW row \in TaskRow, NEW s \in TaskStatus, NEW b \in BOOLEAN,
         NEW a \in {"null", "later", "due"}
  PROVE  /\ [row EXCEPT !.status = s, !.available_at = a] \in TaskRow
         /\ [row EXCEPT !.status = s, !.cancellation_requested = b, !.available_at = a] \in TaskRow
BY DEF TaskRow

\* The row whose available_at the clock has passed is a row.
LEMMA DueRow ==
  ASSUME NEW row \in TaskRow
  PROVE  [row EXCEPT !.available_at = "due"] \in TaskRow
BY DEF TaskRow

\* A heartbeat or the clock changes the lease of a row only.
LEMMA LeasedRow ==
  ASSUME NEW row \in TaskRow, NEW l \in {"null", "live", "lapsed"}
  PROVE  [row EXCEPT !.lease = l] \in TaskRow
BY DEF TaskRow

\* The row claim_one writes is a row.
LEMMA ClaimedRow ==
  ASSUME NEW row \in TaskRow, NEW w \in Worker, NEW n \in Nat, NEW token \in Nat
  PROVE  [row EXCEPT !.status = "running", !.available_at = "null", !.attempt_count = n,
                     !.worker_id = w, !.lease_token = token, !.lease = "live",
                     !.result = FALSE] \in TaskRow
BY DEF TaskRow, TaskStatus

\* The fields of a row, one by one.
LEMMA RowFields ==
  ASSUME NEW row \in TaskRow
  PROVE  /\ row.status \in TaskStatus /\ row.cancellation_requested \in BOOLEAN
         /\ row.available_at \in {"null", "later", "due"} /\ row.attempt_count \in Nat
         /\ row.lease_token \in Nat
BY DEF TaskRow

\* One row of a table is replaced by a row.
LEMMA TableUpdate ==
  ASSUME NEW S, NEW table \in [Task -> S], NEW t \in Task, NEW row \in S
  PROVE  [table EXCEPT ![t] = row] \in [Task -> S]
OBVIOUS

\* Recovery leads to a status of the table.
LEMMA RecoveredStatusType ==
  ASSUME NEW t \in Task
  PROVE  RecoveredStatus(t) \in {"approved", "failed", "cancelled"}
BY DEF RecoveredStatus, ApplyTaskCommand

\* Finalisation writes a row, whatever its operation.
LEMMA FinalRowType ==
  ASSUME NEW row \in TaskRow, NEW o
  PROVE  FinalRow(row, o) \in TaskRow
BY ReleasedRow DEF FinalRow, TaskStatus

\* The shape of every variable survives every step.
LEMMA TypeStep == TypeOK /\ [Next]_vars => TypeOK'
<1> SUFFICES ASSUME TypeOK, [Next]_vars PROVE TypeOK'
  OBVIOUS
<1> USE ConstantsAssumption DEF TypeOK
<1>1. ASSUME NEW t \in Task, ApproveTask(t) PROVE TypeOK'
  <2>1. ApplyTaskCommand(tasks[t].status, "approve") \in TaskStatus
    BY <1>1 DEF ApproveTask, Allowed, ApplyTaskCommand, TaskStatus
  <2>2. tasks' \in [Task -> TaskRow]
    BY <1>1, <2>1, QueuedRow DEF ApproveTask
  <2> QED BY <1>1, <2>2 DEF ApproveTask
<1>2. ASSUME NEW t \in Task, CancelTask(t) PROVE TypeOK'
  <2>1. ApplyTaskCommand(tasks[t].status, "cancel") \in TaskStatus
    BY <1>2 DEF CancelTask, Allowed, ApplyTaskCommand, TaskStatus
  <2>2. tasks[t].cancellation_requested \in BOOLEAN /\ tasks[t].available_at \in {"null", "later", "due"}
    BY RowFields
  <2> DEFINE b == \/ tasks[t].cancellation_requested
                  \/ RequestsCancellation(tasks[t].status, tasks[t].cancellation_requested)
             a == IF ApplyTaskCommand(tasks[t].status, "cancel") = "cancelled"
                  THEN "null" ELSE tasks[t].available_at
  <2>3. b \in BOOLEAN /\ a \in {"null", "later", "due"}
    BY <2>2
  <2>4. tasks' = [tasks EXCEPT ![t] = [tasks[t] EXCEPT
                   !.status = ApplyTaskCommand(tasks[t].status, "cancel"),
                   !.cancellation_requested = b, !.available_at = a]]
    BY <1>2 DEF CancelTask
  <2> HIDE DEF a, b
  <2>5. tasks' \in [Task -> TaskRow]
    BY <2>1, <2>3, <2>4, QueuedRow, TableUpdate
  <2> QED BY <1>2, <2>5 DEF CancelTask
<1>3. ASSUME NEW t \in Task, BecomesDue(t) \/ LeaseLapses(t) PROVE TypeOK'
  <2>1. /\ [tasks[t] EXCEPT !.available_at = "due"] \in TaskRow
        /\ [tasks[t] EXCEPT !.lease = "lapsed"] \in TaskRow
    BY DueRow, LeasedRow
  <2>2. tasks' \in [Task -> TaskRow]
    BY <1>3, <2>1 DEF BecomesDue, LeaseLapses
  <2> QED BY <1>3, <2>2 DEF BecomesDue, LeaseLapses
<1>4. ASSUME NEW w \in Worker, NEW t \in Task, RecoverExpired(w, t) PROVE TypeOK'
  <2>1. tasks' \in [Task -> TaskRow]
    BY <1>4, ReleasedRow, RecoveredStatusType DEF RecoverExpired, TaskStatus
  <2>2. attempts' \in [Task -> [Number -> AttemptRow]]
    BY <1>4 DEF RecoverExpired, AttemptRow, AttemptStatus, AttemptRunning
  <2>3. pc' \in [Worker -> ProgramPoint]
    BY <1>4 DEF RecoverExpired, ProgramPoint
  <2> QED BY <1>4, <2>1, <2>2, <2>3 DEF RecoverExpired
<1>5. ASSUME NEW w \in Worker, NEW t \in Task, ClaimRows(w, t)
      PROVE  /\ tasks' \in [Task -> TaskRow]
             /\ attempts' \in [Task -> [Number -> AttemptRow]]
             /\ issued' \in Nat
  <2> DEFINE number == tasks[t].attempt_count + 1
  <2>1. tasks[t] \in TaskRow /\ tasks[t].attempt_count \in Nat
    BY RowFields
  <2>2. ApplyTaskCommand(tasks[t].status, "start") = "running"
    BY <1>5 DEF ClaimRows, ApplyTaskCommand
  <2>3. number \in Nat /\ issued + 1 \in Nat
    BY <2>1
  <2>4. [status |-> "running", lease_token |-> issued + 1] \in AttemptRow
    BY <2>3 DEF AttemptRow, AttemptStatus
  <2>5. attempts' \in [Task -> [Number -> AttemptRow]]
    BY <1>5, <2>4 DEF ClaimRows
  <2>6. tasks' \in [Task -> TaskRow]
    BY <1>5, <2>1, <2>2, <2>3, ClaimedRow DEF ClaimRows
  <2> QED BY <1>5, <2>3, <2>5, <2>6 DEF ClaimRows
<1>6. ASSUME NEW w \in Worker, NEW t \in Task, ClaimTask(w, t) \/ ClaimReplyLost(w, t)
      PROVE  TypeOK'
  <2>1. [task |-> t, number |-> tasks[t].attempt_count + 1, token |-> issued + 1] \in Claim
    BY RowFields DEF Claim
  <2>2. ClaimRows(w, t)
    BY <1>6 DEF ClaimTask, ClaimReplyLost
  <2>3. CASE ClaimTask(w, t)
    BY <1>5, <2>1, <2>2, <2>3 DEF ClaimTask, ProgramPoint, HeartbeatState
  <2>4. CASE ClaimReplyLost(w, t)
    BY <1>5, <2>2, <2>4 DEF ClaimReplyLost, ProgramPoint
  <2> QED BY <1>6, <2>3, <2>4
<1>7. ASSUME NEW w \in Worker, FinalizeRows(w)
      PROVE  /\ tasks' \in [Task -> TaskRow]
             /\ attempts' \in [Task -> [Number -> AttemptRow]]
  <2>1. claim[w].task \in Task
    BY <1>7 DEF FinalizeRows, FinalizeMatches, Fence, Owns
  <2>2. FinalAttemptStatus(op[w]) \in AttemptStatus
    BY DEF FinalAttemptStatus, AttemptStatus
  <2>3. FinalRow(tasks[claim[w].task], op[w]) \in TaskRow
    BY <2>1, FinalRowType
  <2>4. tasks' \in [Task -> TaskRow]
    BY <1>7, <2>1, <2>3 DEF FinalizeRows
  <2>5. attempts' \in [Task -> [Number -> AttemptRow]]
    BY <1>7, <2>1, <2>2 DEF FinalizeRows, AttemptRow, AttemptRunning
  <2> QED BY <2>4, <2>5
<1>8. ASSUME NEW w \in Worker, EndClaim(w)
      PROVE  /\ pc' \in [Worker -> ProgramPoint] /\ claim' \in [Worker -> Claim]
             /\ op' \in [Worker -> Operation] /\ fresh' \in [Worker -> BOOLEAN]
             /\ handler' \in [Worker -> Outcome \cup {"idle", "running"}]
             /\ heartbeat' \in [Worker -> HeartbeatState]
             /\ timedOut' \in [Worker -> BOOLEAN]
  BY <1>8 DEF EndClaim, HandlerRead, ProgramPoint, Claim, NoClaim, Operation, HeartbeatState
<1>9. ASSUME NEW w \in Worker, NEW p \in ProgramPoint, NEW o \in Operation, Continue(w, p, o)
      PROVE  /\ pc' \in [Worker -> ProgramPoint] /\ op' \in [Worker -> Operation]
             /\ handler' \in [Worker -> Outcome \cup {"idle", "running"}]
             /\ timedOut' \in [Worker -> BOOLEAN]
             /\ UNCHANGED <<claim, fresh, heartbeat>>
  BY <1>9 DEF Continue, HandlerRead
<1>10. ASSUME NEW w \in Worker, NEW left \in {"idle", "running"}, Leave(w, left)
       PROVE  UNCHANGED <<tasks, attempts, issued>> => TypeOK'
  BY <1>10 DEF Leave, ProgramPoint, Claim, NoClaim, Operation, HeartbeatState
<1>11. ASSUME NEW w \in Worker, RecoverNothing(w) \/ ClaimNothing(w) \/ Restart(w) PROVE TypeOK'
  BY <1>11 DEF RecoverNothing, ClaimNothing, Restart, ProgramPoint
<1>12. ASSUME NEW w \in Worker,
              HeartbeatBegin(w) \/ HeartbeatActive(w) \/ HeartbeatCancellation(w) \/ HeartbeatLost(w)
       PROVE  TypeOK'
  <2>1. ASSUME HeartbeatMatches(w), ExtendLease(w)
        PROVE  tasks' \in [Task -> TaskRow] /\ fresh' \in [Worker -> BOOLEAN]
    <3>1. claim[w].task \in Task
      BY <2>1 DEF HeartbeatMatches, Owns
    <3>2. [tasks[claim[w].task] EXCEPT !.lease = "live"] \in TaskRow
      BY <3>1, LeasedRow
    <3> QED BY <2>1, <3>1, <3>2 DEF ExtendLease
  <2>2. CASE HeartbeatBegin(w) \/ HeartbeatCancellation(w)
    BY <2>2 DEF HeartbeatBegin, HeartbeatCancellation, HeartbeatState
  <2>3. CASE HeartbeatActive(w) \/ HeartbeatLost(w)
    BY <2>1, <2>3 DEF HeartbeatActive, HeartbeatLost, HeartbeatState
  <2> QED BY <1>12, <2>2, <2>3
<1>13. ASSUME NEW w \in Worker, Wake(w) PROVE TypeOK'
  <2>1. StopOperation(w) \in Operation /\ CompletionOperation(w) \in Operation
    BY DEF StopOperation, CompletionOperation, FailurePolicy, Operation
  <2>2. {"stopping", "begin"} \subseteq ProgramPoint
    BY DEF ProgramPoint
  <2> QED BY <1>8, <1>9, <1>13, <2>1, <2>2 DEF Wake, Stop, Complete
<1>14. ASSUME NEW w \in Worker, StartGrace(w) \/ GraceExpires(w) \/ FinishStopping(w) PROVE TypeOK'
  <2>1. {"grace", "stopping", "begin"} \subseteq ProgramPoint /\ "none" \in Operation
    BY DEF ProgramPoint, Operation
  <2> QED BY <1>8, <1>9, <1>14, <2>1 DEF StartGrace, GraceExpires, FinishStopping
<1>15. ASSUME NEW w \in Worker, FinalizeBegin(w) \/ FinalizeRejected(w) PROVE TypeOK'
  BY <1>15 DEF FinalizeBegin, FinalizeRejected, ProgramPoint, Owns, TaskRow
<1>16. ASSUME NEW w \in Worker, FinalizeApplied(w) \/ FinalizeClassify(w) PROVE TypeOK'
  <2>1. "begin" \in ProgramPoint /\ "cancel" \in Operation
    BY DEF ProgramPoint, Operation
  <2> QED BY <1>7, <1>8, <1>9, <1>16, <2>1 DEF FinalizeApplied, FinalizeClassify, FinalizeRows
<1>17. ASSUME NEW w \in Worker, LoopExits(w) \/ FinalizeRaises(w) \/ Crash(w) PROVE TypeOK'
  <2>1. Remains(w) \in {"idle", "running"}
    BY DEF Remains
  <2>2. CASE UNCHANGED tables
    BY <1>10, <1>17, <2>1, <2>2 DEF LoopExits, FinalizeRaises, Crash
  <2>3. CASE Leave(w, Remains(w)) /\ FinalizeRows(w)
    <3>1. tasks' \in [Task -> TaskRow] /\ attempts' \in [Task -> [Number -> AttemptRow]]
      BY <1>7, <2>3
    <3> QED BY <2>1, <2>3, <3>1
            DEF FinalizeRows, Leave, ProgramPoint, Claim, NoClaim, Operation, HeartbeatState
  <2> QED BY <1>17, <2>2, <2>3 DEF LoopExits, FinalizeRaises, Crash
<1>18. ASSUME NEW w \in Worker, NEW outcome \in Outcome, HandlerEnds(w, outcome) PROVE TypeOK'
  BY <1>18 DEF HandlerEnds
<1>19. ASSUME NEW w \in Worker, TimeoutFires(w) \/ RequestStop(w) PROVE TypeOK'
  BY <1>19 DEF TimeoutFires, RequestStop
<1>20. CASE UNCHANGED vars
  BY <1>20 DEF vars
<1> QED BY <1>1, <1>2, <1>3, <1>4, <1>6, <1>11, <1>12, <1>13, <1>14, <1>15, <1>16, <1>17,
           <1>18, <1>19, <1>20
        DEF Next, TaskStep, PollStep, HeartbeatStep, ClaimStep

\* Every reachable state has the shape of the tables and of the runner.
THEOREM TypeCorrect == Spec => []TypeOK
<1>1. Init => TypeOK
  BY ConstantsAssumption DEF Init, TypeOK, TaskRow, NewTask, TaskStatus, AttemptRow, NoAttempt,
     Claim, NoClaim, ProgramPoint, Operation, HeartbeatState
<1>2. QED
  BY <1>1, TypeStep, PTL DEF Spec

-----------------------------------------------------------------------------
(* The runner: where a process is and what it may have left *)

RunnerInv == OneHandlerPerProcess /\ RunnerState

\* Ending a claim keeps RunnerInv when a handler that still runs retires the
\* process.
LEMMA RunnerEndsClaim ==
  ASSUME TypeOK, RunnerInv, NEW w \in Worker, EndClaim(w), UNCHANGED shutdown,
         stopClaiming' \in [Worker -> BOOLEAN],
         \A v \in Worker \ {w} : stopClaiming'[v] = stopClaiming[v],
         handler[w] = "running" => stopClaiming'[w]
  PROVE  RunnerInv'
BY DEF TypeOK, RunnerInv, OneHandlerPerProcess, RunnerState, InClaim, EndClaim, HandlerRead

\* A process that goes down leaves nothing behind but its handler.
LEMMA RunnerLeaves ==
  ASSUME TypeOK, RunnerInv, NEW w \in Worker, NEW left, Leave(w, left)
  PROVE  RunnerInv'
BY DEF TypeOK, RunnerInv, OneHandlerPerProcess, RunnerState, InClaim, Leave

\* Every step keeps RunnerInv.
LEMMA RunnerStep == TypeOK /\ RunnerInv /\ [Next]_vars => RunnerInv'
<1> SUFFICES ASSUME TypeOK, RunnerInv, [Next]_vars PROVE RunnerInv'
  OBVIOUS
<1> USE DEF TypeOK, RunnerInv, OneHandlerPerProcess, RunnerState, InClaim
<1>1. ASSUME NEW t \in Task, TaskStep(t) PROVE RunnerInv'
  BY <1>1 DEF TaskStep, ApproveTask, CancelTask, BecomesDue, LeaseLapses
<1>2. ASSUME NEW w \in Worker, NEW t \in Task, RecoverExpired(w, t) PROVE RunnerInv'
  BY <1>2 DEF RecoverExpired, Polling
<1>3. ASSUME NEW w \in Worker, NEW t \in Task, ClaimTask(w, t) PROVE RunnerInv'
  BY <1>3 DEF ClaimTask
<1>4. ASSUME NEW w \in Worker, NEW t \in Task, ClaimReplyLost(w, t) PROVE RunnerInv'
  BY <1>4 DEF ClaimReplyLost
<1>5. ASSUME NEW w \in Worker, RecoverNothing(w) \/ ClaimNothing(w) \/ Restart(w) PROVE RunnerInv'
  BY <1>5 DEF RecoverNothing, ClaimNothing, Restart, Polling
<1>6. ASSUME NEW w \in Worker, HeartbeatStep(w) PROVE RunnerInv'
  BY <1>6 DEF HeartbeatStep, HeartbeatBegin, HeartbeatActive, HeartbeatCancellation, HeartbeatLost
<1>7. ASSUME NEW w \in Worker, Wake(w) PROVE RunnerInv'
  <2>1. CASE Stop(w)
    BY <1>7, <2>1 DEF Wake, Stop, Continue, HandlerRead, StopOperation, FailurePolicy
  <2>2. CASE Complete(w)
    <3>1. CASE CompletionOperation(w) = "none"
      BY <1>7, <2>2, <3>1, RunnerEndsClaim DEF Wake, Complete
    <3>2. CASE CompletionOperation(w) # "none"
      BY <1>7, <2>2, <3>2 DEF Wake, Complete, Continue, HandlerRead, HandlerDone,
                           CompletionOperation, FailurePolicy
    <3> QED BY <3>1, <3>2
  <2> QED BY <1>7, <2>1, <2>2 DEF Wake
<1>8. ASSUME NEW w \in Worker, StartGrace(w) \/ GraceExpires(w) PROVE RunnerInv'
  BY <1>8 DEF StartGrace, GraceExpires, Continue, HandlerRead
<1>9. ASSUME NEW w \in Worker, FinishStopping(w) PROVE RunnerInv'
  <2>1. CASE op[w] = "none"
    BY <1>9, <2>1, RunnerEndsClaim DEF FinishStopping, HandlerDone
  <2>2. CASE op[w] # "none"
    <3>1. stopClaiming' \in [Worker -> BOOLEAN]
      BY <1>9, TypeStep DEF Next, ClaimStep
    <3>2. \A v \in Worker \ {w} : stopClaiming'[v] = stopClaiming[v]
      BY <1>9 DEF FinishStopping
    <3>3. handler[w] = "running" => stopClaiming'[w]
      BY <1>9 DEF FinishStopping, HandlerDone
    <3> QED BY <1>9, <2>2, <3>1, <3>2, <3>3 DEF FinishStopping, Continue, HandlerRead
  <2> QED BY <2>1, <2>2
<1>10. ASSUME NEW w \in Worker, FinalizeBegin(w) \/ FinalizeRejected(w) PROVE RunnerInv'
  BY <1>10 DEF FinalizeBegin, FinalizeRejected
<1>11. ASSUME NEW w \in Worker, FinalizeApplied(w) PROVE RunnerInv'
  BY <1>11, RunnerEndsClaim DEF FinalizeApplied
<1>12. ASSUME NEW w \in Worker, FinalizeClassify(w) PROVE RunnerInv'
  <2>1. CASE EndClaim(w) /\ stopClaiming' = [stopClaiming EXCEPT ![w] = TRUE]
    BY <1>12, <2>1, RunnerEndsClaim DEF FinalizeClassify
  <2>2. CASE Continue(w, "begin", "cancel") /\ UNCHANGED stopClaiming
    BY <1>12, <2>2 DEF FinalizeClassify, Continue, HandlerRead
  <2> QED BY <1>12, <2>1, <2>2 DEF FinalizeClassify
<1>13. ASSUME NEW w \in Worker, LoopExits(w) \/ FinalizeRaises(w) \/ Crash(w) PROVE RunnerInv'
  BY <1>13, RunnerLeaves DEF LoopExits, FinalizeRaises, Crash
<1>14. ASSUME NEW w \in Worker, NEW outcome \in Outcome, HandlerEnds(w, outcome) PROVE RunnerInv'
  BY <1>14 DEF HandlerEnds
<1>15. ASSUME NEW w \in Worker, TimeoutFires(w) \/ RequestStop(w) PROVE RunnerInv'
  BY <1>15 DEF TimeoutFires, RequestStop
<1>16. CASE UNCHANGED vars
  BY <1>16 DEF vars
<1> QED BY <1>1, <1>2, <1>3, <1>4, <1>5, <1>6, <1>7, <1>8, <1>9, <1>10, <1>11, <1>12, <1>13,
           <1>14, <1>15, <1>16
        DEF Next, PollStep, ClaimStep

-----------------------------------------------------------------------------
(* The rows: what each writer does to a task and its attempts *)

RowInv == TableConstraints /\ AttemptLedger /\ RetryBudget

\* The conjuncts of RowInv for one task row and its attempt rows.
RowOK(row, rows) ==
  /\ row.attempt_count <= MaxAttempts
  /\ row.status = "approved" => row.available_at # "null" /\ row.attempt_count < MaxAttempts
  /\ row.status = "pending_approval" => row.attempt_count = 0
  /\ row.status = "running" => /\ row.worker_id # NoWorker /\ row.lease_token # 0
                               /\ row.lease # "null" /\ row.attempt_count > 0
  /\ row.status # "running" => row.worker_id = NoWorker /\ row.lease_token = 0 /\ row.lease = "null"
  /\ row.result <=> row.status = "succeeded"
  /\ row.cancellation_requested => row.status \in {"running", "cancelled"}
  /\ \A n \in Number :
       /\ (rows[n].status = "absent") <=> (n > row.attempt_count)
       /\ (rows[n].status = "running") <=> (/\ row.status = "running"
                                          /\ n = row.attempt_count
                                          /\ rows[n].lease_token = row.lease_token)

\* An attempt row is matched by its own token exactly when it is running.
LEMMA RunningRow ==
  ASSUME attempts \in [Task -> [Number -> AttemptRow]], NEW t \in Task, NEW n \in Number
  PROVE  AttemptRunning(t, n, attempts[t][n].lease_token) <=> attempts[t][n].status = "running"
BY DEF AttemptRunning, AttemptRow

\* The invariant of the two tables is one of each task and its attempts.
LEMMA RowByRow == TypeOK => (RowInv <=> \A t \in Task : RowOK(tasks[t], attempts[t]))
BY RunningRow DEF TypeOK, RowInv, TableConstraints, AttemptLedger, RetryBudget, RowOK

\* A released lease: the newest attempt is closed together with its task.
LEMMA ReleaseKeepsRow ==
  ASSUME NEW row \in TaskRow, NEW rows \in [Number -> AttemptRow], RowOK(row, rows),
         row.status = "running",
         NEW s \in TaskStatus \ {"running", "pending_approval"},
         NEW closed \in AttemptStatus \ {"running"},
         NEW a \in {"null", "later"}, NEW b \in BOOLEAN,
         b <=> s = "succeeded",
         s = "approved" => a # "null" /\ row.attempt_count < MaxAttempts,
         row.cancellation_requested => s = "cancelled"
  PROVE  RowOK(Released(row, s, a, b), [rows EXCEPT ![row.attempt_count].status = closed])
<1> DEFINE new == Released(row, s, a, b)
           later == [rows EXCEPT ![row.attempt_count].status = closed]
<1>1. /\ new.status = s /\ new.available_at = a /\ new.worker_id = NoWorker
      /\ new.lease_token = 0 /\ new.lease = "null" /\ (new.result <=> b)
      /\ new.attempt_count = row.attempt_count
      /\ new.cancellation_requested = row.cancellation_requested
  BY DEF Released, TaskRow
<1>2. row.attempt_count \in Nat /\ row.attempt_count <= MaxAttempts /\ row.attempt_count > 0
  BY RowFields DEF RowOK
<1>3. \A n \in Number : IF n = row.attempt_count THEN later[n].status = closed
                        ELSE later[n].status = rows[n].status
  BY ConstantsAssumption, <1>2 DEF Number, AttemptRow
<1>4. closed # "running" /\ closed # "absent"
  BY DEF AttemptStatus
<1>5. \A n \in Number : (later[n].status = "absent") <=> (n > row.attempt_count)
  BY <1>2, <1>3, <1>4 DEF RowOK, Number
<1>6. \A n \in Number : later[n].status # "running"
  BY <1>3, <1>4 DEF RowOK
<1> HIDE DEF new, later
<1>7. RowOK(new, later)
  BY <1>1, <1>2, <1>5, <1>6 DEF RowOK
<1> QED BY <1>7 DEF new, later

\* A committed finalisation.
ReleasesRow(w) ==
  FinalizeRows(w) /\ pc[w] = "update" /\ claim' = [claim EXCEPT ![w] = NoClaim]

\* Rows are written by the API and the clock, by recovery, by a claim, by a
\* matching heartbeat and by a matching finalisation, and by nobody else.
LEMMA RowWriters ==
  ASSUME [Next]_vars
  PROVE  \/ UNCHANGED <<tasks, attempts>>
         \/ \E t \in Task : TaskStep(t)
         \/ \E w \in Worker, t \in Task : RecoverExpired(w, t) \/ ClaimRows(w, t)
         \/ \E w \in Worker : (HeartbeatMatches(w) /\ ExtendLease(w) /\ UNCHANGED attempts)
         \/ \E w \in Worker : ReleasesRow(w)
<1>1. ASSUME NEW w \in Worker, FinalizeApplied(w) \/ FinalizeRaises(w)
      PROVE  UNCHANGED tables \/ ReleasesRow(w)
  BY <1>1 DEF FinalizeApplied, FinalizeRaises, EndClaim, Leave, ReleasesRow
<1>2. ASSUME NEW w \in Worker, HeartbeatStep(w)
      PROVE  \/ UNCHANGED tables
             \/ HeartbeatMatches(w) /\ ExtendLease(w) /\ UNCHANGED attempts
  BY <1>2 DEF HeartbeatStep, HeartbeatBegin, HeartbeatActive, HeartbeatCancellation, HeartbeatLost
<1>3. ASSUME NEW w \in Worker, PollStep(w)
      PROVE  \/ UNCHANGED tables
             \/ \E t \in Task : RecoverExpired(w, t) \/ ClaimRows(w, t)
  BY <1>3 DEF PollStep, RecoverNothing, ClaimNothing, LoopExits, ClaimTask, ClaimReplyLost
<1>4. ASSUME NEW w \in Worker, ClaimStep(w), ~FinalizeApplied(w), ~FinalizeRaises(w)
      PROVE  UNCHANGED tables
  BY <1>4 DEF ClaimStep, Wake, StartGrace, GraceExpires, FinishStopping, FinalizeBegin,
              FinalizeRejected, FinalizeClassify
<1>5. ASSUME NEW w \in Worker,
             \/ \E outcome \in Outcome : HandlerEnds(w, outcome)
             \/ TimeoutFires(w) \/ RequestStop(w) \/ Crash(w) \/ Restart(w)
      PROVE  UNCHANGED tables
  BY <1>5 DEF HandlerEnds, TimeoutFires, RequestStop, Crash, Restart
<1> QED BY <1>1, <1>2, <1>3, <1>4, <1>5 DEF Next, vars

\* The rows stay consistent whoever writes them.
LEMMA RowStep == TypeOK /\ RunnerInv /\ RowInv /\ [Next]_vars => RowInv'
<1> SUFFICES ASSUME TypeOK, RunnerInv, RowInv, [Next]_vars PROVE RowInv'
  OBVIOUS
<1>0. TypeOK'
  BY TypeStep
<1> SUFFICES \A t \in Task : RowOK(tasks'[t], attempts'[t])
  <2>1. ASSUME NEW t \in Task, NEW n \in Number
        PROVE  AttemptRunning(t, n, attempts[t][n].lease_token)' <=> attempts'[t][n].status = "running"
    BY <1>0 DEF AttemptRunning, TypeOK, AttemptRow
  <2> QED BY <1>0, <2>1 DEF TypeOK, RowInv, TableConstraints, AttemptLedger, RetryBudget, RowOK
<1>1. /\ \A t \in Task : RowOK(tasks[t], attempts[t])
      /\ tasks \in [Task -> TaskRow] /\ attempts \in [Task -> [Number -> AttemptRow]]
  BY RowByRow DEF TypeOK
<1>2. ASSUME NEW t \in Task, \A u \in Task \ {t} : tasks'[u] = tasks[u] /\ attempts'[u] = attempts[u],
             RowOK(tasks'[t], attempts'[t])
      PROVE  \A u \in Task : RowOK(tasks'[u], attempts'[u])
  BY <1>1, <1>2
<1>3. CASE UNCHANGED <<tasks, attempts>>
  BY <1>1, <1>3
<1>4. ASSUME NEW t \in Task, TaskStep(t) PROVE RowOK(tasks'[t], attempts'[t])
  <2> DEFINE row == tasks[t]
             new == tasks'[t]
  <2>1. row \in TaskRow /\ RowOK(row, attempts[t]) /\ attempts' = attempts
    BY <1>1, <1>4 DEF TaskStep, ApproveTask, CancelTask, BecomesDue, LeaseLapses
  <2>2. CASE ApproveTask(t)
    <3>1. row.status = "pending_approval" /\ ApplyTaskCommand(row.status, "approve") = "approved"
      BY <2>2 DEF ApproveTask, ApplyTaskCommand, Allowed
    <3>2. new = [row EXCEPT !.status = "approved", !.available_at = "due"]
      BY <1>1, <2>2, <3>1 DEF ApproveTask
    <3>3. /\ new.status = "approved" /\ new.available_at = "due"
          /\ new.cancellation_requested = row.cancellation_requested
          /\ new.attempt_count = row.attempt_count /\ new.worker_id = row.worker_id
          /\ new.lease_token = row.lease_token /\ new.lease = row.lease
          /\ new.result = row.result
      BY <2>1, <3>2 DEF TaskRow
    <3>4. ~row.cancellation_requested
      BY <2>1, <3>1 DEF RowOK
    <3> QED BY <2>1, <3>1, <3>3, <3>4, ConstantsAssumption DEF RowOK
  <2>3. CASE CancelTask(t)
    <3> DEFINE s == ApplyTaskCommand(row.status, "cancel")
               a == IF s = "cancelled" THEN "null" ELSE row.available_at
               c == row.cancellation_requested \/
                      RequestsCancellation(row.status, row.cancellation_requested)
    <3>1. new = [row EXCEPT !.status = s, !.cancellation_requested = c, !.available_at = a]
      BY <1>1, <2>3 DEF CancelTask
    <3>2. /\ \/ s = "cancelled" /\ row.status \in {"pending_approval", "approved"}
             \/ s = "running" /\ row.status = "running"
          /\ c
      BY <2>1, <2>3 DEF CancelTask, ApplyTaskCommand, Allowed, RequestsCancellation, TaskRow,
                        TaskStatus
    <3>3. /\ new.status = s /\ new.available_at = a /\ new.cancellation_requested = c
          /\ new.attempt_count = row.attempt_count /\ new.worker_id = row.worker_id
          /\ new.lease_token = row.lease_token /\ new.lease = row.lease
          /\ new.result = row.result
      BY <2>1, <3>1 DEF TaskRow
    <3> HIDE DEF s, c
    <3> QED BY <2>1, <3>2, <3>3 DEF RowOK
  <2>4. CASE BecomesDue(t)
    <3>1. new = [row EXCEPT !.available_at = "due"]
      BY <1>1, <2>4 DEF BecomesDue
    <3> QED BY <2>1, <3>1 DEF RowOK, TaskRow
  <2>5. CASE LeaseLapses(t)
    <3>1. new = [row EXCEPT !.lease = "lapsed"] /\ row.lease = "live"
      BY <1>1, <2>5 DEF LeaseLapses
    <3> QED BY <2>1, <3>1 DEF RowOK, TaskRow
  <2> QED BY <1>4, <2>2, <2>3, <2>4, <2>5 DEF TaskStep
<1>5. ASSUME NEW w \in Worker, HeartbeatMatches(w), ExtendLease(w), UNCHANGED attempts
      PROVE  RowOK(tasks'[claim[w].task], attempts'[claim[w].task])
  <2> DEFINE t == claim[w].task
             row == tasks[t]
  <2>1. t \in Task /\ row.status = "running"
    BY <1>5 DEF HeartbeatMatches, Owns
  <2>2. row \in TaskRow /\ RowOK(row, attempts[t])
    BY <1>1, <2>1
  <2>3. tasks'[t] = [row EXCEPT !.lease = "live"] /\ attempts'[t] = attempts[t]
    BY <1>1, <1>5, <2>1 DEF ExtendLease
  <2> HIDE DEF row
  <2> DEFINE new == [row EXCEPT !.lease = "live"]
  <2>4. /\ new.status = row.status /\ new.available_at = row.available_at
        /\ new.cancellation_requested = row.cancellation_requested
        /\ new.attempt_count = row.attempt_count /\ new.worker_id = row.worker_id
        /\ new.lease_token = row.lease_token /\ new.lease = "live"
        /\ new.result = row.result
    BY <2>2 DEF TaskRow
  <2> HIDE DEF new
  <2>5. RowOK(new, attempts[t])
    BY <2>1, <2>2, <2>4 DEF RowOK
  <2> QED BY <2>3, <2>5 DEF new
<1>6. ASSUME NEW w \in Worker, NEW t \in Task, RecoverExpired(w, t)
      PROVE  RowOK(tasks'[t], attempts'[t])
  <2> DEFINE row == tasks[t]
             n == row.attempt_count
             a == IF RecoveredStatus(t) = "approved" THEN "later" ELSE "null"
  <2>1. row \in TaskRow /\ RowOK(row, attempts[t]) /\ attempts[t] \in [Number -> AttemptRow]
    BY <1>1
  <2>2. row.status = "running" /\ n \in Number
    BY <1>6 DEF RecoverExpired, Expired, AttemptRunning
  <2>3. /\ RecoveredStatus(t) \in TaskStatus \ {"running", "pending_approval", "succeeded"}
        /\ row.cancellation_requested => RecoveredStatus(t) = "cancelled"
        /\ RecoveredStatus(t) = "approved" => n < MaxAttempts
    BY <2>1, ConstantsAssumption, RowFields DEF RecoveredStatus, ApplyTaskCommand, TaskStatus
  <2>4. /\ tasks'[t] = Released(row, RecoveredStatus(t), a, FALSE)
        /\ attempts'[t] = [attempts[t] EXCEPT ![n].status = "lease_expired"]
    BY <1>1, <1>6 DEF RecoverExpired
  <2>5. "lease_expired" \in AttemptStatus \ {"running"}
    BY DEF AttemptStatus
  <2>6. a \in {"null", "later"} /\ (RecoveredStatus(t) = "approved" => a # "null")
    OBVIOUS
  <2> HIDE DEF row, a
  <2>7. RowOK(Released(row, RecoveredStatus(t), a, FALSE),
              [attempts[t] EXCEPT ![n].status = "lease_expired"])
    BY <2>1, <2>2, <2>3, <2>5, <2>6, ReleaseKeepsRow
  <2> QED BY <2>4, <2>7
<1>7. ASSUME NEW w \in Worker, NEW t \in Task, ClaimRows(w, t)
      PROVE  RowOK(tasks'[t], attempts'[t])
  <2> DEFINE row == tasks[t]
             n == row.attempt_count + 1
  <2>1. /\ row \in TaskRow /\ RowOK(row, attempts[t]) /\ attempts[t] \in [Number -> AttemptRow]
        /\ row.status = "approved" /\ row.attempt_count < MaxAttempts /\ row.attempt_count \in Nat
    BY <1>1, <1>7, RowFields DEF ClaimRows
  <2>2. issued + 1 # 0 /\ ApplyTaskCommand(row.status, "start") = "running" /\ w # NoWorker
    BY <2>1, ConstantsAssumption DEF TypeOK, ApplyTaskCommand
  <2>3. /\ tasks'[t] = [row EXCEPT !.status = "running", !.available_at = "null",
                          !.attempt_count = n, !.worker_id = w, !.lease_token = issued + 1,
                          !.lease = "live", !.result = FALSE]
        /\ attempts'[t] = [attempts[t] EXCEPT ![n] =
                             [status |-> "running", lease_token |-> issued + 1]]
    BY <1>1, <1>7, <2>2 DEF ClaimRows
  <2>4. n \in Number /\ n > 0
    BY <2>1, ConstantsAssumption DEF Number
  <2>5. \A m \in Number :
          /\ (attempts'[t][m].status = "absent") <=> (m > n)
          /\ (attempts'[t][m].status = "running") <=> (m = n /\ attempts'[t][m].lease_token = issued + 1)
    <3>1. \A m \in Number : m # n => attempts'[t][m] = attempts[t][m]
      BY <2>1, <2>3
    <3>2. attempts'[t][n] = [status |-> "running", lease_token |-> issued + 1]
      BY <2>1, <2>3, <2>4
    <3>3. \A m \in Number : m \in Nat /\ ((m # n /\ m > row.attempt_count) <=> m > n)
      BY <2>1, ConstantsAssumption DEF Number
    <3> HIDE DEF row, n
    <3>4. \A m \in Number : m # n => (attempts[t][m].status = "absent" <=> m > row.attempt_count)
      BY <2>1 DEF RowOK
    <3>5. \A m \in Number : attempts[t][m].status # "running"
      BY <2>1 DEF RowOK
    <3>6. ~(n > n)
      BY <2>4, <3>3
    <3> QED BY <3>1, <3>2, <3>3, <3>4, <3>5, <3>6
  <2>6. LET new == tasks'[t] IN
          /\ new.status = "running" /\ new.worker_id = w /\ new.lease = "live"
          /\ new.lease_token = issued + 1 /\ new.attempt_count = n /\ new.result = FALSE
          /\ new.cancellation_requested = row.cancellation_requested
    BY <2>1, <2>3 DEF TaskRow
  <2>7. row.cancellation_requested = FALSE /\ n <= MaxAttempts
    BY <2>1, RowFields, ConstantsAssumption DEF RowOK
  <2> HIDE DEF n
  <2> QED BY <2>2, <2>4, <2>5, <2>6, <2>7 DEF RowOK
<1>8. ASSUME NEW w \in Worker, ReleasesRow(w)
      PROVE  /\ claim[w].task \in Task
             /\ RowOK(tasks'[claim[w].task], attempts'[claim[w].task])
  <2> DEFINE t == claim[w].task
             row == tasks[t]
             n == row.attempt_count
  <2>1. /\ t \in Task /\ row.status = "running" /\ n = claim[w].number /\ n \in Number
        /\ (row.cancellation_requested <=> op[w] = "cancel")
        /\ tasks' = [tasks EXCEPT ![t] = FinalRow(row, op[w])]
        /\ attempts' = [attempts EXCEPT ![t][n].status = FinalAttemptStatus(op[w])]
    BY <1>8 DEF ReleasesRow, FinalizeRows, FinalizeMatches, Fence, Owns, AttemptRunning
  <2>2. /\ row \in TaskRow /\ RowOK(row, attempts[t]) /\ attempts[t] \in [Number -> AttemptRow]
    BY <1>1, <2>1
  <2>3. op[w] \in Operation \ {"none"} /\ (op[w] = "retry" => n < MaxAttempts)
    BY <1>8, <2>1 DEF ReleasesRow, TypeOK, RunnerInv, RunnerState
  <2>4. ASSUME NEW s \in TaskStatus \ {"running", "pending_approval"},
               NEW closed \in AttemptStatus \ {"running"},
               NEW a \in {"null", "later"}, NEW b \in BOOLEAN,
               FinalRow(row, op[w]) = Released(row, s, a, b),
               FinalAttemptStatus(op[w]) = closed,
               b <=> s = "succeeded",
               s = "approved" => a # "null" /\ n < MaxAttempts,
               row.cancellation_requested => s = "cancelled"
        PROVE  RowOK(tasks'[t], attempts'[t])
    <3>1. /\ tasks'[t] = Released(row, s, a, b)
          /\ attempts'[t] = [attempts[t] EXCEPT ![n].status = closed]
      BY <1>1, <2>1, <2>4
    <3> HIDE DEF row
    <3>2. RowOK(Released(row, s, a, b), [attempts[t] EXCEPT ![n].status = closed])
      BY <2>1, <2>2, <2>4, ReleaseKeepsRow
    <3> QED BY <3>1, <3>2
  <2>5. /\ {"succeeded", "approved", "failed", "cancelled"} \subseteq TaskStatus
        /\ {"succeeded", "retry_scheduled", "failed", "cancelled"} \subseteq AttemptStatus
    BY DEF TaskStatus, AttemptStatus
  <2>6. RowOK(tasks'[t], attempts'[t])
    <3>1. CASE op[w] = "success"
      <4>1. /\ FinalRow(row, op[w]) = Released(row, "succeeded", "null", TRUE)
            /\ FinalAttemptStatus(op[w]) = "succeeded"
        BY <3>1 DEF FinalRow, FinalAttemptStatus
      <4> HIDE DEF row, t, n
      <4> QED BY <2>1, <2>4, <2>5, <3>1, <4>1
    <3>2. CASE op[w] = "retry"
      <4>1. /\ FinalRow(row, op[w]) = Released(row, "approved", "later", FALSE)
            /\ FinalAttemptStatus(op[w]) = "retry_scheduled"
        BY <3>2 DEF FinalRow, FinalAttemptStatus
      <4>2. n < MaxAttempts /\ ~row.cancellation_requested
        BY <2>1, <2>3, <3>2
      <4>3. "approved" \in TaskStatus \ {"running", "pending_approval"}
        BY <2>5
      <4>4. "retry_scheduled" \in AttemptStatus \ {"running"}
        BY <2>5
      <4> HIDE DEF row, t, n
      <4> QED BY <2>4, <4>1, <4>2, <4>3, <4>4
    <3>3. CASE op[w] = "fail"
      <4>1. /\ FinalRow(row, op[w]) = Released(row, "failed", "null", FALSE)
            /\ FinalAttemptStatus(op[w]) = "failed"
        BY <3>3 DEF FinalRow, FinalAttemptStatus
      <4> HIDE DEF row, t, n
      <4> QED BY <2>1, <2>4, <2>5, <3>3, <4>1
    <3>4. CASE op[w] = "cancel"
      <4>1. /\ FinalRow(row, op[w]) = Released(row, "cancelled", "null", FALSE)
            /\ FinalAttemptStatus(op[w]) = "cancelled"
        BY <3>4 DEF FinalRow, FinalAttemptStatus
      <4> HIDE DEF row, t, n
      <4> QED BY <2>1, <2>4, <2>5, <3>4, <4>1
    <3> QED BY <2>3, <3>1, <3>2, <3>3, <3>4 DEF Operation
  <2> QED BY <2>1, <2>6
<1>9. /\ \A t \in Task : TaskStep(t) =>
           \A u \in Task \ {t} : tasks'[u] = tasks[u] /\ attempts'[u] = attempts[u]
      /\ \A w \in Worker, t \in Task : RecoverExpired(w, t) \/ ClaimRows(w, t) =>
           \A u \in Task \ {t} : tasks'[u] = tasks[u] /\ attempts'[u] = attempts[u]
      /\ \A w \in Worker :
           \/ ReleasesRow(w)
           \/ (HeartbeatMatches(w) /\ ExtendLease(w) /\ UNCHANGED attempts)
           => /\ claim[w].task \in Task
              /\ \A u \in Task \ {claim[w].task} : tasks'[u] = tasks[u] /\ attempts'[u] = attempts[u]
  <2>1. ASSUME NEW t \in Task, TaskStep(t)
        PROVE  \A u \in Task \ {t} : tasks'[u] = tasks[u] /\ attempts'[u] = attempts[u]
    <3>1. CASE ApproveTask(t)
      BY <1>1, <3>1 DEF ApproveTask
    <3>2. CASE CancelTask(t)
      BY <1>1, <3>2 DEF CancelTask
    <3>3. CASE BecomesDue(t) \/ LeaseLapses(t)
      BY <1>1, <3>3 DEF BecomesDue, LeaseLapses
    <3> QED BY <2>1, <3>1, <3>2, <3>3 DEF TaskStep
  <2>2. ASSUME NEW w \in Worker, NEW t \in Task, RecoverExpired(w, t) \/ ClaimRows(w, t)
        PROVE  \A u \in Task \ {t} : tasks'[u] = tasks[u] /\ attempts'[u] = attempts[u]
    <3>1. CASE RecoverExpired(w, t)
      BY <1>1, <3>1 DEF RecoverExpired
    <3>2. CASE ClaimRows(w, t)
      BY <1>1, <3>2 DEF ClaimRows
    <3> QED BY <2>2, <3>1, <3>2
  <2>3. ASSUME NEW w \in Worker, ReleasesRow(w)
        PROVE  /\ claim[w].task \in Task
               /\ \A u \in Task \ {claim[w].task} :
                    tasks'[u] = tasks[u] /\ attempts'[u] = attempts[u]
    BY <1>1, <2>3 DEF ReleasesRow, FinalizeRows, FinalizeMatches, Fence, Owns
  <2>4. ASSUME NEW w \in Worker, HeartbeatMatches(w), ExtendLease(w), UNCHANGED attempts
        PROVE  /\ claim[w].task \in Task
               /\ \A u \in Task \ {claim[w].task} :
                    tasks'[u] = tasks[u] /\ attempts'[u] = attempts[u]
    BY <1>1, <2>4 DEF HeartbeatMatches, Owns, ExtendLease
  <2> QED BY <2>1, <2>2, <2>3, <2>4
<1> QED BY <1>2, <1>3, <1>4, <1>5, <1>6, <1>7, <1>8, <1>9, RowWriters

-----------------------------------------------------------------------------
(* The inductive invariant *)

IInv == TypeOK /\ RunnerInv /\ RowInv

\* No task is queued and every process is about to poll.
LEMMA InitIInv == Init => IInv
<1> SUFFICES ASSUME Init PROVE IInv
  OBVIOUS
<1>1. TypeOK
  BY ConstantsAssumption DEF Init, TypeOK, TaskRow, NewTask, TaskStatus, AttemptRow, NoAttempt,
     Claim, NoClaim, ProgramPoint, Operation, HeartbeatState
<1>2. RunnerInv
  BY DEF Init, RunnerInv, OneHandlerPerProcess, RunnerState, InClaim
<1>3. \A t \in Task : RowOK(tasks[t], attempts[t])
  BY ConstantsAssumption DEF Init, RowOK, NewTask, NoAttempt, Number
<1> QED BY <1>1, <1>2, <1>3, RowByRow DEF IInv

\* The invariant holds in every reachable state.
THEOREM Invariance == Spec => []IInv
<1>1. IInv /\ [Next]_vars => IInv'
  BY TypeStep, RunnerStep, RowStep DEF IInv
<1> QED BY InitIInv, <1>1, PTL DEF Spec

\* No interleaving writes a task row the CHECK constraints refuse.
THEOREM TableConstraintsHold == Spec => []TableConstraints
<1>1. IInv => TableConstraints
  BY DEF IInv, RowInv
<1> QED BY <1>1, Invariance, PTL

\* A running task and its one running attempt always agree.
THEOREM AttemptLedgerHolds == Spec => []AttemptLedger
<1>1. IInv => AttemptLedger
  BY DEF IInv, RowInv
<1> QED BY <1>1, Invariance, PTL

\* A queued task always has an attempt left.
THEOREM RetryBudgetHolds == Spec => []RetryBudget
<1>1. IInv => RetryBudget
  BY DEF IInv, RowInv
<1> QED BY <1>1, Invariance, PTL

\* A process never claims while an earlier handler of its own still runs.
THEOREM OneHandlerHolds == Spec => []OneHandlerPerProcess
<1>1. IInv => OneHandlerPerProcess
  BY DEF IInv, RunnerInv
<1> QED BY <1>1, Invariance, PTL

\* A finalisation always has an operation, and retries only with attempts left.
THEOREM RunnerStateHolds == Spec => []RunnerState
<1>1. IInv => RunnerState
  BY DEF IInv, RunnerInv
<1> QED BY <1>1, Invariance, PTL

-----------------------------------------------------------------------------
(* Refinement: the worker implements TaskContract *)

\* The customer-visible part of the tasks table.
Visible == [t \in Task |-> [status |-> tasks[t].status,
                            cancellation_requested |-> tasks[t].cancellation_requested,
                            attempt_count |-> tasks[t].attempt_count]]

\* A step that rewrites one row rewrites one visible record.
LEMMA VisibleUpdate ==
  ASSUME TypeOK, NEW t \in Task, NEW row \in TaskRow, tasks' = [tasks EXCEPT ![t] = row]
  PROVE  Visible' = [Visible EXCEPT ![t] =
                      [status |-> row.status,
                       cancellation_requested |-> row.cancellation_requested,
                       attempt_count |-> row.attempt_count]]
BY DEF Visible, TypeOK

\* The records of the contract before a step.
LEMMA VisibleRow ==
  ASSUME NEW t \in Task
  PROVE  /\ Visible[t].status = tasks[t].status
         /\ Visible[t].cancellation_requested = tasks[t].cancellation_requested
         /\ Visible[t].attempt_count = tasks[t].attempt_count
<1>1. Visible[t].status = tasks[t].status
  BY DEF Visible
<1>2. Visible[t].cancellation_requested = tasks[t].cancellation_requested
  BY DEF Visible
<1>3. Visible[t].attempt_count = tasks[t].attempt_count
  BY DEF Visible
<1> QED BY <1>1, <1>2, <1>3

\* A row update that changes the status, and perhaps the other visible fields,
\* is the update of the record the contract speaks of.
LEMMA RecordUpdate ==
  ASSUME TypeOK, NEW t \in Task, NEW row \in TaskRow, tasks' = [tasks EXCEPT ![t] = row]
  PROVE  /\ (/\ row.cancellation_requested = tasks[t].cancellation_requested
             /\ row.attempt_count = tasks[t].attempt_count)
              => Visible' = [Visible EXCEPT ![t].status = row.status]
         /\ row.attempt_count = tasks[t].attempt_count
              => Visible' = [Visible EXCEPT ![t].status = row.status,
                                            ![t].cancellation_requested = row.cancellation_requested]
         /\ row.cancellation_requested = tasks[t].cancellation_requested
              => Visible' = [Visible EXCEPT ![t].status = row.status,
                                            ![t].attempt_count = row.attempt_count]
<1>1. Visible' = [Visible EXCEPT ![t] =
                   [status |-> row.status,
                    cancellation_requested |-> row.cancellation_requested,
                    attempt_count |-> row.attempt_count]]
  BY VisibleUpdate
<1>2. Visible \in [Task -> [status : TaskStatus, cancellation_requested : BOOLEAN,
                            attempt_count : Nat]]
  BY RowFields DEF Visible, TypeOK
<1>3. /\ Visible[t].cancellation_requested = tasks[t].cancellation_requested
      /\ Visible[t].attempt_count = tasks[t].attempt_count
  BY VisibleRow
<1>4. ASSUME row.cancellation_requested = tasks[t].cancellation_requested,
             row.attempt_count = tasks[t].attempt_count
      PROVE  Visible' = [Visible EXCEPT ![t].status = row.status]
  BY <1>1, <1>2, <1>3, <1>4
<1>5. ASSUME row.attempt_count = tasks[t].attempt_count
      PROVE  Visible' = [Visible EXCEPT ![t].status = row.status,
                                        ![t].cancellation_requested = row.cancellation_requested]
  BY <1>1, <1>2, <1>3, <1>5
<1>6. ASSUME row.cancellation_requested = tasks[t].cancellation_requested
      PROVE  Visible' = [Visible EXCEPT ![t].status = row.status,
                                        ![t].attempt_count = row.attempt_count]
  BY <1>1, <1>2, <1>3, <1>6
<1> QED BY <1>4, <1>5, <1>6

\* The actions of the contract, over the visible records: approve_task,
\* cancel_task, claim_one, and the two ways a running task ends.
LEMMA ApproveRecord ==
  ASSUME NEW t \in Task, Visible[t].status = "pending_approval",
         Visible' = [Visible EXCEPT ![t].status = "approved"]
  PROVE  Contract!Approve(t)
BY DEF Visible, Contract!Approve, Contract!Becomes, Contract!Allowed, Contract!ApplyTaskCommand

\* A cancellation ends a task that is not running and marks one that is.
LEMMA CancelRecord ==
  ASSUME NEW t \in Task, Visible[t].status \in {"pending_approval", "approved", "running"},
         ~Visible[t].cancellation_requested,
         Visible' = [Visible EXCEPT
                      ![t].status = IF Visible[t].status = "running" THEN "running" ELSE "cancelled",
                      ![t].cancellation_requested = TRUE]
  PROVE  Contract!Cancel(t)
BY DEF Visible, Contract!Cancel, Contract!RequestsCancellation, Contract!ApplyTaskCommand

\* A claim starts the next attempt.
LEMMA StartRecord ==
  ASSUME NEW t \in Task, Visible[t].status = "approved", Visible[t].attempt_count < MaxAttempts,
         Visible' = [Visible EXCEPT ![t].status = "running",
                                    ![t].attempt_count = Visible[t].attempt_count + 1]
  PROVE  Contract!Start(t)
BY DEF Visible, Contract!Start

\* Finalisation and recovery of a task nobody cancelled.
LEMMA FinishRecord ==
  ASSUME NEW t \in Task, NEW s \in {"succeeded", "approved", "failed"},
         Visible[t].status = "running", ~Visible[t].cancellation_requested,
         s = "approved" => Visible[t].attempt_count < MaxAttempts,
         Visible' = [Visible EXCEPT ![t].status = s]
  PROVE  Contract!Finish(t)
<1> USE DEF Visible, Contract!Finish, Contract!Becomes, Contract!Allowed, Contract!ApplyTaskCommand
<1>1. CASE s = "succeeded"
  BY <1>1
<1>2. CASE s = "approved"
  BY <1>2
<1>3. CASE s = "failed"
  BY <1>3
<1> QED BY <1>1, <1>2, <1>3

\* Finalisation and recovery of a cancelled task.
LEMMA FinishCancelledRecord ==
  ASSUME NEW t \in Task, Visible[t].status = "running", Visible[t].cancellation_requested,
         Visible' = [Visible EXCEPT ![t].status = "cancelled"]
  PROVE  Contract!FinishCancelled(t)
BY DEF Visible, Contract!FinishCancelled, Contract!Becomes, Contract!Allowed, Contract!ApplyTaskCommand

\* A running row that a worker or recovery gives up is a Finish or a
\* FinishCancelled of the contract.
LEMMA ReleaseFinishes ==
  ASSUME TypeOK, NEW t \in Task, NEW s \in {"succeeded", "approved", "failed", "cancelled"},
         NEW a \in {"null", "later", "due"}, NEW b \in BOOLEAN,
         tasks[t].status = "running",
         tasks' = [tasks EXCEPT ![t] = Released(tasks[t], s, a, b)],
         tasks[t].cancellation_requested <=> s = "cancelled",
         s = "approved" => tasks[t].attempt_count < MaxAttempts
  PROVE  Contract!Finish(t) \/ Contract!FinishCancelled(t)
<1> DEFINE row == tasks[t]
           new == Released(row, s, a, b)
<1>1. row \in TaskRow
  BY DEF TypeOK
<1>2. new \in TaskRow
  BY <1>1, ReleasedRow DEF TaskStatus
<1>3. /\ new.status = s
      /\ new.cancellation_requested = row.cancellation_requested
      /\ new.attempt_count = row.attempt_count
  BY <1>1 DEF Released, TaskRow
<1>4. tasks' = [tasks EXCEPT ![t] = new]
  OBVIOUS
<1> HIDE DEF new
<1>5. Visible' = [Visible EXCEPT ![t].status = s]
  BY <1>2, <1>3, <1>4, RecordUpdate
<1>6. /\ Visible[t].status = "running" /\ Visible[t].attempt_count = row.attempt_count
      /\ Visible[t].cancellation_requested = row.cancellation_requested
      /\ row.cancellation_requested \in BOOLEAN
  BY <1>1, VisibleRow, RowFields
<1>7. CASE s = "cancelled"
  BY <1>5, <1>6, <1>7, FinishCancelledRecord
<1>8. CASE s # "cancelled"
  BY <1>5, <1>6, <1>8, FinishRecord
<1> QED BY <1>7, <1>8

\* Every step of the worker, the API or the clock is a step of the contract
\* or leaves what the customer sees alone.
LEMMA ContractStep == IInv /\ [Next]_vars => [Contract!ContractNext]_Visible
<1> SUFFICES ASSUME IInv, [Next]_vars PROVE Contract!ContractNext \/ Visible' = Visible
  OBVIOUS
<1>0. TypeOK /\ RunnerInv /\ \A t \in Task : RowOK(tasks[t], attempts[t])
  BY RowByRow DEF IInv
<1>1. ASSUME NEW t \in Task,
             \/ Contract!Approve(t) \/ Contract!Cancel(t) \/ Contract!Start(t)
             \/ Contract!Finish(t) \/ Contract!FinishCancelled(t)
      PROVE  Contract!ContractNext
  BY <1>1 DEF Contract!ContractNext
<1>2. CASE UNCHANGED <<tasks, attempts>>
  BY <1>2 DEF Visible
<1>3. ASSUME NEW t \in Task, NEW new \in TaskRow, tasks' = [tasks EXCEPT ![t] = new],
             new.status = tasks[t].status,
             new.cancellation_requested = tasks[t].cancellation_requested,
             new.attempt_count = tasks[t].attempt_count
      PROVE  Visible' = Visible
  BY <1>0, <1>3, VisibleUpdate, VisibleRow DEF Visible
<1>4. ASSUME NEW t \in Task, ApproveTask(t) PROVE Contract!Approve(t)
  <2> DEFINE row == tasks[t]
             new == [row EXCEPT !.status = "approved", !.available_at = "due"]
  <2>1. row.status = "pending_approval" /\ tasks' = [tasks EXCEPT ![t] = new]
    BY <1>4 DEF ApproveTask, Allowed, ApplyTaskCommand
  <2>2. row \in TaskRow
    BY <1>0 DEF TypeOK
  <2>3. /\ new \in TaskRow /\ new.status = "approved"
        /\ new.cancellation_requested = row.cancellation_requested
        /\ new.attempt_count = row.attempt_count
    BY <2>2 DEF TaskRow, TaskStatus
  <2> HIDE DEF new
  <2>4. Visible' = [Visible EXCEPT ![t].status = new.status]
    BY <1>0, <2>1, <2>3, RecordUpdate
  <2> QED BY <2>1, <2>3, <2>4, VisibleRow, ApproveRecord
<1>5. ASSUME NEW t \in Task, CancelTask(t) PROVE Contract!Cancel(t)
  <2> DEFINE row == tasks[t]
             s == IF row.status = "running" THEN "running" ELSE "cancelled"
             a == IF s = "cancelled" THEN "null" ELSE row.available_at
             new == [row EXCEPT !.status = s, !.cancellation_requested = TRUE, !.available_at = a]
  <2>1. row \in TaskRow /\ RowOK(row, attempts[t])
    BY <1>0 DEF TypeOK
  <2>2. /\ row.status \in {"pending_approval", "approved", "running"}
        /\ ~row.cancellation_requested
    BY <1>5, <2>1 DEF CancelTask, Allowed, ApplyTaskCommand, RequestsCancellation, RowOK
  <2>3. /\ ApplyTaskCommand(row.status, "cancel") = s
        /\ RequestsCancellation(row.status, row.cancellation_requested)
    BY <2>2 DEF ApplyTaskCommand, RequestsCancellation
  <2>4. tasks' = [tasks EXCEPT ![t] = new]
    BY <1>5, <2>3 DEF CancelTask
  <2>5. /\ new \in TaskRow /\ new.status = s /\ new.cancellation_requested = TRUE
        /\ new.attempt_count = row.attempt_count
    BY <2>1 DEF TaskRow, TaskStatus
  <2> HIDE DEF new
  <2>6. Visible' = [Visible EXCEPT ![t].status = s, ![t].cancellation_requested = TRUE]
    BY <1>0, <2>4, <2>5, RecordUpdate
  <2> QED BY <2>2, <2>6, VisibleRow, CancelRecord
<1>6. ASSUME NEW t \in Task, BecomesDue(t) \/ LeaseLapses(t) PROVE Visible' = Visible
  <2> DEFINE due == [tasks[t] EXCEPT !.available_at = "due"]
             lapsed == [tasks[t] EXCEPT !.lease = "lapsed"]
  <2>1. due \in TaskRow /\ lapsed \in TaskRow
    BY <1>0, DueRow, LeasedRow DEF TypeOK
  <2>2. /\ due.status = tasks[t].status /\ lapsed.status = tasks[t].status
        /\ due.cancellation_requested = tasks[t].cancellation_requested
        /\ lapsed.cancellation_requested = tasks[t].cancellation_requested
        /\ due.attempt_count = tasks[t].attempt_count
        /\ lapsed.attempt_count = tasks[t].attempt_count
    BY <1>0 DEF TypeOK, TaskRow
  <2>3. tasks' = [tasks EXCEPT ![t] = due] \/ tasks' = [tasks EXCEPT ![t] = lapsed]
    BY <1>0, <1>6 DEF BecomesDue, LeaseLapses, TypeOK
  <2> HIDE DEF due, lapsed
  <2> QED BY <1>3, <2>1, <2>2, <2>3
<1>7. ASSUME NEW w \in Worker, HeartbeatMatches(w), ExtendLease(w) PROVE Visible' = Visible
  <2> DEFINE t == claim[w].task
             live == [tasks[t] EXCEPT !.lease = "live"]
  <2>1. t \in Task
    BY <1>7 DEF HeartbeatMatches, Owns
  <2>2. live \in TaskRow
    BY <1>0, <2>1, LeasedRow DEF TypeOK
  <2>3. /\ live.status = tasks[t].status /\ live.attempt_count = tasks[t].attempt_count
        /\ live.cancellation_requested = tasks[t].cancellation_requested
    BY <1>0, <2>1 DEF TypeOK, TaskRow
  <2>4. tasks' = [tasks EXCEPT ![t] = live]
    BY <1>0, <1>7 DEF ExtendLease, TypeOK
  <2> HIDE DEF t, live
  <2> QED BY <1>3, <2>1, <2>2, <2>3, <2>4
<1>8. ASSUME NEW w \in Worker, NEW t \in Task, ClaimRows(w, t) PROVE Contract!Start(t)
  <2> DEFINE row == tasks[t]
             n == row.attempt_count + 1
             new == [row EXCEPT !.status = "running", !.available_at = "null",
                       !.attempt_count = n, !.worker_id = w, !.lease_token = issued + 1,
                       !.lease = "live", !.result = FALSE]
  <2>1. row \in TaskRow /\ row.status = "approved" /\ row.attempt_count < MaxAttempts
    BY <1>0, <1>8 DEF TypeOK, ClaimRows
  <2>2. row.attempt_count \in Nat /\ n \in Nat /\ issued + 1 \in Nat
    BY <1>0, <2>1, RowFields DEF TypeOK
  <2>3. tasks' = [tasks EXCEPT ![t] = new]
    <3>1. ApplyTaskCommand(row.status, "start") = "running"
      BY <2>1 DEF ApplyTaskCommand
    <3> QED BY <1>8, <3>1 DEF ClaimRows
  <2> HIDE DEF n
  <2>4. new \in TaskRow
    BY <2>1, <2>2, ClaimedRow
  <2>5. /\ new.status = "running" /\ new.attempt_count = n
        /\ new.cancellation_requested = row.cancellation_requested
    BY <2>1 DEF TaskRow
  <2> HIDE DEF new
  <2>6. Visible' = [Visible EXCEPT ![t].status = "running", ![t].attempt_count = n]
    <3>1. Visible' = [Visible EXCEPT ![t].status = new.status, ![t].attempt_count = new.attempt_count]
      <4>1. tasks' = [tasks EXCEPT ![t] = new] /\ TypeOK /\ new \in TaskRow
            /\ new.cancellation_requested = tasks[t].cancellation_requested
        BY <1>0, <2>3, <2>4, <2>5
      <4> HIDE DEF row
      <4> QED BY <4>1, RecordUpdate
    <3> QED BY <2>5, <3>1
  <2> QED BY <2>1, <2>6, VisibleRow, StartRecord DEF n
<1>9. ASSUME NEW w \in Worker, NEW t \in Task, RecoverExpired(w, t)
      PROVE  Contract!Finish(t) \/ Contract!FinishCancelled(t)
  <2> DEFINE a == IF RecoveredStatus(t) = "approved" THEN "later" ELSE "null"
  <2>1. /\ tasks[t].status = "running" /\ tasks[t].attempt_count \in Nat
        /\ tasks' = [tasks EXCEPT ![t] = Released(tasks[t], RecoveredStatus(t), a, FALSE)]
    BY <1>0, <1>9, RowFields DEF RecoverExpired, Expired, TypeOK
  <2>2. /\ RecoveredStatus(t) \in {"approved", "failed", "cancelled"}
        /\ tasks[t].cancellation_requested <=> RecoveredStatus(t) = "cancelled"
        /\ RecoveredStatus(t) = "approved" => tasks[t].attempt_count < MaxAttempts
    <3>1. tasks[t].cancellation_requested \in BOOLEAN
      BY <1>0, RowFields DEF TypeOK
    <3>2. CASE tasks[t].cancellation_requested
      BY <3>2 DEF RecoveredStatus, ApplyTaskCommand
    <3>3. CASE ~tasks[t].cancellation_requested
      <4>1. RecoveredStatus(t) = IF tasks[t].attempt_count >= MaxAttempts
                                 THEN "failed" ELSE "approved"
        BY <3>3 DEF RecoveredStatus, ApplyTaskCommand
      <4> QED BY <2>1, <3>3, <4>1, ConstantsAssumption
    <3> QED BY <3>1, <3>2, <3>3
  <2>3. a \in {"null", "later", "due"}
    OBVIOUS
  <2> HIDE DEF a
  <2> QED BY <1>0, <2>1, <2>2, <2>3, ReleaseFinishes
<1>10. ASSUME NEW w \in Worker, ReleasesRow(w)
       PROVE  \E t \in Task : Contract!Finish(t) \/ Contract!FinishCancelled(t)
  <2>0. PICK t \in Task : t = claim[w].task
    BY <1>10 DEF ReleasesRow, FinalizeRows, FinalizeMatches, Fence, Owns
  <2> DEFINE s == CASE op[w] = "success" -> "succeeded" [] op[w] = "retry" -> "approved"
                    [] op[w] = "fail" -> "failed" [] OTHER -> "cancelled"
             a == IF op[w] = "retry" THEN "later" ELSE "null"
             b == op[w] = "success"
  <2>1. /\ tasks[t].status = "running"
        /\ tasks[t].attempt_count = claim[w].number
        /\ tasks[t].cancellation_requested <=> op[w] = "cancel"
        /\ tasks' = [tasks EXCEPT ![t] = FinalRow(tasks[t], op[w])]
    BY <1>10, <2>0 DEF ReleasesRow, FinalizeRows, FinalizeMatches, Fence, Owns
  <2>2. op[w] \in Operation \ {"none"} /\ (op[w] = "retry" => tasks[t].attempt_count < MaxAttempts)
    BY <1>0, <1>10, <2>1 DEF ReleasesRow, TypeOK, RunnerInv, RunnerState
  <2>3. FinalRow(tasks[t], op[w]) = Released(tasks[t], s, a, b)
    BY DEF FinalRow
  <2>4. /\ s \in {"succeeded", "approved", "failed", "cancelled"}
        /\ a \in {"null", "later", "due"} /\ b \in BOOLEAN
        /\ s = "cancelled" <=> op[w] = "cancel"
        /\ s = "approved" <=> op[w] = "retry"
    BY <2>2 DEF Operation
  <2> HIDE DEF s, a, b
  <2>5. Contract!Finish(t) \/ Contract!FinishCancelled(t)
    <3>1. tasks' = [tasks EXCEPT ![t] = Released(tasks[t], s, a, b)]
      BY <2>1, <2>3
    <3>2. tasks[t].cancellation_requested <=> s = "cancelled"
      BY <2>1, <2>4
    <3>3. s = "approved" => tasks[t].attempt_count < MaxAttempts
      BY <2>2, <2>4
    <3> QED BY <1>0, <2>1, <2>4, <3>1, <3>2, <3>3, ReleaseFinishes
  <2> QED BY <2>5
<1> QED BY <1>1, <1>2, <1>4, <1>5, <1>6, <1>7, <1>8, <1>9, <1>10, RowWriters DEF TaskStep

\* The worker implements the contract of the task API: attempts are bounded,
\* a terminal status is final, and an accepted cancellation decides how a
\* running task ends, whatever crashes, expires or races.
THEOREM ContractImplemented == Spec => ImplementsContract
<1>1. Init => Contract!ContractInit
  BY DEF Init, NewTask, Contract!ContractInit, Contract!Fresh
<1>2. IInv /\ [Next]_vars => [Contract!ContractNext]_Visible
  BY ContractStep
<1> QED BY <1>1, <1>2, Invariance, PTL DEF Spec, ImplementsContract, Contract!ContractSpec, Visible

-----------------------------------------------------------------------------
(* Refinement: the worker implements AttemptFence *)

\* The attempts that began and the ones whose fence stands, as the contract
\* of the handlers has them.
Begun == {e \in Task \X Number : e[2] <= tasks[e[1]].attempt_count}

Fenced == {e \in Task \X Number :
             tasks[e[1]].status = "running" /\ e[2] = tasks[e[1]].attempt_count}

\* What one step may do to the count and the run of one task.
KeepsRun(t) ==
  /\ tasks'[t].attempt_count = tasks[t].attempt_count
  /\ tasks'[t].status = "running" <=> tasks[t].status = "running"

StartsRun(t) ==
  /\ tasks[t].status # "running" /\ tasks'[t].status = "running"
  /\ tasks[t].attempt_count < MaxAttempts
  /\ tasks'[t].attempt_count = tasks[t].attempt_count + 1

EndsOwnRun(t) ==
  /\ tasks[t].status = "running" /\ tasks'[t].status # "running"
  /\ tasks'[t].attempt_count = tasks[t].attempt_count

\* A step of the contract of the task API starts one run, ends one run, or
\* keeps them all.
LEMMA RunStep ==
  ASSUME [Contract!ContractNext]_Visible
  PROVE  \/ \A u \in Task : KeepsRun(u)
         \/ \E t \in Task : /\ \A u \in Task \ {t} : KeepsRun(u)
                            /\ StartsRun(t) \/ EndsOwnRun(t)
<1> DEFINE Keeps == \A u \in Task : KeepsRun(u)
           Only(t) == \A u \in Task \ {t} : KeepsRun(u)
<1>1. \A u \in Task : /\ Visible[u].status = tasks[u].status
                      /\ Visible[u].attempt_count = tasks[u].attempt_count
                      /\ Visible'[u].status = tasks'[u].status
                      /\ Visible'[u].attempt_count = tasks'[u].attempt_count
  BY DEF Visible
<1>3. CASE Visible' = Visible
  BY <1>1, <1>3 DEF KeepsRun
<1>4. ASSUME NEW t \in Task, Contract!Approve(t) \/ Contract!Cancel(t) PROVE Keeps
  <2>1. \A u \in Task \ {t} : Visible'[u] = Visible[u]
    BY <1>4 DEF Visible, Contract!Approve, Contract!Becomes, Contract!Cancel
  <2>2. Visible'[t].attempt_count = Visible[t].attempt_count
    BY <1>4 DEF Visible, Contract!Approve, Contract!Becomes, Contract!Cancel
  <2>3. Visible'[t].status = "running" <=> Visible[t].status = "running"
    BY <1>4 DEF Visible, Contract!Approve, Contract!Becomes, Contract!Cancel,
      Contract!Allowed, Contract!ApplyTaskCommand, Contract!RequestsCancellation
  <2> QED BY <1>1, <2>1, <2>2, <2>3 DEF KeepsRun
<1>5. ASSUME NEW t \in Task, Contract!Start(t) PROVE Only(t) /\ StartsRun(t)
  <2>1. \A u \in Task \ {t} : Visible'[u] = Visible[u]
    BY <1>5 DEF Visible, Contract!Start
  <2>2. Visible[t].status = "approved" /\ Visible[t].attempt_count < MaxAttempts
    BY <1>5 DEF Visible, Contract!Start
  <2>3. Visible'[t].status = "running"
    BY <1>5 DEF Visible, Contract!Start
  <2>4. Visible'[t].attempt_count = Visible[t].attempt_count + 1
    BY <1>5 DEF Visible, Contract!Start
  <2>5. Only(t)
    BY <1>1, <2>1 DEF KeepsRun
  <2> QED BY <1>1, <2>2, <2>3, <2>4, <2>5 DEF StartsRun
<1>6. ASSUME NEW t \in Task, Contract!Finish(t) \/ Contract!FinishCancelled(t)
      PROVE  Only(t) /\ EndsOwnRun(t)
  <2>1. \A u \in Task \ {t} : Visible'[u] = Visible[u]
    BY <1>6 DEF Visible, Contract!Finish, Contract!FinishCancelled, Contract!Becomes
  <2>2. Visible'[t].attempt_count = Visible[t].attempt_count
    BY <1>6 DEF Visible, Contract!Finish, Contract!FinishCancelled, Contract!Becomes
  <2>3. Visible[t].status = "running" /\ Visible'[t].status # "running"
    BY <1>6 DEF Visible, Contract!Finish, Contract!FinishCancelled, Contract!Becomes,
      Contract!Allowed, Contract!ApplyTaskCommand
  <2> QED BY <1>1, <2>1, <2>2, <2>3 DEF KeepsRun, EndsOwnRun
<1> QED BY <1>3, <1>4, <1>5, <1>6 DEF Contract!ContractNext

\* Sets of attempts are equal when they have the same pairs.
LEMMA SamePairs ==
  ASSUME NEW S \in SUBSET (Task \X Number), NEW T \in SUBSET (Task \X Number),
         \A u \in Task : \A m \in Number : <<u, m>> \in S <=> <<u, m>> \in T
  PROVE  S = T
<1>1. \A e \in Task \X Number : e \in S <=> e \in T
  OBVIOUS
<1> QED BY <1>1

\* A claim is a Begin, the end of a run a Lose, and no other step is seen.
LEMMA FenceStep == IInv /\ [Next]_vars => [Fencing!FenceNext]_<<Begun, Fenced>>
<1> SUFFICES ASSUME IInv, [Next]_vars
             PROVE  Fencing!FenceNext \/ (Begun' = Begun /\ Fenced' = Fenced)
  OBVIOUS
<1>1. /\ MaxAttempts \in Nat /\ \A u \in Task : tasks[u].attempt_count \in Nat
      /\ \A u \in Task : tasks[u].status = "running" => tasks[u].attempt_count \in Number
  <2>1. TypeOK /\ \A u \in Task : RowOK(tasks[u], attempts[u])
    BY RowByRow DEF IInv
  <2>2. MaxAttempts \in Nat
    BY ConstantsAssumption
  <2>3. \A u \in Task : tasks[u].attempt_count \in Nat
    BY <2>1, RowFields DEF TypeOK
  <2>4. \A u \in Task : tasks[u].status = "running" => tasks[u].attempt_count \in Number
    BY <2>1, <2>2, <2>3 DEF RowOK, Number
  <2> QED BY <2>2, <2>3, <2>4
<1>2. \A u \in Task : \A n \in Number :
        /\ <<u, n>> \in Begun <=> n <= tasks[u].attempt_count
        /\ <<u, n>> \in Begun' <=> n <= tasks'[u].attempt_count
        /\ <<u, n>> \in Fenced <=> tasks[u].status = "running" /\ n = tasks[u].attempt_count
        /\ <<u, n>> \in Fenced' <=> tasks'[u].status = "running" /\ n = tasks'[u].attempt_count
  BY DEF Begun, Fenced
<1>3. /\ Begun \subseteq Task \X Number /\ Begun' \subseteq Task \X Number
      /\ Fenced \subseteq Task \X Number /\ Fenced' \subseteq Task \X Number
  BY DEF Begun, Fenced
<1>4. CASE \A u \in Task : KeepsRun(u)
  <2>1. \A u \in Task : \A n \in Number :
          /\ <<u, n>> \in Begun' <=> <<u, n>> \in Begun
          /\ <<u, n>> \in Fenced' <=> <<u, n>> \in Fenced
    BY <1>2, <1>4 DEF KeepsRun
  <2> QED BY <1>3, <2>1
<1>5. ASSUME NEW t \in Task, \A u \in Task \ {t} : KeepsRun(u), StartsRun(t)
      PROVE  Fencing!FenceNext
  <2> DEFINE n == tasks[t].attempt_count + 1
  <2>1. n \in Number /\ n \in 1 .. MaxAttempts
    BY <1>1, <1>5 DEF StartsRun, Number
  <2>2. <<t, n>> \notin Begun
    BY <1>1, <1>2, <2>1
  <2>3. \A m \in 1 .. n - 1 : <<t, m>> \in Begun \ Fenced
    <3> SUFFICES ASSUME NEW m \in 1 .. n - 1 PROVE <<t, m>> \in Begun \ Fenced
      OBVIOUS
    <3>1. m \in Number /\ m <= tasks[t].attempt_count
      BY <1>1, <2>1 DEF Number
    <3> QED BY <1>2, <1>5, <3>1 DEF StartsRun
  <2>4. \A u \in Task : \A m \in Number :
          /\ <<u, m>> \in Begun' <=> <<u, m>> \in Begun \/ (u = t /\ m = n)
          /\ <<u, m>> \in Fenced' <=> <<u, m>> \in Fenced \/ (u = t /\ m = n)
    <3> SUFFICES ASSUME NEW u \in Task, NEW m \in Number
                 PROVE  /\ <<u, m>> \in Begun' <=> <<u, m>> \in Begun \/ (u = t /\ m = n)
                        /\ <<u, m>> \in Fenced' <=> <<u, m>> \in Fenced \/ (u = t /\ m = n)
      OBVIOUS
    <3>1. CASE u = t
      BY <1>1, <1>2, <1>5, <3>1 DEF StartsRun, Number
    <3>2. CASE u # t
      BY <1>2, <1>5, <3>2 DEF KeepsRun
    <3> QED BY <3>1, <3>2
  <2> HIDE DEF n
  <2>5. Begun' = Begun \cup {<<t, n>>} /\ Fenced' = Fenced \cup {<<t, n>>}
    <3>1. \A u \in Task : \A m \in Number :
            /\ <<u, m>> \in Begun' <=> <<u, m>> \in Begun \cup {<<t, n>>}
            /\ <<u, m>> \in Fenced' <=> <<u, m>> \in Fenced \cup {<<t, n>>}
      BY <2>4
    <3>2. <<t, n>> \in Task \X Number
      BY <2>1
    <3> QED BY <1>3, <3>1, <3>2, SamePairs
  <2> QED BY <2>1, <2>2, <2>3, <2>5 DEF Fencing!FenceNext, Fencing!Begin, Begun, Fenced
<1>6. ASSUME NEW t \in Task, \A u \in Task \ {t} : KeepsRun(u), EndsOwnRun(t)
      PROVE  Fencing!FenceNext
  <2> DEFINE n == tasks[t].attempt_count
  <2>1. n \in Number /\ n \in 1 .. MaxAttempts
    BY <1>1, <1>6 DEF EndsOwnRun, Number
  <2>2. <<t, n>> \in Fenced
    BY <1>2, <1>6, <2>1 DEF EndsOwnRun
  <2>3. \A u \in Task : \A m \in Number :
          /\ <<u, m>> \in Begun' <=> <<u, m>> \in Begun
          /\ <<u, m>> \in Fenced' <=> <<u, m>> \in Fenced /\ ~(u = t /\ m = n)
    BY <1>2, <1>6 DEF KeepsRun, EndsOwnRun
  <2> HIDE DEF n
  <2>4. Begun' = Begun /\ Fenced' = Fenced \ {<<t, n>>}
    <3>1. \A u \in Task : \A m \in Number :
            /\ <<u, m>> \in Begun' <=> <<u, m>> \in Begun
            /\ <<u, m>> \in Fenced' <=> <<u, m>> \in Fenced \ {<<t, n>>}
      BY <2>3
    <3> QED BY <1>3, <3>1, SamePairs
  <2> QED BY <2>1, <2>2, <2>4 DEF Fencing!FenceNext, Fencing!Lose, Begun, Fenced
<1>7. [Contract!ContractNext]_Visible
  BY ContractStep
<1> QED BY <1>4, <1>5, <1>6, <1>7, RunStep

\* The worker gives a task's attempts the order and the exclusive fence the
\* integration handlers rely on: whatever crashes, expires or races, an
\* attempt begins once, after every earlier one has lost its fence for good.
THEOREM FenceImplemented == Spec => ImplementsFence
<1>1. Init => Begun = {} /\ Fenced = {}
  BY ConstantsAssumption DEF Init, NewTask, Begun, Fenced, Number
<1>2. IInv /\ [Next]_vars => [Fencing!FenceNext]_<<Begun, Fenced>>
  BY FenceStep
<1> QED BY <1>1, <1>2, Invariance, PTL
        DEF Spec, ImplementsFence, Fencing!FenceSpec, Fencing!FenceInit, Begun, Fenced

-----------------------------------------------------------------------------
(* Action properties *)

\* What one step may do to one attempt row.
RowHistory(before, after, t) ==
  /\ before.status \in AttemptStatus => after.lease_token = before.lease_token
  /\ before.status \in AttemptStatus \ {"running"} => after = before
  /\ before.status = "absent" => after.status \in {"absent", "running"}
  /\ (before.status = "running" /\ after.status = "lease_expired") => tasks[t].lease = "lapsed"

\* Recovery and finalisation close a running attempt, a claim opens an absent
\* one, and no other attempt row changes.
LEMMA HistoryStep ==
  IInv /\ [Next]_vars =>
    \A t \in Task : \A n \in Number : RowHistory(attempts[t][n], attempts'[t][n], t)
<1> SUFFICES ASSUME IInv, [Next]_vars, NEW t \in Task, NEW n \in Number
             PROVE  RowHistory(attempts[t][n], attempts'[t][n], t)
  OBVIOUS
<1>1. /\ attempts \in [Task -> [Number -> AttemptRow]] /\ "running" \in AttemptStatus
      /\ "absent" \notin AttemptStatus
  BY DEF IInv, TypeOK, AttemptStatus
<1>2. CASE attempts'[t][n] = attempts[t][n]
  BY <1>2, <1>1 DEF RowHistory, AttemptRow, AttemptStatus
<1>3. ASSUME NEW w \in Worker, NEW u \in Task, RecoverExpired(w, u)
      PROVE  RowHistory(attempts[t][n], attempts'[t][n], t)
  <2>1. CASE u = t /\ n = tasks[u].attempt_count
    BY <1>1, <1>3, <2>1 DEF RecoverExpired, Expired, AttemptRunning, RowHistory, AttemptRow
  <2>2. CASE u # t \/ n # tasks[u].attempt_count
    BY <1>1, <1>2, <1>3, <2>2 DEF RecoverExpired
  <2> QED BY <2>1, <2>2
<1>4. ASSUME NEW w \in Worker, NEW u \in Task, ClaimRows(w, u)
      PROVE  RowHistory(attempts[t][n], attempts'[t][n], t)
  <2>1. CASE u = t /\ n = tasks[u].attempt_count + 1
    BY <1>1, <1>4, <2>1 DEF ClaimRows, RowHistory, AttemptRow
  <2>2. CASE u # t \/ n # tasks[u].attempt_count + 1
    BY <1>1, <1>2, <1>4, <2>2 DEF ClaimRows
  <2> QED BY <2>1, <2>2
<1>5. ASSUME NEW w \in Worker, ReleasesRow(w)
      PROVE  RowHistory(attempts[t][n], attempts'[t][n], t)
  <2>1. CASE t = claim[w].task /\ n = claim[w].number
    <3>1. attempts[t][n].status = "running"
      BY <1>5, <2>1 DEF ReleasesRow, FinalizeRows, AttemptRunning
    <3>2. attempts'[t][n] = [attempts[t][n] EXCEPT !.status = FinalAttemptStatus(op[w])]
      BY <1>1, <1>5, <2>1 DEF ReleasesRow, FinalizeRows
    <3>3. FinalAttemptStatus(op[w]) # "lease_expired" /\ attempts[t][n] \in AttemptRow
      BY <1>1 DEF FinalAttemptStatus
    <3> QED BY <3>1, <3>2, <3>3 DEF RowHistory, AttemptRow
  <2>2. CASE t # claim[w].task \/ n # claim[w].number
    BY <1>1, <1>2, <1>5, <2>2 DEF ReleasesRow, FinalizeRows
  <2> QED BY <2>1, <2>2
<1>6. ASSUME NEW u \in Task, TaskStep(u)
      PROVE  UNCHANGED attempts
  BY <1>6 DEF TaskStep, ApproveTask, CancelTask, BecomesDue, LeaseLapses
<1> QED BY <1>2, <1>3, <1>4, <1>5, <1>6, RowWriters

\* Attempts are append-only, and one is closed as lease_expired only by a
\* recovery that found its lease lapsed.
THEOREM AppendOnlyHolds == Spec => AttemptsAppendOnly
<1>1. IInv /\ [Next]_vars =>
        [\A t \in Task : \A n \in Number : RowHistory(attempts[t][n], attempts'[t][n], t)]_attempts
  BY HistoryStep
<1> QED BY <1>1, Invariance, PTL DEF Spec, AttemptsAppendOnly, RowHistory

\* How a step may end the run of one task.
EndsRun(t) ==
  tasks[t].status = "running" /\ tasks'[t].status # "running" =>
    LET n == tasks[t].attempt_count IN
    /\ SameOutcome(attempts'[t][n].status, tasks'[t].status)
    /\ attempts'[t][n].status # "lease_expired" =>
         \E w \in Worker : /\ claim[w] = [task |-> t, number |-> n,
                                          token |-> attempts[t][n].lease_token]
                           /\ claim'[w] = NoClaim

\* The fence: only recovery and the holder of the claim end a run.
LEMMA EndsRunStep == IInv /\ [Next]_vars => \A t \in Task : EndsRun(t)
<1> SUFFICES ASSUME IInv, [Next]_vars, NEW t \in Task,
                    tasks[t].status = "running", tasks'[t].status # "running"
             PROVE  EndsRun(t)
  BY DEF EndsRun
<1>1. TypeOK
  BY DEF IInv
<1> DEFINE n == tasks[t].attempt_count
<1>2. ASSUME NEW w \in Worker, RecoverExpired(w, t) PROVE EndsRun(t)
  <2>1. attempts'[t][n].status = "lease_expired"
    BY <1>1, <1>2 DEF TypeOK, RecoverExpired, Expired, AttemptRunning, AttemptRow
  <2>2. tasks'[t].status = RecoveredStatus(t)
    BY <1>1, <1>2 DEF TypeOK, RecoverExpired, Released, TaskRow
  <2> QED BY <2>1, <2>2, RecoveredStatusType DEF EndsRun, SameOutcome
<1>3. ASSUME NEW w \in Worker, ReleasesRow(w), claim[w].task = t PROVE EndsRun(t)
  <2>1. /\ n = claim[w].number /\ n \in Number
        /\ tasks[t].lease_token = claim[w].token
        /\ attempts[t][n] = [status |-> "running", lease_token |-> claim[w].token]
    BY <1>3 DEF ReleasesRow, FinalizeRows, FinalizeMatches, Fence, Owns, AttemptRunning
  <2>2. /\ claim[w] = [task |-> t, number |-> n, token |-> attempts[t][n].lease_token]
        /\ claim'[w] = NoClaim
    BY <1>1, <1>3, <2>1 DEF TypeOK, Claim, ReleasesRow
  <2>3. attempts'[t][n].status = FinalAttemptStatus(op[w])
    BY <1>1, <1>3, <2>1 DEF TypeOK, ReleasesRow, FinalizeRows, AttemptRow
  <2>4. tasks'[t] = FinalRow(tasks[t], op[w])
    BY <1>1, <1>3 DEF TypeOK, ReleasesRow, FinalizeRows
  <2>5. SameOutcome(FinalAttemptStatus(op[w]), FinalRow(tasks[t], op[w]).status)
    BY <1>1 DEF TypeOK, SameOutcome, FinalAttemptStatus, FinalRow, Released, TaskRow
  <2> QED BY <2>2, <2>3, <2>4, <2>5 DEF EndsRun
<1>4. ASSUME NEW u \in Task, TaskStep(u) PROVE FALSE
  <2>1. CASE u # t \/ BecomesDue(u) \/ LeaseLapses(u)
    BY <1>1, <1>4, <2>1 DEF TypeOK, TaskRow, TaskStep, ApproveTask, CancelTask, BecomesDue, LeaseLapses
  <2>2. CASE u = t /\ ApproveTask(u)
    BY <2>2 DEF ApproveTask, Allowed, ApplyTaskCommand
  <2>3. CASE u = t /\ CancelTask(u)
    <3>1. ApplyTaskCommand(tasks[t].status, "cancel") = "running"
      BY DEF ApplyTaskCommand
    <3> QED BY <1>1, <2>3, <3>1 DEF CancelTask, TypeOK, TaskRow
  <2> QED BY <1>4, <2>1, <2>2, <2>3 DEF TaskStep
<1>5. ASSUME NEW w \in Worker, HeartbeatMatches(w), ExtendLease(w) PROVE FALSE
  BY <1>1, <1>5 DEF TypeOK, TaskRow, ExtendLease
<1>6. ASSUME NEW w \in Worker, NEW u \in Task, ClaimRows(w, u) PROVE FALSE
  BY <1>1, <1>6 DEF TypeOK, ClaimRows
<1>7. ASSUME NEW w \in Worker, NEW u \in Task, RecoverExpired(w, u), u # t PROVE FALSE
  BY <1>1, <1>7 DEF TypeOK, RecoverExpired, Expired
<1>8. ASSUME NEW w \in Worker, ReleasesRow(w), claim[w].task # t PROVE FALSE
  BY <1>1, <1>8 DEF TypeOK, ReleasesRow, FinalizeRows
<1> QED BY <1>2, <1>3, <1>4, <1>5, <1>6, <1>7, <1>8, RowWriters

\* Attempt and task tell the same story, and only recovery or the process that
\* holds the claim ends a run.
THEOREM OutcomesAgreeHolds == Spec => OutcomesAgree
<1>1. IInv /\ [Next]_vars => [\A t \in Task : EndsRun(t)]_vars
  BY EndsRunStep
<1> QED BY <1>1, Invariance, PTL DEF Spec, OutcomesAgree, EndsRun
=============================================================================
