---------------------------- MODULE SlackDelivery ---------------------------
(***************************************************************************)
(* The secondary Slack notification of one business scope: its row of      *)
(* external_actions, the executions that deliver it                        *)
(* (SlackDeliveryService.deliver in integrations/slack.py) and the         *)
(* messages in the channel.  Executions are fenced as in GithubAction; a   *)
(* fenced transaction is one step, and so is each side of a Slack call.    *)
(*                                                                         *)
(* A message cannot be looked for afterwards, so the row alone decides     *)
(* whether it may be sent.  reconcile_not_before is kept as whether the    *)
(* clock has passed it.                                                    *)
(***************************************************************************)
EXTENDS ActionDomain, Naturals, FiniteSets

CONSTANTS Task,         \* tasks that notify the scope
          MaxAttempts,  \* max_attempts of every task
          Evidence,     \* desired fingerprint and decision snapshot, as one
          None          \* NULL

Execution == Task \X (1 .. MaxAttempts)

ASSUME SlackAssumption ==
  /\ MaxAttempts \in Nat \ {0}
  /\ None \notin Execution \cup Evidence

VARIABLES
  action,    \* the row of external_actions for the scope
  messages,  \* executions whose message is in the channel
  fenced,    \* executions whose fence _assert_active_fence confirms
  pc,        \* where each execution is
  goal,      \* the status its next transition is to write
  wire       \* its chat.postMessage request

vars == <<action, messages, fenced, pc, goal, wire>>

-----------------------------------------------------------------------------

ActionRow ==
  [status : ActionStatus \cup {"absent"}, evidence : Evidence \cup {None},
   started : BOOLEAN, delay : {"null", "pending", "passed"},
   receipt : Execution \cup {None}]

ProgramPoint ==
  {"idle", "reserve", "unresolved", "delay", "identity", "unidentified", "start", "post",
   "await", "posted", "ended", "surprised"}

Init ==
  /\ action = [status |-> "absent", evidence |-> None, started |-> FALSE, delay |-> "null",
               receipt |-> None]
  /\ messages = {}
  /\ fenced = [e \in Execution |-> FALSE]
  /\ pc = [e \in Execution |-> "idle"]
  /\ goal = [e \in Execution |-> "absent"]
  /\ wire = [e \in Execution |-> "none"]

-----------------------------------------------------------------------------
(* Executions begin, lose their fence, and end *)

\* A task is claimed; its earlier attempts have lost their fence by then.
Claim(t, n) ==
  /\ pc[<<t, n>>] = "idle"
  /\ n > 1 => pc[<<t, n - 1>>] # "idle" /\ ~fenced[<<t, n - 1>>]
  /\ fenced' = [fenced EXCEPT ![<<t, n>>] = TRUE]
  /\ pc' = [pc EXCEPT ![<<t, n>>] = "reserve"]
  /\ UNCHANGED <<action, messages, goal, wire>>

\* The lease lapses, or the attempt is finalised or recovered.
FenceLost(e) ==
  /\ fenced[e]
  /\ fenced' = [fenced EXCEPT ![e] = FALSE]
  /\ UNCHANGED <<action, messages, pc, goal, wire>>

\* The delivery is over; a request it sent stays on its way.
Leave(e, p) ==
  /\ pc' = [pc EXCEPT ![e] = p]
  /\ goal' = [goal EXCEPT ![e] = "absent"]
  /\ wire' = [wire EXCEPT ![e] = IF @ = "flying" THEN @ ELSE "none"]

\* A crash, the timeout, a cancellation checkpoint, a lost connection.
Abandon(e) ==
  /\ pc[e] \notin {"idle", "ended", "surprised"}
  /\ Leave(e, "ended")
  /\ UNCHANGED <<action, messages, fenced>>

\* _assert_active_fence raises.
FenceRefuses(e) ==
  /\ pc[e] \in {"reserve", "unresolved", "unidentified", "start", "posted"}
  /\ ~fenced[e]
  /\ Leave(e, "ended")
  /\ UNCHANGED <<action, messages, fenced>>

Unsent == {"reserved", "ready_to_execute", "retryable_failure"}

\* Faulty variant: a write may be started over an unresolved one.
ExpectedResend(p) ==
  CASE p \in {"unidentified", "start"} -> Unsent \cup {"executing"}
    [] p \in {"unresolved", "posted"} -> {"executing"}
    [] OTHER -> {}

\* Faulty variant: the answer to a write is recorded whatever the row says.
ExpectedAnything(p) ==
  CASE p \in {"unidentified", "start"} -> Unsent
    [] p \in {"unresolved", "posted"} -> {"executing", "outcome_unknown"}
    [] OTHER -> {}

\* expected_statuses of the transition an execution is about to make.
Expected(p) ==
  CASE p \in {"unidentified", "start"} -> Unsent
    [] p \in {"unresolved", "posted"} -> {"executing"}
    [] OTHER -> {}

MayTransition(e, p) == pc[e] = p /\ fenced[e] /\ action.status \in Expected(p)

\* The fence holds and the row is not as expected: ExecutionInvariantError.
StateRefuses(e) ==
  /\ pc[e] \in {"unresolved", "unidentified", "start", "posted"}
  /\ fenced[e]
  /\ action.status \notin Expected(pc[e])
  /\ pc' = [pc EXCEPT ![e] = "surprised"]
  /\ UNCHANGED <<action, messages, fenced, goal, wire>>

GoTo(e, p) ==
  /\ pc' = [pc EXCEPT ![e] = p]
  /\ UNCHANGED <<messages, fenced, goal, wire>>

-----------------------------------------------------------------------------
(* Before the write *)

\* What deliver does with a replayed row that is not closed; the rows it
\* reports as they are lead nowhere.
AfterReplay(status) ==
  CASE status = "executing" -> "unresolved"
    [] status = "retryable_failure" -> "delay"
    [] OTHER -> "identity"

Closed == {"succeeded", "outcome_unknown", "permanent_failure", "needs_human_review"}

Reserve(e, seen) ==
  /\ pc[e] = "reserve" /\ fenced[e]
  /\ \/ /\ action.status = "absent"
        /\ action' = [action EXCEPT !.status = "reserved", !.evidence = seen]
        /\ GoTo(e, "identity")
     \/ /\ action.status \in ActionStatus \ Closed
        /\ action.evidence = seen
        /\ GoTo(e, AfterReplay(action.status))
        /\ UNCHANGED action

\* A closed row, or changed evidence: the row is reported and not touched.
ReserveEnds(e, seen) ==
  /\ pc[e] = "reserve" /\ fenced[e]
  /\ action.status # "absent"
  /\ action.evidence # seen \/ action.status \in Closed
  /\ Leave(e, "ended")
  /\ UNCHANGED <<action, messages, fenced>>

\* Faulty variant: an earlier write that was never resolved may be repeated.
UnresolvedReopened(e) ==
  /\ MayTransition(e, "unresolved")
  /\ action' = [action EXCEPT !.status = "retryable_failure", !.delay = "pending"]
  /\ Leave(e, "ended")
  /\ UNCHANGED <<messages, fenced>>

\* An earlier write was never resolved and must not be repeated.
Unresolved(e) ==
  /\ MayTransition(e, "unresolved")
  /\ action' = [action EXCEPT !.status = "outcome_unknown"]
  /\ Leave(e, "ended")
  /\ UNCHANGED <<messages, fenced>>

\* reconciliation_delay_seconds is positive.
DelayHolds(e) ==
  /\ pc[e] = "delay"
  /\ action.delay = "pending"
  /\ Leave(e, "ended")
  /\ UNCHANGED <<action, messages, fenced>>

DelayOver(e) ==
  /\ pc[e] = "delay"
  /\ action.delay # "pending"
  /\ GoTo(e, "identity")
  /\ UNCHANGED action

IdentityVerified(e) ==
  /\ pc[e] = "identity"
  /\ GoTo(e, "start")
  /\ UNCHANGED action

\* Faulty variant: a mismatch gets a status of its own.
IdentityFailsUnlisted(e) ==
  /\ pc[e] = "identity"
  /\ pc' = [pc EXCEPT ![e] = "unidentified"]
  /\ \E newStatus \in {"retryable_failure", "permanent_failure", "identity_mismatch"} :
       goal' = [goal EXCEPT ![e] = newStatus]
  /\ UNCHANGED <<action, messages, fenced, wire>>

\* auth.test cannot be reached or refuses, or it names another principal.
IdentityFails(e) ==
  /\ pc[e] = "identity"
  /\ pc' = [pc EXCEPT ![e] = "unidentified"]
  /\ \E newStatus \in {"retryable_failure", "permanent_failure", "needs_human_review"} :
       goal' = [goal EXCEPT ![e] = newStatus]
  /\ UNCHANGED <<action, messages, fenced, wire>>

RecordIdentity(e) ==
  /\ MayTransition(e, "unidentified")
  /\ action' = [action EXCEPT !.status = goal[e], !.started = FALSE,
                  !.delay = IF goal[e] = "retryable_failure" THEN "pending" ELSE "null"]
  /\ Leave(e, "ended")
  /\ UNCHANGED <<messages, fenced>>

-----------------------------------------------------------------------------
(* The write *)

StartWrite(e) ==
  /\ MayTransition(e, "start")
  /\ action' = [action EXCEPT !.status = "executing", !.started = TRUE, !.delay = "pending"]
  /\ GoTo(e, "post")

Post(e) ==
  /\ pc[e] = "post"
  /\ pc' = [pc EXCEPT ![e] = "await"]
  /\ wire' = [wire EXCEPT ![e] = "flying"]
  /\ UNCHANGED <<action, messages, fenced, goal>>

Answered(e, newStatus) ==
  /\ pc' = [pc EXCEPT ![e] = "posted"]
  /\ goal' = [goal EXCEPT ![e] = newStatus]
  /\ UNCHANGED <<action, messages, fenced, wire>>

\* The identity cache has expired, no connection could be made, or the
\* credential is gone: nothing was sent.
PostFails(e) ==
  /\ pc[e] = "post"
  /\ \E newStatus \in {"retryable_failure", "permanent_failure"} : Answered(e, newStatus)

PostConfirmed(e) == pc[e] = "await" /\ wire[e] = "accepted" /\ Answered(e, "succeeded")

\* Faulty variant: a time-out counts as a failure that may be retried.
PostUnknownRetried(e) == pc[e] = "await" /\ Answered(e, "retryable_failure")

\* A time-out, a server error, an answer that cannot be trusted.
PostUnknown(e) == pc[e] = "await" /\ Answered(e, "outcome_unknown")

\* The one error not taken for good; Slack has thrown the request away.
RateLimited(e) == wire[e] = "rejected"

\* Rate limited, or rejected for good: every status and every error that is not
\* listed counts as that, a failing server's (501, 520, internal_error) too,
\* whatever became of the message.
PostRejected(e) ==
  /\ pc[e] = "await"
  /\ \/ RateLimited(e) /\ Answered(e, "retryable_failure")
     \/ Answered(e, "permanent_failure")

\* Faulty variant: write_started_at is cleared for every failure.
RecordedCleared(e) ==
  CASE goal[e] = "retryable_failure" ->
         [action EXCEPT !.status = goal[e], !.started = FALSE, !.delay = "pending"]
    [] goal[e] = "succeeded" -> [action EXCEPT !.status = goal[e], !.receipt = e]
    [] OTHER -> [action EXCEPT !.status = goal[e], !.started = FALSE]

\* The row the transition after the write leaves behind.
Recorded(e) ==
  CASE goal[e] = "retryable_failure" ->
         [action EXCEPT !.status = goal[e], !.started = FALSE, !.delay = "pending"]
    [] goal[e] = "succeeded" -> [action EXCEPT !.status = goal[e], !.receipt = e]
    [] OTHER -> [action EXCEPT !.status = goal[e]]

Record(e) ==
  /\ MayTransition(e, "posted")
  /\ action' = Recorded(e)
  /\ Leave(e, "ended")
  /\ UNCHANGED <<messages, fenced>>

-----------------------------------------------------------------------------
(* Slack and the clock *)

Answer(e, state) ==
  wire' = [wire EXCEPT ![e] = IF pc[e] = "await" THEN state ELSE "none"]

Land(e) ==
  /\ wire[e] = "flying"
  /\ messages' = messages \cup {e}
  /\ Answer(e, "accepted")
  /\ UNCHANGED <<action, fenced, pc, goal>>

Reject(e) ==
  /\ wire[e] = "flying"
  /\ Answer(e, "rejected")
  /\ UNCHANGED <<action, messages, fenced, pc, goal>>

DelayPasses ==
  /\ action.delay = "pending"
  /\ action' = [action EXCEPT !.delay = "passed"]
  /\ UNCHANGED <<messages, fenced, pc, goal, wire>>

-----------------------------------------------------------------------------

Prepare(e) ==
  \/ \E seen \in Evidence : Reserve(e, seen) \/ ReserveEnds(e, seen)
  \/ Unresolved(e) \/ DelayHolds(e) \/ DelayOver(e)
  \/ IdentityVerified(e) \/ IdentityFails(e) \/ RecordIdentity(e)

Write(e) ==
  \/ StartWrite(e) \/ Post(e) \/ PostFails(e) \/ PostConfirmed(e) \/ PostUnknown(e)
  \/ PostRejected(e) \/ Record(e)

Next ==
  \/ \E t \in Task, n \in 1 .. MaxAttempts : Claim(t, n)
  \/ \E e \in Execution :
       \/ FenceLost(e) \/ Abandon(e) \/ FenceRefuses(e) \/ StateRefuses(e)
       \/ Prepare(e) \/ Write(e) \/ Land(e) \/ Reject(e)
  \/ DelayPasses

Spec == Init /\ [][Next]_vars

-----------------------------------------------------------------------------
(* Properties *)

\* The variables have the shape of the row and of the delivery's locals.
TypeOK ==
  /\ action \in ActionRow
  /\ messages \subseteq Execution
  /\ fenced \in [Execution -> BOOLEAN]
  /\ pc \in [Execution -> ProgramPoint]
  /\ goal \in [Execution -> ActionStatus \cup {"absent"}]
  /\ wire \in [Execution -> {"none", "flying", "accepted", "rejected"}]

\* The CHECK constraints of external_actions: a success names its message, an
\* unknown outcome has a started write.
RowConstraints ==
  /\ action.status = "succeeded" => action.receipt # None
  /\ action.status = "outcome_unknown" => action.started

\* An execution that is about to post, has posted, or is being answered.
Posting(e) ==
  pc[e] \in {"post", "await"} \/ wire[e] = "flying" \/ e \in messages

\* The channel never gets the notification twice: while one execution posts,
\* or has posted, no other one does, however many tasks share the scope.
AtMostOnePost == \A e, other \in Execution : Posting(e) /\ Posting(other) => e = other

\* A row that may be sent, waits for a review or has no write_started_at: no
\* message is in the channel or on its way.  A success names a message that
\* exists.  A permanent failure after a write proves nothing: its answer may
\* be a failing server's.
TruthfulRow ==
  /\ action.status = "succeeded" => action.receipt \in messages
  /\ action.status \in Unsent \cup {"needs_human_review"} \/ ~action.started =>
       messages = {} /\ \A e \in Execution : wire[e] # "flying"

\* A row that replays without contacting Slack is never changed again.
ClosedForGood ==
  [][action.status \in Closed =>
       action'.status = action.status /\ action'.receipt = action.receipt]_action

\* A success that Slack confirmed to an execution which still holds its fence
\* is recorded: the row is not taken away from under it.
ConfirmedIsRecorded ==
  \A e \in Execution : pc[e] = "surprised" => goal[e] # "succeeded"

\* A permanent failure recorded after the write was started.
RejectedPost(row) == row.status = "permanent_failure" /\ row.started

\* The row, for somebody who only asks what became of the message.
StandingOf(row) ==
  CASE row.status = "executing" -> "attempted"
    [] row.status = "outcome_unknown" -> "unknown"
    [] row.status = "succeeded" -> "delivered"
    [] RejectedPost(row) -> "rejected"
    [] row.status \in {"permanent_failure", "needs_human_review"} /\ ~RejectedPost(row) ->
         "refused"
    [] OTHER -> "open"

Notification == INSTANCE NotificationContract WITH
  Message <- Execution, standing <- StandingOf(action), channel <- messages

\* The delivery implements the contract of the ledger: an action is opened
\* again only with proof that its message was not sent and never will be, and
\* one that was closed without that proof stays closed whatever arrives.
ImplementsNotification == Notification!NotificationSpec
=============================================================================
