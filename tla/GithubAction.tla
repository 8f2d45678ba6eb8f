---------------------------- MODULE GithubAction ----------------------------
(***************************************************************************)
(* The authoritative GitHub comment of one business scope: the row of      *)
(* external_actions (integrations/persistence.py), the executions that     *)
(* reconcile and write it (integrations/workflow.py) and the comments on   *)
(* the issue.  An execution is one attempt of a task that addresses the    *)
(* scope; WorkerExecution says when attempts begin and lose their lease,   *)
(* here an attempt is fenced from its claim until its fence is lost.  A    *)
(* fenced transaction is one step; so is each side of a provider call.     *)
(*                                                                         *)
(* A body stands for its fingerprint and carries the marker of the scope.  *)
(* reconcile_not_before is kept as whether the clock has passed it.        *)
(***************************************************************************)
EXTENDS ActionDomain, Naturals, FiniteSets

CONSTANTS Task,                   \* tasks that address the scope
          MaxAttempts,            \* max_attempts of every task
          Body,                   \* comment bodies the evidence can render to
          Snapshot,               \* decision snapshot hashes
          AllowAutomaticUpdates,  \* allow_automatic_updates of the service
          SettlementCovers,       \* no write lands after its settlement delay
          Tampering,              \* people delete and edit the comments
          Edited, Unmarked,       \* a comment someone has rewritten, or whose
                                  \* marker is gone
          None                    \* NULL

Execution == Task \X (1 .. MaxAttempts)

ASSUME GithubAssumption ==
  /\ MaxAttempts \in Nat \ {0}
  /\ AllowAutomaticUpdates \in BOOLEAN
  /\ SettlementCovers \in BOOLEAN
  /\ Tampering \in BOOLEAN
  /\ None \notin Execution \cup Body \cup Snapshot \cup {Edited, Unmarked}
  /\ Body \cap {Edited, Unmarked} = {}
  /\ Edited # Unmarked

VARIABLES
  action,    \* the row of external_actions for the scope
  comments,  \* the comment an execution created, as it reads now
  fenced,    \* executions whose fence _assert_active_fence confirms
  pc,        \* where each execution is
  evidence,  \* the body and snapshot it has rendered
  copy,      \* its local copy of the row
  goal,      \* the status its next transition is to write
  found,     \* the comment that transition is to bind
  wire       \* its write request to GitHub

local == <<pc, evidence, copy, goal, found>>
vars == <<action, comments, fenced, pc, evidence, copy, goal, found, wire>>

-----------------------------------------------------------------------------
(* Rows, copies, requests *)

\* holdoff is null together with write_started_at.
ActionRow ==
  [status : ActionStatus \cup {"absent"}, revision : Nat, desired : Body \cup {None},
   snapshot : Snapshot \cup {None}, applied : Body \cup {None},
   resource : Execution \cup {None}, holdoff : {"null", "pending", "passed"}]

Evidence == [body : Body \cup {None}, snapshot : Snapshot \cup {None}]

\* What the workflow reads of the row it got from its last transaction.
Copy == [revision : Nat, applied : Body \cup {None}, resource : Execution \cup {None},
         held : BOOLEAN]

Request == [state : {"none", "flying", "landed", "refused"},
            target : Execution \cup {None}, body : Body \cup {None}]

ProgramPoint ==
  {"idle", "reserve", "inspect", "revise", "begin", "lookup", "search", "reconciled",
   "write", "send", "await", "written", "ended", "surprised"}

NoEvidence == [body |-> None, snapshot |-> None]
NoCopy == [revision |-> 0, applied |-> None, resource |-> None, held |-> FALSE]
NoRequest == [state |-> "none", target |-> None, body |-> None]

CopyOf(row) ==
  [revision |-> row.revision, applied |-> row.applied, resource |-> row.resource,
   held |-> row.holdoff # "null"]

\* Comments that find_comments_by_marker returns.
Marked == {id \in Execution : comments[id] \in Body \cup {Edited}}

Init ==
  /\ action = [status |-> "absent", revision |-> 0, desired |-> None, snapshot |-> None,
               applied |-> None, resource |-> None, holdoff |-> "null"]
  /\ comments = [e \in Execution |-> None]
  /\ fenced = [e \in Execution |-> FALSE]
  /\ pc = [e \in Execution |-> "idle"]
  /\ evidence = [e \in Execution |-> NoEvidence]
  /\ copy = [e \in Execution |-> NoCopy]
  /\ goal = [e \in Execution |-> "absent"]
  /\ found = [e \in Execution |-> None]
  /\ wire = [e \in Execution |-> NoRequest]

-----------------------------------------------------------------------------
(* Executions begin, lose their fence, and end *)

\* A task is claimed; its earlier attempts have lost their fence by then.
Claim(t, n) ==
  /\ pc[<<t, n>>] = "idle"
  /\ n > 1 => pc[<<t, n - 1>>] # "idle" /\ ~fenced[<<t, n - 1>>]
  /\ fenced' = [fenced EXCEPT ![<<t, n>>] = TRUE]
  /\ pc' = [pc EXCEPT ![<<t, n>>] = "reserve"]
  /\ UNCHANGED <<action, comments, evidence, copy, goal, found, wire>>

\* The lease lapses, or the attempt is finalised or recovered.
FenceLost(e) ==
  /\ fenced[e]
  /\ fenced' = [fenced EXCEPT ![e] = FALSE]
  /\ UNCHANGED <<action, comments, local, wire>>

\* The coroutine is over; a request it sent stays on its way.
Leave(e, p) ==
  /\ pc' = [pc EXCEPT ![e] = p]
  /\ evidence' = [evidence EXCEPT ![e] = NoEvidence]
  /\ copy' = [copy EXCEPT ![e] = NoCopy]
  /\ goal' = [goal EXCEPT ![e] = "absent"]
  /\ found' = [found EXCEPT ![e] = None]
  /\ wire' = [wire EXCEPT ![e] = IF @.state = "flying" THEN @ ELSE NoRequest]

Live(e) == pc[e] \notin {"idle", "ended", "surprised"}

\* A crash, the timeout, a cancellation checkpoint, a lost database
\* connection, or a permanent read error, which no handler catches.
Abandon(e) ==
  /\ Live(e)
  /\ Leave(e, "ended")
  /\ UNCHANGED <<action, comments, fenced>>

\* _assert_active_fence raises.
FenceRefuses(e) ==
  /\ pc[e] \in {"reserve", "revise", "begin", "reconciled", "write", "written"}
  /\ ~fenced[e]
  /\ Leave(e, "ended")
  /\ UNCHANGED <<action, comments, fenced>>

\* Faulty variant: a reconciliation may overwrite a parked action.
ExpectedParked(p) ==
  CASE p = "revise" -> {"succeeded"}
    [] p = "begin" -> {"reserved", "retryable_failure", "outcome_unknown", "executing"}
    [] p = "reconciled" -> {"reconciling", "needs_human_review"}
    [] p = "write" -> {"ready_to_execute"}
    [] p = "written" -> {"executing"}
    [] OTHER -> ActionStatus

\* expected_statuses of the transition an execution is about to make.
Expected(p) ==
  CASE p = "revise" -> {"succeeded"}
    [] p = "begin" -> {"reserved", "retryable_failure", "outcome_unknown", "executing"}
    [] p = "reconciled" -> {"reconciling"}
    [] p = "write" -> {"ready_to_execute"}
    [] p = "written" -> {"executing"}
    [] OTHER -> ActionStatus

MayTransition(e, p) == pc[e] = p /\ fenced[e] /\ action.status \in Expected(p)

\* The fence holds and the row is not as expected: ExecutionInvariantError.
StateRefuses(e) ==
  /\ pc[e] \in {"revise", "begin", "reconciled", "write", "written"}
  /\ fenced[e]
  /\ \/ action.status \notin Expected(pc[e])
     \/ pc[e] = "revise" /\ action.revision # copy[e].revision
  /\ Leave(e, "surprised")
  /\ UNCHANGED <<action, comments, fenced>>

\* The transaction writes row and the execution goes on at p with its copy.
GoOn(e, row, p) ==
  /\ action' = row
  /\ copy' = [copy EXCEPT ![e] = CopyOf(row)]
  /\ pc' = [pc EXCEPT ![e] = p]
  /\ UNCHANGED <<comments, fenced, goal, found, wire>>

-----------------------------------------------------------------------------
(* reserve_or_get and the controlled revision *)

\* Faulty variant: the kind of the reservation is stored as its status.
ReservedAsKind(seen) ==
  [status |-> "created", revision |-> 1, desired |-> seen.body, snapshot |-> seen.snapshot,
   applied |-> None, resource |-> None, holdoff |-> "null"]

Reserved(seen) ==
  [status |-> "reserved", revision |-> 1, desired |-> seen.body, snapshot |-> seen.snapshot,
   applied |-> None, resource |-> None, holdoff |-> "null"]

\* The transition to reconciling is skipped for these.
Resumed == {"reconciling", "ready_to_execute"}

Replays(seen) == action.desired = seen.body /\ action.snapshot = seen.snapshot

Revisable(row) ==
  AllowAutomaticUpdates /\ row.status = "succeeded" /\ row.resource # None

\* A new row, or the replay of one that is still open.
Reserve(e, seen) ==
  /\ pc[e] = "reserve" /\ fenced[e]
  /\ evidence' = [evidence EXCEPT ![e] = seen]
  /\ \/ action.status = "absent" /\ GoOn(e, Reserved(seen), "begin")
     \/ /\ action.status \in ActionStatus \ {"succeeded", "needs_human_review", "permanent_failure"}
        /\ Replays(seen)
        /\ GoOn(e, action, IF action.status \in Resumed THEN "lookup" ELSE "begin")
     \/ /\ action.status # "absent"
        /\ action.desired # seen.body
        /\ Revisable(action)
        /\ GoOn(e, action, "inspect")

\* Replay of a closed action, source drift, or a change that may not be
\* applied: the execution reports what it found.
ReserveEnds(e, seen) ==
  /\ pc[e] = "reserve" /\ fenced[e]
  /\ action.status # "absent"
  /\ \/ Replays(seen) /\ action.status \in {"succeeded", "needs_human_review", "permanent_failure"}
     \/ action.desired = seen.body /\ action.snapshot # seen.snapshot
     \/ action.desired # seen.body /\ ~Revisable(action)
  /\ Leave(e, "ended")
  /\ UNCHANGED <<action, comments, fenced>>

\* The bound comment is read before it is revised; a missing or unmarked one
\* ends the execution.
Inspect(e) ==
  /\ pc[e] = "inspect"
  /\ IF copy[e].resource \in Marked
     THEN /\ pc' = [pc EXCEPT ![e] = "revise"]
          /\ UNCHANGED <<evidence, copy, goal, found, wire>>
     ELSE Leave(e, "ended")
  /\ UNCHANGED <<action, comments, fenced>>

Revise(e) ==
  /\ MayTransition(e, "revise")
  /\ action.revision = copy[e].revision
  /\ GoOn(e, [action EXCEPT !.status = "reserved", !.revision = @ + 1,
                            !.desired = evidence[e].body, !.snapshot = evidence[e].snapshot],
          "begin")
  /\ UNCHANGED evidence

-----------------------------------------------------------------------------
(* _reconcile_and_apply: reconciliation *)

Begin(e) ==
  /\ MayTransition(e, "begin")
  /\ GoOn(e, [action EXCEPT !.status = "reconciling"], "lookup")
  /\ UNCHANGED evidence

\* What reconciliation concluded, to be written by the next transition.
Conclude(e, newStatus, id) ==
  /\ goal' = [goal EXCEPT ![e] = newStatus]
  /\ found' = [found EXCEPT ![e] = id]
  /\ pc' = [pc EXCEPT ![e] = "reconciled"]
  /\ UNCHANGED <<action, comments, fenced, evidence, copy, wire>>

\* Faulty variant: any comment with the marker is taken for the desired one.
JudgedByMarker(e, id) == Conclude(e, "succeeded", id)

\* A comment was found: it carries the desired body, it carries the body of
\* the previous revision and may be written over, or it needs a person.
Judge(e, id) ==
  IF comments[id] = evidence[e].body THEN Conclude(e, "succeeded", id)
  ELSE IF copy[e].revision > 1 /\ copy[e].applied \notin {None, evidence[e].body}
       THEN Conclude(e, "ready_to_execute", None)
       ELSE Conclude(e, "needs_human_review", None)

\* get_comment of the bound comment; the holdoff is not consulted.
LookUpBound(e) ==
  /\ pc[e] = "lookup"
  /\ copy[e].resource # None
  /\ IF copy[e].resource \in Marked
     THEN Judge(e, copy[e].resource)
     ELSE Conclude(e, "needs_human_review", None)

\* Faulty variant: the copy's holdoff is not looked at.
HeldOffNever(e) == FALSE

HeldOff(e) == copy[e].held /\ action.holdoff = "pending"

HoldOff(e) ==
  /\ pc[e] = "lookup"
  /\ copy[e].resource = None
  /\ HeldOff(e)
  /\ Conclude(e, "retryable_failure", None)

PassHoldoff(e) ==
  /\ pc[e] = "lookup"
  /\ copy[e].resource = None
  /\ ~HeldOff(e)
  /\ pc' = [pc EXCEPT ![e] = "search"]
  /\ UNCHANGED <<action, comments, fenced, evidence, copy, goal, found, wire>>

\* find_comments_by_marker over all pages.
Search(e) ==
  /\ pc[e] = "search"
  /\ CASE Cardinality(Marked) > 1 -> Conclude(e, "needs_human_review", None)
       [] Marked = {} -> Conclude(e, "ready_to_execute", None)
       [] OTHER -> \E id \in Marked : Judge(e, id)

\* Pagination stops at its limit, or GitHub cannot be read.
SearchFails(e) ==
  \/ pc[e] = "search" /\ Conclude(e, "needs_human_review", None)
  \/ /\ pc[e] = "search" \/ (pc[e] = "lookup" /\ copy[e].resource # None)
     /\ Conclude(e, "retryable_failure", None)

\* Faulty variant: a success does not refresh the applied fingerprint.
ConcludedStale(e) ==
  IF goal[e] = "succeeded"
  THEN [action EXCEPT !.status = goal[e], !.resource = found[e],
                      !.applied = IF @ = None THEN evidence[e].body ELSE @]
  ELSE [action EXCEPT !.status = goal[e]]

\* The row a transition writes; _complete_success also binds the comment.
Concluded(e) ==
  IF goal[e] = "succeeded"
  THEN [action EXCEPT !.status = goal[e], !.resource = found[e],
                      !.applied = evidence[e].body]
  ELSE [action EXCEPT !.status = goal[e]]

Reconcile(e) ==
  /\ MayTransition(e, "reconciled")
  /\ goal[e] = "ready_to_execute"
  /\ GoOn(e, Concluded(e), "write")
  /\ UNCHANGED evidence

ReconcileEnds(e) ==
  /\ MayTransition(e, "reconciled")
  /\ goal[e] # "ready_to_execute"
  /\ action' = Concluded(e)
  /\ Leave(e, "ended")
  /\ UNCHANGED <<comments, fenced>>

-----------------------------------------------------------------------------
(* _reconcile_and_apply: the write *)

\* Faulty variant: write_started_at and reconcile_not_before are not set.
StartedUnheld(row) == [row EXCEPT !.status = "executing"]

Started(row) == [row EXCEPT !.status = "executing", !.holdoff = "pending"]

StartWrite(e) ==
  /\ MayTransition(e, "write")
  /\ GoOn(e, Started(action), "send")
  /\ UNCHANGED evidence

\* POST without a bound comment, PATCH with one.
Send(e) ==
  /\ pc[e] = "send"
  /\ wire' = [wire EXCEPT ![e] = [state |-> "flying", target |-> copy[e].resource,
                                  body |-> evidence[e].body]]
  /\ pc' = [pc EXCEPT ![e] = "await"]
  /\ UNCHANGED <<action, comments, fenced, evidence, copy, goal, found>>

Answered(e, newStatus, id) ==
  /\ goal' = [goal EXCEPT ![e] = newStatus]
  /\ found' = [found EXCEPT ![e] = id]
  /\ pc' = [pc EXCEPT ![e] = "written"]
  /\ UNCHANGED <<action, comments, fenced, evidence, copy, wire>>

\* No connection: the request was not transmitted.
SendFails(e) == pc[e] = "send" /\ Answered(e, "retryable_failure", None)

\* Faulty variant: the answer to a PATCH is taken for a new comment.
BoundCommentNew(e) == e

\* The identifier in GitHub's answer.
BoundComment(e) == IF copy[e].resource = None THEN e ELSE copy[e].resource

WriteSucceeds(e) ==
  /\ pc[e] = "await"
  /\ wire[e].state = "landed"
  /\ Answered(e, "succeeded", BoundComment(e))

\* A time-out, a server error, an unreadable answer.
WriteUnknown(e) == pc[e] = "await" /\ Answered(e, "outcome_unknown", None)

\* Rate limited, or refused for good; a server status _write does not know is
\* taken for a refusal, whatever became of the request.
WriteRefused(e) ==
  /\ pc[e] = "await"
  /\ \/ wire[e].state = "refused" /\ Answered(e, "retryable_failure", None)
     \/ Answered(e, "permanent_failure", None)

RecordWrite(e) ==
  /\ MayTransition(e, "written")
  /\ action' = Concluded(e)
  /\ Leave(e, "ended")
  /\ UNCHANGED <<comments, fenced>>

-----------------------------------------------------------------------------
(* GitHub, people and the clock *)

Answer(e, state) ==
  wire' = [wire EXCEPT ![e] = IF pc[e] = "await" THEN [NoRequest EXCEPT !.state = state]
                                                 ELSE NoRequest]

\* GitHub carries the request out, whoever still waits for the answer.
Land(e) ==
  /\ wire[e].state = "flying"
  /\ IF wire[e].target = None
     THEN comments' = [comments EXCEPT ![e] = wire[e].body]
     ELSE /\ comments[wire[e].target] # None
          /\ comments' = [comments EXCEPT ![wire[e].target] = wire[e].body]
  /\ Answer(e, "landed")
  /\ UNCHANGED <<action, fenced, local>>

Refuse(e) ==
  /\ wire[e].state = "flying"
  /\ Answer(e, "refused")
  /\ UNCHANGED <<action, comments, fenced, local>>

\* Someone deletes a comment, edits it, or removes its marker.
Tamper(id) ==
  /\ Tampering
  /\ comments[id] \in Body
  /\ \E content \in {None, Edited, Unmarked} :
       comments' = [comments EXCEPT ![id] = content]
  /\ UNCHANGED <<action, fenced, local, wire>>

\* The clock passes reconcile_not_before.
HoldoffPasses ==
  /\ action.holdoff = "pending"
  /\ SettlementCovers => \A e \in Execution : pc[e] # "send" /\ wire[e].state # "flying"
  /\ action' = [action EXCEPT !.holdoff = "passed"]
  /\ UNCHANGED <<comments, fenced, local, wire>>

-----------------------------------------------------------------------------

Prepare(e) ==
  \/ \E seen \in [body : Body, snapshot : Snapshot] : Reserve(e, seen) \/ ReserveEnds(e, seen)
  \/ Inspect(e) \/ Revise(e)

Reconciliation(e) ==
  \/ Begin(e) \/ LookUpBound(e) \/ HoldOff(e) \/ PassHoldoff(e) \/ Search(e) \/ SearchFails(e)
  \/ Reconcile(e) \/ ReconcileEnds(e)

Write(e) ==
  \/ StartWrite(e) \/ Send(e) \/ SendFails(e)
  \/ WriteSucceeds(e) \/ WriteUnknown(e) \/ WriteRefused(e) \/ RecordWrite(e)

Next ==
  \/ \E t \in Task, n \in 1 .. MaxAttempts : Claim(t, n)
  \/ \E e \in Execution :
       \/ FenceLost(e) \/ Abandon(e) \/ FenceRefuses(e) \/ StateRefuses(e)
       \/ Prepare(e) \/ Reconciliation(e) \/ Write(e)
       \/ Land(e) \/ Refuse(e) \/ Tamper(e)
  \/ HoldoffPasses

Spec == Init /\ [][Next]_vars

-----------------------------------------------------------------------------
(* Properties *)

\* The variables have the shape of the row, the workflow's locals and GitHub.
TypeOK ==
  /\ action \in ActionRow
  /\ comments \in [Execution -> Body \cup {None, Edited, Unmarked}]
  /\ fenced \in [Execution -> BOOLEAN]
  /\ pc \in [Execution -> ProgramPoint]
  /\ evidence \in [Execution -> Evidence]
  /\ copy \in [Execution -> Copy]
  /\ goal \in [Execution -> ActionStatus \cup {"absent"}]
  /\ found \in [Execution -> Execution \cup {None}]
  /\ wire \in [Execution -> Request]

\* The CHECK constraints of external_actions: a success names its comment and
\* its content, an unknown outcome has a started write; and a later revision
\* always has a comment to update.
RowConstraints ==
  /\ action.status = "succeeded" => action.resource # None /\ action.applied # None
  /\ action.status \in {"executing", "outcome_unknown"} => action.holdoff # "null"
  /\ action.revision > 1 => action.resource # None /\ action.applied # None

\* The issue never carries two comments with the marker of the scope.
AtMostOneComment == Cardinality(Marked) <= 1

\* A request to create the comment is on its way only while no other write is
\* and no comment carries the marker: whoever sent it had proof of absence,
\* and nothing has happened to that proof since.
CreateIsAlone ==
  \A e \in Execution : wire[e].state = "flying" /\ wire[e].target = None =>
    /\ Marked = {}
    /\ \A other \in Execution \ {e} : wire[other].state # "flying"

\* Two writes are never on their way to GitHub at the same time.
WritesDoNotOverlap ==
  \A e, other \in Execution :
    wire[e].state = "flying" /\ wire[other].state = "flying" => e = other

\* A recorded success is the success of the revision the row describes, not
\* of an earlier one whose answer came late.
SuccessIsCurrent == action.status = "succeeded" => action.applied = action.desired

\* A recorded success is what the issue shows, unless people have changed it
\* since, for the comment and for its first update, however late a request
\* arrives.  (A later update may be overtaken by the request of an earlier one
\* that still travels: WritesDoNotOverlap fails.)
SuccessIsShown ==
  action.status = "succeeded" /\ action.revision <= 2 =>
    comments[action.resource] \in
      {action.applied} \cup (IF Tampering THEN {None, Edited, Unmarked} ELSE {})

\* An execution that holds its fence never meets an action in a status it
\* cannot continue from.
ReplacementProceeds == \A e \in Execution : pc[e] # "surprised"

\* Once a comment is bound to the scope no other comment ever is.
BoundForGood ==
  [][action.resource # None => action'.resource = action.resource]_action

\* An action parked for a person, or refused for good, is never taken up
\* again by the workflow, however many executions were under way.
ParkedForGood ==
  [][action.status \in {"needs_human_review", "permanent_failure"}
       => action'.status = action.status]_action
=============================================================================
