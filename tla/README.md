# A formal model of the NinjaTech deployment lab

The program runs approved tasks on crash-prone workers and lets them publish to
GitHub and Slack. Its promises are about what happens when several of these
parties act at once, when a process dies between two steps, and when an answer
is lost. This directory states those promises in TLA+, model-checks them with
TLC on small instances and proves the safety ones with TLAPS for instances of
any size. Where the code does not keep a promise, a run shows the execution.

Source paths below are relative to `src/src/ninjatech_deployment_lab/` unless
they start with `docs/`, `customer/` or `README.md`.

## 1. The system

| Component | State | Operations |
|---|---|---|
| Task state machine, `tasks/domain.py` | none | `apply_task_command`, `decide_cancellation` |
| Task API, `tasks/service.py`, `tasks/repository.py` | table `tasks` | create (idempotent), approve, cancel, read |
| Worker repository, `worker/repository.py` | `tasks`, `task_attempts` | `claim_one`, `heartbeat`, `finalize_*`, `recover_one_expired` |
| Worker process, `worker/runner.py`, `worker/__main__.py` | claim, handler task, heartbeat task, stop flags | poll loop, stop arbitration, shutdown, exit |
| Action ledger, `integrations/persistence.py`, `integrations/model.py` | `external_actions`, artifacts, decisions, evidence | `reserve_or_get`, `transition`, the fence check, the holdoff |
| GitHub workflow, `integrations/workflow.py` | a local copy of the action | collect sources, reserve, reconcile, create or update, record |
| Slack delivery, `integrations/slack.py` | a local copy, an identity cache | replay, verify identity, post, classify, record |
| Connectors and HTTP, `integrations/connectors.py`, `integrations/http.py` | none | provider reads and writes, error classification |
| Policy, `integrations/policy.py` | none | `evaluate_static_scope`, `evaluate_service_catalog` |
| Configuration, rendering, credentials, metrics, logs, simulator, migrations | | |

**How they interact.** The API and all workers share nothing but PostgreSQL. A
worker claims a task under a lease token; every later write of that attempt
names the task, the attempt number, the token and the worker, and demands that
the lease has not expired. Inside a worker the main coroutine, the handler, the
heartbeat loop, the timeout and the signal handlers run interleaved. A handler
that publishes writes the external action in fenced transactions, and talks to
the provider *between* them: GitHub and Slack never see the fence. Several
tasks can address one business scope, and then share one action row. Before it
publishes, the handler reads the service catalog, GitHub and Jira, which change
whenever their owners like, and stores what it read in fenced transactions as
well.

**What is hard.** (a) Database time is read before the row it is compared with
is locked. (b) A commit may succeed and its reply be lost. (c) A process may die
at any `await`. (d) A provider write may be accepted after its caller gave up.
(e) The row an execution read may be a cycle old when it acts on the copy.
(f) The end of an attempt has up to six causes, of which one must win. (g) Two
requests create the same task, in transactions that do not see each other.
(h) Authority is decided on a record that may be withdrawn a moment later.

`PROJECT.json` lists these hazards one by one, at their lines, with the
properties aimed at them. What makes each component correct:

* *worker*: every accepted cancellation wins, terminal statuses are final,
  history is append-only, task and attempt rows agree, no constraint of the
  tables is ever hit, a task is never stranded;
* *task submission*: one task per idempotency key, whoever asks and however
  often, and no caller is told anything about it that is or becomes untrue;
* *GitHub publication*: at most one comment per scope, no write without fresh
  proof, a recorded success is about the content recorded with it, an action
  parked for a person stays parked;
* *Slack delivery*: at most one message per scope, a row that is opened again only
  when nothing was sent, and a success only for a message that exists;
* *policy and the handler as a whole*: nothing is read or written without
  authority, what is published is on record, the record of a sensitive service is
  minimised, and the result of a task agrees with the ledger and the issue.

## 2. The modules

| Module | Contents |
|---|---|
| `TaskDomain` | the tables of `tasks/domain.py` as operators |
| `TaskContract` | abstract: what the task API promises, with no worker in sight |
| `WorkerExecution` | task API commands, worker repository and worker process |
| `AttemptFence` | abstract: what a handler may rely on about the attempts of its task |
| `WorkerExecutionProofs` | its theorems, among them the refinements of `TaskContract` and `AttemptFence` |
| `TaskSubmission` | the requests that create a task under one idempotency key |
| `IdempotentCreate` | abstract: what an idempotency key promises |
| `TaskSubmissionProofs` | its theorems, among them the refinement of `IdempotentCreate` |
| `ActionDomain` | the statuses of an external action |
| `GithubAction` | one scope's action row, the executions that work on it, the issue's comments |
| `GithubActionProofs` | its theorems for any number of tasks |
| `GithubCommentProofs` | its theorems for the attempts of one task |
| `SlackDelivery` | one scope's notification row, its executions, the channel's messages |
| `NotificationContract` | abstract: a message that cannot be looked for, and what the ledger says of it |
| `SlackDeliveryProofs` | its theorems, among them the refinement of `NotificationContract` |
| `PublicationPolicy` | the policy checks, and the authority they are to establish |
| `DeploymentSync` | the whole handler, composed of `PublicationPolicy` and `GithubAction` |
| `DeploymentSyncProofs` | its theorems, among them the refinement of `GithubAction` |
| `DeploymentEvidenceProofs` | that what is published is what was read and recorded |
| `DeploymentOutcomeProofs` | the types of the whole handler, and for one task: one comment, the Slack message about it, the truth of the result |
| `MC...` | symmetry, catalogs and payloads for TLC; the other constants are given in the `.cfg` files |

A definition named `...OffByOne`, `...Stale` and the like, with a comment that
begins "Faulty variant", is not part of a specification: it is a plausible slip
in the definition after it, used to see that a property would notice it.

### 2.1 WorkerExecution

| State | Code |
|---|---|
| `tasks`, `attempts` | the rows (columns that no decision reads are left out) |
| `issued` | lease tokens drawn so far; a token is a number instead of a UUID |
| `pc`, `claim`, `op` | the place in `run` / `_execute_claim`, the `ClaimedTask`, the repository call that is to end it |
| `fresh` | the outcome of comparing `lease_expires_at` with an earlier captured `database_now` |
| `handler`, `heartbeat`, `timedOut` | the three asyncio tasks of a claim |
| `shutdown`, `stopClaiming` | `request_stop`, `_stop_claiming` |

A transaction that locks its row first is one action (`ApproveTask`,
`CancelTask`, `RecoverExpired`, `ClaimTask`). A finalization captures the clock
and then waits for the row, so it is two, `FinalizeBegin` and
`FinalizeApplied`/`FinalizeRejected`, with the classification of a failed fence
(`FinalizeClassify`) as a third; the heartbeat is split the same way. In between
anything may happen: the lease may lapse, be recovered and be claimed again. A
commit whose reply is lost is the action `ClaimReplyLost`, a disjunct of
`RecoverExpired`, `HeartbeatLost` or `FinalizeRaises`. A worker is a process *slot*: `Restart` gives
it a fresh identity, and since a lease token is fresh at each claim the slot may stand for
every later process.

There are no numbers for time. A lease is `live` or `lapsed`, a queued task
`due` or `later`, and the clock is the pair of actions `LeaseLapses` and
`BecomesDue`, which may happen at any moment: the safety results hold for every
choice of durations, including those `config.py` refuses.

### 2.2 GithubAction

An *execution* is one attempt of a task that addresses the scope. `fenced` says
whether `_assert_active_fence` would pass for it; a later attempt of a task begins only when
the earlier ones have lost their fence, and attempts of different tasks run
side by side. That is the interface to the worker: the full life of a lease is in
`WorkerExecution`, and what is used of it here is `AttemptFence`, which `WorkerExecution` is
proved to implement. `Claim` is its `Begin` and `FenceLost` its `Lose`. A lease that
lapses and is renewed after all has two readings: as long as no transaction of the handler met the
lapse, nothing happened; one that did ends the execution, and `FenceLost` came early. `Claim` asks only about
the attempt before; that all earlier ones are over follows (`Successive`).

| State | Code |
|---|---|
| `action` | the row: status, revision, desired and applied fingerprint, snapshot, comment id, holdoff |
| `copy` | what the workflow reads from the row its last transaction returned |
| `evidence` | the body and the decision snapshot this execution arrived at |
| `goal`, `found` | what the next transition will write |
| `comments` | what the comment created by an execution says now, if it exists |
| `wire` | a write request: on its way, carried out, refused |

A fenced transaction is one action, whose guard is `expected_statuses` and whose failure is
`StateRefuses` (ExecutionInvariantError) or `FenceRefuses`. A
provider call is a `Send`, a `Land` or `Refuse` on the provider's side, and an
answer. `WriteUnknown` and `Abandon` may precede `Land`: the request arrives after its
caller has gone. `Tamper` is a person deleting, editing or unmarking a comment.
A server status the connector does not know is taken for a refusal whatever became
of the request (`WriteRefused`).
Three constants choose the surroundings: `AllowAutomaticUpdates` (a policy of
the service), `SettlementCovers` (nothing lands after the holdoff passed; see
section 5) and `Tampering`.

### 2.3 SlackDelivery

The same structure without a search: a message cannot be looked for, so the
row alone decides. `Reserve` and `AfterReplay` are the replay rules of
`deliver`; `Unresolved` closes a row found `executing`; `DelayHolds` and
`DelayOver` are the read of `reconciliation_delay_seconds`; `StartWrite` to
`Record` are the write. Fingerprint and snapshot of the evidence are one value,
because every mismatch of either ends the delivery the same way. The identity cache is
abstracted: a verification may succeed or fail whenever one is made, and the
check just before the send may find it expired (`PostFails`). `PostRejected` is the code's reading of an answer, not
Slack's: `post_notification` takes every unlisted status (`slack.py:224`) and every unlisted `ok:false` error
(`_slack_api_error`) for a permanent failure, a failing server's too, so that answer may come whatever became of the
message.

### 2.4 TaskSubmission

| State | Code |
|---|---|
| `row`, `pending` | the committed row with the key, and one inserted by a transaction that is still open |
| `pc`, `payload` | where each request is, and its body |
| `held`, `answer` | the task the service holds for the request, and what its caller was told |

`insert_if_absent`, the read after it, the commit and the reply are
separate steps, because a READ COMMITTED statement sees what was committed
when *it* began. `INSERT ... ON CONFLICT DO NOTHING` waits for an open
transaction with the same key and has no effect after its commit. A request may break off at
any point (`Break`), which rolls its row back, and the caller may send it
again. Payloads are mapped to fingerprints by the constant `Canonical`: what
`normalize_task_input` makes equal is equal there, what it refuses is `Invalid`.

### 2.5 PublicationPolicy

Pure operators. `Judge` is `evaluate_service_catalog` with its checks in their
order, on the one record the code selects; `Grants` and `Authorised` say, without any
order, what authority is: every record that answers for the service permits this
publication in the same terms. Wording and reason codes are left out.

### 2.6 DeploymentSync

| State | Code |
|---|---|
| the variables of `GithubAction` | shared: its actions are this module's publication steps |
| `catalog`, `target`, `jira`, `changes` | what the providers hold now, and how often it changed |
| `artifacts` | rows of `source_artifacts`; a payload stands for its hash |
| `stage`, `seen`, `cited` | the place in the handler, what it read, the artifacts it refers to |
| `result`, `outcome`, `cancel` | the handler's result, what became of the task, `cancellation_requested` |
| `posted`, `confirmed` | comments that Slack messages are about; executions that had GitHub's confirmation |

An execution waits at the first point of `GithubAction` until the handler reaches the
publication. Each read and each fenced transaction is one step; the sources may
change between any two. Lease lapse, recovery and a finalization that allows a
retry are one step, `Recover`: their detail is `WorkerExecution`. The Slack delivery is
one step as well: its detail is `SlackDelivery`. All tasks ask for the same, and
`_validate_slack_request` is taken to have passed if Slack is asked for at all. A comment may
change the issue's `updated_at` and with it the source version
(`CommentTouchesIssue`), so that a second attempt renders another body than the first.

## 3. Model checking

Runs that pass:

| Run | Instance | Shows |
|---|---|---|
| `worker_safety` | 1 task, 2 processes, 2 attempts | the type invariant, five invariants of tables and processes, two action properties, the refinements of `TaskContract` and `AttemptFence`; 554 thousand states |
| `worker_liveness` | 1 task, 1 process that crashes and is restarted, 2 attempts | an approved task ends and an accepted cancellation is served, across lease expiry, recovery and the retry that follows; 4 thousand states |
| `github_action` | 1 task, 3 attempts, 2 bodies, 2 snapshots | at most one comment, no write without fresh proof, successes that are current and shown on the issue, a comment bound for good; 248 thousand states |
| `github_shared` | 2 tasks at the same time, late writes | table constraints, and parked actions stay parked; 20 thousand states |
| `slack_shared` | 2 tasks with 2 attempts each | at most one message, a row open only when nothing was sent, closed rows stay closed, the refinement of `NotificationContract`; 381 thousand states |
| `task_submission` | 2 callers that send up to twice each, 4 payloads | one task per key, no answer that is or becomes untrue, every request ends, the refinement of `IdempotentCreate`; 86 thousand states |
| `deployment_sync` | 1 task, 2 attempts, 3 catalogs, 1 change of a source, tampering | authority, records, minimisation, Slack messages about the recorded comment, and results that agree with the ledger and the issue; 1.26 million states |

Each run that finds a violation is discussed in section 5.

**Why the bounds are enough.** A stale party needs one fresh opponent, so two processes or two
executions give every pair; the third attempt of `github_action` leaves room
for a create, an ambiguous update and the attempt after it, and the third task of
`github_duplicate` is what drives the row through a full cycle. Two attempts
are both kinds: one with a retry left and the last one. One task in the worker runs is enough because
no repository operation reads a second task's row; what several tasks share, the
process, is a property of the process (`OneHandlerPerProcess`), and the proofs
cover any number. The liveness run has one process, so that nothing but its own
restart can serve the task. Two bodies and two snapshots give equality and difference. In
`task_submission` two transactions are the most that can wait for one key in a
way that matters, and the four payloads are one request, the same request spelled
differently, another request and one that is refused. In `deployment_sync` one change
of a source makes the two attempts see different worlds, in each of the three ways the policy
tells apart: still granting, sensitive, contradictory. Bodies, snapshots and
tasks are interchangeable, so their permutations are used as symmetry (never in
a run with liveness).

**Deadlock.** The worker runs check it. The other models have finitely
many executions or requests that all end, and their configurations say
`CHECK_DEADLOCK FALSE`.

**Fairness.** `WorkerExecution` assumes weak fairness of each coroutine,
of the clock and of the restart of the processes in `Supervised`: asyncio and
PostgreSQL run what can run. A lease lapses for certain only while no heartbeat loop renews it.
Recovery and claiming of each task are strongly fair, because the scans are
ordered by `lease_expires_at` and by `available_at`: a row that keeps being eligible
reaches the head. A late handler of a process that is ending finally stops; the
code waits for it as well. `EventuallyCalm` says that crashes, raised
finalizations, stop requests and lost claim replies are finitely many: no retry budget
survives unlimited ones. Nothing is assumed about when they happen.
`TaskSubmission` assumes weak fairness of the server's steps for each request, the commit
among them; a waiting insert goes on because the transaction it waits for ends. Callers and
broken connections are promised nothing.

## 4. Proofs

The theorems hold for every set of tasks, processes, callers and bodies, every retry budget and,
but for `GithubCommentProofs` and the one-task part of `DeploymentOutcomeProofs`, every choice of the switches. The assumptions are those named in
the modules: a positive budget, null values that are not members of the sets they complete and,
in `DeploymentSync`, requests and catalogs of the shape the code normalises them to.

**WorkerExecution.** None of the invariants is inductive alone. `AttemptLedger` needs to know that
a finalization in flight has something to finalize, `RetryBudget` that a retry is
only ordered with attempts left, which is a fact about the runner at the moment of
*deciding*. `IInv` is `TypeOK`, `RunnerInv` (process variables against program
points) and `RowInv` (the task row with its attempts). `RowInv` is stated row by row, so that each
table update is one lemma about a row whichever worker makes it. From `IInv` follow `TableConstraintsHold`,
`AttemptLedgerHolds`, `RetryBudgetHolds`, `OneHandlerHolds`, `RunnerStateHolds`,
the action properties `AppendOnlyHolds` and `OutcomesAgreeHolds`, and
`ContractImplemented`: every step is a `TaskContract` step or a stutter. In
particular no interleaving lets a task with an accepted cancellation end in any
status but cancelled. `FenceImplemented` starts from there: a step of `TaskContract` starts one run, ends
one or keeps all (`RunStep`), which is `Begin`, `Lose` or a stutter of `AttemptFence`. This
discharges the assumption the three handler models make about the worker.

**GithubAction.** `ActionInv` is `TypeOK`, `RowConstraints` and `ConclusionInv`:
what an execution is about to write fits the point it has reached, and a success names
its comment. It yields `RowConstraintsHold`; `ParkedForGoodHolds` follows since no
transition expects a parked status, for any number of stale executions.

**GithubAction, one task.** `GithubCommentProofs` assumes `OneTask`: the executions are the
attempts of one task, and no write outlives its settlement delay. Without the first
`github_duplicate` is a counterexample, without the second section 5 describes one. The argument:
with one task at most one execution holds the fence (`OneFenced`, from `Successive`), so
the copy that execution acts on *is* the row (`Follows`). While a write is in flight the
holdoff is pending (`Flight`), so an execution that passed the holdoff
knows that nothing is in flight, and what its search saw stays true until it writes
(`Informed`). A create is therefore alone, and a comment is bound only when no other can
appear. `CommentInv` is that argument as an inductive invariant; it yields `OneComment`,
`CreatesAreAlone`, `SuccessesAreCurrent` and `BindingStays` for any number of attempts, with every
crash, lost answer, late request and edit.

`SuccessesAreShown` is about the text a reader of the issue sees. `Display` is what it needs: as long as the row is in its
first revision, a bound comment means a recorded success, so an update is sent from the second revision on; and until
that one is over, every write still on its way carries the body the row asks for now. Revisions are made by the one
fenced execution, from a row that succeeded, when no create is on its way any more (`CommentInv`). From the third
revision on a request of the second may still travel, and the statement is false (section 5).

**SlackDelivery.** The heart is `OneWriter`: an execution that is about to post, is posting, has posted, or has
an answer to record is unique, and meanwhile the row is executing, unknown, succeeded or
permanently failed with its `write_started_at` still set (`WriteTaken`). It is preserved because only `StartWrite` creates a writer and only
`Record` *with proof that nothing was sent* reopens the row; that proof is the
per-execution fact `KnowsMessage`, which a retryable failure has and a permanent one has not. `PostedOnce`,
`ClosedRowsStay`, the constraints and `RowIsTruthful` follow, the last for the rows that do claim something: those that
may still be sent, wait for a review or have no `write_started_at`. `NotificationImplemented` sums them up: in
`NotificationContract` a message may arrive whenever it was attempted and nobody has proof to the contrary, and the
theorem is that each transition of `deliver` is one of its few steps. A `Record` that opens the row again maps to
`Retract` only because a message in the channel or on its way would belong to the recording execution itself
(`ChannelOf`); one that records a permanent failure has no such proof and is `TakeForRejected`, after which the message
may still arrive. `Refuse`, before any write, needs none: the channel is empty.

**TaskSubmission.** `SubmissionInv` relates each request's point to the committed row
and to the one open insert: a request that found a conflict read after a commit, so it finds
the row. From it follow `AnsweredTasksStand`, `ConflictsAreTrue`, `ConflictsResolve` (the
`RuntimeError` of `create_task` is unreachable) and `TaskStays`. `CreateImplemented` says that to its callers
the create is one indivisible step: the commit of an insert is `Create`, each reply one of four
answers given once, and the waiting, the second read and the broken connections are stutters.

**DeploymentSync.** `ReadyIsAuthorised` is about the policy alone: looking at one selected
record is as strict as looking at all. `SyncInvariant` is `SyncType` and, for each
execution, `Trusted`: at every stage past the decision the records it holds grant the
publication, because authority is decided once per attempt and the records are kept.
It yields `AccessIsAuthorised` and `SensitiveRecordsAreMinimised` for every catalog and any number of
changes. `HandlerPublishesAsGithubAction` shows that the handler implements `GithubAction`: each
step is one of its steps or leaves the comment, the ledger and the requests alone. So what is
proved of `GithubAction` holds of the whole handler. (TLC cannot check this refinement as a property: the
bodies the handler may render are not a finite set.)

`DeploymentEvidenceProofs` proves `EvidenceOnRecord` in two halves. `Documented` says, stage by
stage, which payloads an execution refers to: none before the catalog is read, a part of the catalog
while it is recorded, then exactly the catalog, and with the target and the work item the whole. `Faithful` follows
the rendered evidence: it is given at the reservation, is kept at every point of the publication
(`Carries`), and is the body of a request that is still awaited. The halves meet at "publish", where what is
rendered depends only on what the execution has read and no longer changes.

`DeploymentOutcomeProofs` carries the theorems of one task over to the whole handler. Every action of
`DeploymentSync` that touches the shared variables contains the corresponding action of `GithubAction`, so its behaviours
are behaviours of the instance `GC` of `GithubCommentProofs` (`SharedSpec`); the instance's own
assumption is proved as `SharedAssumption`, and its theorems and invariants are then cited as `GC!...`. This gives
`HandlerKeepsOneComment`, and with it that a comment once bound stays bound, which is what the end of the handler needs:
between the recorded write, the Slack message and the result come fenced transactions and
crashes, and a later attempt may replay what an earlier one left. `OutcomeInv` adds to the earlier invariants
(`Background`) what the stages after the publication have secured: a result that says ready names the comment of the row,
which for an execution that holds its fence has succeeded with the body it rendered (`Published`), and messages are about that comment
(`Announced`). `SlackNamesTheComment` follows, and
`ReadyIsTrue`: at the step at which a task becomes ready, ledger, result and issue agree. The invariant was first
checked by TLC on the instance of `deployment_sync`. `SyncTypeCorrect` needs no hypothesis about the number of tasks.

**Only model-checked.** The liveness properties (`EventuallyTerminal`, `CancellationServed`, `RequestsEnd`), which are outside the
prover's reach. Every invariant and action property of a passing run is a theorem; the properties of the violated runs are
false.

## 5. What the code does not keep

Each run names one property, taken from the repository's own words, and TLC
gives the shortest execution against it. `PROJECT.json` quotes the sentences.

* `github_resume` — `workflow.py:491`. An attempt that dies between
  `ready_to_execute` and `executing` (a cancellation checkpoint lies there)
  leaves a row that every later attempt refuses to continue: the replay skips the
  transition to `reconciling`, and the next one expects it.
* `github_duplicate` — `persistence.py:308`. `transition` compares the status
  only. One execution resumes a row that is `ready_to_execute`, whose copy says that no write
  was started, so it skips the holdoff. Its search precedes the comment another execution is just
  creating; a third one moves the row back to `reconciling`, the status the resumed execution
  expects, and it creates a second comment. Three tasks of one scope and no fault at all.
* `github_overlap` — `workflow.py:669`. With a bound comment the
  holdoff is not consulted. A second update may be sent while the first,
  given up by its caller, is still on its way, and the older body may land last. A long execution makes the
  record false as well: an update of the second attempt that lands after the fourth attempt restored the
  first body leaves the row succeeded and the issue with another text. It takes three revisions, and
  `SuccessIsShown` and `OutcomeIsTrue` are therefore stated for the first two.
* `slack_confirmed` — `slack.py:416`. A delivery that finds the row `executing`
  takes it for a crashed one, also when a concurrent task is writing. The writer can then not
  record its confirmed message; the message is not duplicated.
* `cancellation_truth` — `runner.py:206`. The runner cancels the handler's coroutine at
  whatever it awaits. If that is the transaction of `_complete_success`
  (`workflow.py:649`), GitHub has confirmed the comment and the record of it is rolled back;
  the task ends cancelled and nothing records the comment.

`github_resume` and `cancellation_truth` need one task and no more than two attempts; `github_overlap`
one task with three; the others need concurrent tasks of one scope, which the
design allows (`README.md`: "Independent task submissions for the same business
scope therefore converge on one `external_actions` row").

Three smaller ones have no run. A notification recorded as permanently failed may be in the channel:
`slack.py:224` and `_slack_api_error` take the answer of a failing server (501, 520, `internal_error`) for a refusal.
So `TruthfulRow` claims nothing about such a row; it stays closed, and nothing is posted twice.
With two tasks of a scope `SuccessIsCurrent` fails: an execution that still holds
the previous revision's body records its success on the later revision
(`workflow.py:495`). And the retry delay of Slack is looked at only by a delivery that
read `retryable_failure` when it reserved (`slack.py:432`); one that read the row before posts at once.

`SettlementCovers`. `github_action` assumes that a provider write does not land after
`reconcile_not_before`. The defaults do not guarantee it (3 s of settlement, 8 s
of write timeout, `config.py:73-74`) and no validator relates the two. With it
false, `AtMostOneComment` fails for a single task. It is listed as a hazard.

## 6. What is not modelled

* *Search over several pages* is one atomic read. The pages are numbered, so a comment of somebody else that is
  deleted during the search can move the scope's own comment out of sight; the comments of others are not in the model.
* *Decision and reconciliation-evidence rows* are append-only and no decision reads them back;
  the deletion of artifacts whose retention has ended is left out.
* *HTTP parsing, size limits, backoff and `Retry-After`*: their outcomes only. When a retry comes is
  left open everywhere, so no result rests on a delay other than the settlement delay.
* *Normalisation of provider fields, canonical JSON, URL checks, rendering*: a payload stands for its
  hash; of rendering only which evidence a body depends on is kept.
* *Configuration* is constants; that a lease outlives a write timeout, say, is nowhere assumed.
* *Revocation between two attempts*: an attempt that finds its authority gone ends
  blocked, also when an earlier attempt's write was accepted; nothing in the documents says what
  the result should say then, so no property does.
* *Identity cache, metrics, logs, credentials, simulator, diagnostic handler, migrations*: see
  the notes in `PROJECT.json`.

## 7. Plan

Done, in this order because the fence of the worker is what everything else leans on:
`TaskDomain`, `TaskContract`, `WorkerExecution` and its proofs; `GithubAction` and
its proofs; `SlackDelivery` and its proofs; `TaskSubmission` and its proofs; `PublicationPolicy`;
`DeploymentSync`, its proofs and the refinement of `GithubAction`; the one-comment theorems; the proof
that what is published is on record; `AttemptFence`, the contract between the worker and the handlers; what the
issue shows, and the outcome of the whole handler; `IdempotentCreate` and `NotificationContract`.

What would come next:

1. An abstract specification of the comment that `GithubAction` implements, as `NotificationContract` is for Slack:
   there the proof that nothing was sent may also come from a search after the settlement delay.
2. `MarkerSearch`: the search page by page among other people's comments.
3. `RetryPolicy` with numbers for time, to relate the settlement delay, the write timeout and the lease.
