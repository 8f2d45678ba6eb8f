--------------------------- MODULE DeploymentSync ---------------------------
(***************************************************************************)
(* The deployment-context handler from the claim of an attempt to the      *)
(* result of its task (integrations/workflow.py): the policy, the reads of *)
(* the catalog, GitHub and Jira, the source artifacts, the publication, the*)
(* Slack notification, and the finalization by the runner.  Publication is *)
(* GithubAction, whose variables this module shares; an execution waits at *)
(* its first point, "reserve", until the pipeline reaches the publication. *)
(* SlackDelivery is one step here, and so is each fenced transaction.      *)
(* _validate_slack_request has passed when Slack is asked for at all.      *)
(*                                                                         *)
(* All tasks ask for the same thing and address one scope.  The sources    *)
(* may change between any two steps, MaxChanges times.                     *)
(***************************************************************************)
EXTENDS PublicationPolicy, FiniteSets

CONSTANTS Task, MaxAttempts, AllowAutomaticUpdates, SettlementCovers, Tampering,
          Edited, Unmarked, None,
          Catalogs,             \* what the service catalog may return
          Requests,             \* task inputs
          NotifySlack,          \* publish_slack_notification, and it is enabled
          CommentTouchesIssue,  \* a comment changes the issue's updated_at
          MaxChanges            \* how often the sources change

VARIABLES
  action, comments, fenced, pc, evidence, copy, goal, found, wire,  \* of GithubAction
  wanted,     \* the input of the tasks
  catalog,    \* the records of the service catalog
  target,     \* the repository and the issue on GitHub
  jira,       \* the work item
  changes,    \* how often they have changed
  artifacts,  \* rows of source_artifacts
  stage,      \* where the handler of each execution is
  seen,       \* what it has read
  cited,      \* the artifacts it refers to
  result,     \* what it returns
  outcome,    \* what became of the task
  cancel,     \* cancellation_requested
  posted,     \* comments that Slack messages refer to
  confirmed   \* history: executions that had GitHub's confirmation

publication == <<action, comments, fenced, pc, evidence, copy, goal, found, wire>>
sources == <<catalog, target, jira, changes>>
handler == <<artifacts, stage, seen, cited, result, posted, confirmed>>
tasks == <<wanted, outcome, cancel>>
vars == <<publication, sources, handler, tasks>>

-----------------------------------------------------------------------------
(* Sources, artifacts, bodies *)

Provider == {"service_catalog", "github", "jira"}

Repo == {"named", "archived", "other"}
Issue == {"open", "closed", "pull_request", "other"}
Target == [repository : Repo, issue : Issue, sourceVersion : Nat]
WorkItem == [key : {"named", "other"}, sourceVersion : Nat]

\* Of a sensitive record only the identity, the classification and the
\* versions are kept; the identifier asked for and the aliases never are.
Minimised(r) ==
  [r EXCEPT !.names = {}, !.owner = Nobody, !.repositories = {}, !.automatic = FALSE,
            !.reviewer = Nobody, !.updates = FALSE]

\* Faulty variant: confidential records are kept in full.
PayloadRestricted(r) ==
  IF r.classification = "restricted" THEN Minimised(r) ELSE [r EXCEPT !.names = {}]

Payload(r) ==
  IF r.classification \in Sensitive THEN Minimised(r) ELSE [r EXCEPT !.names = {}]

Content == ServiceRecord \cup Target \cup WorkItem

\* A payload stands for its hash; it contains the identifier and the version.
ArtifactOf(provider, contents) ==
  [task : Task, provider : {provider}, content : contents,
   observedBy : Task \X (1 .. MaxAttempts)]

Artifact ==
  ArtifactOf("service_catalog", ServiceRecord) \cup ArtifactOf("github", Target)
    \cup ArtifactOf("jira", WorkItem)

\* What a comment says of an artifact: not its content.
Reference(a) ==
  [provider |-> a.provider,
   resource |-> IF a.provider = "service_catalog" THEN a.content.canonical ELSE None,
   version |-> a.content.sourceVersion]

Body ==
  [policyVersion : Nat,
   references : SUBSET [provider : Provider, resource : Service \cup {None}, version : Nat]]

Snapshot ==
  [policyVersion : Nat, sources : SUBSET [provider : Provider, content : Content]]

GA == INSTANCE GithubAction

Execution == GA!Execution

\* A request names one service; the records that answer it have a newest one
\* and leave the scope and the permission to update as they are.
ASSUME SyncAssumption ==
  /\ MaxAttempts \in Nat \ {0} /\ MaxChanges \in Nat
  /\ Requests \subseteq [service : Service, repository : Repository, project : JiraProject]
  /\ Catalogs \subseteq SUBSET ServiceRecord
  /\ \A records \in Catalogs, request \in Requests :
       LET candidates == Candidates(request.service, records) IN
       /\ candidates # {} =>
            \E r \in candidates : \A s \in candidates : s.sourceVersion <= r.sourceVersion
       /\ \A r \in candidates :
            r.canonical = request.service /\ r.updates = AllowAutomaticUpdates
  /\ {AllowAutomaticUpdates, SettlementCovers, Tampering, NotifySlack, CommentTouchesIssue}
       \subseteq BOOLEAN
  /\ None \notin Execution \cup Service \cup {Edited, Unmarked}
  /\ \A x \in {None, Edited, Unmarked} : x \notin Body /\ x \notin Snapshot
  /\ Edited # Unmarked

-----------------------------------------------------------------------------
(* Handlers *)

NothingSeen == [records |-> {}, target |-> None, jira |-> None]
NoResult == [outcome |-> "none", comment |-> None]
Result ==
  [outcome : {"none", "ready", "blocked", "needs_human_review"},
   comment : Execution \cup {None}]

\* What becomes of a task, beside a result: failed, cancelled.
Outcome == {"none", "ready", "blocked", "needs_human_review", "failed", "cancelled"}

Stage ==
  {"idle", "validate", "catalog", "record_catalog", "identity", "repository", "issue",
   "record_github", "jira", "record_jira", "publish", "slack", "returned", "cancelled",
   "gave_up", "gone"}

Over == {"idle", "returned", "cancelled", "gave_up", "gone"}

Init ==
  /\ GA!Init
  /\ wanted \in Requests
  /\ catalog \in Catalogs
  /\ target \in [repository : Repo, issue : Issue, sourceVersion : {0}]
  /\ jira \in [key : {"named", "other"}, sourceVersion : {0}]
  /\ changes = 0
  /\ artifacts = {}
  /\ stage = [e \in Execution |-> "idle"]
  /\ seen = [e \in Execution |-> NothingSeen]
  /\ cited = [e \in Execution |-> {}]
  /\ result = [e \in Execution |-> NoResult]
  /\ outcome = [t \in Task |-> "none"]
  /\ cancel = [t \in Task |-> FALSE]
  /\ posted = {}
  /\ confirmed = {}

Go(e, s) == stage' = [stage EXCEPT ![e] = s]

\* _finish: Slack is told of a published comment only.
Finish(e, newOutcome, comment) ==
  /\ Go(e, IF newOutcome = "ready" /\ NotifySlack THEN "slack" ELSE "returned")
  /\ result' = [result EXCEPT ![e] = [outcome |-> newOutcome, comment |-> comment]]

\* A step before the publication.
Prelude(e, from) ==
  /\ stage[e] = from
  /\ UNCHANGED <<publication, sources, tasks, posted, confirmed>>

\* The verdict of the policy on what the execution has read.
Evaluation(e) == Evaluate(wanted.service, wanted.repository, seen[e].records)
Selected(e) == Newest(Candidates(wanted.service, seen[e].records))

Rendered(e) ==
  [body |-> [policyVersion |-> Selected(e).policyVersion,
             references |-> {Reference(a) : a \in cited[e]}],
   snapshot |-> [policyVersion |-> Selected(e).policyVersion,
                 sources |-> {[provider |-> a.provider, content |-> a.content] : a \in cited[e]}]]

\* The coroutine ends without a result: the runner has a retryable error, a
\* permanent one or a cancellation to finalise, or nobody is left to do so.
Stop(e, s) ==
  /\ stage[e] \notin Over
  /\ Go(e, s)
  /\ IF GA!Live(e) THEN GA!Abandon(e) ELSE UNCHANGED publication
  /\ UNCHANGED <<sources, tasks, artifacts, seen, cited, result, posted, confirmed>>

\* A crash, the timeout, a lost connection, a retryable read error.
Vanish(e) == Stop(e, "gone")

Reading == {"catalog", "identity", "repository", "issue", "jira"}

\* _provider_call: a read is refused for good or breaks its contract.
ReadRejected(e) ==
  /\ stage[e] \in Reading \/ (stage[e] = "publish" /\ pc[e] = "inspect")
  /\ Stop(e, "gave_up")

\* The heartbeat reads the request; the runner sets the event and cancels the
\* handler's coroutine at whatever it awaits.
StopForCancellation(e) == cancel[e[1]] /\ fenced[e] /\ Stop(e, "cancelled")

-----------------------------------------------------------------------------
(* Policy *)

\* evaluate_static_scope, before any network access.
Validate(e) ==
  /\ Prelude(e, "validate")
  /\ IF InScope(wanted.service, wanted.repository, wanted.project)
     THEN Go(e, "catalog") /\ UNCHANGED result
     ELSE Finish(e, "blocked", None)
  /\ UNCHANGED <<artifacts, seen, cited>>

FetchRecords(e) ==
  /\ Prelude(e, "catalog")
  /\ seen' = [seen EXCEPT ![e].records = catalog]
  /\ Go(e, "record_catalog")
  /\ UNCHANGED <<artifacts, cited, result>>

\* Faulty variant: an artifact is looked up by its provider alone.
SameProvider(t, provider, content) ==
  {a \in artifacts : a.task = t /\ a.provider = provider}

\* uq_source_artifacts_observation.
Same(t, provider, content) ==
  {a \in artifacts : a.task = t /\ a.provider = provider /\ a.content = content}

\* SourceArtifactRepository.record: insert unless there, read back, refer.
Record(e, provider, content) ==
  LET known == Same(e[1], provider, content)
      new == [task |-> e[1], provider |-> provider, content |-> content, observedBy |-> e]
      rows == IF known = {} THEN {new} ELSE known
  IN /\ fenced[e]
     /\ artifacts' = artifacts \cup rows
     /\ cited' = [cited EXCEPT ![e] = @ \cup rows]

Recorded(e, r) == \E a \in cited[e] : a.provider = "service_catalog" /\ a.content = Payload(r)

\* _record_catalog, one record a transaction.
RecordCatalog(e, r) ==
  /\ Prelude(e, "record_catalog")
  /\ ~Recorded(e, r)
  /\ Record(e, "service_catalog", Payload(r))
  /\ UNCHANGED <<stage, seen, result>>

\* Faulty variant: only a blocked request ends here.
MayReadUnlessBlocked(e) == Evaluation(e).outcome # "blocked"

MayRead(e) == Evaluation(e).outcome = "ready"

\* What the catalog decides is final for this execution.
Decide(e) ==
  /\ Prelude(e, "record_catalog")
  /\ \A r \in seen[e].records : Recorded(e, r)
  /\ IF MayRead(e)
     THEN Go(e, "identity") /\ UNCHANGED result
     ELSE Finish(e, Evaluation(e).outcome, None)
  /\ UNCHANGED <<artifacts, seen, cited>>

-----------------------------------------------------------------------------
(* GitHub and Jira *)

Review(e) == Finish(e, "needs_human_review", None)

VerifyIdentity(e, verified) ==
  /\ Prelude(e, "identity")
  /\ IF verified THEN Go(e, "repository") /\ UNCHANGED result ELSE Review(e)
  /\ UNCHANGED <<artifacts, seen, cited>>

\* fetch_context reads the repository first, then the commit and the issue.
FetchRepository(e) ==
  /\ Prelude(e, "repository")
  /\ seen' = [seen EXCEPT ![e].target =
                [repository |-> target.repository, issue |-> "other", sourceVersion |-> 0]]
  /\ Go(e, "issue")
  /\ UNCHANGED <<artifacts, cited, result>>

FetchIssue(e) ==
  /\ Prelude(e, "issue")
  /\ LET read == [target EXCEPT !.repository = seen[e].target.repository] IN
       /\ seen' = [seen EXCEPT ![e].target = read]
       /\ IF read.repository = "other" \/ read.issue = "other"
          THEN Review(e)
          ELSE Go(e, "record_github") /\ UNCHANGED result
  /\ UNCHANGED <<artifacts, cited>>

\* _record_github, then the checks of the target.
RecordGithub(e) ==
  /\ Prelude(e, "record_github")
  /\ Record(e, "github", seen[e].target)
  /\ CASE seen[e].target.issue = "pull_request" -> Finish(e, "blocked", None)
       [] seen[e].target.issue = "closed" -> Review(e)
       [] seen[e].target.issue = "open" /\ seen[e].target.repository = "archived" -> Review(e)
       [] OTHER -> Go(e, "jira") /\ UNCHANGED result
  /\ UNCHANGED seen

FetchJira(e) ==
  /\ Prelude(e, "jira")
  /\ seen' = [seen EXCEPT ![e].jira = jira]
  /\ IF jira.key = "named" THEN Go(e, "record_jira") /\ UNCHANGED result ELSE Review(e)
  /\ UNCHANGED <<artifacts, cited>>

RecordJira(e) ==
  /\ Prelude(e, "record_jira")
  /\ Record(e, "jira", seen[e].jira)
  /\ Go(e, "publish")
  /\ UNCHANGED <<seen, result>>

Recording == {"record_catalog", "record_github", "record_jira"}

\* The fence of an artifact, the action or the notification is lost.
FenceRefuses(e) ==
  /\ \/ stage[e] \in Recording /\ GA!FenceRefuses(e)
     \/ stage[e] = "publish" /\ GA!FenceRefuses(e)
     \/ stage[e] = "slack" /\ ~fenced[e] /\ UNCHANGED publication
  /\ Go(e, "gone")
  /\ UNCHANGED <<sources, tasks, artifacts, seen, cited, result, posted, confirmed>>

-----------------------------------------------------------------------------
(* Publication *)

Publishing(e) ==
  /\ stage[e] = "publish"
  /\ UNCHANGED <<sources, tasks, artifacts, seen, cited, posted>>

\* Steps of GithubAction that leave the handler in its hands.
Advance(e) ==
  /\ Publishing(e)
  /\ \/ GA!Reserve(e, Rendered(e)) \/ GA!Revise(e) \/ GA!Begin(e)
     \/ GA!LookUpBound(e) \/ GA!HoldOff(e) \/ GA!PassHoldoff(e)
     \/ GA!Search(e) \/ GA!SearchFails(e) \/ GA!Reconcile(e)
     \/ GA!StartWrite(e) \/ GA!Send(e) \/ GA!SendFails(e)
     \/ GA!WriteUnknown(e) \/ GA!WriteRefused(e)
  /\ UNCHANGED <<stage, result, confirmed>>

Confirm(e) ==
  /\ Publishing(e)
  /\ GA!WriteSucceeds(e)
  /\ confirmed' = confirmed \cup {e}
  /\ UNCHANGED <<stage, result>>

\* Replay of a closed action, drift, or a change that may not be applied.
Replay(e) ==
  /\ Publishing(e)
  /\ GA!ReserveEnds(e, Rendered(e))
  /\ Finish(e, IF GA!Replays(Rendered(e)) /\ action.status = "succeeded"
               THEN "ready" ELSE "needs_human_review", action.resource)
  /\ UNCHANGED confirmed

InspectBound(e) ==
  /\ Publishing(e)
  /\ GA!Inspect(e)
  /\ IF copy[e].resource \in GA!Marked
     THEN UNCHANGED <<stage, result>>
     ELSE Finish(e, "needs_human_review", action.resource)
  /\ UNCHANGED confirmed

\* Faulty variant: an unknown outcome is returned as a result.
ReportUnknown(e) ==
  CASE goal[e] \in {"succeeded", "outcome_unknown"} -> Finish(e, "ready", action'.resource)
    [] goal[e] = "needs_human_review" -> Finish(e, "needs_human_review", action'.resource)
    [] goal[e] = "permanent_failure" -> Go(e, "gave_up") /\ UNCHANGED result
    [] OTHER -> Go(e, "gone") /\ UNCHANGED result

\* What the handler returns, or raises, once its transition is recorded.
Report(e) ==
  CASE goal[e] = "succeeded" -> Finish(e, "ready", action'.resource)
    [] goal[e] = "needs_human_review" -> Finish(e, "needs_human_review", action'.resource)
    [] goal[e] = "permanent_failure" -> Go(e, "gave_up") /\ UNCHANGED result
    [] OTHER -> Go(e, "gone") /\ UNCHANGED result

Conclude(e) ==
  /\ Publishing(e)
  /\ GA!ReconcileEnds(e) \/ GA!RecordWrite(e)
  /\ Report(e)
  /\ UNCHANGED confirmed

\* ExecutionInvariantError, which the runner retries.
StateRefuses(e) ==
  /\ Publishing(e)
  /\ GA!StateRefuses(e)
  /\ Go(e, "gone")
  /\ UNCHANGED <<result, confirmed>>

\* SlackDeliveryService.deliver; whatever it returns or posts, the decision
\* and the GitHub action of the result stay.
Notify(e) ==
  /\ stage[e] = "slack" /\ fenced[e]
  /\ posted' \in {posted, posted \cup {result[e].comment}}
  /\ Go(e, "returned")
  /\ UNCHANGED <<publication, sources, tasks, artifacts, seen, cited, result, confirmed>>

-----------------------------------------------------------------------------
(* The runner *)

Claim(t, n) ==
  /\ outcome[t] = "none" /\ stage[<<t, n>>] = "idle"
  /\ GA!Claim(t, n)
  /\ Go(<<t, n>>, "validate")
  /\ UNCHANGED <<sources, tasks, artifacts, seen, cited, result, posted, confirmed>>

\* Faulty variant: the kind of the error is stored as the status of the task.
OutcomeAsRaised(e) ==
  CASE cancel[e[1]] -> "cancelled"
    [] stage[e] = "returned" /\ ~cancel[e[1]] -> result[e].outcome
    [] OTHER -> stage[e]

\* The customer's cancellation wins over what the handler returned.
OutcomeOf(e) ==
  CASE cancel[e[1]] -> "cancelled"
    [] stage[e] = "returned" /\ ~cancel[e[1]] -> result[e].outcome
    [] OTHER -> "failed"

Finalise(e) ==
  /\ stage[e] \in {"returned", "gave_up", "cancelled"}
  /\ GA!FenceLost(e)
  /\ outcome' = [outcome EXCEPT ![e[1]] = OutcomeOf(e)]
  /\ UNCHANGED <<sources, handler, wanted, cancel>>

\* The lease lapses and is recovered, or a retryable error is finalised.
Recover(e) ==
  /\ GA!FenceLost(e)
  /\ outcome' = [outcome EXCEPT ![e[1]] =
       IF cancel[e[1]] THEN "cancelled" ELSE IF e[2] = MaxAttempts THEN "failed" ELSE "none"]
  /\ UNCHANGED <<sources, handler, wanted, cancel>>

\* cancel_task: at once between attempts, by request during one.
Cancel(t) ==
  /\ outcome[t] = "none" /\ ~cancel[t]
  /\ IF \E n \in 1 .. MaxAttempts : fenced[<<t, n>>]
     THEN cancel' = [cancel EXCEPT ![t] = TRUE] /\ UNCHANGED outcome
     ELSE outcome' = [outcome EXCEPT ![t] = "cancelled"] /\ UNCHANGED cancel
  /\ UNCHANGED <<publication, sources, handler, wanted>>

-----------------------------------------------------------------------------
(* The world around *)

Land(e) ==
  /\ GA!Land(e)
  /\ target' = IF CommentTouchesIssue THEN [target EXCEPT !.sourceVersion = @ + 1] ELSE target
  /\ UNCHANGED <<catalog, jira, changes, handler, tasks>>

Elsewhere ==
  /\ GA!HoldoffPasses \/ \E e \in Execution : GA!Refuse(e) \/ GA!Tamper(e)
  /\ UNCHANGED <<sources, handler, tasks>>

Changing ==
  /\ changes < MaxChanges
  /\ changes' = changes + 1
  /\ UNCHANGED <<publication, handler, tasks>>

ChangeCatalog ==
  /\ Changing
  /\ catalog' \in Catalogs \ {catalog}
  /\ UNCHANGED <<target, jira>>

\* Someone closes or reopens the issue, comments, pushes a commit, or
\* archives the repository, which leaves the issue as it is.
ChangeTarget ==
  /\ Changing
  /\ \/ \E state \in IF target.issue \in {"open", "closed"} THEN {"open", "closed"}
                                                            ELSE {target.issue} :
          target' = [target EXCEPT !.issue = state, !.sourceVersion = @ + 1]
     \/ target.repository = "named" /\ target' = [target EXCEPT !.repository = "archived"]
  /\ UNCHANGED <<catalog, jira>>

ChangeJira ==
  /\ Changing
  /\ jira' = [jira EXCEPT !.sourceVersion = @ + 1]
  /\ UNCHANGED <<catalog, target>>

-----------------------------------------------------------------------------

Handle(e) ==
  \/ Validate(e) \/ FetchRecords(e) \/ Decide(e)
  \/ \E r \in seen[e].records : RecordCatalog(e, r)
  \/ \E verified \in BOOLEAN : VerifyIdentity(e, verified)
  \/ FetchRepository(e) \/ FetchIssue(e) \/ RecordGithub(e) \/ FetchJira(e) \/ RecordJira(e)
  \/ Advance(e) \/ Confirm(e) \/ Replay(e) \/ InspectBound(e) \/ Conclude(e) \/ StateRefuses(e)
  \/ Notify(e)
  \/ FenceRefuses(e) \/ Vanish(e) \/ ReadRejected(e) \/ StopForCancellation(e)

Next ==
  \/ \E t \in Task, n \in 1 .. MaxAttempts : Claim(t, n)
  \/ \E e \in Execution : Handle(e) \/ Finalise(e) \/ Recover(e) \/ Land(e)
  \/ \E t \in Task : Cancel(t)
  \/ Elsewhere \/ ChangeCatalog \/ ChangeTarget \/ ChangeJira

Spec == Init /\ [][Next]_vars

-----------------------------------------------------------------------------
(* Properties *)

\* The variables have the shape of the sources, the rows and the locals.
TypeOK ==
  /\ wanted \in Requests /\ catalog \in Catalogs
  /\ target \in Target /\ jira \in WorkItem /\ changes \in 0 .. MaxChanges
  /\ artifacts \subseteq Artifact
  /\ stage \in [Execution -> Stage]
  /\ \A e \in Execution :
       /\ seen[e].records \in Catalogs \cup {{}}
       /\ seen[e].target \in Target \cup {None} /\ seen[e].jira \in WorkItem \cup {None}
       /\ cited[e] \subseteq Artifact
  /\ result \in [Execution -> Result]
  /\ outcome \in [Task -> Outcome] /\ cancel \in [Task -> BOOLEAN]
  /\ posted \subseteq Execution \cup {None} /\ confirmed \subseteq Execution

\* GitHub and Jira are asked, and GitHub is written to, only by executions
\* that are in scope and whose own records authorise the publication in full.
AuthorisedAccess ==
  \A e \in Execution :
    \/ stage[e] \in {"identity", "repository", "issue", "record_github", "jira", "record_jira",
                     "publish", "slack"}
    \/ result[e].comment # None
    => /\ InScope(wanted.service, wanted.repository, wanted.project)
       /\ Authorised(wanted.service, wanted.repository, seen[e].records)

\* What an execution publishes was read by itself, from an open issue of the
\* named repository, and the rows of source_artifacts for its task hold every
\* payload it read and nothing else is cited, whatever earlier attempts have
\* recorded.
EvidenceOnRecord ==
  \A e \in Execution : stage[e] \in {"publish", "slack"} =>
    /\ seen[e].target.repository = "named" /\ seen[e].target.issue = "open"
    /\ cited[e] \subseteq artifacts
    /\ {a.content : a \in cited[e]} =
         {Payload(r) : r \in seen[e].records} \cup {seen[e].target, seen[e].jira}
    /\ wire[e].state = "flying" /\ pc[e] = "await" => wire[e].body = Rendered(e).body

\* The table never holds the owner, reviewer or repositories of a sensitive
\* service, whatever happened to its classification meanwhile.
SensitiveIsMinimised ==
  \A a \in artifacts :
    a.provider = "service_catalog" /\ a.content.classification \in Sensitive =>
      a.content = Minimised(a.content)

\* A message to Slack names the comment that the ledger has recorded.
SlackAfterGithub == posted # {} => posted = {action.resource} /\ action.applied # None

\* A task ends as ready only with its evidence published and recorded as
\* such: the result and the ledger agree, and so does the comment on the issue,
\* unless people have changed it, for the comment and its first update.
OutcomeIsTrue ==
  [][\A e \in Execution :
       stage[e] = "returned" /\ outcome'[e[1]] = "ready" /\ outcome[e[1]] = "none" /\ fenced[e] =>
         /\ action.status = "succeeded" /\ action.resource = result[e].comment
         /\ action.applied = Rendered(e).body
         /\ action.revision <= 2 =>
              comments[action.resource] \in
                {Rendered(e).body} \cup (IF Tampering THEN {None, Edited, Unmarked} ELSE {})]_outcome

\* An execution that a cancellation stops after GitHub has confirmed its
\* write leaves the write on record.
CancellationKeepsTruth ==
  \A e \in confirmed : stage[e] = "cancelled" => action.status = "succeeded"
=============================================================================
