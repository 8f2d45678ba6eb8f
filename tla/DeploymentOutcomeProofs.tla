------------------------ MODULE DeploymentOutcomeProofs ------------------------
(***************************************************************************)
(* Theorems about DeploymentSync that rest on those about GithubAction:    *)
(* the handler publishes as GithubAction says (DeploymentSyncProofs), so   *)
(* what GithubCommentProofs proves of the comment and its row holds here,  *)
(* and with it what the handler returns, Slack is told and the task ends   *)
(* as can be compared with what is on the issue.                           *)
(***************************************************************************)
EXTENDS DeploymentEvidenceProofs, FiniteSetTheorems

GC == INSTANCE GithubCommentProofs

\* The situation in which the comment is unique: one task, settled writes.
OneTask == GC!OneTask

-----------------------------------------------------------------------------
(* The theorems about GithubAction apply *)

\* What GithubAction assumes of its constants.
LEMMA SharedAssumption == GC!GithubAssumption
<1>1. GC!Execution = Execution
  BY DEF Execution, GA!Execution, GC!Execution
<1>2. None \notin Execution \cup Body \cup Snapshot \cup {Edited, Unmarked}
  BY SyncAssumption
<1>3. Body \cap {Edited, Unmarked} = {}
  BY SyncAssumption
<1>4. AllowAutomaticUpdates \in BOOLEAN /\ SettlementCovers \in BOOLEAN /\ Tampering \in BOOLEAN
  BY SyncAssumption
<1>5. MaxAttempts \in Nat \ {0} /\ Edited # Unmarked
  BY SyncAssumption
<1> QED BY <1>1, <1>2, <1>3, <1>4, <1>5 DEF GC!GithubAssumption

\* Both instances of GithubAction are the same specification.
LEMMA SameStep == GA!Next => GC!Next
<1> USE DEF GA!Leave, GC!Leave, GA!NoEvidence, GC!NoEvidence, GA!NoCopy, GC!NoCopy,
        GA!NoRequest, GC!NoRequest
<1>1. GA!Execution = GC!Execution /\ GA!Marked = GC!Marked
  BY DEF GA!Execution, GC!Execution, GA!Marked, GC!Marked
<1>2. \A t, n : GA!Claim(t, n) => GC!Claim(t, n)
  BY DEF GA!Claim, GC!Claim
<1>3. ASSUME NEW e
      PROVE  /\ GA!FenceLost(e) => GC!FenceLost(e)
             /\ GA!Abandon(e) => GC!Abandon(e)
             /\ GA!FenceRefuses(e) => GC!FenceRefuses(e)
  BY DEF GA!FenceLost, GC!FenceLost, GA!Abandon, GC!Abandon, GA!Live, GC!Live,
         GA!FenceRefuses, GC!FenceRefuses, GA!local, GC!local
<1>4. ASSUME NEW p PROVE GA!Expected(p) = GC!Expected(p)
  BY Zenon DEF GA!Expected, GC!Expected, GA!ActionStatus, GC!ActionStatus
<1> USE DEF GA!MayTransition, GC!MayTransition, GA!GoOn, GC!GoOn, GA!CopyOf, GC!CopyOf
<1>5. ASSUME NEW e PROVE GA!StateRefuses(e) => GC!StateRefuses(e)
  BY <1>4 DEF GA!StateRefuses, GC!StateRefuses
<1>6. ASSUME NEW e, GA!Prepare(e) PROVE GC!Prepare(e)
  <2> USE DEF GA!Replays, GC!Replays, GA!Revisable, GC!Revisable
  <2>1. \A s : GA!Reserve(e, s) => GC!Reserve(e, s)
    BY DEF GA!Reserve, GC!Reserve, GA!Reserved, GC!Reserved, GA!Resumed, GC!Resumed,
           GA!ActionStatus, GC!ActionStatus
  <2>2. \A s : GA!ReserveEnds(e, s) => GC!ReserveEnds(e, s)
    BY DEF GA!ReserveEnds, GC!ReserveEnds
  <2>3. GA!Inspect(e) => GC!Inspect(e)
    BY <1>1 DEF GA!Inspect, GC!Inspect
  <2>4. GA!Revise(e) => GC!Revise(e)
    BY <1>4 DEF GA!Revise, GC!Revise
  <2> QED BY <1>6, <2>1, <2>2, <2>3, <2>4 DEF GA!Prepare, GC!Prepare
<1>7. ASSUME NEW e
      PROVE  /\ \A s, id : GA!Conclude(e, s, id) <=> GC!Conclude(e, s, id)
             /\ \A id : GA!Judge(e, id) <=> GC!Judge(e, id)
             /\ \A s, id : GA!Answered(e, s, id) <=> GC!Answered(e, s, id)
             /\ GA!Concluded(e) = GC!Concluded(e)
  BY DEF GA!Judge, GC!Judge, GA!Conclude, GC!Conclude, GA!Answered, GC!Answered, GA!Concluded,
         GC!Concluded
<1>8. ASSUME NEW e, GA!Reconciliation(e) PROVE GC!Reconciliation(e)
  <2>1. GA!Begin(e) => GC!Begin(e)
    BY <1>4 DEF GA!Begin, GC!Begin
  <2>2. GA!LookUpBound(e) => GC!LookUpBound(e)
    BY <1>1, <1>7 DEF GA!LookUpBound, GC!LookUpBound
  <2>3. (GA!HoldOff(e) => GC!HoldOff(e)) /\ (GA!PassHoldoff(e) => GC!PassHoldoff(e))
    BY <1>7 DEF GA!HoldOff, GC!HoldOff, GA!PassHoldoff, GC!PassHoldoff, GA!HeldOff, GC!HeldOff
  <2>4. GA!Search(e) => GC!Search(e)
    <3>1. GA!Cardinality(GA!Marked) = GC!Cardinality(GC!Marked)
      BY <1>1, Zenon DEF GA!Cardinality, GC!Cardinality
    <3>2. ASSUME NEW id PROVE GA!Judge(e, id) <=> GC!Judge(e, id)
      BY <1>7
    <3>3. ASSUME NEW s PROVE GA!Conclude(e, s, None) <=> GC!Conclude(e, s, None)
      BY <1>7
    <3>4. CASE GA!Cardinality(GA!Marked) > 1
      <4>1. GC!Cardinality(GC!Marked) > 1
        BY <3>1, <3>4
      <4>2. GA!Cardinality({}) = Cardinality({})
        BY Zenon DEF GA!Cardinality, Cardinality
      <4>3. GA!Marked # {} /\ GC!Marked # {}
        BY <1>1, <3>4, <4>2, FS_EmptySet
      <4> QED BY <3>3, <3>4, <4>1, <4>3, Zenon DEF GA!Search, GC!Search
    <3>5. CASE ~ GA!Cardinality(GA!Marked) > 1 /\ GA!Marked = {}
      <4>1. ~ GC!Cardinality(GC!Marked) > 1 /\ GC!Marked = {}
        BY <1>1, <3>1, <3>5
      <4> QED BY <3>3, <3>5, <4>1, Zenon DEF GA!Search, GC!Search
    <3>6. CASE ~ GA!Cardinality(GA!Marked) > 1 /\ GA!Marked # {}
      <4>1. ~ GC!Cardinality(GC!Marked) > 1 /\ GC!Marked # {}
        BY <1>1, <3>1, <3>6
      <4> QED BY <1>1, <3>2, <3>6, <4>1, Zenon DEF GA!Search, GC!Search
    <3> QED BY <3>4, <3>5, <3>6
  <2>5. GA!SearchFails(e) => GC!SearchFails(e)
    BY <1>7 DEF GA!SearchFails, GC!SearchFails
  <2>6. /\ GA!Reconcile(e) => GC!Reconcile(e)
        /\ GA!ReconcileEnds(e) => GC!ReconcileEnds(e)
    BY <1>4, <1>7 DEF GA!Reconcile, GC!Reconcile, GA!ReconcileEnds, GC!ReconcileEnds
  <2> QED BY <1>8, <2>1, <2>2, <2>3, <2>4, <2>5, <2>6 DEF GA!Reconciliation, GC!Reconciliation
<1>9. ASSUME NEW e, GA!Write(e) PROVE GC!Write(e)
  <2>1. (GA!StartWrite(e) => GC!StartWrite(e)) /\ (GA!Send(e) => GC!Send(e))
    BY <1>4 DEF GA!StartWrite, GC!StartWrite, GA!Started, GC!Started, GA!Send, GC!Send
  <2>2. /\ GA!SendFails(e) => GC!SendFails(e)
        /\ GA!WriteSucceeds(e) => GC!WriteSucceeds(e)
        /\ GA!WriteUnknown(e) => GC!WriteUnknown(e)
        /\ GA!WriteRefused(e) => GC!WriteRefused(e)
    BY <1>7 DEF GA!SendFails, GC!SendFails, GA!WriteSucceeds, GC!WriteSucceeds, GA!WriteUnknown,
                GC!WriteUnknown, GA!WriteRefused, GC!WriteRefused, GA!BoundComment, GC!BoundComment
  <2>3. GA!RecordWrite(e) => GC!RecordWrite(e)
    BY <1>4, <1>7 DEF GA!RecordWrite, GC!RecordWrite
  <2> QED BY <1>9, <2>1, <2>2, <2>3 DEF GA!Write, GC!Write
<1>10. ASSUME NEW e
       PROVE  /\ GA!Land(e) => GC!Land(e)
              /\ GA!Refuse(e) => GC!Refuse(e)
              /\ GA!Tamper(e) => GC!Tamper(e)
  BY DEF GA!Land, GC!Land, GA!Refuse, GC!Refuse, GA!Tamper, GC!Tamper, GA!Answer, GC!Answer,
         GA!local, GC!local
<1>11. GA!HoldoffPasses => GC!HoldoffPasses
  BY <1>1 DEF GA!HoldoffPasses, GC!HoldoffPasses, GA!local, GC!local
<1> QED BY <1>1, <1>2, <1>3, <1>5, <1>6, <1>8, <1>9, <1>10, <1>11 DEF GA!Next, GC!Next

LEMMA SharedInit == Init => GC!Init
BY DEF Init, GA!Init, GC!Init, GA!Execution, GC!Execution, GA!NoEvidence, GC!NoEvidence,
       GA!NoCopy, GC!NoCopy, GA!NoRequest, GC!NoRequest

LEMMA SharedStep == SyncInvariant /\ [Next]_vars => [GC!Next]_GC!vars
BY StepImplements, SameStep DEF GC!vars, publication

\* The handler's steps are the steps the theorems about GithubAction speak of.
LEMMA SharedSpec == Spec => GC!Spec
BY SharedInit, SharedStep, SyncInvariantAlways, PTL DEF Spec, GC!Spec

\* However the handler reads, records and notifies, the issue never carries
\* two comments of the scope: the promise of GithubAction, for the executions
\* that run the whole of DeploymentContextSyncHandler.
THEOREM HandlerKeepsOneComment == OneTask => (Spec => []GC!AtMostOneComment)
BY SharedAssumption, SharedSpec, GC!OneComment DEF OneTask
-----------------------------------------------------------------------------
(* How the handler ends *)

Verdicts == {"blocked", "needs_human_review"}

\* The handler returns ready: a closed success is replayed, or one is recorded.
Succeeds(e) ==
  /\ stage[e] = "publish"
  /\ Finish(e, "ready", action'.resource)
  /\ UNCHANGED <<wanted, seen, cited, posted>>
  /\ \/ /\ GA!ReserveEnds(e, Rendered(e))
        /\ GA!Replays(Rendered(e)) /\ action.status = "succeeded"
     \/ (GA!ReconcileEnds(e) \/ GA!RecordWrite(e)) /\ goal[e] = "succeeded"

\* It goes on, notifies, returns something else than ready, or returns ready.
Continues(e) ==
  /\ UNCHANGED <<result, posted>>
  /\ stage' = stage \/ \E s \in Stage \ {"slack", "returned"} : Go(e, s)

Declines(e) ==
  /\ UNCHANGED posted
  /\ \E newOutcome \in Verdicts, comment \in {None, action.resource, action'.resource} :
       Finish(e, newOutcome, comment)

LEMMA EvaluationOutcome ==
  ASSUME NEW e PROVE Evaluation(e).outcome \in {"ready"} \cup Verdicts
<1>1. ASSUME NEW r, NEW repository PROVE Judge(r, repository).outcome \in {"ready"} \cup Verdicts
  BY DEF Judge, Verdict, Verdicts
<1> QED BY <1>1 DEF Evaluation, Evaluate, Verdict, Verdicts

LEMMA HandleEnds ==
  ASSUME NEW e \in Execution, Handle(e)
  PROVE  Continues(e) \/ Notify(e) \/ Declines(e) \/ Succeeds(e)
<1> USE DEF Prelude, Publishing, Stage, Verdicts, tasks
<1>1. CASE Validate(e)
  BY <1>1 DEF Validate, Continues, Declines
<1>2. CASE FetchRecords(e) \/ \E r \in seen[e].records : RecordCatalog(e, r)
  BY <1>2 DEF FetchRecords, RecordCatalog, Continues
<1>3. CASE Decide(e)
  BY <1>3, EvaluationOutcome DEF Decide, MayRead, Continues, Declines
<1>4. CASE \/ \E verified \in BOOLEAN : VerifyIdentity(e, verified)
           \/ FetchRepository(e) \/ FetchIssue(e) \/ FetchJira(e)
  BY <1>4 DEF VerifyIdentity, FetchRepository, FetchIssue, FetchJira, Review, Continues, Declines
<1>5. CASE RecordGithub(e)
  <2>1. /\ UNCHANGED posted
        /\ \/ Go(e, "jira") /\ UNCHANGED result
           \/ \E newOutcome \in Verdicts : Finish(e, newOutcome, None)
    BY <1>5 DEF RecordGithub, Review
  <2> QED BY <2>1 DEF Continues, Declines
<1>6. CASE RecordJira(e)
  BY <1>6 DEF RecordJira, Continues
<1>7. CASE Advance(e) \/ Confirm(e) \/ StateRefuses(e)
  BY <1>7 DEF Advance, Confirm, StateRefuses, Continues
<1>8. CASE Replay(e)
  <2>1. action' = action
    BY <1>8 DEF Replay, GA!ReserveEnds
  <2>2. CASE GA!Replays(Rendered(e)) /\ action.status = "succeeded"
    BY <1>8, <2>1, <2>2 DEF Replay, Succeeds
  <2>3. CASE ~(GA!Replays(Rendered(e)) /\ action.status = "succeeded")
    BY <1>8, <2>3 DEF Replay, Declines
  <2> QED BY <2>2, <2>3
<1>9. CASE InspectBound(e)
  BY <1>9 DEF InspectBound, Continues, Declines
<1>10. CASE Conclude(e)
  <2>1. stage[e] = "publish" /\ UNCHANGED <<wanted, seen, cited, posted>> /\ Report(e)
        /\ (GA!ReconcileEnds(e) \/ GA!RecordWrite(e))
    BY <1>10 DEF Conclude
  <2>2. CASE goal[e] = "succeeded"
    BY <2>1, <2>2 DEF Report, Succeeds
  <2>3. CASE goal[e] = "needs_human_review"
    BY <2>1, <2>3 DEF Report, Declines
  <2>4. CASE goal[e] \notin {"succeeded", "needs_human_review"}
    BY <2>1, <2>4 DEF Report, Continues
  <2> QED BY <2>2, <2>3, <2>4
<1>11. CASE FenceRefuses(e)
  BY <1>11 DEF FenceRefuses, Continues
<1>12. CASE Vanish(e) \/ ReadRejected(e) \/ StopForCancellation(e)
  BY <1>12 DEF Vanish, ReadRejected, StopForCancellation, Stop, Continues
<1> QED
  BY <1>1, <1>2, <1>3, <1>4, <1>5, <1>6, <1>7, <1>8, <1>9, <1>10, <1>11, <1>12 DEF Handle
-----------------------------------------------------------------------------
(* Types *)

\* The type invariant beside what SyncInvariant says of the handler.
ReturnType ==
  /\ changes \in 0 .. MaxChanges
  /\ result \in [Execution -> Result]
  /\ outcome \in [Task -> Outcome] /\ cancel \in [Task -> BOOLEAN]
  /\ posted \subseteq Execution \cup {None} /\ confirmed \subseteq Execution

LEMMA BoundType == GC!TypeOK => action.resource \in Execution \cup {None}
BY DEF GC!TypeOK, GC!ActionRow, GC!Execution, GA!Execution, Execution

LEMMA FinishReturns ==
  ASSUME ReturnType, NEW e \in Execution, NEW newOutcome \in {"ready"} \cup Verdicts,
         NEW comment \in Execution \cup {None}, Finish(e, newOutcome, comment)
  PROVE  result' \in [Execution -> Result]
<1>1. [outcome |-> newOutcome, comment |-> comment] \in Result
  BY DEF Result, Verdicts
<1> QED BY <1>1 DEF ReturnType, Finish

\* The handler leaves the task to the runner.
LEMMA HandleKeepsTasks ==
  ASSUME NEW e, Handle(e)
  PROVE  UNCHANGED <<changes, outcome, cancel>> /\ confirmed' \in {confirmed, confirmed \cup {e}}
BY DEF Handle, Validate, FetchRecords, Decide, RecordCatalog, VerifyIdentity, FetchRepository,
       FetchIssue, RecordGithub, FetchJira, RecordJira, Advance, Confirm, Replay, InspectBound,
       Conclude, StateRefuses, Notify, FenceRefuses, Vanish, ReadRejected, StopForCancellation,
       Stop, Prelude, Publishing, sources, tasks

\* What a step of the handler leaves of the types.
LEMMA HandleReturns ==
  ASSUME ReturnType, GC!TypeOK, GC!TypeOK', NEW e \in Execution, Handle(e)
  PROVE  ReturnType'
<1>1. UNCHANGED <<changes, outcome, cancel>>
  BY HandleKeepsTasks
<1>2. confirmed' \in {confirmed, confirmed \cup {e}}
  BY HandleKeepsTasks
<1>3. /\ action.resource \in Execution \cup {None}
      /\ action'.resource \in Execution \cup {None}
  <2>1. (GC!TypeOK => action.resource \in Execution \cup {None})'
    BY BoundType, PTL
  <2> QED BY <2>1, BoundType
<1>4. result' \in [Execution -> Result] /\ posted' \subseteq Execution \cup {None}
  <2>1. CASE Notify(e)
    <3>1. result[e].comment \in Execution \cup {None}
      BY DEF ReturnType, Result
    <3> QED BY <2>1, <3>1 DEF Notify, ReturnType
  <2>2. CASE Continues(e)
    BY <2>2 DEF Continues, ReturnType
  <2>3. CASE Declines(e) \/ Succeeds(e)
    <3>1. /\ UNCHANGED posted
          /\ \E newOutcome \in {"ready"} \cup Verdicts, comment \in Execution \cup {None} :
               Finish(e, newOutcome, comment)
      BY <1>3, <2>3 DEF Declines, Succeeds
    <3> QED BY <3>1, FinishReturns DEF ReturnType
  <2> QED BY <2>1, <2>2, <2>3, HandleEnds
<1> QED BY <1>1, <1>2, <1>4 DEF ReturnType

LEMMA OutcomeType ==
  ASSUME ReturnType, NEW e \in Execution PROVE OutcomeOf(e) \in Outcome
BY DEF ReturnType, Result, OutcomeOf, Outcome

\* The runner, the customer and the world around.
LEMMA AroundReturns ==
  ASSUME ReturnType,
         \/ \E t \in Task, n \in 1 .. MaxAttempts : Claim(t, n)
         \/ \E e \in Execution : Finalise(e) \/ Recover(e) \/ Land(e)
         \/ \E t \in Task : Cancel(t)
         \/ Elsewhere \/ ChangeCatalog \/ ChangeTarget \/ ChangeJira
         \/ UNCHANGED vars
  PROVE  ReturnType' /\ UNCHANGED <<result, posted>>
<1> USE DEF ReturnType, sources, handler, tasks
<1>1. CASE \/ \E t \in Task, n \in 1 .. MaxAttempts : Claim(t, n)
           \/ \E e \in Execution : Land(e)
           \/ Elsewhere \/ UNCHANGED vars
  BY <1>1 DEF Claim, Land, Elsewhere, vars
<1>2. ASSUME NEW e \in Execution, Finalise(e) PROVE ReturnType' /\ UNCHANGED <<result, posted>>
  BY <1>2, OutcomeType DEF Finalise
<1>3. ASSUME NEW e \in Execution, Recover(e) PROVE ReturnType' /\ UNCHANGED <<result, posted>>
  BY <1>3 DEF Recover, Outcome
<1>4. CASE \E t \in Task : Cancel(t)
  BY <1>4 DEF Cancel, Outcome
<1>5. CASE ChangeCatalog \/ ChangeTarget \/ ChangeJira
  <2>1. changes < MaxChanges /\ changes' = changes + 1 /\ UNCHANGED <<handler, tasks>>
    BY <1>5 DEF ChangeCatalog, ChangeTarget, ChangeJira, Changing
  <2>2. changes' \in 0 .. MaxChanges
    BY <2>1, SyncAssumption
  <2> QED BY <2>1, <2>2
<1> QED BY <1>1, <1>2, <1>3, <1>4, <1>5

LEMMA ReturnTypeInit == Init => ReturnType
BY SyncAssumption DEF Init, ReturnType, NoResult, Result, Outcome

LEMMA ReturnTypeStep ==
  ReturnType /\ GC!TypeOK /\ GC!TypeOK' /\ [Next]_vars => ReturnType'
BY HandleReturns, AroundReturns DEF Next

\* The variables of the handler, its result and the task keep their types.
THEOREM SyncTypeCorrect == Spec => []TypeOK
<1>1. Spec => []GC!TypeOK
  BY SharedAssumption, SharedSpec, GC!ActionTypeCorrect
<1>2. SyncInvariant /\ ReturnType => TypeOK
  BY DEF SyncInvariant, SyncType, Observation, ReturnType, TypeOK
<1>3. Spec => []ReturnType
  BY <1>1, ReturnTypeInit, ReturnTypeStep, PTL DEF Spec
<1> QED BY <1>2, <1>3, SyncInvariantAlways, PTL
-----------------------------------------------------------------------------
(* What the handler returns and the row *)

\* A result that says ready names the comment of the row; while its execution
\* holds the fence, the row says that this execution's evidence was applied.
Published(e) ==
  /\ stage[e] = "slack" => result[e].outcome = "ready"
  /\ stage[e] \in {"slack", "returned"} /\ result[e].outcome = "ready" =>
       /\ result[e].comment # None /\ action.resource = result[e].comment
       /\ fenced[e] => action.status = "succeeded" /\ action.applied = Rendered(e).body

Announced == posted \subseteq {action.resource} /\ (posted # {} => action.resource # None)

\* What is known of the publication and of the handler at every step.
Background == ReturnType /\ EvidenceInvariant /\ GC!CommentInv /\ GC!Display

\* A step that keeps the results and the comment of the row keeps this for an
\* execution that the row is not written without.
LEMMA PublishedKept ==
  ASSUME NEW e \in Execution, Published(e), UNCHANGED wanted,
         stage'[e] = stage[e], result'[e] = result[e], seen'[e] = seen[e], cited'[e] = cited[e],
         action.resource # None => action'.resource = action.resource,
         fenced'[e] => /\ fenced[e]
                       /\ action'.status = action.status /\ action'.applied = action.applied
  PROVE  Published(e)'
<1>1. Rendered(e)' = Rendered(e)
  BY RenderedKept
<1> QED BY <1>1 DEF Published

\* The handler writes the row while it publishes, and with the fence.
LEMMA HandleWrites ==
  ASSUME NEW e \in Execution, Handle(e)
  PROVE  /\ UNCHANGED fenced
         /\ action' = action \/ (fenced[e] /\ stage[e] = "publish")
         /\ stage[e] \in {"slack", "returned"} => UNCHANGED <<seen, cited>>
<1> USE DEF Prelude, Publishing, publication
<1>1. CASE \/ Validate(e) \/ FetchRecords(e) \/ Decide(e)
           \/ \E r \in seen[e].records : RecordCatalog(e, r)
           \/ \E verified \in BOOLEAN : VerifyIdentity(e, verified)
           \/ FetchRepository(e) \/ FetchIssue(e) \/ RecordGithub(e)
           \/ FetchJira(e) \/ RecordJira(e) \/ Notify(e)
  BY <1>1 DEF Validate, FetchRecords, Decide, RecordCatalog, VerifyIdentity, FetchRepository,
              FetchIssue, RecordGithub, FetchJira, RecordJira, Notify
<1>2. CASE Advance(e)
  <2>1. stage[e] = "publish" /\ UNCHANGED <<seen, cited>>
    BY <1>2 DEF Advance
  <2>2. CASE GA!Reserve(e, Rendered(e)) \/ GA!Revise(e) \/ GA!Begin(e) \/ GA!Reconcile(e)
             \/ GA!StartWrite(e)
    BY <2>1, <2>2 DEF GA!Reserve, GA!Revise, GA!Begin, GA!Reconcile, GA!StartWrite,
                      GA!MayTransition, GA!GoOn
  <2>3. CASE \/ GA!LookUpBound(e) \/ GA!HoldOff(e) \/ GA!PassHoldoff(e) \/ GA!SearchFails(e)
             \/ GA!Send(e) \/ GA!SendFails(e) \/ GA!WriteUnknown(e) \/ GA!WriteRefused(e)
    BY <2>1, <2>3 DEF GA!LookUpBound, GA!HoldOff, GA!PassHoldoff, GA!SearchFails, GA!Send,
       GA!SendFails, GA!WriteUnknown, GA!WriteRefused, GA!Answered, GA!Judge, GA!Conclude
  <2>4. CASE GA!Search(e)
    <3>1. UNCHANGED <<action, fenced>>
      BY <2>4, Zenon DEF GA!Search, GA!Judge, GA!Conclude
    <3> QED BY <2>1, <3>1
  <2> QED BY <1>2, <2>2, <2>3, <2>4 DEF Advance
<1>3. CASE Confirm(e) \/ Replay(e) \/ InspectBound(e) \/ StateRefuses(e)
  BY <1>3 DEF Confirm, Replay, InspectBound, StateRefuses, GA!WriteSucceeds, GA!Answered,
     GA!ReserveEnds, GA!Inspect, GA!StateRefuses
<1>4. CASE Conclude(e)
  BY <1>4 DEF Conclude, GA!ReconcileEnds, GA!RecordWrite, GA!MayTransition
<1>5. CASE FenceRefuses(e)
  BY <1>5 DEF FenceRefuses, GA!FenceRefuses
<1>6. CASE Vanish(e) \/ ReadRejected(e) \/ StopForCancellation(e)
  BY <1>6 DEF Vanish, ReadRejected, StopForCancellation, Stop, GA!Abandon
<1> QED BY <1>1, <1>2, <1>3, <1>4, <1>5, <1>6 DEF Handle
\* What the row says of the comment survives the steps of GithubAction.
LEMMA CommentStays ==
  ASSUME OneTask, SyncInvariant, GC!CommentInv, [Next]_vars, action.resource # None
  PROVE  action'.resource = action.resource
<1>1. [GC!Next]_GC!vars
  BY SharedStep
<1> QED BY <1>1, SharedAssumption, GC!BoundStep DEF OneTask

\* At most one execution of the task holds the fence.
LEMMA OneHolder ==
  ASSUME OneTask, GC!CommentInv, NEW e \in Execution, NEW x \in Execution, fenced[e], fenced[x]
  PROVE  e = x
<1>1. GC!Successive /\ GC!OneTask
  BY DEF GC!CommentInv, OneTask
<1>2. e \in GC!Execution /\ x \in GC!Execution
  BY DEF Execution, GA!Execution, GC!Execution
<1> QED BY <1>1, <1>2, SharedAssumption, GC!OneFenced

\* When the handler is about to return ready, the row records its evidence.
LEMMA ReadyIsRecorded ==
  ASSUME Background, NEW e \in Execution, Succeeds(e)
  PROVE  /\ action'.status = "succeeded" /\ action'.resource # None
         /\ action'.applied = Rendered(e).body
<1>1. /\ action \in GC!ActionRow /\ GC!RowConstraints /\ GC!SuccessIsCurrent
      /\ GC!ConclusionInv /\ Faithful(e)
  BY DEF Background, GC!CommentInv, GC!ActionInv, GC!TypeOK, GC!Knowledge, GC!Bound,
         EvidenceInvariant
<1>2. CASE GA!ReserveEnds(e, Rendered(e)) /\ GA!Replays(Rendered(e)) /\ action.status = "succeeded"
  <2>1. action' = action /\ action.desired = Rendered(e).body
    BY <1>2 DEF GA!ReserveEnds, GA!Replays
  <2> QED BY <1>1, <1>2, <2>1 DEF GC!RowConstraints, GC!SuccessIsCurrent
<1>3. CASE (GA!ReconcileEnds(e) \/ GA!RecordWrite(e)) /\ goal[e] = "succeeded"
  <2>1. pc[e] \in {"reconciled", "written"} /\ action' = GA!Concluded(e)
    BY <1>3 DEF GA!ReconcileEnds, GA!RecordWrite, GA!MayTransition
  <2>2. evidence[e] = Rendered(e)
    BY <1>1, <2>1 DEF Faithful, Working
  <2>3. found[e] \in Execution
    BY <1>1, <1>3, <2>1 DEF GC!ConclusionInv, GC!Conclusion, GC!Execution, GA!Execution, Execution
  <2>4. /\ action'.status = "succeeded" /\ action'.resource = found[e]
        /\ action'.applied = evidence[e].body
    BY <1>1, <1>3, <2>1 DEF GA!Concluded, GC!ActionRow
  <2> QED BY <2>2, <2>3, <2>4, SyncAssumption
<1> QED BY <1>2, <1>3 DEF Succeeds

\* A step of the handler of one execution.
LEMMA HandlePublishes ==
  ASSUME OneTask, Background, \A e \in Execution : Published(e), Announced,
         NEW e \in Execution, Handle(e)
  PROVE  (\A x \in Execution : Published(x)') /\ Announced'
<1>0. SyncInvariant /\ SyncType /\ Trusted(e) /\ Documented(e) /\ GC!CommentInv /\ Published(e)
  BY DEF Background, EvidenceInvariant, SyncInvariant
<1>1. Sound(e) /\ Accounted(e)
  BY <1>0, HandleSound, HandleAccounted
<1>2. /\ UNCHANGED fenced
      /\ action' = action \/ (fenced[e] /\ stage[e] = "publish")
      /\ stage[e] \in {"slack", "returned"} => UNCHANGED <<seen, cited>>
  BY HandleWrites
<1>3. action.resource # None => action'.resource = action.resource
  <2>1. [Next]_vars
    BY DEF Next
  <2> QED BY <1>0, <2>1, CommentStays
<1>4. UNCHANGED wanted /\ DOMAIN result = Execution /\ stage \in [Execution -> Stage]
  BY <1>0, <1>1 DEF Sound, SyncType
<1>5. ASSUME NEW x \in Execution \ {e} PROVE Published(x)'
  <2>1. /\ stage'[x] = stage[x] /\ result'[x] = result[x] /\ seen'[x] = seen[x]
        /\ cited'[x] = cited[x]
    BY <1>1, <1>5 DEF Sound, Kept, Accounted
  <2>2. fenced'[x] => fenced[x] /\ action' = action
    BY <1>0, <1>2, <1>5, OneHolder
  <2> QED BY <1>3, <1>4, <2>1, <2>2, PublishedKept
<1>6. Published(e)' /\ Announced'
  <2>1. CASE Notify(e)
    <3>1. /\ stage[e] = "slack" /\ UNCHANGED <<action, fenced, result, seen, cited>>
          /\ stage'[e] = "returned" /\ posted' \subseteq posted \cup {result[e].comment}
      BY <1>0, <2>1, StageOf DEF Notify, publication
    <3>2. Rendered(e)' = Rendered(e)
      BY <1>4, <3>1, RenderedKept
    <3> QED BY <1>0, <3>1, <3>2 DEF Published, Announced
  <2>2. CASE Continues(e) /\ stage' = stage
    <3>1. UNCHANGED <<posted, result>>
      BY <2>2 DEF Continues
    <3>2. Announced'
      BY <1>3, <3>1 DEF Announced
    <3>3. CASE stage[e] \in {"slack", "returned"}
      BY <1>0, <1>2, <1>4, <2>2, <3>1, <3>2, <3>3, PublishedKept
    <3>4. CASE stage[e] \notin {"slack", "returned"}
      BY <2>2, <3>2, <3>4 DEF Published
    <3> QED BY <3>3, <3>4
  <2>3. CASE Continues(e) /\ stage' # stage
    <3>1. stage'[e] \notin {"slack", "returned"} /\ UNCHANGED posted
      BY <1>0, <2>3, StageOf DEF Continues
    <3> QED BY <1>3, <3>1 DEF Published, Announced
  <2>4. CASE Declines(e)
    <3>0. PICK newOutcome \in Verdicts : \E comment : Finish(e, newOutcome, comment)
      BY <2>4 DEF Declines
    <3>1. PICK comment : Finish(e, newOutcome, comment)
      BY <3>0
    <3>2. stage'[e] # "slack"
      BY <1>0, <3>1, StageAtEnd DEF Verdicts
    <3>3. result'[e].outcome = newOutcome
      BY <1>4, <3>1 DEF Finish
    <3>4. UNCHANGED posted
      BY <2>4 DEF Declines
    <3> QED BY <1>3, <3>2, <3>3, <3>4 DEF Published, Announced, Verdicts
  <2>5. CASE Succeeds(e)
    <3>1. /\ action'.status = "succeeded" /\ action'.resource # None
          /\ action'.applied = Rendered(e).body
      BY <2>5, ReadyIsRecorded
    <3>2. result'[e] = [outcome |-> "ready", comment |-> action'.resource]
      BY <1>4, <2>5 DEF Succeeds, Finish
    <3>3. Rendered(e)' = Rendered(e)
      BY <2>5, RenderedKept DEF Succeeds
    <3> QED BY <1>3, <2>5, <3>1, <3>2, <3>3 DEF Succeeds, Published, Announced
  <2> QED BY <2>1, <2>2, <2>3, <2>4, <2>5, HandleEnds
<1> QED BY <1>5, <1>6
\* A new attempt, and the steps of the runner, of people and of the providers.
LEMMA OthersPublish ==
  ASSUME OneTask, Background, \A e \in Execution : Published(e), Announced, [Next]_vars,
         ~\E e \in Execution : Handle(e)
  PROVE  (\A x \in Execution : Published(x)') /\ Announced'
<1>0. SyncInvariant /\ SyncType /\ GC!CommentInv /\ action \in GC!ActionRow
  BY DEF Background, EvidenceInvariant, SyncInvariant, GC!CommentInv, GC!ActionInv, GC!TypeOK
<1>1. action.resource # None => action'.resource = action.resource
  BY <1>0, CommentStays
<1>2. ASSUME NEW t \in Task, NEW n \in 1 .. MaxAttempts, Claim(t, n)
      PROVE  (\A x \in Execution : Published(x)') /\ Announced'
  <2> DEFINE e == <<t, n>>
  <2>1. /\ e \in Execution /\ Go(e, "validate")
        /\ UNCHANGED <<wanted, action, seen, cited, result, posted>>
        /\ fenced' = [fenced EXCEPT ![e] = TRUE]
    BY <1>2 DEF Claim, GA!Claim, Execution, GA!Execution, tasks
  <2>2. ASSUME NEW x \in Execution \ {e} PROVE Published(x)'
    <3>1. stage'[x] = stage[x] /\ fenced'[x] = fenced[x]
      BY <1>0, <2>1 DEF Go, SyncType, GC!CommentInv, GC!ActionInv, GC!TypeOK, GC!Execution,
                        GA!Execution, Execution
    <3> QED BY <2>1, <3>1, PublishedKept
  <2>3. stage'[e] = "validate"
    BY <1>0, <2>1, StageOf
  <2> QED BY <2>1, <2>2, <2>3 DEF Published, Announced
<1>3. CASE \/ \E e \in Execution : Finalise(e) \/ Recover(e) \/ Land(e)
           \/ \E t \in Task : Cancel(t)
           \/ Elsewhere \/ ChangeCatalog \/ ChangeTarget \/ ChangeJira \/ UNCHANGED vars
  <2> USE DEF sources, handler, tasks, publication, Changing
  <2>1. UNCHANGED <<wanted, stage, seen, cited, result, posted>>
    BY <1>3 DEF Finalise, Recover, Land, Cancel, Elsewhere, ChangeCatalog, ChangeTarget, ChangeJira,
                vars
  <2>2. action' = action \/ action' = [action EXCEPT !.holdoff = "passed"]
    BY <1>3 DEF Finalise, Recover, Land, Cancel, Elsewhere, ChangeCatalog, ChangeTarget, ChangeJira,
                vars, GA!FenceLost, GA!Land, GA!Refuse, GA!Tamper, GA!HoldoffPasses
  <2>3. action'.status = action.status /\ action'.applied = action.applied
    BY <1>0, <2>2 DEF GC!ActionRow
  <2>4. fenced' = fenced \/ \E e : fenced' = [fenced EXCEPT ![e] = FALSE]
    BY <1>3 DEF Finalise, Recover, Land, Cancel, Elsewhere, ChangeCatalog, ChangeTarget, ChangeJira,
                vars, GA!FenceLost, GA!Land, GA!Refuse, GA!Tamper, GA!HoldoffPasses
  <2>5. \A x \in Execution : fenced'[x] => fenced[x]
    BY <1>0, <2>4 DEF GC!CommentInv, GC!ActionInv, GC!TypeOK, GC!Execution, GA!Execution, Execution
  <2> QED BY <1>1, <2>1, <2>3, <2>5, PublishedKept DEF Announced
<1> QED BY <1>2, <1>3 DEF Next

OutcomeInv == Background /\ (\A e \in Execution : Published(e)) /\ Announced

LEMMA OutcomeInvStep ==
  ASSUME OneTask PROVE OutcomeInv /\ Background' /\ [Next]_vars => OutcomeInv'
BY HandlePublishes, OthersPublish DEF OutcomeInv

LEMMA BackgroundAlways == OneTask => (Spec => []Background)
<1> SUFFICES ASSUME OneTask PROVE Spec => []Background
  OBVIOUS
<1>1. Spec => [](GC!CommentInv /\ GC!Display)
  BY SharedAssumption, SharedSpec, GC!DisplayInvariance DEF OneTask
<1>2. Spec => []GC!TypeOK
  BY SharedAssumption, SharedSpec, GC!ActionTypeCorrect
<1>3. Spec => []ReturnType
  BY <1>2, ReturnTypeInit, ReturnTypeStep, PTL DEF Spec
<1>4. Spec => []EvidenceInvariant
  BY EvidenceInit, EvidenceStep, PTL DEF Spec
<1> QED BY <1>1, <1>3, <1>4, PTL DEF Background

LEMMA OutcomeInvariance == OneTask => (Spec => []OutcomeInv)
<1> SUFFICES ASSUME OneTask PROVE Spec => []OutcomeInv
  OBVIOUS
<1>1. Init => (\A e \in Execution : Published(e)) /\ Announced
  BY DEF Init, NoResult, Published, Announced
<1>2. Spec => []Background
  BY BackgroundAlways
<1>3. OutcomeInv /\ Background' /\ [Next]_vars => OutcomeInv'
  BY OutcomeInvStep
<1> QED BY <1>1, <1>2, <1>3, PTL DEF Spec, OutcomeInv

\* Slack is only ever told of the comment that the ledger records, which is
\* the one the handler wrote or found before it asked Slack, in every attempt:
\* no later attempt binds another comment behind a message.
THEOREM SlackNamesTheComment == OneTask => (Spec => []SlackAfterGithub)
<1> SUFFICES ASSUME OneTask PROVE Spec => []SlackAfterGithub
  OBVIOUS
<1>1. OutcomeInv => SlackAfterGithub
  <2> SUFFICES ASSUME OutcomeInv, posted # {} PROVE posted = {action.resource} /\ action.applied # None
    BY DEF SlackAfterGithub
  <2>1. posted = {action.resource} /\ action.resource # None
    BY DEF OutcomeInv, Announced
  <2>2. action \in GC!ActionRow /\ GC!RowConstraints /\ GC!Display
    BY DEF OutcomeInv, Background, GC!CommentInv, GC!ActionInv, GC!TypeOK
  <2>3. action.revision \in Nat
    BY <2>2 DEF GC!ActionRow
  <2>4. CASE action.revision > 1
    BY <2>1, <2>2, <2>4 DEF GC!RowConstraints
  <2>5. CASE action.revision <= 1
    BY <2>1, <2>2, <2>5 DEF GC!Display, GC!RowConstraints
  <2> QED BY <2>1, <2>3, <2>4, <2>5
<1> QED BY <1>1, OutcomeInvariance, PTL

\* A task ends as ready only when the row says that the evidence of this very
\* execution was applied to the comment it reports, and the issue shows it
\* (unless people have changed it), for the comment and its first update.
THEOREM ReadyIsTrue == OneTask => (Spec => OutcomeIsTrue)
<1> SUFFICES ASSUME OneTask PROVE Spec => OutcomeIsTrue
  OBVIOUS
<1>1. ASSUME OutcomeInv, [Next]_vars, NEW e \in Execution,
             stage[e] = "returned", outcome'[e[1]] = "ready", outcome[e[1]] = "none", fenced[e]
      PROVE  /\ action.status = "succeeded" /\ action.resource = result[e].comment
             /\ action.applied = Rendered(e).body
             /\ action.revision <= 2 =>
                  comments[action.resource] \in
                    {Rendered(e).body} \cup (IF Tampering THEN {None, Edited, Unmarked} ELSE {})
  <2>1. Background /\ Published(e) /\ GC!CommentInv /\ e[1] \in Task
        /\ outcome \in [Task -> Outcome] /\ cancel \in [Task -> BOOLEAN]
    BY <1>1, ExecutionType DEF OutcomeInv, Background, ReturnType
  <2>2. PICK x \in Execution : Finalise(x) /\ x[1] = e[1] /\ OutcomeOf(x) = "ready"
    <3>1. outcome' # outcome
      BY <1>1
    <3>2. CASE \E x \in Execution : Finalise(x)
      BY <1>1, <2>1, <3>2 DEF Finalise
    <3>3. ~\E x \in Execution : Recover(x)
      BY <1>1, <2>1, ExecutionType DEF Recover
    <3>4. ~\E t \in Task : Cancel(t)
      BY <1>1, <2>1 DEF Cancel
    <3>5. ~\/ \E t \in Task, n \in 1 .. MaxAttempts : Claim(t, n)
           \/ \E x \in Execution : Handle(x) \/ Land(x)
           \/ Elsewhere \/ ChangeCatalog \/ ChangeTarget \/ ChangeJira
           \/ UNCHANGED vars
      BY <3>1, HandleKeepsTasks DEF Claim, Land, Elsewhere, ChangeCatalog, ChangeTarget,
         ChangeJira, Changing, vars, tasks
    <3> QED BY <1>1, <3>2, <3>3, <3>4, <3>5 DEF Next
  <2>3. x = e
    BY <1>1, <2>1, <2>2, OneHolder DEF Finalise, GA!FenceLost
  <2>4. result[e].outcome = "ready"
    BY <2>2, <2>3 DEF OutcomeOf
  <2>5. /\ action.status = "succeeded" /\ action.resource = result[e].comment
        /\ action.applied = Rendered(e).body
    BY <1>1, <2>1, <2>4 DEF Published
  <2>6. GC!SuccessIsShown
    BY <2>1, SharedAssumption, GC!DisplayShows DEF Background
  <2> QED BY <2>5, <2>6 DEF GC!SuccessIsShown
<1>2. OutcomeInv /\ [Next]_vars =>
        [\A e \in Execution :
           stage[e] = "returned" /\ outcome'[e[1]] = "ready" /\ outcome[e[1]] = "none" /\ fenced[e] =>
             /\ action.status = "succeeded" /\ action.resource = result[e].comment
             /\ action.applied = Rendered(e).body
             /\ action.revision <= 2 =>
                  comments[action.resource] \in
                    {Rendered(e).body}
                      \cup (IF Tampering THEN {None, Edited, Unmarked} ELSE {})]_outcome
  BY <1>1
<1> QED BY <1>2, OutcomeInvariance, PTL DEF Spec, OutcomeIsTrue
=============================================================================
