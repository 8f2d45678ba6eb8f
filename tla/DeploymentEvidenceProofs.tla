----------------------- MODULE DeploymentEvidenceProofs -----------------------
(***************************************************************************)
(* Theorem about DeploymentSync: what is published is what was read and    *)
(* recorded (EvidenceOnRecord).  Documented follows the artifacts through  *)
(* the stages of the handler, Faithful the rendered evidence through the   *)
(* steps of the publication.                                               *)
(***************************************************************************)
EXTENDS DeploymentSyncProofs

Contents(e) == {a.content : a \in cited[e]}
Payloads(e) == {Payload(r) : r \in seen[e].records}

OpenTarget(e) == seen[e].target.repository = "named" /\ seen[e].target.issue = "open"

\* What an execution refers to at each stage.
Documented(e) ==
  /\ cited[e] \subseteq artifacts
  /\ stage[e] \in {"idle", "validate", "catalog"} => Contents(e) = {}
  /\ stage[e] = "record_catalog" => Contents(e) \subseteq Payloads(e)
  /\ stage[e] \in {"identity", "repository", "issue", "record_github"} =>
       Contents(e) = Payloads(e)
  /\ stage[e] = "record_github" =>
       seen[e].target.repository # "other" /\ seen[e].target.issue # "other"
  /\ stage[e] \in {"jira", "record_jira", "publish", "slack"} => OpenTarget(e)
  /\ stage[e] \in {"jira", "record_jira"} => Contents(e) = Payloads(e) \cup {seen[e].target}
  /\ stage[e] \in {"publish", "slack"} =>
       Contents(e) = Payloads(e) \cup {seen[e].target, seen[e].jira}

\* Points at which the publication holds the evidence it was given.
Working ==
  {"inspect", "revise", "begin", "lookup", "search", "reconciled", "write", "send", "await",
   "written"}

Faithful(e) ==
  /\ pc[e] \in Working => stage[e] = "publish" /\ evidence[e] = Rendered(e)
  /\ pc[e] = "await" /\ wire[e].state = "flying" => wire[e].body = Rendered(e).body

PublicationDomains ==
  DOMAIN pc = Execution /\ DOMAIN evidence = Execution /\ DOMAIN wire = Execution

EvidenceInvariant ==
  /\ SyncInvariant
  /\ PublicationDomains
  /\ \A e \in Execution : Documented(e) /\ Faithful(e)

-----------------------------------------------------------------------------
(* The artifacts *)

\* Recording adds the content to what the execution refers to, and to nothing
\* another one refers to.
LEMMA RecordContents ==
  ASSUME SyncType, NEW e \in Execution, cited[e] \subseteq artifacts,
         NEW provider, NEW content, Record(e, provider, content)
  PROVE  /\ Contents(e)' = Contents(e) \cup {content}
         /\ cited'[e] \subseteq artifacts' /\ artifacts \subseteq artifacts'
         /\ \A x \in Execution \ {e} : cited'[x] = cited[x]
<1> DEFINE known == Same(e[1], provider, content)
           new == [task |-> e[1], provider |-> provider, content |-> content, observedBy |-> e]
           rows == IF known = {} THEN {new} ELSE known
<1>1. /\ artifacts' = artifacts \cup rows
      /\ cited' = [cited EXCEPT ![e] = @ \cup rows]
  BY DEF Record
<1>2. rows # {} /\ \A a \in rows : a.content = content
  <2>1. \A a \in known : a.content = content
    BY DEF Same
  <2>2. new.content = content
    OBVIOUS
  <2> HIDE DEF known, new
  <2> QED BY <2>1, <2>2
<1> HIDE DEF rows
<1>3. cited'[e] = cited[e] \cup rows /\ \A x \in Execution \ {e} : cited'[x] = cited[x]
  BY <1>1 DEF SyncType
<1>4. Contents(e)' = Contents(e) \cup {content}
  BY <1>2, <1>3 DEF Contents
<1> QED BY <1>1, <1>3, <1>4

LEMMA StageOf ==
  ASSUME SyncType, NEW e \in Execution, NEW s, Go(e, s)
  PROVE  stage'[e] = s
BY DEF SyncType, Go

LEMMA StageAtEnd ==
  ASSUME SyncType, NEW e \in Execution, NEW newOutcome, NEW comment,
         Finish(e, newOutcome, comment)
  PROVE  stage'[e] \in {"slack", "returned"} /\ (stage'[e] = "slack" => newOutcome = "ready")
BY FinishType

\* What a step of execution e has to achieve.
Accounted(e) ==
  /\ Documented(e)'
  /\ artifacts \subseteq artifacts'
  /\ \A x \in Execution \ {e} : cited'[x] = cited[x]

-----------------------------------------------------------------------------
(* The steps of the handler *)

\* A step that ends the handler, or moves on without reading or recording.
LEMMA EndAccounted ==
  ASSUME SyncType, NEW e \in Execution, Documented(e),
         UNCHANGED <<artifacts, seen, cited>>,
         stage'[e] \in {stage[e], "returned", "gone", "gave_up", "cancelled"}
  PROVE  Accounted(e)
BY DEF Accounted, Documented, Contents, Payloads, OpenTarget

LEMMA PolicyAccounted ==
  ASSUME SyncType, NEW e \in Execution, Documented(e),
         \/ Validate(e) \/ FetchRecords(e) \/ Decide(e)
         \/ \E r \in seen[e].records : RecordCatalog(e, r)
  PROVE  Accounted(e)
<1> USE DEF Prelude
<1>1. CASE Validate(e)
  <2>1. /\ stage[e] = "validate" /\ UNCHANGED <<artifacts, seen, cited>>
        /\ Go(e, "catalog") \/ Finish(e, "blocked", None)
    BY <1>1 DEF Validate
  <2>2. stage'[e] \in {"catalog", "returned"}
    BY <2>1, StageOf, StageAtEnd
  <2> QED BY <2>1, <2>2 DEF Accounted, Documented, Contents
<1>2. CASE FetchRecords(e)
  <2>1. stage[e] = "catalog" /\ Go(e, "record_catalog") /\ UNCHANGED <<artifacts, cited>>
    BY <1>2 DEF FetchRecords
  <2>2. stage'[e] = "record_catalog"
    BY <2>1, StageOf
  <2>3. Contents(e)' = {}
    BY <2>1 DEF Documented, Contents
  <2> QED BY <2>1, <2>2, <2>3 DEF Accounted, Documented
<1>3. ASSUME NEW r \in seen[e].records, RecordCatalog(e, r)
      PROVE  Accounted(e)
  <2>1. /\ stage[e] = "record_catalog" /\ Record(e, "service_catalog", Payload(r))
        /\ UNCHANGED <<stage, seen>>
    BY <1>3 DEF RecordCatalog
  <2>2. /\ Contents(e)' = Contents(e) \cup {Payload(r)}
        /\ cited'[e] \subseteq artifacts' /\ artifacts \subseteq artifacts'
        /\ \A x \in Execution \ {e} : cited'[x] = cited[x]
    BY <2>1, RecordContents DEF Documented
  <2>3. Contents(e)' \subseteq Payloads(e)'
    BY <2>1, <2>2 DEF Documented, Payloads
  <2> QED BY <2>1, <2>2, <2>3 DEF Accounted, Documented
<1>4. CASE Decide(e)
  <2>1. /\ stage[e] = "record_catalog" /\ UNCHANGED <<artifacts, seen, cited>>
        /\ \A r \in seen[e].records : Recorded(e, r)
        /\ \/ Go(e, "identity")
           \/ Finish(e, Evaluation(e).outcome, None) /\ Evaluation(e).outcome # "ready"
    BY <1>4 DEF Decide, MayRead
  <2>2. stage'[e] \in {"identity", "returned"}
    BY <2>1, StageOf, StageAtEnd
  <2>3. Payloads(e) \subseteq Contents(e)
    BY <2>1 DEF Recorded, Payloads, Contents
  <2>4. Contents(e)' = Payloads(e)'
    BY <2>1, <2>3 DEF Documented, Payloads, Contents
  <2> QED BY <2>1, <2>2, <2>4 DEF Accounted, Documented
<1> QED BY <1>1, <1>2, <1>3, <1>4

LEMMA ReadingAccounted ==
  ASSUME SyncType, NEW e \in Execution, Trusted(e), Documented(e),
         \/ \E verified \in BOOLEAN : VerifyIdentity(e, verified)
         \/ FetchRepository(e) \/ FetchIssue(e) \/ FetchJira(e)
  PROVE  Accounted(e)
<1> USE DEF Prelude
<1> DEFINE Read(s) == \/ Go(e, s)
                     \/ Finish(e, "needs_human_review", None)
<1>1. ASSUME NEW verified \in BOOLEAN, VerifyIdentity(e, verified)
      PROVE  Accounted(e)
  <2>1. /\ stage[e] = "identity" /\ UNCHANGED <<artifacts, seen, cited>>
        /\ Read("repository")
    BY <1>1 DEF VerifyIdentity, Review
  <2>2. stage'[e] \in {"repository", "returned"}
    BY <2>1, StageOf, StageAtEnd
  <2> QED BY <2>1, <2>2 DEF Accounted, Documented, Contents, Payloads
<1>2. CASE FetchRepository(e)
  <2>1. /\ stage[e] = "repository" /\ UNCHANGED <<artifacts, cited>> /\ Go(e, "issue")
        /\ seen' = [seen EXCEPT ![e].target =
             [repository |-> target.repository, issue |-> "other", sourceVersion |-> 0]]
    BY <1>2 DEF FetchRepository
  <2>2. stage'[e] = "issue"
    BY <2>1, StageOf
  <2>3. seen'[e].records = seen[e].records
    BY <2>1 DEF SyncType, Observation
  <2> QED BY <2>1, <2>2, <2>3 DEF Accounted, Documented, Contents, Payloads
<1>3. CASE FetchIssue(e)
  <2> DEFINE read == [target EXCEPT !.repository = seen[e].target.repository]
  <2>1. /\ stage[e] = "issue" /\ UNCHANGED <<artifacts, cited>>
        /\ seen' = [seen EXCEPT ![e].target = read]
        /\ \/ read.repository # "other" /\ read.issue # "other" /\ Go(e, "record_github")
           \/ Finish(e, "needs_human_review", None)
    BY <1>3 DEF FetchIssue, Review
  <2>2. stage'[e] \in {"record_github", "returned"}
        /\ (stage'[e] = "record_github" => read.repository # "other" /\ read.issue # "other")
    BY <2>1, StageOf, StageAtEnd
  <2>3. seen'[e].records = seen[e].records /\ seen'[e].target = read
    BY <2>1 DEF SyncType, Observation
  <2> QED BY <2>1, <2>2, <2>3 DEF Accounted, Documented, Contents, Payloads
<1>4. CASE FetchJira(e)
  <2>1. /\ stage[e] = "jira" /\ UNCHANGED <<artifacts, cited>>
        /\ seen' = [seen EXCEPT ![e].jira = jira]
        /\ Read("record_jira")
    BY <1>4 DEF FetchJira, Review
  <2>2. stage'[e] \in {"record_jira", "returned"}
    BY <2>1, StageOf, StageAtEnd
  <2>3. seen'[e].records = seen[e].records /\ seen'[e].target = seen[e].target
    BY <2>1 DEF SyncType, Observation
  <2> QED BY <2>1, <2>2, <2>3 DEF Accounted, Documented, Contents, Payloads, OpenTarget
<1> QED BY <1>1, <1>2, <1>3, <1>4

LEMMA RecordingAccounted ==
  ASSUME SyncType, NEW e \in Execution, Trusted(e), Documented(e),
         RecordGithub(e) \/ RecordJira(e)
  PROVE  Accounted(e)
<1> USE DEF Prelude
<1>1. CASE RecordGithub(e)
  <2>1. /\ stage[e] = "record_github" /\ Record(e, "github", seen[e].target) /\ UNCHANGED seen
        /\ \/ OpenTarget(e) /\ Go(e, "jira")
           \/ \E newOutcome \in {"blocked", "needs_human_review"} : Finish(e, newOutcome, None)
    <3>1. seen[e].target \in Target /\ seen[e].target.repository # "other"
          /\ seen[e].target.issue # "other"
      BY <1>1 DEF RecordGithub, Trusted, Documented
    <3>2. /\ seen[e].target.repository \in {"named", "archived"}
          /\ seen[e].target.issue \in {"open", "closed", "pull_request"}
      BY <3>1 DEF Target, Repo, Issue
    <3> QED BY <1>1, <3>2 DEF RecordGithub, Review, OpenTarget
  <2>2. stage'[e] \in {"jira", "returned"} /\ (stage'[e] = "jira" => OpenTarget(e))
    BY <2>1, StageOf, StageAtEnd
  <2>3. /\ Contents(e)' = Contents(e) \cup {seen[e].target}
        /\ cited'[e] \subseteq artifacts' /\ artifacts \subseteq artifacts'
        /\ \A x \in Execution \ {e} : cited'[x] = cited[x]
    BY <2>1, RecordContents DEF Documented
  <2> QED BY <2>1, <2>2, <2>3 DEF Accounted, Documented, Payloads, OpenTarget
<1>2. CASE RecordJira(e)
  <2>1. /\ stage[e] = "record_jira" /\ Record(e, "jira", seen[e].jira) /\ UNCHANGED seen
        /\ Go(e, "publish")
    BY <1>2 DEF RecordJira
  <2>2. stage'[e] = "publish"
    BY <2>1, StageOf
  <2>3. /\ Contents(e)' = Contents(e) \cup {seen[e].jira}
        /\ cited'[e] \subseteq artifacts' /\ artifacts \subseteq artifacts'
        /\ \A x \in Execution \ {e} : cited'[x] = cited[x]
    BY <2>1, RecordContents DEF Documented
  <2> QED BY <2>1, <2>2, <2>3 DEF Accounted, Documented, Payloads, OpenTarget
<1> QED BY <1>1, <1>2

LEMMA PublicationAccounted ==
  ASSUME SyncType, NEW e \in Execution, Documented(e),
         \/ Advance(e) \/ Confirm(e) \/ Replay(e) \/ InspectBound(e) \/ Conclude(e)
         \/ StateRefuses(e) \/ Notify(e) \/ FenceRefuses(e) \/ Vanish(e) \/ ReadRejected(e)
         \/ StopForCancellation(e)
  PROVE  Accounted(e)
<1>1. UNCHANGED <<artifacts, seen, cited>>
  BY DEF Advance, Confirm, Replay, InspectBound, Conclude, StateRefuses, Notify, FenceRefuses,
         Vanish, ReadRejected, StopForCancellation, Stop, Publishing
<1>2. CASE \/ UNCHANGED stage
           \/ \E s \in {"returned", "gone", "gave_up", "cancelled"} : Go(e, s)
  BY <1>1, <1>2, StageOf, EndAccounted
<1>3. CASE stage[e] = "publish" /\ \E newOutcome, comment : Finish(e, newOutcome, comment)
  <2>1. stage'[e] \in {"slack", "returned"}
    BY <1>3, StageAtEnd
  <2> QED BY <1>1, <1>3, <2>1 DEF Accounted, Documented, Contents, Payloads, OpenTarget
<1>4. \/ UNCHANGED stage
      \/ \E s \in {"returned", "gone", "gave_up", "cancelled"} : Go(e, s)
      \/ stage[e] = "publish" /\ \E newOutcome, comment : Finish(e, newOutcome, comment)
  <2>1. CASE Advance(e) \/ Confirm(e)
    BY <2>1 DEF Advance, Confirm
  <2>2. CASE Replay(e) \/ InspectBound(e)
    BY <2>2 DEF Replay, InspectBound, Publishing
  <2>3. CASE Conclude(e)
    BY <2>3 DEF Conclude, Publishing, Report
  <2>4. CASE StateRefuses(e) \/ FenceRefuses(e)
    BY <2>4 DEF StateRefuses, FenceRefuses
  <2>5. CASE Notify(e)
    BY <2>5 DEF Notify
  <2>6. CASE Vanish(e) \/ ReadRejected(e) \/ StopForCancellation(e)
    BY <2>6 DEF Vanish, ReadRejected, StopForCancellation, Stop
  <2> QED BY <2>1, <2>2, <2>3, <2>4, <2>5, <2>6
<1> QED BY <1>2, <1>3, <1>4

LEMMA HandleAccounted ==
  ASSUME SyncType, NEW e \in Execution, Trusted(e), Documented(e), Handle(e)
  PROVE  Accounted(e)
BY PolicyAccounted, ReadingAccounted, RecordingAccounted, PublicationAccounted DEF Handle

-----------------------------------------------------------------------------
(* The steps of the publication *)

\* A step of the publication touches the locals and the request of execution
\* e only.
Alone(e) ==
  /\ PublicationDomains'
  /\ \A x \in Execution \ {e} :
       pc'[x] = pc[x] /\ evidence'[x] = evidence[x] /\ wire'[x] = wire[x]

\* What the steps of the publication do to the evidence of an execution: it is
\* given at the reservation and kept until the coroutine is over, and a
\* request is sent with its body.
Carries(e, seenNow) ==
  /\ Alone(e)
  /\ pc'[e] \in Working => (pc[e] \in Working /\ evidence'[e] = evidence[e])
                           \/ (pc[e] = "reserve" /\ evidence'[e] = seenNow)
  /\ pc'[e] = "await" => \/ pc[e] = "await" /\ wire'[e] = wire[e]
                         \/ pc[e] = "send" /\ wire'[e].body = evidence[e].body

LEMMA LeaveCarries ==
  ASSUME PublicationDomains, NEW e \in Execution, NEW p \in {"ended", "surprised"},
         GA!Leave(e, p), NEW seenNow
  PROVE  Carries(e, seenNow) /\ pc'[e] \notin Working
BY DEF PublicationDomains, GA!Leave, Carries, Alone, Working

\* The execution goes on at p, and only at p.
LEMMA MoveCarries ==
  ASSUME PublicationDomains, NEW e \in Execution, NEW p, p # "await",
         pc' = [pc EXCEPT ![e] = p], UNCHANGED wire, NEW seenNow,
         \/ pc[e] \in Working /\ UNCHANGED evidence
         \/ pc[e] = "reserve" /\ evidence' = [evidence EXCEPT ![e] = seenNow]
  PROVE  Carries(e, seenNow)
BY DEF PublicationDomains, Carries, Alone

LEMMA AdvanceCarries ==
  ASSUME PublicationDomains, NEW e \in Execution, Advance(e)
  PROVE  Carries(e, Rendered(e))
<1> DEFINE rendered == Rendered(e)
<1> HIDE DEF rendered
<1> SUFFICES Carries(e, rendered)
  BY DEF rendered
<1>0. {"inspect", "revise", "begin", "lookup", "search", "reconciled", "write", "send", "await",
       "written"} \subseteq Working
  BY DEF Working
<1>1. ASSUME GA!Reserve(e, rendered)
      PROVE  Carries(e, rendered)
  <2>1. /\ pc[e] = "reserve" /\ evidence' = [evidence EXCEPT ![e] = rendered] /\ UNCHANGED wire
        /\ \E p \in {"begin", "lookup", "inspect"} : pc' = [pc EXCEPT ![e] = p]
    BY <1>1 DEF GA!Reserve, GA!GoOn
  <2> QED BY <2>1, MoveCarries
<1>2. CASE GA!Revise(e) \/ GA!Begin(e) \/ GA!Reconcile(e) \/ GA!StartWrite(e)
  <2>1. /\ pc[e] \in Working /\ UNCHANGED <<evidence, wire>>
        /\ \E p \in {"begin", "lookup", "write", "send"} : pc' = [pc EXCEPT ![e] = p]
    BY <1>0, <1>2 DEF GA!Revise, GA!Begin, GA!Reconcile, GA!StartWrite, GA!MayTransition, GA!GoOn
  <2> QED BY <2>1, MoveCarries
<1>3. CASE GA!LookUpBound(e) \/ GA!HoldOff(e) \/ GA!PassHoldoff(e) \/ GA!Search(e)
           \/ GA!SearchFails(e)
  <2>1. /\ pc[e] \in Working /\ UNCHANGED <<evidence, wire>>
        /\ \E p \in {"reconciled", "search"} : pc' = [pc EXCEPT ![e] = p]
    BY <1>0, <1>3 DEF GA!LookUpBound, GA!HoldOff, GA!PassHoldoff, GA!Search, GA!SearchFails,
                      GA!Judge, GA!Conclude
  <2> QED BY <2>1, MoveCarries
<1>4. CASE GA!Send(e)
  BY <1>0, <1>4 DEF GA!Send, PublicationDomains, Carries, Alone
<1>5. CASE GA!SendFails(e) \/ GA!WriteUnknown(e) \/ GA!WriteRefused(e)
  <2>1. /\ pc[e] \in Working /\ UNCHANGED <<evidence, wire>>
        /\ pc' = [pc EXCEPT ![e] = "written"]
    BY <1>0, <1>5 DEF GA!SendFails, GA!WriteUnknown, GA!WriteRefused, GA!Answered
  <2> QED BY <2>1, MoveCarries
<1>6. \/ GA!Reserve(e, rendered)
      \/ GA!Revise(e) \/ GA!Begin(e) \/ GA!Reconcile(e) \/ GA!StartWrite(e)
      \/ GA!LookUpBound(e) \/ GA!HoldOff(e) \/ GA!PassHoldoff(e) \/ GA!Search(e)
      \/ GA!SearchFails(e) \/ GA!Send(e)
      \/ GA!SendFails(e) \/ GA!WriteUnknown(e) \/ GA!WriteRefused(e)
  BY DEF Advance, rendered
<1> QED BY <1>1, <1>2, <1>3, <1>4, <1>5, <1>6

-----------------------------------------------------------------------------
(* The evidence stays what was read *)

\* What a step of execution e leaves of every execution.
Loyal(e) == Alone(e) /\ Faithful(e)'

LEMMA RenderedKept ==
  ASSUME NEW e, UNCHANGED wanted, seen'[e] = seen[e], cited'[e] = cited[e]
  PROVE  Rendered(e)' = Rendered(e)
BY DEF Rendered, Selected

\* A step of the publication that stays at it.
LEMMA CarriedLoyal ==
  ASSUME PublicationDomains, NEW e \in Execution, Faithful(e), stage[e] = "publish",
         UNCHANGED <<stage, wanted, seen, cited>>,
         Carries(e, Rendered(e))
  PROVE  Loyal(e)
<1>1. Rendered(e)' = Rendered(e)
  BY RenderedKept
<1>2. pc'[e] \in Working => stage'[e] = "publish" /\ evidence'[e] = Rendered(e)
  BY DEF Carries, Faithful
<1>3. pc'[e] = "await" /\ wire'[e].state = "flying" => wire'[e].body = Rendered(e).body
  <2>1. "send" \in Working
    BY DEF Working
  <2> QED BY <2>1 DEF Carries, Faithful
<1> QED BY <1>1, <1>2, <1>3 DEF Loyal, Carries, Faithful

\* A step that ends the coroutine, or after which nothing is published.
LEMMA LeftLoyal ==
  ASSUME PublicationDomains, NEW e \in Execution,
         \E p \in {"ended", "surprised"} : GA!Leave(e, p)
  PROVE  Loyal(e)
<1>1. PICK p \in {"ended", "surprised"} : GA!Leave(e, p)
  OBVIOUS
<1>2. Carries(e, None) /\ pc'[e] \notin Working
  BY <1>1, LeaveCarries
<1>3. pc'[e] # "await"
  BY <1>2 DEF Working
<1> QED BY <1>2, <1>3 DEF Loyal, Carries, Faithful

LEMMA IdleLoyal ==
  ASSUME PublicationDomains, NEW e \in Execution, pc[e] \notin Working, UNCHANGED publication
  PROVE  Loyal(e)
<1>1. pc' = pc /\ evidence' = evidence /\ wire' = wire
  BY DEF publication
<1>2. pc'[e] \notin Working /\ pc'[e] # "await"
  BY <1>1 DEF Working
<1> QED BY <1>1, <1>2 DEF Loyal, Alone, Faithful, PublicationDomains

LEMMA StopLoyal ==
  ASSUME PublicationDomains, NEW e \in Execution, NEW s, Stop(e, s)
  PROVE  Loyal(e)
<1>1. CASE GA!Live(e)
  BY <1>1, LeftLoyal DEF Stop, GA!Abandon
<1>2. CASE ~GA!Live(e)
  <2>1. pc[e] \notin Working /\ UNCHANGED publication
    BY <1>2 DEF Stop, GA!Live, Working
  <2> QED BY <2>1, IdleLoyal
<1> QED BY <1>1, <1>2

LEMMA HandleLoyal ==
  ASSUME PublicationDomains, NEW e \in Execution, Faithful(e), Handle(e)
  PROVE  Loyal(e)
<1>1. CASE \/ Validate(e) \/ FetchRecords(e) \/ Decide(e)
           \/ \E r \in seen[e].records : RecordCatalog(e, r)
           \/ \E verified \in BOOLEAN : VerifyIdentity(e, verified)
           \/ FetchRepository(e) \/ FetchIssue(e) \/ RecordGithub(e)
           \/ FetchJira(e) \/ RecordJira(e) \/ Notify(e)
  <2>1. stage[e] # "publish" /\ UNCHANGED publication
    BY <1>1 DEF Validate, FetchRecords, Decide, RecordCatalog, VerifyIdentity, FetchRepository,
                FetchIssue, RecordGithub, FetchJira, RecordJira, Notify, Prelude
  <2> QED BY <2>1, IdleLoyal DEF Faithful
<1>2. CASE Advance(e)
  <2>1. stage[e] = "publish" /\ UNCHANGED <<stage, wanted, seen, cited>>
    BY <1>2 DEF Advance, Publishing, tasks
  <2> QED BY <1>2, <2>1, AdvanceCarries, CarriedLoyal
<1>3. CASE Confirm(e)
  <2>1. stage[e] = "publish" /\ UNCHANGED <<stage, wanted, seen, cited>>
    BY <1>3 DEF Confirm, Publishing, tasks
  <2>2. pc[e] \in Working /\ pc' = [pc EXCEPT ![e] = "written"] /\ UNCHANGED <<evidence, wire>>
    BY <1>3 DEF Confirm, GA!WriteSucceeds, GA!Answered, Working
  <2> QED BY <2>1, <2>2, MoveCarries, CarriedLoyal
<1>4. CASE Replay(e) \/ Conclude(e) \/ StateRefuses(e)
  <2>1. GA!Leave(e, "ended") \/ GA!Leave(e, "surprised")
    BY <1>4 DEF Replay, Conclude, StateRefuses, GA!ReserveEnds, GA!ReconcileEnds, GA!RecordWrite,
                GA!StateRefuses
  <2> QED BY <2>1, LeftLoyal
<1>5. CASE InspectBound(e)
  <2>1. CASE copy[e].resource \in GA!Marked
    <3>1. stage[e] = "publish" /\ UNCHANGED <<stage, wanted, seen, cited>>
      BY <1>5, <2>1 DEF InspectBound, Publishing, tasks
    <3>2. pc[e] \in Working /\ pc' = [pc EXCEPT ![e] = "revise"] /\ UNCHANGED <<evidence, wire>>
      BY <1>5, <2>1 DEF InspectBound, GA!Inspect, Working
    <3> QED BY <3>1, <3>2, MoveCarries, CarriedLoyal
  <2>2. CASE copy[e].resource \notin GA!Marked
    BY <1>5, <2>2, LeftLoyal DEF InspectBound, GA!Inspect
  <2> QED BY <2>1, <2>2
<1>6. CASE FenceRefuses(e)
  <2>1. CASE GA!FenceRefuses(e)
    BY <2>1, LeftLoyal DEF GA!FenceRefuses
  <2>2. CASE stage[e] = "slack" /\ UNCHANGED publication
    BY <2>2, IdleLoyal DEF Faithful
  <2> QED BY <1>6, <2>1, <2>2 DEF FenceRefuses
<1>7. CASE Vanish(e) \/ ReadRejected(e) \/ StopForCancellation(e)
  BY <1>7, StopLoyal DEF Vanish, ReadRejected, StopForCancellation
<1> QED BY <1>1, <1>2, <1>3, <1>4, <1>5, <1>6, <1>7 DEF Handle

\* The claim of an attempt.
LEMMA ClaimLoyal ==
  ASSUME PublicationDomains, NEW t \in Task, NEW n \in 1 .. MaxAttempts,
         <<t, n>> \in Execution, Claim(t, n)
  PROVE  Loyal(<<t, n>>)
<1>1. pc' = [pc EXCEPT ![<<t, n>>] = "reserve"] /\ UNCHANGED <<evidence, wire>>
  BY DEF Claim, GA!Claim
<1>2. pc'[<<t, n>>] = "reserve" /\ "reserve" \notin Working
  BY <1>1 DEF PublicationDomains, Working
<1> QED BY <1>1, <1>2 DEF Loyal, Alone, PublicationDomains, Faithful

\* Steps of the runner, of people and of the providers leave what is rendered
\* alone, and no request flies that did not.
LEMMA AroundLoyal ==
  ASSUME SyncType, PublicationDomains,
         \/ \E e \in Execution : Finalise(e) \/ Recover(e) \/ Land(e)
         \/ \E t \in Task : Cancel(t)
         \/ Elsewhere \/ ChangeCatalog \/ ChangeTarget \/ ChangeJira
  PROVE  /\ UNCHANGED <<wanted, artifacts, stage, seen, cited, pc, evidence>>
         /\ PublicationDomains'
         /\ \A x \in Execution : wire'[x].state = "flying" => wire'[x] = wire[x]
<1>1. UNCHANGED <<wanted, artifacts, stage, seen, cited>>
  BY AroundSound
<1>2. CASE \E e \in Execution : GA!Land(e) \/ GA!Refuse(e)
  <2>1. PICK e \in Execution : GA!Land(e) \/ GA!Refuse(e)
    BY <1>2
  <2>2. UNCHANGED <<pc, evidence>>
    BY <2>1 DEF GA!Land, GA!Refuse, GA!local
  <2>3. GA!Answer(e, "landed") \/ GA!Answer(e, "refused")
    BY <2>1 DEF GA!Land, GA!Refuse
  <2>4. DOMAIN wire' = Execution
        /\ \A x \in Execution : wire'[x].state = "flying" => wire'[x] = wire[x]
    BY <2>3 DEF GA!Answer, GA!NoRequest, PublicationDomains
  <2> QED BY <1>1, <2>2, <2>4 DEF PublicationDomains
<1>3. CASE UNCHANGED <<pc, evidence, wire>>
  BY <1>1, <1>3 DEF PublicationDomains
<1>4. \/ \E e \in Execution : GA!Land(e) \/ GA!Refuse(e)
      \/ UNCHANGED <<pc, evidence, wire>>
  BY DEF Finalise, Recover, Land, Cancel, Elsewhere, ChangeCatalog, ChangeTarget, ChangeJira,
         Changing, publication, GA!FenceLost, GA!HoldoffPasses, GA!Tamper, GA!local
<1> QED BY <1>2, <1>3, <1>4

-----------------------------------------------------------------------------

LEMMA EvidenceInit == Init => EvidenceInvariant
<1> SUFFICES ASSUME Init PROVE EvidenceInvariant
  OBVIOUS
<1>1. SyncInvariant
  BY SyncInvariantInit
<1>2. PublicationDomains
  BY DEF Init, GA!Init, PublicationDomains, Execution
<1>3. ASSUME NEW e \in Execution
      PROVE  Documented(e) /\ Faithful(e)
  BY <1>3 DEF Init, GA!Init, Documented, Contents, Faithful, Working, Execution
<1> QED BY <1>1, <1>2, <1>3 DEF EvidenceInvariant

\* A step of one execution keeps the invariant of all.
LEMMA ExecutionKeepsEvidence ==
  ASSUME EvidenceInvariant, NEW e \in Execution, Sound(e), Accounted(e), Loyal(e)
  PROVE  EvidenceInvariant'
<1>1. SyncInvariant'
  BY SoundKeeps DEF EvidenceInvariant
<1>2. ASSUME NEW x \in Execution \ {e}
      PROVE  Documented(x)' /\ Faithful(x)'
  <2>1. /\ stage'[x] = stage[x] /\ seen'[x] = seen[x] /\ cited'[x] = cited[x]
        /\ pc'[x] = pc[x] /\ evidence'[x] = evidence[x] /\ wire'[x] = wire[x]
        /\ artifacts \subseteq artifacts' /\ UNCHANGED wanted
    BY DEF Sound, Kept, Accounted, Loyal, Alone
  <2>2. Rendered(x)' = Rendered(x)
    BY <2>1, RenderedKept
  <2>3. Documented(x)'
    BY <2>1 DEF EvidenceInvariant, Documented, Contents, Payloads, OpenTarget
  <2>4. Faithful(x)'
    BY <2>1, <2>2 DEF EvidenceInvariant, Faithful
  <2> QED BY <2>3, <2>4
<1> QED BY <1>1, <1>2 DEF EvidenceInvariant, Accounted, Loyal, Alone

LEMMA EvidenceStep == EvidenceInvariant /\ [Next]_vars => EvidenceInvariant'
<1> SUFFICES ASSUME EvidenceInvariant, [Next]_vars PROVE EvidenceInvariant'
  OBVIOUS
<1>0. /\ SyncInvariant /\ SyncType /\ PublicationDomains
      /\ \A e \in Execution : Trusted(e) /\ Documented(e) /\ Faithful(e)
  BY DEF EvidenceInvariant, SyncInvariant
<1>1. ASSUME NEW e \in Execution, Handle(e)
      PROVE  EvidenceInvariant'
  BY <1>0, <1>1, HandleSound, HandleAccounted, HandleLoyal, ExecutionKeepsEvidence
<1>2. ASSUME NEW t \in Task, NEW n \in 1 .. MaxAttempts, Claim(t, n)
      PROVE  EvidenceInvariant'
  <2> DEFINE e == <<t, n>>
  <2>1. e \in Execution
    BY DEF Execution, GA!Execution
  <2>2. Sound(e) /\ Loyal(e)
    BY <1>0, <1>2, <2>1, ClaimSound, ClaimLoyal
  <2>3. stage[e] = "idle" /\ Go(e, "validate") /\ UNCHANGED <<artifacts, seen, cited>>
    BY <1>2 DEF Claim
  <2>4. stage'[e] = "validate"
    BY <1>0, <2>1, <2>3, StageOf
  <2>5. Accounted(e)
    BY <1>0, <2>1, <2>3, <2>4 DEF Accounted, Documented, Contents
  <2> QED BY <2>1, <2>2, <2>5, ExecutionKeepsEvidence
<1>3. CASE \/ \E e \in Execution : Finalise(e) \/ Recover(e) \/ Land(e)
           \/ \E t \in Task : Cancel(t)
           \/ Elsewhere \/ ChangeCatalog \/ ChangeTarget \/ ChangeJira
  <2>1. SyncInvariant'
    BY <1>0, SyncInvariantStep
  <2>2. /\ UNCHANGED <<wanted, artifacts, stage, seen, cited, pc, evidence>>
        /\ PublicationDomains'
        /\ \A x \in Execution : wire'[x].state = "flying" => wire'[x] = wire[x]
    BY <1>0, <1>3, AroundLoyal
  <2>3. ASSUME NEW x \in Execution
        PROVE  Documented(x)' /\ Faithful(x)'
    <3>1. Rendered(x)' = Rendered(x)
      BY <2>2, RenderedKept
    <3>2. Documented(x)'
      BY <1>0, <2>2 DEF Documented, Contents, Payloads, OpenTarget
    <3>3. Faithful(x)'
      BY <1>0, <2>2, <3>1 DEF Faithful
    <3> QED BY <3>2, <3>3
  <2> QED BY <2>1, <2>2, <2>3 DEF EvidenceInvariant
<1>4. CASE UNCHANGED vars
  <2>1. SyncInvariant'
    BY <1>0, SyncInvariantStep
  <2>2. UNCHANGED <<wanted, artifacts, stage, seen, cited, pc, evidence, wire>>
    BY <1>4 DEF vars, publication, handler, tasks
  <2>3. ASSUME NEW x \in Execution
        PROVE  Documented(x)' /\ Faithful(x)'
    <3>1. Rendered(x)' = Rendered(x)
      BY <2>2, RenderedKept
    <3>2. Documented(x)'
      BY <1>0, <2>2 DEF Documented, Contents, Payloads, OpenTarget
    <3>3. Faithful(x)'
      BY <1>0, <2>2, <3>1 DEF Faithful
    <3> QED BY <3>2, <3>3
  <2> QED BY <1>0, <2>1, <2>2, <2>3 DEF EvidenceInvariant, PublicationDomains
<1> QED BY <1>1, <1>2, <1>3, <1>4 DEF Next

\* What an execution publishes is what it has itself read of an open issue of
\* the named repository, and the source artifacts of its task hold all of it,
\* however the sources change, whatever earlier attempts recorded, and whenever
\* the execution is stopped: _record_* refers to every payload that is read,
\* and the body on its way to GitHub is rendered from those references alone.
THEOREM PublishedIsOnRecord == Spec => []EvidenceOnRecord
<1>1. EvidenceInvariant => EvidenceOnRecord
  <2> SUFFICES ASSUME EvidenceInvariant, NEW e \in Execution, stage[e] \in {"publish", "slack"}
               PROVE  /\ OpenTarget(e)
                      /\ cited[e] \subseteq artifacts
                      /\ Contents(e) = Payloads(e) \cup {seen[e].target, seen[e].jira}
                      /\ wire[e].state = "flying" /\ pc[e] = "await" =>
                           wire[e].body = Rendered(e).body
    BY DEF EvidenceOnRecord, OpenTarget, Contents, Payloads
  <2> QED BY DEF EvidenceInvariant, Documented, Faithful
<1> QED BY <1>1, EvidenceInit, EvidenceStep, PTL DEF Spec
=============================================================================
