------------------------ MODULE DeploymentSyncProofs ------------------------
(* Theorems about PublicationPolicy and DeploymentSync. *)
EXTENDS DeploymentSync, TLAPS

-----------------------------------------------------------------------------
(* The policy *)

\* A record passes every check of evaluate_service_catalog exactly when it
\* grants the publication, wherever in the order a check stands.
LEMMA JudgeGrants ==
  ASSUME NEW r \in ServiceRecord, NEW repository
  PROVE  Judge(r, repository).outcome = "ready" <=> Grants(r, repository)
<1> r.policyVersion \in Nat /\ MinimumPolicyVersion \in Nat
  BY PolicyAssumption DEF ServiceRecord
<1> QED BY DEF Judge, Grants, Verdict, Sensitive

\* Records that agree grant the same.
LEMMA AgreementGrants ==
  ASSUME NEW r, NEW s, NEW repository, Signature(r) = Signature(s), Grants(r, repository)
  PROVE  Grants(s, repository)
<1>1. /\ r.policyVersion = s.policyVersion /\ r.repositories = s.repositories
      /\ r.owner = s.owner /\ r.classification = s.classification
      /\ r.automatic = s.automatic /\ r.reviewer = s.reviewer
  BY DEF Signature
<1> QED BY <1>1 DEF Grants

\* evaluate_service_catalog looks at one record, the newest; it says ready
\* exactly when every record that names the service authorises the request.
THEOREM ReadyIsAuthorised ==
  ASSUME NEW service, NEW repository, NEW records \in SUBSET ServiceRecord,
         Candidates(service, records) # {} =>
           \E r \in Candidates(service, records) :
             \A s \in Candidates(service, records) : s.sourceVersion <= r.sourceVersion
  PROVE  Evaluate(service, repository, records).outcome = "ready"
           <=> Authorised(service, repository, records)
<1> DEFINE candidates == Candidates(service, records)
<1>1. CASE candidates = {}
  BY <1>1 DEF Evaluate, Authorised, Verdict
<1>2. CASE candidates # {} /\ ~Agree(candidates)
  BY <1>2 DEF Evaluate, Authorised, Verdict
<1>3. CASE candidates # {} /\ Agree(candidates)
  <2>1. Newest(candidates) \in candidates
    BY <1>3 DEF Newest
  <2>2. Newest(candidates) \in ServiceRecord
    BY <2>1 DEF Candidates
  <2>3. Evaluate(service, repository, records) = Judge(Newest(candidates), repository)
    BY <1>3 DEF Evaluate
  <2>4. Grants(Newest(candidates), repository)
          <=> \A r \in candidates : Grants(r, repository)
    BY <1>3, <2>1, AgreementGrants DEF Agree
  <2> QED BY <1>3, <2>2, <2>3, <2>4, JudgeGrants DEF Authorised
<1> QED BY <1>1, <1>2, <1>3

-----------------------------------------------------------------------------
(* Types *)

Observation ==
  [records : Catalogs \cup {{}}, target : Target \cup {None}, jira : WorkItem \cup {None}]

\* The part of the type invariant the handler's own steps need.
SyncType ==
  /\ wanted \in Requests
  /\ catalog \in Catalogs /\ target \in Target /\ jira \in WorkItem
  /\ artifacts \subseteq Artifact
  /\ stage \in [Execution -> Stage]
  /\ seen \in [Execution -> Observation]
  /\ cited \in [Execution -> SUBSET Artifact]
  /\ DOMAIN result = Execution

LEMMA PayloadType ==
  ASSUME NEW r \in ServiceRecord
  PROVE  Payload(r) \in ServiceRecord
BY DEF Payload, Minimised, ServiceRecord

LEMMA ExecutionType == \A e \in Execution : e[1] \in Task /\ e \in Task \X (1 .. MaxAttempts)
BY DEF Execution, GA!Execution

\* An observation is stored and cited as an artifact of its provider.
LEMMA RecordType ==
  ASSUME SyncType, NEW e \in Execution, NEW provider, NEW contents, NEW content \in contents,
         ArtifactOf(provider, contents) \subseteq Artifact,
         Record(e, provider, content)
  PROVE  artifacts' \subseteq Artifact /\ cited' \in [Execution -> SUBSET Artifact]
<1> DEFINE known == Same(e[1], provider, content)
           new == [task |-> e[1], provider |-> provider, content |-> content, observedBy |-> e]
           rows == IF known = {} THEN {new} ELSE known
<1>1. new \in Artifact
  BY ExecutionType DEF ArtifactOf
<1>2. known \subseteq Artifact
  BY DEF Same, SyncType
<1>3. rows \subseteq Artifact
  BY <1>1, <1>2
<1>4. artifacts' = artifacts \cup rows /\ cited' = [cited EXCEPT ![e] = @ \cup rows]
  BY DEF Record
<1> HIDE DEF rows
<1> QED BY <1>3, <1>4 DEF SyncType

LEMMA ArtifactParts ==
  /\ ArtifactOf("service_catalog", ServiceRecord) \subseteq Artifact
  /\ ArtifactOf("github", Target) \subseteq Artifact
  /\ ArtifactOf("jira", WorkItem) \subseteq Artifact
BY Zenon DEF Artifact

\* No step of one execution touches what another has.
Kept(e) ==
  \A x \in Execution \ {e} :
    stage'[x] = stage[x] /\ seen'[x] = seen[x] /\ result'[x] = result[x]

\* What a step of execution e leaves of the types.
LEMMA GoType ==
  ASSUME SyncType, NEW e \in Execution, NEW s \in Stage, Go(e, s)
  PROVE  stage' \in [Execution -> Stage] /\ stage'[e] = s
         /\ \A x \in Execution \ {e} : stage'[x] = stage[x]
BY DEF SyncType, Go

LEMMA FinishType ==
  ASSUME SyncType, NEW e \in Execution, NEW newOutcome, NEW comment,
         Finish(e, newOutcome, comment)
  PROVE  /\ stage' \in [Execution -> Stage]
         /\ stage'[e] \in {"slack", "returned"}
         /\ stage'[e] = "slack" => newOutcome = "ready"
         /\ DOMAIN result' = Execution
         /\ result'[e].comment = comment
         /\ \A x \in Execution \ {e} : stage'[x] = stage[x] /\ result'[x] = result[x]
<1> DEFINE s == IF newOutcome = "ready" /\ NotifySlack THEN "slack" ELSE "returned"
<1>1. s \in Stage /\ Go(e, s)
  BY DEF Finish, Stage
<1>2. stage' \in [Execution -> Stage] /\ stage'[e] = s
      /\ \A x \in Execution \ {e} : stage'[x] = stage[x]
  BY <1>1, GoType
<1>3. result' = [result EXCEPT ![e] = [outcome |-> newOutcome, comment |-> comment]]
  BY DEF Finish
<1>4. /\ DOMAIN result' = Execution
      /\ result'[e] = [outcome |-> newOutcome, comment |-> comment]
      /\ \A x \in Execution \ {e} : result'[x] = result[x]
  BY <1>3 DEF SyncType
<1> QED BY <1>2, <1>4

-----------------------------------------------------------------------------
(* Authority *)

Early == {"idle", "validate", "catalog", "record_catalog"}

Downstream ==
  {"identity", "repository", "issue", "record_github", "jira", "record_jira", "publish", "slack"}

Authority(e) ==
  /\ InScope(wanted.service, wanted.repository, wanted.project)
  /\ seen[e].records \in Catalogs
  /\ MayRead(e)

\* What an execution may rely on: before the decision it has no result, from
\* then on its records stay what they were when the policy said ready.
Trusted(e) ==
  /\ stage[e] \in Early => result[e].comment = None
  /\ stage[e] \in {"catalog", "record_catalog"} =>
       InScope(wanted.service, wanted.repository, wanted.project)
  /\ stage[e] = "record_catalog" => seen[e].records \in Catalogs
  /\ stage[e] \in Downstream \/ result[e].comment # None => Authority(e)
  /\ stage[e] \in {"issue", "record_github"} => seen[e].target \in Target
  /\ stage[e] = "record_jira" => seen[e].jira \in WorkItem

LEMMA AuthorityKept ==
  ASSUME NEW e, wanted' = wanted, seen'[e].records = seen[e].records, Authority(e)
  PROVE  Authority(e)'
BY DEF Authority, MayRead, Evaluation

\* What a step of execution e has to achieve.
Sound(e) == SyncType' /\ wanted' = wanted /\ Kept(e) /\ Trusted(e)'

\* A step that moves on from one stage after the decision to another.
LEMMA MoveOn ==
  ASSUME SyncType, NEW e \in Execution, Trusted(e), stage[e] \in Downstream,
         UNCHANGED <<wanted, catalog, target, jira, result>>,
         NEW s \in Stage \ Early, Go(e, s),
         s \in {"issue", "record_github"} => seen'[e].target \in Target,
         s = "record_jira" => seen'[e].jira \in WorkItem,
         artifacts' \subseteq Artifact, cited' \in [Execution -> SUBSET Artifact],
         seen' \in [Execution -> Observation],
         seen'[e].records = seen[e].records,
         \A x \in Execution \ {e} : seen'[x] = seen[x]
  PROVE  Sound(e)
<1>1. Authority(e)'
  BY AuthorityKept DEF Trusted
<1>2. stage' \in [Execution -> Stage] /\ stage'[e] = s
      /\ \A x \in Execution \ {e} : stage'[x] = stage[x]
  BY GoType
<1>3. SyncType'
  BY <1>2 DEF SyncType
<1>4. Kept(e)
  BY <1>2 DEF Kept
<1>5. Trusted(e)'
  BY <1>1, <1>2 DEF Trusted, Early
<1> QED BY <1>3, <1>4, <1>5 DEF Sound

\* A step that ends the handler with a result, after the decision or with
\* nothing published.
LEMMA FinishSound ==
  ASSUME SyncType, NEW e \in Execution, Trusted(e),
         NEW newOutcome, NEW comment, Finish(e, newOutcome, comment),
         \/ stage[e] \in Downstream
         \/ comment = None /\ newOutcome # "ready",
         UNCHANGED <<wanted, catalog, target, jira>>,
         artifacts' \subseteq Artifact, cited' \in [Execution -> SUBSET Artifact],
         seen' \in [Execution -> Observation],
         seen'[e].records = seen[e].records,
         \A x \in Execution \ {e} : seen'[x] = seen[x]
  PROVE  Sound(e)
<1>1. /\ stage' \in [Execution -> Stage]
      /\ stage'[e] \in {"slack", "returned"}
      /\ stage'[e] = "slack" => newOutcome = "ready"
      /\ DOMAIN result' = Execution
      /\ result'[e].comment = comment
      /\ \A x \in Execution \ {e} : stage'[x] = stage[x] /\ result'[x] = result[x]
  BY FinishType
<1>2. SyncType'
  BY <1>1 DEF SyncType
<1>3. Kept(e)
  BY <1>1 DEF Kept
<1>4. stage'[e] \in Downstream \/ comment # None => Authority(e)'
  BY <1>1, AuthorityKept DEF Trusted, Downstream
<1>5. Trusted(e)'
  BY <1>1, <1>4 DEF Trusted, Early
<1> QED BY <1>2, <1>3, <1>5 DEF Sound

\* A coroutine that is stopped leaves its result as it was.
LEMMA StopSound ==
  ASSUME SyncType, NEW e \in Execution, Trusted(e),
         NEW s \in {"gone", "gave_up", "cancelled"}, Go(e, s),
         UNCHANGED <<wanted, catalog, target, jira, artifacts, seen, cited, result>>
  PROVE  Sound(e)
<1>1. s \in Stage /\ s \notin Downstream \cup Early
  BY DEF Stage, Downstream, Early
<1>2. stage' \in [Execution -> Stage] /\ stage'[e] = s
      /\ \A x \in Execution \ {e} : stage'[x] = stage[x]
  BY <1>1, GoType
<1>3. SyncType'
  BY <1>2 DEF SyncType
<1>4. Kept(e)
  BY <1>2 DEF Kept
<1>5. result[e].comment # None => Authority(e)'
  BY AuthorityKept DEF Trusted
<1>6. Trusted(e)'
  BY <1>1, <1>2, <1>5 DEF Trusted, Early
<1> QED BY <1>3, <1>4, <1>6 DEF Sound

LEMMA RecordedSound ==
  ASSUME SyncType, NEW e \in Execution, Trusted(e), NEW from \in Downstream, Prelude(e, from),
         NEW provider, NEW contents, NEW content \in contents,
         ArtifactOf(provider, contents) \subseteq Artifact, Record(e, provider, content),
         UNCHANGED seen,
         \/ \E s \in {"jira", "publish"} : Go(e, s) /\ UNCHANGED result
         \/ \E newOutcome : Finish(e, newOutcome, None)
  PROVE  Sound(e)
<1>1. artifacts' \subseteq Artifact /\ cited' \in [Execution -> SUBSET Artifact]
  BY RecordType
<1>2. UNCHANGED <<wanted, catalog, target, jira>> /\ stage[e] \in Downstream
  BY DEF Prelude, sources, tasks
<1>3. seen' \in [Execution -> Observation] /\ seen' = seen
  BY DEF SyncType
<1>4. CASE \E s \in {"jira", "publish"} : Go(e, s) /\ UNCHANGED result
  <2>1. \A s \in {"jira", "publish"} : s \in Stage \ Early
    BY DEF Stage, Early
  <2> QED BY <1>1, <1>2, <1>3, <1>4, <2>1, MoveOn
<1>5. CASE \E newOutcome : Finish(e, newOutcome, None)
  BY <1>1, <1>2, <1>3, <1>5, FinishSound
<1> QED BY <1>4, <1>5

\* The steps before the decision.
LEMMA PolicySound ==
  ASSUME SyncType, NEW e \in Execution, Trusted(e),
         \/ Validate(e) \/ FetchRecords(e) \/ Decide(e)
         \/ \E r \in seen[e].records : RecordCatalog(e, r)
  PROVE  Sound(e)
<1> USE DEF Prelude, sources, tasks
<1>0. seen' = seen => seen' \in [Execution -> Observation]
  BY DEF SyncType
<1>1. CASE Validate(e)
  <2>1. CASE InScope(wanted.service, wanted.repository, wanted.project)
    <3>1. /\ Go(e, "catalog") /\ stage[e] = "validate"
          /\ UNCHANGED <<wanted, catalog, target, jira, artifacts, seen, cited, result>>
      BY <1>1, <2>1 DEF Validate
    <3>2. stage' \in [Execution -> Stage] /\ stage'[e] = "catalog"
          /\ \A x \in Execution \ {e} : stage'[x] = stage[x]
      BY <3>1, GoType DEF Stage
    <3>3. SyncType' /\ Kept(e)
      BY <3>1, <3>2 DEF SyncType, Kept
    <3>4. Trusted(e)'
      BY <2>1, <3>1, <3>2 DEF Trusted, Early, Downstream
    <3> QED BY <3>1, <3>3, <3>4 DEF Sound
  <2>2. CASE ~InScope(wanted.service, wanted.repository, wanted.project)
    <3>1. /\ Finish(e, "blocked", None)
          /\ UNCHANGED <<wanted, catalog, target, jira, artifacts, seen, cited>>
      BY <1>1, <2>2 DEF Validate
    <3> QED BY <1>0, <3>1, FinishSound DEF SyncType
  <2> QED BY <2>1, <2>2
<1>2. CASE FetchRecords(e)
  <2>1. /\ Go(e, "record_catalog") /\ stage[e] = "catalog"
        /\ seen' = [seen EXCEPT ![e].records = catalog]
        /\ UNCHANGED <<wanted, catalog, target, jira, artifacts, cited, result>>
    BY <1>2 DEF FetchRecords
  <2>2. stage' \in [Execution -> Stage] /\ stage'[e] = "record_catalog"
        /\ \A x \in Execution \ {e} : stage'[x] = stage[x]
    BY <2>1, GoType DEF Stage
  <2>3. /\ seen' \in [Execution -> Observation] /\ seen'[e].records = catalog
        /\ \A x \in Execution \ {e} : seen'[x] = seen[x]
    BY <2>1 DEF SyncType, Observation
  <2>4. SyncType' /\ Kept(e)
    BY <2>1, <2>2, <2>3 DEF SyncType, Kept
  <2>5. Trusted(e)'
    BY <2>1, <2>2, <2>3 DEF Trusted, Early, Downstream, SyncType
  <2> QED BY <2>1, <2>4, <2>5 DEF Sound
<1>3. ASSUME NEW r \in seen[e].records, RecordCatalog(e, r)
      PROVE  Sound(e)
  <2>1. r \in ServiceRecord
    BY SyncAssumption DEF SyncType, Observation
  <2>2. artifacts' \subseteq Artifact /\ cited' \in [Execution -> SUBSET Artifact]
    BY <1>3, <2>1, PayloadType, RecordType, ArtifactParts DEF RecordCatalog
  <2>3. UNCHANGED <<wanted, catalog, target, jira, stage, seen, result>>
    BY <1>3 DEF RecordCatalog
  <2>4. SyncType' /\ Kept(e)
    BY <2>2, <2>3 DEF SyncType, Kept
  <2>5. Trusted(e)'
    BY <2>3 DEF Trusted, Authority, MayRead, Evaluation
  <2> QED BY <2>3, <2>4, <2>5 DEF Sound
<1>4. CASE Decide(e)
  <2>1. /\ stage[e] = "record_catalog"
        /\ UNCHANGED <<wanted, catalog, target, jira, artifacts, seen, cited>>
    BY <1>4 DEF Decide
  <2>2. CASE MayRead(e)
    <3>1. Go(e, "identity") /\ UNCHANGED result
      BY <1>4, <2>2 DEF Decide
    <3>2. stage' \in [Execution -> Stage] /\ stage'[e] = "identity"
          /\ \A x \in Execution \ {e} : stage'[x] = stage[x]
      BY <3>1, GoType DEF Stage
    <3>3. SyncType' /\ Kept(e)
      BY <2>1, <3>1, <3>2 DEF SyncType, Kept
    <3>4. Authority(e)
      BY <2>1, <2>2 DEF Trusted, Authority
    <3>5. Trusted(e)'
      BY <2>1, <3>2, <3>4, AuthorityKept DEF Trusted, Early
    <3> QED BY <2>1, <3>3, <3>5 DEF Sound
  <2>3. CASE ~MayRead(e)
    <3>1. Finish(e, Evaluation(e).outcome, None) /\ Evaluation(e).outcome # "ready"
      BY <1>4, <2>3 DEF Decide, MayRead
    <3> QED BY <1>0, <2>1, <3>1, FinishSound DEF SyncType
  <2> QED BY <2>2, <2>3
<1> QED BY <1>1, <1>2, <1>3, <1>4

\* The reads and records after the decision.
LEMMA EvidenceSound ==
  ASSUME SyncType, NEW e \in Execution, Trusted(e),
         \/ \E verified \in BOOLEAN : VerifyIdentity(e, verified)
         \/ FetchRepository(e) \/ FetchIssue(e) \/ RecordGithub(e)
         \/ FetchJira(e) \/ RecordJira(e)
  PROVE  Sound(e)
<1> USE DEF Prelude, sources, tasks
<1>0. /\ artifacts' = artifacts => artifacts' \subseteq Artifact
      /\ cited' = cited => cited' \in [Execution -> SUBSET Artifact]
      /\ seen' = seen => seen' \in [Execution -> Observation]
  BY DEF SyncType
<1>a. \A s \in {"identity", "repository", "issue", "record_github", "jira", "record_jira",
               "publish"} : s \in Stage \ Early /\ s \in Downstream
  BY DEF Stage, Early, Downstream
<1>1. ASSUME NEW verified \in BOOLEAN, VerifyIdentity(e, verified)
      PROVE  Sound(e)
  <2>1. /\ stage[e] \in Downstream
        /\ UNCHANGED <<wanted, catalog, target, jira, artifacts, seen, cited>>
        /\ \/ Go(e, "repository") /\ UNCHANGED result
           \/ Finish(e, "needs_human_review", None)
    BY <1>1, <1>a DEF VerifyIdentity, Review
  <2> QED BY <1>0, <1>a, <2>1, MoveOn, FinishSound
<1>2. CASE FetchRepository(e)
  <2>1. /\ stage[e] \in Downstream /\ Go(e, "issue")
        /\ UNCHANGED <<wanted, catalog, target, jira, artifacts, cited, result>>
        /\ seen' = [seen EXCEPT ![e].target =
             [repository |-> target.repository, issue |-> "other", sourceVersion |-> 0]]
    BY <1>2, <1>a DEF FetchRepository
  <2>2. [repository |-> target.repository, issue |-> "other", sourceVersion |-> 0] \in Target
    BY DEF SyncType, Target, Issue
  <2>3. /\ seen' \in [Execution -> Observation] /\ seen'[e].records = seen[e].records
        /\ \A x \in Execution \ {e} : seen'[x] = seen[x]
    BY <2>1, <2>2 DEF SyncType, Observation
  <2>4. seen'[e].target \in Target
    BY <2>1, <2>2 DEF SyncType, Observation
  <2> QED BY <1>0, <1>a, <2>1, <2>3, <2>4, MoveOn
<1>3. CASE FetchIssue(e)
  <2> DEFINE read == [target EXCEPT !.repository = seen[e].target.repository]
  <2>1. /\ stage[e] \in Downstream
        /\ UNCHANGED <<wanted, catalog, target, jira, artifacts, cited>>
        /\ seen' = [seen EXCEPT ![e].target = read]
        /\ \/ Go(e, "record_github") /\ UNCHANGED result
           \/ Finish(e, "needs_human_review", None)
    BY <1>3, <1>a DEF FetchIssue, Review
  <2>2. read \in Target
    BY <1>3 DEF FetchIssue, Trusted, SyncType, Target
  <2>3. /\ seen' \in [Execution -> Observation] /\ seen'[e].records = seen[e].records
        /\ \A x \in Execution \ {e} : seen'[x] = seen[x]
    BY <2>1, <2>2 DEF SyncType, Observation
  <2>4. seen'[e].target \in Target
    BY <2>1, <2>2 DEF SyncType, Observation
  <2> QED BY <1>0, <1>a, <2>1, <2>3, <2>4, MoveOn, FinishSound
<1>4. CASE RecordGithub(e)
  <2>1. /\ "record_github" \in Downstream /\ Prelude(e, "record_github")
        /\ Record(e, "github", seen[e].target) /\ UNCHANGED seen
        /\ \/ \E s \in {"jira", "publish"} : Go(e, s) /\ UNCHANGED result
           \/ \E newOutcome : Finish(e, newOutcome, None)
    BY <1>4, <1>a DEF RecordGithub, Review
  <2>2. seen[e].target \in Target
    BY <1>4 DEF RecordGithub, Trusted
  <2> QED BY ONLY <2>1, <2>2, ArtifactParts, RecordedSound, SyncType, e \in Execution, Trusted(e)
<1>5. CASE FetchJira(e)
  <2>1. /\ stage[e] \in Downstream
        /\ UNCHANGED <<wanted, catalog, target, jira, artifacts, cited>>
        /\ seen' = [seen EXCEPT ![e].jira = jira]
        /\ \/ Go(e, "record_jira") /\ UNCHANGED result
           \/ Finish(e, "needs_human_review", None)
    BY <1>5, <1>a DEF FetchJira, Review
  <2>2. /\ seen' \in [Execution -> Observation] /\ seen'[e].records = seen[e].records
        /\ \A x \in Execution \ {e} : seen'[x] = seen[x]
    BY <2>1 DEF SyncType, Observation
  <2>3. seen'[e].jira \in WorkItem
    BY <2>1 DEF SyncType, Observation
  <2> QED BY <1>0, <1>a, <2>1, <2>2, <2>3, MoveOn, FinishSound
<1>6. CASE RecordJira(e)
  <2>1. /\ "record_jira" \in Downstream /\ Prelude(e, "record_jira")
        /\ Record(e, "jira", seen[e].jira) /\ UNCHANGED seen
        /\ Go(e, "publish") /\ UNCHANGED result
    BY <1>6, <1>a DEF RecordJira
  <2>2. seen[e].jira \in WorkItem
    BY <1>6 DEF RecordJira, Trusted
  <2> QED BY ONLY <2>1, <2>2, ArtifactParts, RecordedSound, SyncType, e \in Execution, Trusted(e)
<1> QED BY <1>1, <1>2, <1>3, <1>4, <1>5, <1>6

\* The publication, the notification, and the ends without a result.
LEMMA PublicationSound ==
  ASSUME SyncType, NEW e \in Execution, Trusted(e),
         \/ Advance(e) \/ Confirm(e) \/ Replay(e) \/ InspectBound(e) \/ Conclude(e)
         \/ StateRefuses(e) \/ Notify(e) \/ FenceRefuses(e) \/ Vanish(e) \/ ReadRejected(e)
         \/ StopForCancellation(e)
  PROVE  Sound(e)
<1> USE DEF sources, tasks
<1>1. /\ UNCHANGED <<wanted, catalog, target, jira, artifacts, seen, cited>>
      /\ artifacts' \subseteq Artifact /\ cited' \in [Execution -> SUBSET Artifact]
      /\ seen' \in [Execution -> Observation]
  BY DEF Advance, Confirm, Replay, InspectBound, Conclude, StateRefuses, Notify, FenceRefuses,
         Vanish, ReadRejected, StopForCancellation, Stop, Publishing, SyncType
<1>2. "publish" \in Downstream /\ "slack" \in Downstream
  BY DEF Downstream
<1>3. CASE UNCHANGED <<stage, result>>
  <2> QED BY <1>1, <1>3 DEF Sound, Kept, SyncType, Trusted, Authority, MayRead, Evaluation
<1>4. CASE stage[e] \in Downstream /\ \E newOutcome, comment : Finish(e, newOutcome, comment)
  BY <1>1, <1>4, FinishSound
<1>5. CASE \E s \in {"gone", "gave_up", "cancelled"} : Go(e, s) /\ UNCHANGED result
  BY <1>1, <1>5, StopSound
<1>6. CASE stage[e] \in Downstream /\ Go(e, "returned") /\ UNCHANGED result
  <2>1. "returned" \in Stage \ Early
    BY DEF Stage, Early
  <2> QED BY <1>1, <1>6, <2>1, MoveOn
<1>7. \/ UNCHANGED <<stage, result>>
      \/ stage[e] \in Downstream /\ \E newOutcome, comment : Finish(e, newOutcome, comment)
      \/ \E s \in {"gone", "gave_up", "cancelled"} : Go(e, s) /\ UNCHANGED result
      \/ stage[e] \in Downstream /\ Go(e, "returned") /\ UNCHANGED result
  <2>1. CASE Advance(e) \/ Confirm(e)
    BY <2>1 DEF Advance, Confirm
  <2>2. CASE Replay(e) \/ InspectBound(e)
    BY <2>2, <1>2 DEF Replay, InspectBound, Publishing
  <2>3. CASE Conclude(e)
    BY <2>3, <1>2 DEF Conclude, Publishing, Report
  <2>4. CASE StateRefuses(e) \/ FenceRefuses(e)
    BY <2>4 DEF StateRefuses, FenceRefuses
  <2>5. CASE Notify(e)
    BY <2>5, <1>2 DEF Notify
  <2>6. CASE Vanish(e) \/ ReadRejected(e) \/ StopForCancellation(e)
    BY <2>6 DEF Vanish, ReadRejected, StopForCancellation, Stop
  <2> QED BY <2>1, <2>2, <2>3, <2>4, <2>5, <2>6
<1> QED BY <1>3, <1>4, <1>5, <1>6, <1>7

LEMMA HandleSound ==
  ASSUME SyncType, NEW e \in Execution, Trusted(e), Handle(e)
  PROVE  Sound(e)
BY PolicySound, EvidenceSound, PublicationSound DEF Handle

\* The claim of an attempt.
LEMMA ClaimSound ==
  ASSUME SyncType, NEW t \in Task, NEW n \in 1 .. MaxAttempts, Trusted(<<t, n>>), Claim(t, n)
  PROVE  Sound(<<t, n>>)
<1> DEFINE e == <<t, n>>
<1>1. e \in Execution
  BY DEF Execution, GA!Execution
<1>2. /\ Go(e, "validate") /\ stage[e] = "idle"
      /\ UNCHANGED <<wanted, catalog, target, jira, artifacts, seen, cited, result>>
  BY DEF Claim, sources, tasks
<1>3. stage' \in [Execution -> Stage] /\ stage'[e] = "validate"
      /\ \A x \in Execution \ {e} : stage'[x] = stage[x]
  BY <1>1, <1>2, GoType DEF Stage
<1>4. SyncType' /\ Kept(e)
  BY <1>2, <1>3 DEF SyncType, Kept
<1>5. Trusted(e)'
  BY <1>2, <1>3 DEF Trusted, Early, Downstream
<1> QED BY <1>2, <1>4, <1>5 DEF Sound

\* Steps of the runner, of people and of the providers.
LEMMA AroundSound ==
  ASSUME SyncType,
         \/ \E e \in Execution : Finalise(e) \/ Recover(e) \/ Land(e)
         \/ \E t \in Task : Cancel(t)
         \/ Elsewhere \/ ChangeCatalog \/ ChangeTarget \/ ChangeJira
  PROVE  SyncType' /\ UNCHANGED <<wanted, artifacts, stage, seen, cited, result>>
<1> USE DEF sources, handler, tasks, Changing
<1>1. UNCHANGED <<wanted, artifacts, stage, seen, cited, result>>
  BY DEF Finalise, Recover, Land, Cancel, Elsewhere, ChangeCatalog, ChangeTarget, ChangeJira
<1>2. catalog' \in Catalogs
  BY DEF SyncType, Finalise, Recover, Land, Cancel, Elsewhere, ChangeCatalog, ChangeTarget,
         ChangeJira
<1>3. jira' \in WorkItem
  <2>1. CASE ChangeJira
    BY <2>1 DEF SyncType, ChangeJira, WorkItem
  <2>2. CASE ~ChangeJira
    BY <2>2 DEF SyncType, Finalise, Recover, Land, Cancel, Elsewhere, ChangeCatalog, ChangeTarget
  <2> QED BY <2>1, <2>2
<1>4. target' \in Target
  <2>1. CASE ChangeTarget
    <3>1. target \in Target /\ "archived" \in Repo /\ "open" \in Issue /\ "closed" \in Issue
      BY DEF SyncType, Repo, Issue
    <3>2. CASE \E state \in Issue :
                 target' = [target EXCEPT !.issue = state, !.sourceVersion = @ + 1]
      <4>1. PICK state \in Issue :
              target' = [target EXCEPT !.issue = state, !.sourceVersion = @ + 1]
        BY <3>2
      <4>2. target.sourceVersion + 1 \in Nat /\ target.repository \in Repo
        BY <3>1 DEF Target
      <4>3. target' = [repository |-> target.repository, issue |-> state,
                       sourceVersion |-> target.sourceVersion + 1]
        BY <3>1, <4>1 DEF Target
      <4> QED BY <4>2, <4>3 DEF Target
    <3>3. CASE target' = [target EXCEPT !.repository = "archived"]
      BY <3>1, <3>3 DEF Target
    <3>4. \A state \in IF target.issue \in {"open", "closed"} THEN {"open", "closed"}
                                                             ELSE {target.issue} :
            state \in Issue
      BY <3>1 DEF Target
    <3> QED BY <2>1, <3>2, <3>3, <3>4 DEF ChangeTarget
  <2>2. ASSUME NEW e \in Execution, Land(e)
        PROVE  target' \in Target
    BY <2>2 DEF SyncType, Land, Target
  <2>3. CASE UNCHANGED target
    BY <2>3 DEF SyncType
  <2> QED BY <2>1, <2>2, <2>3
          DEF Finalise, Recover, Cancel, Elsewhere, ChangeCatalog, ChangeJira
<1> QED BY <1>1, <1>2, <1>3, <1>4 DEF SyncType

-----------------------------------------------------------------------------

SyncInvariant == SyncType /\ \A e \in Execution : Trusted(e)

LEMMA SoundKeeps ==
  ASSUME SyncInvariant, NEW e \in Execution, Sound(e)
  PROVE  SyncInvariant'
<1>1. ASSUME NEW x \in Execution \ {e}
      PROVE  Trusted(x)'
  BY <1>1 DEF SyncInvariant, Sound, Kept, Trusted, Authority, MayRead, Evaluation
<1> QED BY <1>1 DEF SyncInvariant, Sound

LEMMA SyncInvariantInit == Init => SyncInvariant
<1> SUFFICES ASSUME Init PROVE SyncInvariant
  OBVIOUS
<1>1. /\ target \in Target /\ jira \in WorkItem
  BY DEF Init, Target, WorkItem
<1>2. SyncType
  BY <1>1 DEF Init, SyncType, Stage, Observation, NothingSeen
<1>3. ASSUME NEW e \in Execution
      PROVE  Trusted(e)
  BY <1>3 DEF Init, Trusted, NoResult, Downstream
<1> QED BY <1>2, <1>3 DEF SyncInvariant

LEMMA SyncInvariantStep == SyncInvariant /\ [Next]_vars => SyncInvariant'
<1> SUFFICES ASSUME SyncInvariant, [Next]_vars PROVE SyncInvariant'
  OBVIOUS
<1>0. SyncType /\ \A e \in Execution : Trusted(e)
  BY DEF SyncInvariant
<1>1. ASSUME NEW e \in Execution, Handle(e)
      PROVE  SyncInvariant'
  BY <1>0, <1>1, HandleSound, SoundKeeps
<1>2. ASSUME NEW t \in Task, NEW n \in 1 .. MaxAttempts, Claim(t, n)
      PROVE  SyncInvariant'
  <2>1. <<t, n>> \in Execution
    BY DEF Execution, GA!Execution
  <2> QED BY <1>0, <1>2, <2>1, ClaimSound, SoundKeeps
<1>3. CASE \/ \E e \in Execution : Finalise(e) \/ Recover(e) \/ Land(e)
           \/ \E t \in Task : Cancel(t)
           \/ Elsewhere \/ ChangeCatalog \/ ChangeTarget \/ ChangeJira
  <2>1. SyncType' /\ UNCHANGED <<wanted, artifacts, stage, seen, cited, result>>
    BY <1>0, <1>3, AroundSound
  <2> QED BY <1>0, <2>1 DEF SyncInvariant, Trusted, Authority, MayRead, Evaluation
<1>4. CASE UNCHANGED vars
  BY <1>4 DEF SyncInvariant, SyncType, Trusted, Authority, MayRead, Evaluation, vars, sources,
              handler, tasks
<1> QED BY <1>1, <1>2, <1>3, <1>4 DEF Next

LEMMA SyncInvariantAlways == Spec => []SyncInvariant
BY SyncInvariantInit, SyncInvariantStep, PTL DEF Spec

\* What an execution did after the decision, every record it read authorises.
LEMMA SyncInvariantAuthorises == SyncInvariant => AuthorisedAccess
<1> SUFFICES ASSUME SyncInvariant, NEW e \in Execution,
                    stage[e] \in Downstream \/ result[e].comment # None
             PROVE  /\ InScope(wanted.service, wanted.repository, wanted.project)
                    /\ Authorised(wanted.service, wanted.repository, seen[e].records)
  BY DEF AuthorisedAccess, Downstream
<1>1. Authority(e) /\ wanted \in Requests
  BY DEF SyncInvariant, Trusted, SyncType
<1>2. seen[e].records \in SUBSET ServiceRecord
  BY <1>1, SyncAssumption DEF Authority
<1>3. Candidates(wanted.service, seen[e].records) # {} =>
        \E r \in Candidates(wanted.service, seen[e].records) :
          \A s \in Candidates(wanted.service, seen[e].records) :
            s.sourceVersion <= r.sourceVersion
  BY <1>1, SyncAssumption DEF Authority
<1>4. Evaluate(wanted.service, wanted.repository, seen[e].records).outcome = "ready"
  BY <1>1 DEF Authority, MayRead, Evaluation
<1> QED BY <1>1, <1>2, <1>3, <1>4, ReadyIsAuthorised DEF Authority

\* No execution reads GitHub or Jira, or publishes, unless the request is in
\* scope and the records it has itself read authorise the publication, for
\* every catalog and however the sources change: no transition of the handler
\* skips the decision or replaces the records it was made on.
THEOREM AccessIsAuthorised == Spec => []AuthorisedAccess
BY SyncInvariantAlways, SyncInvariantAuthorises, PTL

-----------------------------------------------------------------------------
(* Implementation of GithubAction *)

LEMMA SelectedType ==
  ASSUME SyncInvariant, NEW e \in Execution, stage[e] = "publish"
  PROVE  Selected(e) \in ServiceRecord
<1> DEFINE candidates == Candidates(wanted.service, seen[e].records)
<1>1. Authority(e) /\ wanted \in Requests
  BY DEF SyncInvariant, Trusted, SyncType, Downstream
<1>2. seen[e].records \in SUBSET ServiceRecord
  BY <1>1, SyncAssumption DEF Authority
<1>3. candidates # {}
  BY <1>1 DEF Authority, MayRead, Evaluation, Evaluate, Verdict
<1>4. \E r \in candidates : \A s \in candidates : s.sourceVersion <= r.sourceVersion
  BY <1>1, <1>3, SyncAssumption DEF Authority
<1>5. Newest(candidates) \in candidates
  BY <1>4 DEF Newest
<1> QED BY <1>2, <1>5 DEF Selected, Candidates

LEMMA ReferenceType ==
  ASSUME NEW a \in Artifact
  PROVE  Reference(a) \in
           [provider : Provider, resource : Service \cup {None}, version : Nat]
<1>1. CASE a \in ArtifactOf("service_catalog", ServiceRecord)
  BY <1>1 DEF ArtifactOf, Reference, Provider, ServiceRecord
<1>2. CASE a \in ArtifactOf("github", Target)
  BY <1>2 DEF ArtifactOf, Reference, Provider, Target
<1>3. CASE a \in ArtifactOf("jira", WorkItem)
  BY <1>3 DEF ArtifactOf, Reference, Provider, WorkItem
<1> QED BY <1>1, <1>2, <1>3 DEF Artifact

LEMMA SourceType ==
  ASSUME NEW a \in Artifact
  PROVE  [provider |-> a.provider, content |-> a.content] \in
           [provider : Provider, content : Content]
<1>1. CASE a \in ArtifactOf("service_catalog", ServiceRecord)
  BY <1>1 DEF ArtifactOf, Provider, Content
<1>2. CASE a \in ArtifactOf("github", Target)
  BY <1>2 DEF ArtifactOf, Provider, Content
<1>3. CASE a \in ArtifactOf("jira", WorkItem)
  BY <1>3 DEF ArtifactOf, Provider, Content
<1> QED BY <1>1, <1>2, <1>3 DEF Artifact

\* What an execution renders is a body and a snapshot.
LEMMA RenderedType ==
  ASSUME SyncInvariant, NEW e \in Execution, stage[e] = "publish"
  PROVE  Rendered(e) \in [body : Body, snapshot : Snapshot]
<1>1. Selected(e).policyVersion \in Nat
  BY SelectedType DEF ServiceRecord
<1>2. cited[e] \subseteq Artifact
  BY DEF SyncInvariant, SyncType
<1>3. {Reference(a) : a \in cited[e]} \in
        SUBSET [provider : Provider, resource : Service \cup {None}, version : Nat]
  BY <1>2, ReferenceType
<1>4. {[provider |-> a.provider, content |-> a.content] : a \in cited[e]} \in
        SUBSET [provider : Provider, content : Content]
  BY <1>2, SourceType
<1>5. Rendered(e).body \in Body
  BY <1>1, <1>3 DEF Rendered, Body
<1>6. Rendered(e).snapshot \in Snapshot
  BY <1>1, <1>4 DEF Rendered, Snapshot
<1> QED BY <1>5, <1>6 DEF Rendered

LEMMA HandleImplements ==
  ASSUME SyncInvariant, NEW e \in Execution, Handle(e)
  PROVE  GA!Next \/ UNCHANGED publication
<1> USE DEF Execution
<1>1. CASE \/ Validate(e) \/ FetchRecords(e) \/ Decide(e)
           \/ \E r \in seen[e].records : RecordCatalog(e, r)
           \/ \E verified \in BOOLEAN : VerifyIdentity(e, verified)
           \/ FetchRepository(e) \/ FetchIssue(e) \/ RecordGithub(e)
           \/ FetchJira(e) \/ RecordJira(e) \/ Notify(e)
  BY <1>1 DEF Validate, FetchRecords, Decide, RecordCatalog, VerifyIdentity, FetchRepository,
              FetchIssue, RecordGithub, FetchJira, RecordJira, Notify, Prelude
<1>2. CASE Advance(e)
  <2>1. Rendered(e) \in [body : Body, snapshot : Snapshot]
    BY <1>2, RenderedType DEF Advance, Publishing
  <2>2. GA!Prepare(e) \/ GA!Reconciliation(e) \/ GA!Write(e)
    BY <1>2, <2>1 DEF Advance, GA!Prepare, GA!Reconciliation, GA!Write
  <2> QED BY <2>2 DEF GA!Next
<1>3. CASE Replay(e)
  <2>1. Rendered(e) \in [body : Body, snapshot : Snapshot]
    BY <1>3, RenderedType DEF Replay, Publishing
  <2>2. GA!Prepare(e)
    BY <1>3, <2>1 DEF Replay, GA!Prepare
  <2> QED BY <2>2 DEF GA!Next
<1>4. CASE Confirm(e) \/ InspectBound(e) \/ Conclude(e)
  <2>1. GA!Prepare(e) \/ GA!Reconciliation(e) \/ GA!Write(e)
    BY <1>4 DEF Confirm, InspectBound, Conclude, GA!Prepare, GA!Reconciliation, GA!Write
  <2> QED BY <2>1 DEF GA!Next
<1>5. CASE StateRefuses(e) \/ FenceRefuses(e)
  BY <1>5 DEF StateRefuses, FenceRefuses, GA!Next
<1>6. CASE Vanish(e) \/ ReadRejected(e) \/ StopForCancellation(e)
  BY <1>6 DEF Vanish, ReadRejected, StopForCancellation, Stop, GA!Next
<1> QED BY <1>1, <1>2, <1>3, <1>4, <1>5, <1>6 DEF Handle

LEMMA StepImplements == SyncInvariant /\ [Next]_vars => [GA!Next]_publication
<1> SUFFICES ASSUME SyncInvariant, [Next]_vars PROVE GA!Next \/ UNCHANGED publication
  OBVIOUS
<1>1. ASSUME NEW e \in Execution, Handle(e)
      PROVE  GA!Next \/ UNCHANGED publication
  BY <1>1, HandleImplements
<1>2. ASSUME NEW t \in Task, NEW n \in 1 .. MaxAttempts, Claim(t, n)
      PROVE  GA!Next
  BY <1>2 DEF Claim, GA!Next
<1>3. ASSUME NEW e \in Execution, Finalise(e) \/ Recover(e) \/ Land(e)
      PROVE  GA!Next
  BY <1>3 DEF Execution, Finalise, Recover, Land, GA!Next
<1>4. CASE Elsewhere
  BY <1>4 DEF Execution, Elsewhere, GA!Next
<1>5. CASE (\E t \in Task : Cancel(t)) \/ ChangeCatalog \/ ChangeTarget \/ ChangeJira
  BY <1>5 DEF Cancel, ChangeCatalog, ChangeTarget, ChangeJira, Changing
<1>6. CASE UNCHANGED vars
  BY <1>6 DEF vars
<1> QED BY <1>1, <1>2, <1>3, <1>4, <1>5, <1>6 DEF Next

\* The whole handler uses the comment and its ledger row as GithubAction says:
\* whatever it reads, decides, renders, records or notifies, every step is one
\* of GithubAction's or leaves the publication alone, so that what is proved of
\* GithubAction holds for executions that run the handler from its start.
THEOREM HandlerPublishesAsGithubAction == Spec => GA!Spec
<1>1. Init => GA!Init
  BY DEF Init
<1>2. SyncInvariant /\ [Next]_vars => [GA!Next]_GA!vars
  BY StepImplements DEF GA!vars, publication
<1> QED BY <1>1, <1>2, SyncInvariantAlways, PTL DEF Spec, GA!Spec

-----------------------------------------------------------------------------
(* Sensitive records *)

LEMMA PayloadIsMinimised ==
  ASSUME NEW r \in ServiceRecord, Payload(r).classification \in Sensitive
  PROVE  Payload(r) = Minimised(Payload(r))
BY DEF Payload, Minimised, ServiceRecord

\* An artifact that is recorded is known already, or holds what was asked for.
LEMMA RecordAdds ==
  ASSUME NEW e, NEW provider, NEW content, Record(e, provider, content),
         NEW a \in artifacts' \ artifacts
  PROVE  a.provider = provider /\ a.content = content
BY DEF Record, Same

LEMMA OnlyRecordsAdd ==
  ASSUME [Next]_vars, artifacts' # artifacts
  PROVE  \E e \in Execution :
           \/ \E r \in seen[e].records : Record(e, "service_catalog", Payload(r))
           \/ Record(e, "github", seen[e].target) \/ Record(e, "jira", seen[e].jira)
<1> USE DEF handler
<1>1. ASSUME NEW e \in Execution, Handle(e)
      PROVE  \/ \E r \in seen[e].records : RecordCatalog(e, r)
             \/ RecordGithub(e) \/ RecordJira(e)
  BY <1>1 DEF Handle, Validate, FetchRecords, Decide, VerifyIdentity, FetchRepository, FetchIssue,
              FetchJira, Advance, Confirm, Replay, InspectBound, Conclude, StateRefuses, Notify,
              FenceRefuses, Vanish, ReadRejected, StopForCancellation, Stop, Publishing
<1>2. ~\E t \in Task, n \in 1 .. MaxAttempts : Claim(t, n)
  BY DEF Claim
<1>3. ~\/ \E e \in Execution : Finalise(e) \/ Recover(e) \/ Land(e)
       \/ \E t \in Task : Cancel(t)
       \/ Elsewhere \/ ChangeCatalog \/ ChangeTarget \/ ChangeJira
  BY DEF Finalise, Recover, Land, Cancel, Elsewhere, ChangeCatalog, ChangeTarget, ChangeJira,
         Changing
<1>4. ~UNCHANGED vars
  BY DEF vars
<1>5. \E e \in Execution : Handle(e)
  BY <1>2, <1>3, <1>4 DEF Next
<1> QED BY <1>1, <1>5 DEF RecordCatalog, RecordGithub, RecordJira

\* No owner, reviewer or repository of a sensitive service is ever stored:
\* _record_catalog stores the minimised payload of every record, and no later
\* observation of another classification is merged into a stored one.
THEOREM SensitiveRecordsAreMinimised == Spec => []SensitiveIsMinimised
<1>1. Init => SensitiveIsMinimised
  BY DEF Init, SensitiveIsMinimised
<1>2. SyncInvariant /\ SensitiveIsMinimised /\ [Next]_vars => SensitiveIsMinimised'
  <2> SUFFICES ASSUME SyncInvariant, SensitiveIsMinimised, [Next]_vars,
                      NEW a \in artifacts' \ artifacts, a.provider = "service_catalog",
                      a.content.classification \in Sensitive
               PROVE  a.content = Minimised(a.content)
    BY DEF SensitiveIsMinimised
  <2>1. PICK e \in Execution :
           \/ \E r \in seen[e].records : Record(e, "service_catalog", Payload(r))
           \/ Record(e, "github", seen[e].target) \/ Record(e, "jira", seen[e].jira)
    BY OnlyRecordsAdd
  <2>2. PICK r \in seen[e].records : Record(e, "service_catalog", Payload(r))
    BY <2>1, RecordAdds
  <2>3. r \in ServiceRecord
    BY SyncAssumption DEF SyncInvariant, SyncType, Observation
  <2>4. a.content = Payload(r)
    BY <2>2, RecordAdds
  <2> QED BY <2>3, <2>4, PayloadIsMinimised
<1> QED BY <1>1, <1>2, SyncInvariantAlways, PTL DEF Spec
=============================================================================
