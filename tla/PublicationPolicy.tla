------------------------- MODULE PublicationPolicy -------------------------
(***************************************************************************)
(* The authority of the service catalog over a publication                 *)
(* (integrations/policy.py, integrations/domain.py): pure functions of the *)
(* request, the settings and the records that the catalog returned.  Names *)
(* are compared without case, so they are model values here.               *)
(***************************************************************************)
EXTENDS Naturals

CONSTANTS Service, Repository, JiraProject,  \* what a request can name
          Person,                            \* owners and reviewers
          AllowedServices, AllowedRepositories, AllowedJiraProjects,  \* settings
          MinimumPolicyVersion,              \* deployment_minimum_policy_version
          Nobody                             \* None

ASSUME PolicyAssumption ==
  /\ MinimumPolicyVersion \in Nat \ {0}
  /\ Nobody \notin Person

DataClassification == {"public", "internal", "confidential", "restricted"}

\* A source version is a string; only its place in their order counts.  names
\* holds the service identifier, the canonical one and the aliases.
ServiceRecord ==
  [names : SUBSET Service, canonical : Service, owner : Person \cup {Nobody},
   repositories : SUBSET Repository, classification : DataClassification,
   policyVersion : Nat, automatic : BOOLEAN, reviewer : Person \cup {Nobody},
   updates : BOOLEAN, sourceVersion : Nat]

\* Confidential and restricted.
Sensitive == {"confidential", "restricted"}

Candidates(service, records) == {r \in records : service \in r.names}

\* What the records of one service must agree on.
Signature(r) ==
  <<r.canonical, r.policyVersion, r.repositories, r.owner, r.classification,
    r.automatic, r.reviewer, r.updates>>

Agree(candidates) == \A r, s \in candidates : Signature(r) = Signature(s)

\* max(candidates, key = source_version).
Newest(candidates) ==
  CHOOSE r \in candidates : \A s \in candidates : s.sourceVersion <= r.sourceVersion

Verdict(outcome, reason) == [outcome |-> outcome, reason |-> reason]

\* Faulty variant: only a restricted service is kept from publication.
JudgeConfidential(r, repository) ==
  IF r.owner = Nobody THEN Verdict("needs_human_review", "service_owner_missing")
  ELSE IF r.classification = "restricted" THEN Verdict("blocked", "data_classification_blocked")
  ELSE IF r.policyVersion < MinimumPolicyVersion THEN Verdict("needs_human_review", "policy_stale")
  ELSE IF repository \notin r.repositories
       THEN Verdict("blocked", "repository_not_owned_by_service")
  ELSE IF ~r.automatic THEN Verdict("needs_human_review", "automatic_publication_disabled")
  ELSE IF r.reviewer # Nobody THEN Verdict("needs_human_review", "reviewer_required")
  ELSE Verdict("ready", "ready")

\* The checks of one record, in the order of the code.
Judge(r, repository) ==
  IF r.owner = Nobody THEN Verdict("needs_human_review", "service_owner_missing")
  ELSE IF r.classification = "restricted" THEN Verdict("blocked", "data_classification_blocked")
  ELSE IF r.classification = "confidential"
       THEN Verdict("needs_human_review", "data_classification_blocked")
  ELSE IF r.policyVersion < MinimumPolicyVersion THEN Verdict("needs_human_review", "policy_stale")
  ELSE IF repository \notin r.repositories
       THEN Verdict("blocked", "repository_not_owned_by_service")
  ELSE IF ~r.automatic THEN Verdict("needs_human_review", "automatic_publication_disabled")
  ELSE IF r.reviewer # Nobody THEN Verdict("needs_human_review", "reviewer_required")
  ELSE Verdict("ready", "ready")

\* evaluate_service_catalog.
Evaluate(service, repository, records) ==
  LET candidates == Candidates(service, records) IN
  IF candidates = {} THEN Verdict("blocked", "service_record_malformed")
  ELSE IF ~Agree(candidates) THEN Verdict("needs_human_review", "service_record_conflict")
  ELSE Judge(Newest(candidates), repository)

\* evaluate_static_scope; the settings admit the request when it returns None.
InScope(service, repository, project) ==
  /\ service \in AllowedServices
  /\ repository \in AllowedRepositories
  /\ project \in AllowedJiraProjects

-----------------------------------------------------------------------------
(* The reference: what it takes to publish without a person *)

\* A record grants the publication.
Grants(r, repository) ==
  /\ r.owner # Nobody
  /\ r.classification \notin Sensitive
  /\ r.policyVersion >= MinimumPolicyVersion
  /\ repository \in r.repositories
  /\ r.automatic
  /\ r.reviewer = Nobody

\* Some record names the service, and every one that does grants it in the
\* same terms.
Authorised(service, repository, records) ==
  /\ Candidates(service, records) # {}
  /\ Agree(Candidates(service, records))
  /\ \A r \in Candidates(service, records) : Grants(r, repository)
=============================================================================
