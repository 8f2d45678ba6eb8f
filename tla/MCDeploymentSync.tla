-------------------------- MODULE MCDeploymentSync --------------------------
(* Instances of DeploymentSync for TLC. *)
EXTENDS DeploymentSync

\* One request is in scope, one names a repository that is not allowed.
MCRequests ==
  [service : {"payments"}, repository : {"northstar", "elsewhere"}, project : {"PAY"}]

Granting ==
  [names |-> {"payments"}, canonical |-> "payments", owner |-> "ann",
   repositories |-> {"northstar"}, classification |-> "internal", policyVersion |-> 1,
   automatic |-> TRUE, reviewer |-> Nobody, updates |-> TRUE, sourceVersion |-> 1]

\* A service that may be published, or becomes sensitive; two records that
\* disagree.
MCCatalogs ==
  {{Granting},
   {[Granting EXCEPT !.classification = "confidential"]},
   {Granting, [Granting EXCEPT !.owner = "bob", !.sourceVersion = 2]}}
=============================================================================
