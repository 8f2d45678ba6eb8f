---------------------------- MODULE ActionDomain ----------------------------
(***************************************************************************)
(* What the rows of external_actions have in common, whatever the provider *)
(* (integrations/model.py).                                                *)
(***************************************************************************)

ActionStatus ==
  {"reserved", "reconciling", "ready_to_execute", "executing", "retryable_failure",
   "outcome_unknown", "succeeded", "permanent_failure", "needs_human_review"}
=============================================================================
