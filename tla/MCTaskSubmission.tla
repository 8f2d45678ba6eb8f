-------------------------- MODULE MCTaskSubmission --------------------------
(* An instance of TaskSubmission for TLC. *)
EXTENDS TaskSubmission

\* Two requests that normalise to the same input, one that differs, one that
\* the validation refuses.
MCPayload == {"plain", "spelled_out", "different", "malformed"}
MCCanonical ==
  [plain |-> "f1", spelled_out |-> "f1", different |-> "f2", malformed |-> "invalid"]
=============================================================================
