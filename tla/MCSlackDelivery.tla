-------------------------- MODULE MCSlackDelivery ---------------------------
(* Instances of SlackDelivery for TLC. *)
EXTENDS SlackDelivery, TLC

\* Tasks and evidence are interchangeable.
Symmetry == Permutations(Task) \cup Permutations(Evidence)
=============================================================================
