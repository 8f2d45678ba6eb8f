--------------------------- MODULE MCGithubAction ---------------------------
(* Instances of GithubAction for TLC. *)
EXTENDS GithubAction, TLC

\* Tasks, bodies and snapshots are interchangeable.
Symmetry == Permutations(Task) \cup Permutations(Body) \cup Permutations(Snapshot)
=============================================================================
