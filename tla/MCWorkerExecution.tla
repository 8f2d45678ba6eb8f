------------------------ MODULE MCWorkerExecution ------------------------
(* Instances of WorkerExecution for TLC. *)
EXTENDS WorkerExecution, TLC

Symmetry == Permutations(Worker)
=============================================================================
