--------------------------- MODULE MCWorkerProcess ---------------------------
(* Instances of WorkerProcess for TLC. *)
EXTENDS WorkerProcess, TLC

\* Calls are interchangeable.  (Not for liveness checks.)
Symmetry == Permutations(Calls)
=============================================================================
