---------------------------- MODULE MCWorkerPool ----------------------------
(* Instances of WorkerPool for TLC. *)
EXTENDS WorkerPool, TLC

\* Sessions whose cleanup registers, request slots, paths and ids are interchangeable.
Symmetry ==
  Permutations(Sessions \ Manual) \cup Permutations(Requests)
    \cup Permutations(Paths) \cup Permutations(Ids)
=============================================================================
