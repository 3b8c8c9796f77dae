----------------------------- MODULE MCAnalysis -----------------------------
(* Instances of Analysis for TLC. *)
EXTENDS Analysis, TLC

\* Requests are interchangeable, and so are databases.
Symmetry == Permutations(Callers) \cup Permutations(Dbs)
=============================================================================
