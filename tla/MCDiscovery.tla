---------------------------- MODULE MCDiscovery -----------------------------
(* Instances of Discovery for TLC. *)
EXTENDS Discovery, TLC

\* Processes of a kind are interchangeable.  (Daemons are numbers, versions
\* differ by Unknown.)
Symmetry == Permutations(Proxies) \cup Permutations(Stops)
=============================================================================
