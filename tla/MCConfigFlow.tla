------------------------------ MODULE MCConfigFlow ------------------------------
(* ConfigFlow for TLC: all identities are interchangeable. *)
EXTENDS ConfigFlow, TLC

Symmetry ==
  Permutations(Entries) \cup Permutations(Coordinators) \cup Permutations(Calls)
    \cup Permutations(Units) \cup Permutations(Flows) \cup Permutations(Submissions)
===============================================================================
