--------------------------- MODULE MCStateRunStore --------------------------
(***************************************************************************)
(* StateRunStore on small instances; tasks and runs are interchangeable.   *)
(***************************************************************************)
EXTENDS StateRunStore, TLC

Symmetry == Permutations(Tasks) \cup Permutations(Runs)
=============================================================================
