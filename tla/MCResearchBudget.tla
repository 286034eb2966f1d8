-------------------------- MODULE MCResearchBudget --------------------------
(***************************************************************************)
(* ResearchBudget on small instances; callers are interchangeable.         *)
(***************************************************************************)
EXTENDS ResearchBudget, TLC

Symmetry == Permutations(Callers)
=============================================================================
