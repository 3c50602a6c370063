--------------------------- MODULE MCCaseLifecycle --------------------------
(* Small instances of CaseLifecycle. *)
EXTENDS CaseLifecycle, TLC

Symmetry == Permutations(Slots)
=============================================================================
