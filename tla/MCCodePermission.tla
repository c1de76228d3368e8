-------------------------- MODULE MCCodePermission --------------------------
(* Instances of CodePermission for model checking                          *)
EXTENDS CodePermission, TLC

Symmetry == Permutations(Proc \ Purger) \cup Permutations(Aux)
=============================================================================
