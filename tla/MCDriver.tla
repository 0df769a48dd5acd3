------------------------------ MODULE MCDriver ------------------------------
(* Instances of Driver for TLC: the constants get their values in the .cfg *)
(* files.                                                                  *)
EXTENDS Driver, TLC

Symmetry == Permutations(Callers) \cup Permutations(Services)
=============================================================================
