---------------------------- MODULE MCViewCounter ----------------------------
(* Instances of ViewCounter for TLC. *)
EXTENDS ViewCounter, TLC

Symmetry == Permutations(Posts) \cup Permutations(Runs)
=============================================================================
