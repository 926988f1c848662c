--------------------------- MODULE MCPostLifecycle ---------------------------
(* Instances of PostLifecycle for TLC. *)
EXTENDS PostLifecycle, TLC

Symmetry == Permutations(Posts) \cup Permutations(Edits)
=============================================================================
