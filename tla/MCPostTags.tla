----------------------------- MODULE MCPostTags -----------------------------
(* Instances of PostTags for TLC. *)
EXTENDS PostTags, TLC

Symmetry == Permutations(Replacements)
=============================================================================
