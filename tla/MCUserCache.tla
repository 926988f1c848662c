----------------------------- MODULE MCUserCache -----------------------------
(* Instances of UserCache for TLC. *)
EXTENDS UserCache, TLC

Symmetry == Permutations(Requests) \cup Permutations(Commands)
=============================================================================
