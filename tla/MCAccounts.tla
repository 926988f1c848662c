------------------------------ MODULE MCAccounts ------------------------------
EXTENDS Accounts, TLC

(* Ids and goroutines are interchangeable, and no property is a liveness one. *)
Symmetry == Permutations(Ids) \cup Permutations(Requests)
=============================================================================
