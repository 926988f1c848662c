---------------------------- MODULE MCReplyFloors ----------------------------
(* Instances of ReplyFloors for TLC. *)
EXTENDS ReplyFloors, TLC

CONSTANTS u1, u2

MCPostAuthor == [p \in Posts |-> u1]

Symmetry == Permutations(Requests)
=============================================================================
