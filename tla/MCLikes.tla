------------------------------- MODULE MCLikes -------------------------------
(* Instances of Likes for TLC. *)
EXTENDS Likes, TLC

CONSTANTS u1, u2, r1, r2, r3

(* u1 sends two calls: a double click, or two devices. *)
Twice == (r1 :> u1) @@ (r2 :> u1) @@ (r3 :> u2)
=============================================================================
