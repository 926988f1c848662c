---------------------------- MODULE MCClientList ----------------------------
(* Instances of ClientList for TLC. *)
EXTENDS ClientList, TLC
=============================================================================
