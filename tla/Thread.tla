------------------------------- MODULE Thread -------------------------------
(***************************************************************************)
(* What a discussion thread promises its readers, whatever the back end    *)
(* does to serve concurrent repliers: the floors of a post are a sequence  *)
(* that only ever grows at its end, no reply is two floors, and the        *)
(* advertised size counts every reply, floor or sub-reply, exactly once.   *)
(***************************************************************************)
EXTENDS Naturals, Sequences

CONSTANTS Posts, Replies

VARIABLES
  floors,     \* floors[p] : the replies that are floors of p, floor 1 first
  size        \* size[p]   : the advertised number of replies of p

vars == <<floors, size>>

Init ==
  /\ floors = [p \in Posts |-> <<>>]
  /\ size = [p \in Posts |-> 0]

(* A reply becomes the next floor of its post. *)
AddFloor(p, r) ==
  /\ \A q \in Posts : \A n \in DOMAIN floors[q] : floors[q][n] # r
  /\ floors' = [floors EXCEPT ![p] = Append(@, r)]
  /\ size' = [size EXCEPT ![p] = @ + 1]

(* A reply joins the post below some floor: only the size changes. *)
AddSubReply(p) ==
  /\ size' = [size EXCEPT ![p] = @ + 1]
  /\ UNCHANGED floors

Next ==
  \E p \in Posts :
    \/ \E r \in Replies : AddFloor(p, r)
    \/ AddSubReply(p)

Spec == Init /\ [][Next]_vars
=============================================================================
