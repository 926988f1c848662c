-------------------------------- MODULE Likes --------------------------------
(***************************************************************************)
(* Likes and favourites: InteractionService.ToggleLike and ToggleFavorite.  *)
(*                                                                         *)
(* A call looks for the row of its user and target, then deletes or inserts *)
(* it; a like then adjusts like_count of the post or reply.  Each is a      *)
(* statement of its own, without a transaction.  The unique index refuses   *)
(* a second row; nothing notices a DELETE that found none.                 *)
(***************************************************************************)
EXTENDS Integers, FiniteSets

CONSTANTS
  Users,
  Targets,      \* posts and replies
  Requests,     \* calls, one toggle each
  Caller,       \* Caller[r] : the user who sent r
  MayFail       \* whether statements may fail and the server stop

Kinds == {"like", "favorite"}

ASSUME LikesAssumption ==
  /\ Targets # {}
  /\ Caller \in [Requests -> Users]
  /\ MayFail \in BOOLEAN

VARIABLES
  rows,         \* tables likes and favorites
  likeCount,    \* like_count of each target
  req           \* req[r] : where call r is, and its arguments

likesVars == <<rows, likeCount, req>>

Row == [kind : Kinds, user : Users, target : Targets]

Request == [pc : {"idle", "look", "delete", "insert", "adjust", "done", "failed"},
            kind : Kinds, target : Targets, delta : {-1, 0, 1}]

LikesTypeOK ==
  /\ rows \in SUBSET Row
  /\ likeCount \in [Targets -> Int]
  /\ req \in [Requests -> Request]

LikesOf(t) == {x \in rows : x.kind = "like" /\ x.target = t}

LikesInit ==
  /\ rows \in SUBSET Row /\ IsFiniteSet(rows)
  /\ likeCount = [t \in Targets |-> Cardinality(LikesOf(t))]
  /\ req = [r \in Requests |-> [pc |-> "idle", kind |-> "like",
                                target |-> CHOOSE t \in Targets : TRUE,
                                delta |-> 0]]

-----------------------------------------------------------------------------
(* The row call r is about. *)
RowOf_ByCall(r) == [kind |-> req[r].kind, user |-> r, target |-> req[r].target]

RowOf(r) == [kind |-> req[r].kind, user |-> Caller[r], target |-> req[r].target]

(* The target exists (posts and replies are never removed from the tables). *)
Start(r, kind, t) ==
  /\ req[r].pc = "idle"
  /\ req' = [req EXCEPT ![r] = [pc |-> "look", kind |-> kind, target |-> t,
                                delta |-> 0]]
  /\ UNCHANGED <<rows, likeCount>>

(* HasLike, HasFavorite *)
Look(r) ==
  /\ req[r].pc = "look"
  /\ req' = [req EXCEPT ![r].pc = IF RowOf(r) \in rows THEN "delete" ELSE "insert"]
  /\ UNCHANGED <<rows, likeCount>>

(* Only likes are counted in a column; favourites are counted when asked. *)
AfterWrite(kind) == IF kind = "like" THEN "adjust" ELSE "done"

DeleteRow(r) ==
  /\ req[r].pc = "delete"
  /\ rows' = rows \ {RowOf(r)}
  /\ req' = [req EXCEPT ![r].pc = AfterWrite(req[r].kind), ![r].delta = -1]
  /\ UNCHANGED likeCount

(* The unique index on user and target. *)
Unique_NoIndex(r) == TRUE

Unique(r) == RowOf(r) \notin rows

Insert(r) ==
  /\ req[r].pc = "insert"
  /\ Unique(r)
  /\ rows' = rows \cup {RowOf(r)}
  /\ req' = [req EXCEPT ![r].pc = AfterWrite(req[r].kind), ![r].delta = 1]
  /\ UNCHANGED likeCount

InsertRefused(r) ==
  /\ req[r].pc = "insert"
  /\ ~Unique(r)
  /\ req' = [req EXCEPT ![r].pc = "failed"]
  /\ UNCHANGED <<rows, likeCount>>

Adjusted(r) == likeCount[req[r].target] + req[r].delta

(* adjustCount: like_count = like_count + delta, in the database. *)
Adjust(r) ==
  /\ req[r].pc = "adjust"
  /\ likeCount' = [likeCount EXCEPT ![req[r].target] = Adjusted(r)]
  /\ req' = [req EXCEPT ![r].pc = "done"]
  /\ UNCHANGED rows

(* A statement fails or the server stops; the error of adjustCount is       *)
(* ignored, so the caller may even be told of success.                     *)
Fail(r) ==
  /\ MayFail
  /\ req[r].pc \in {"look", "delete", "insert", "adjust"}
  /\ req' = [req EXCEPT ![r].pc = "failed"]
  /\ UNCHANGED <<rows, likeCount>>

Work(r) ==
  Look(r) \/ DeleteRow(r) \/ Insert(r) \/ InsertRefused(r) \/ Adjust(r) \/ Fail(r)

LikesNext ==
  \E r \in Requests :
    \/ \E kind \in Kinds, t \in Targets : Start(r, kind, t)
    \/ Work(r)

LikesSpec == LikesInit /\ [][LikesNext]_likesVars

-----------------------------------------------------------------------------
(* The calls that toggle the like of a target. *)
LikeCalls(t) ==
  {r \in Requests :
     req[r].pc # "idle" /\ req[r].kind = "like" /\ req[r].target = t}

(* What the calls in flight are still going to add to like_count. *)
Adjusting(t, d) ==
  {r \in LikeCalls(t) : req[r].pc = "adjust" /\ req[r].delta = d}

Due(t) == Cardinality(Adjusting(t, 1)) - Cardinality(Adjusting(t, -1))

(* How far the count is off the rows, apart from what is in flight. *)
Drift(t) == likeCount[t] + Due(t) - Cardinality(LikesOf(t))

Failures(t) == Cardinality({r \in LikeCalls(t) : req[r].pc = "failed"})

(* Calls on one target beyond the first of each user. *)
Repeats(t) ==
  Cardinality(LikeCalls(t)) - Cardinality({Caller[r] : r \in LikeCalls(t)})

(* However calls interleave, like_count is too high only by calls that failed *)
(* half way, since the unique index lets one of two inserts through, and too  *)
(* low only by those and by calls one user repeats on one target: different  *)
(* users never lose each other's like.                                     *)
DriftIsExplained ==
  \A t \in Targets :
    Drift(t) \in -(Failures(t) + Repeats(t)) .. Failures(t)
=============================================================================
