----------------------------- MODULE ReplyFloors -----------------------------
(***************************************************************************)
(* Replying to a post: ContentService.CreateReply and the transaction      *)
(* ContentRepo.CreateReplyWithFloor that numbers the floors.               *)
(*                                                                         *)
(* Each request is one call of the handler and would create one reply, so  *)
(* a request and the reply it creates share a name.  A call validates its  *)
(* input, then runs a transaction of three statements: an UPDATE of the    *)
(* post's reply_count, which holds the post's row lock until the end of    *)
(* the transaction, a COUNT of the post's floors (top-level replies only), *)
(* and the INSERT, then it commits.  Rows of `replies` are never updated   *)
(* or deleted by the code, so a validation read returns the same answer    *)
(* whenever it runs: all of them happen in one step, Accept.               *)
(***************************************************************************)
EXTENDS Integers, FiniteSets

CONSTANTS
  Posts,
  Requests,     \* calls of CreateReply, and the reply each of them creates
  Users,
  NoReply,      \* a NULL parent_id or reply_to_id; also: nobody holds a lock
  PostAuthor    \* PostAuthor[p] : posts.author_id

ASSUME ReplyFloorsAssumption ==
  /\ Posts # {}
  /\ NoReply \notin Requests
  /\ PostAuthor \in [Posts -> Users]

VARIABLES
  published,    \* the posts whose status is PostStatusPublished
  replyCount,   \* posts.reply_count
  rows,         \* the committed rows of table replies
  col,          \* col[r] : the columns of reply r, set by its own request
  lock,         \* lock[p] : the request whose transaction locks p's row
  pc,           \* pc[r] : where request r is
  inbox         \* the notifications created for replies

vars == <<published, replyCount, rows, col, lock, pc, inbox>>

Reply == [post : Posts, author : Users, parent : Requests \cup {NoReply},
          replyTo : Requests \cup {NoReply}, floor : Nat]

Notification == [to : Users, type : {"reply", "mention"}, about : Requests]

TypeOK ==
  /\ published \in SUBSET Posts
  /\ replyCount \in [Posts -> Nat]
  /\ rows \in SUBSET Requests
  /\ col \in [Requests -> Reply]
  /\ lock \in [Posts -> Requests \cup {NoReply}]
  /\ pc \in [Requests -> {"idle", "lock", "count", "insert", "notify",
                          "done", "failed"}]
  /\ inbox \in SUBSET Notification

RepliesOf(p) == {r \in rows : col[r].post = p}

(* WHERE post_id = p AND parent_id IS NULL *)
Floors(p) == {r \in rows : col[r].post = p /\ col[r].parent = NoReply}

(* A reply nobody has filled in yet. *)
Blank ==
  LET p == CHOOSE q \in Posts : TRUE
  IN  [post |-> p, author |-> PostAuthor[p], parent |-> NoReply,
       replyTo |-> NoReply, floor |-> 0]

Init ==
  /\ published = Posts
  /\ replyCount = [p \in Posts |-> 0]
  /\ rows = {}
  /\ col = [r \in Requests |-> Blank]
  /\ lock = [p \in Posts |-> NoReply]
  /\ pc = [r \in Requests |-> "idle"]
  /\ inbox = {}

-----------------------------------------------------------------------------
(* The parent is itself a reply to a sub-reply: a fourth layer is refused. *)
TooDeep_Never(parent) == FALSE

TooDeep(parent) ==
  /\ col[parent].parent # NoReply
  /\ col[col[parent].parent].parent # NoReply

(* reply_to_id when the client gives one, otherwise parent_id. *)
Target(parent, replyTo) == IF replyTo # NoReply THEN replyTo ELSE parent

TargetInPost(p, target) == target # NoReply => col[target].post = p

(* Everything CreateReply does before its transaction.  A request that any  *)
(* check refuses has no effect and is not recorded.  The parent is not     *)
(* compared with the post: only the target of the reply is.                *)
Accept(r, p, a, parent, replyTo) ==
  LET target == Target(parent, replyTo) IN
  /\ pc[r] = "idle"
  /\ p \in published
  /\ parent # NoReply => ~TooDeep(parent)
  /\ TargetInPost(p, target)
  /\ col' = [col EXCEPT ![r] =
       [post |-> p, author |-> a, parent |-> parent, replyTo |-> target,
        floor |-> IF parent = NoReply THEN 0 ELSE col[parent].floor]]
  /\ pc' = [pc EXCEPT ![r] = "lock"]
  /\ UNCHANGED <<published, replyCount, rows, lock, inbox>>

(* An UPDATE of a post's row waits while a transaction holds its lock. *)
RowFree_NoWait(p) == TRUE

RowFree(p) == lock[p] = NoReply

(* UPDATE posts SET reply_count = reply_count + 1: the lock is taken here,  *)
(* the new count is visible to others when the transaction commits.        *)
LockPost(r) ==
  /\ pc[r] = "lock"
  /\ RowFree(col[r].post)
  /\ lock' = [lock EXCEPT ![col[r].post] = r]
  /\ pc' = [pc EXCEPT ![r] = IF col[r].parent = NoReply THEN "count"
                                                        ELSE "insert"]
  /\ UNCHANGED <<published, replyCount, rows, col, inbox>>

CountFloors_Off(r) ==
  /\ pc[r] = "count"
  /\ col' = [col EXCEPT ![r].floor = Cardinality(Floors(col[r].post)) - 1]
  /\ pc' = [pc EXCEPT ![r] = "insert"]
  /\ UNCHANGED <<published, replyCount, rows, lock, inbox>>

(* SELECT count: what is committed when the statement starts. *)
CountFloors(r) ==
  /\ pc[r] = "count"
  /\ col' = [col EXCEPT ![r].floor = Cardinality(Floors(col[r].post)) + 1]
  /\ pc' = [pc EXCEPT ![r] = "insert"]
  /\ UNCHANGED <<published, replyCount, rows, lock, inbox>>

(* What the reply adds to reply_count: floors and sub-replies alike. *)
CountedReply_FloorsOnly(r) == IF col[r].parent = NoReply THEN 1 ELSE 0

CountedReply(r) == 1

(* The row locks left when the transaction of r is over, one way or the other. *)
Released(r) == [q \in Posts |-> IF lock[q] = r THEN NoReply ELSE lock[q]]

(* INSERT and COMMIT: the row and the new count appear, the lock goes. *)
Commit(r) ==
  /\ pc[r] = "insert"
  /\ rows' = rows \cup {r}
  /\ replyCount' = [replyCount EXCEPT ![col[r].post] = @ + CountedReply(r)]
  /\ lock' = Released(r)
  /\ pc' = [pc EXCEPT ![r] = "notify"]
  /\ UNCHANGED <<published, col, inbox>>

(* A statement fails, or the server stops, with the transaction open or    *)
(* not yet begun: PostgreSQL rolls it back and releases the lock.          *)
Abort(r) ==
  /\ pc[r] \in {"lock", "count", "insert"}
  /\ lock' = Released(r)
  /\ pc' = [pc EXCEPT ![r] = "failed"]
  /\ UNCHANGED <<published, replyCount, rows, col, inbox>>

(* notifyReply tells the post's author, then the author of the target. *)
MentionTo_OwnerToo(r) ==
  {col[t].author : t \in {col[r].replyTo} \ {NoReply}} \ {col[r].author}

MentionTo(r) ==
  {col[t].author : t \in {col[r].replyTo} \ {NoReply}}
    \ {col[r].author, PostAuthor[col[r].post]}

NotificationsOf(r) ==
  {[to |-> u, type |-> "reply", about |-> r] :
      u \in {PostAuthor[col[r].post]} \ {col[r].author}}
  \cup {[to |-> u, type |-> "mention", about |-> r] : u \in MentionTo(r)}

(* Errors of either insertion are ignored, and the server may stop before   *)
(* them: any subset may really be created.                                 *)
Notify(r) ==
  /\ pc[r] = "notify"
  /\ \E sent \in SUBSET NotificationsOf(r) : inbox' = inbox \cup sent
  /\ pc' = [pc EXCEPT ![r] = "done"]
  /\ UNCHANGED <<published, replyCount, rows, col, lock>>

(* Author, moderator or operator change posts.status meanwhile; module     *)
(* PostLifecycle has the handlers.  Their UPDATE needs the row lock too.   *)
ChangeStatus(p) ==
  /\ RowFree(p)
  /\ published' = IF p \in published THEN published \ {p}
                                    ELSE published \cup {p}
  /\ UNCHANGED <<replyCount, rows, col, lock, pc, inbox>>

Serve(r) == LockPost(r) \/ CountFloors(r) \/ Commit(r) \/ Notify(r)

Next ==
  \/ \E r \in Requests :
       \/ \E p \in Posts, a \in Users, parent, replyTo \in rows \cup {NoReply} :
            Accept(r, p, a, parent, replyTo)
       \/ LockPost(r)
       \/ CountFloors(r)
       \/ Commit(r)
       \/ Abort(r)
       \/ Notify(r)
  \/ \E p \in Posts : ChangeStatus(p)

Spec == Init /\ [][Next]_vars

-----------------------------------------------------------------------------
(* "Floor numbers neither repeat nor skip" (the comment of                  *)
(* CreateReplyWithFloor): the floors of a post are numbered 1, 2, ... with *)
(* no number missing or given twice, however many replies are in flight.   *)
FloorsGapless ==
  \A p \in Posts :
    {col[r].floor : r \in Floors(p)} = 1 .. Cardinality(Floors(p))

(* posts.reply_count is the number of replies of the post, floors and       *)
(* sub-replies, although it is maintained apart from them.                 *)
ReplyCountExact ==
  \A p \in Posts : replyCount[p] = Cardinality(RepliesOf(p))

(* Three layers at most, and a reply below a floor carries the number of    *)
(* that floor, whichever layer it is in and however late its parent came.  *)
ThreeLayers ==
  \A r \in rows : col[r].parent # NoReply =>
    LET p == col[r].parent IN
      /\ p \in rows
      /\ col[r].floor = col[p].floor
      /\ col[p].parent # NoReply => col[col[p].parent].parent = NoReply

(* The reply somebody is told to be answered is in the same thread.         *)
AnswersSamePost ==
  \A r \in rows : col[r].replyTo # NoReply =>
    /\ col[r].replyTo \in rows
    /\ col[col[r].replyTo].post = col[r].post

(* A notification is about a committed reply, never reaches the reply's own *)
(* author, and nobody is told twice of the same reply.                     *)
NotificationsSound ==
  \A n \in inbox :
    /\ n.about \in rows
    /\ n.to # col[n.about].author
    /\ \A m \in inbox : (m.about = n.about /\ m.to = n.to) => m = n

(* The transaction that holds a post's row is alive and about that post: no *)
(* abort or commit leaves the row locked.                                  *)
LocksAreHeld ==
  \A p \in Posts : lock[p] # NoReply =>
    pc[lock[p]] \in {"count", "insert"} /\ col[lock[p]].post = p

(* The thread a reader sees: floor n of a post is the n-th reply of the     *)
(* append-only sequence of module Thread.                                  *)
FloorSequence(p) ==
  [n \in 1 .. Cardinality(Floors(p)) |->
     LET here == {r \in Floors(p) : col[r].floor = n}
     IN  IF here = {} THEN NoReply ELSE CHOOSE r \in here : TRUE]

Abstract == INSTANCE Thread WITH
  Replies <- Requests,
  floors <- [p \in Posts |-> FloorSequence(p)],
  size <- replyCount

(* CreateReply implements the append-only thread: a floor, once numbered,   *)
(* keeps its number and its place, and every reply counts once.            *)
ThreadSpec == Abstract!Spec
=============================================================================
