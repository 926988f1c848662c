------------------------- MODULE ReplyFloors_proofs -------------------------
(***************************************************************************)
(* Proofs about ReplyFloors, for every set of posts, users and requests.   *)
(*                                                                         *)
(* FloorsGapless is not inductive: that the next floor is the right one    *)
(* depends on what a request carries from its COUNT to its COMMIT.  The    *)
(* inductive invariant IInv adds that a request inside its transaction     *)
(* holds the lock of its post (so there is one of them per post), that a   *)
(* numbered request still carries the number of floors plus one, and that  *)
(* the rows are those of the requests that committed.                      *)
(***************************************************************************)
EXTENDS ReplyFloors, Sequences, FiniteSetTheorems, TLAPS

InTransaction(r) == pc[r] \in {"count", "insert"}

HoldsItsLock ==
  \A r \in Requests : InTransaction(r) => lock[col[r].post] = r

RowsCommitted ==
  /\ IsFiniteSet(rows)
  /\ \A r \in rows : pc[r] \in {"notify", "done"}

Numbered ==
  \A r \in Requests :
    pc[r] = "insert" /\ col[r].parent = NoReply =>
      col[r].floor = Cardinality(Floors(col[r].post)) + 1

FloorsDistinct ==
  \A p \in Posts : \A r, s \in Floors(p) : col[r].floor = col[s].floor => r = s

IInv ==
  /\ TypeOK
  /\ HoldsItsLock
  /\ LocksAreHeld
  /\ RowsCommitted
  /\ Numbered
  /\ FloorsGapless
  /\ FloorsDistinct
  /\ ReplyCountExact

-----------------------------------------------------------------------------
(* The variables have their types in every reachable state. *)
LEMMA BlankType == Blank \in Reply
BY ReplyFloorsAssumption DEF Blank, Reply

TypeInv == TypeOK /\ IsFiniteSet(rows)

LEMMA FloorsFinite ==
  ASSUME TypeInv, NEW p
  PROVE  /\ IsFiniteSet(Floors(p))
         /\ Cardinality(Floors(p)) \in Nat
<1>1. Floors(p) \in SUBSET rows
  BY DEF Floors
<1>2. QED
  BY <1>1, FS_Subset, FS_CardinalityType DEF TypeInv

LEMMA TypeStep == TypeInv /\ [Next]_vars => TypeInv'
<1> SUFFICES ASSUME TypeInv, [Next]_vars PROVE TypeInv'
  OBVIOUS
<1> USE ReplyFloorsAssumption DEF TypeInv, TypeOK
<1>1. ASSUME NEW r \in Requests, NEW p \in Posts, NEW a \in Users,
             NEW parent \in rows \cup {NoReply},
             NEW replyTo \in rows \cup {NoReply},
             Accept(r, p, a, parent, replyTo)
      PROVE  TypeInv'
  <2>1. /\ parent \in Requests \cup {NoReply}
        /\ Target(parent, replyTo) \in Requests \cup {NoReply}
    BY DEF Target
  <2>2. (IF parent = NoReply THEN 0 ELSE col[parent].floor) \in Nat
    BY DEF Reply
  <2>3. col' \in [Requests -> Reply]
    BY <1>1, <2>1, <2>2 DEF Accept, Reply
  <2>4. QED
    BY <1>1, <2>3 DEF Accept
<1>2. ASSUME NEW r \in Requests, LockPost(r)
      PROVE  TypeInv'
  BY <1>2 DEF LockPost, Reply
<1>3. ASSUME NEW r \in Requests, CountFloors(r)
      PROVE  TypeInv'
  <2>1. Cardinality(Floors(col[r].post)) + 1 \in Nat
    BY FloorsFinite
  <2>2. col' \in [Requests -> Reply]
    BY <1>3, <2>1 DEF CountFloors, Reply
  <2>3. QED
    BY <1>3, <2>2 DEF CountFloors
<1>4. ASSUME NEW r \in Requests, Commit(r)
      PROVE  TypeInv'
  <2>1. IsFiniteSet(rows')
    BY <1>4, FS_AddElement DEF Commit, CountedReply, Released
  <2>2. col[r].post \in Posts
    BY DEF Reply
  <2>3. QED
    BY <1>4, <2>1, <2>2 DEF Commit, CountedReply, Released
<1>5. ASSUME NEW r \in Requests, Abort(r)
      PROVE  TypeInv'
  BY <1>5 DEF Abort, Released
<1>6. ASSUME NEW r \in Requests, Notify(r)
      PROVE  TypeInv'
  <2>1. NotificationsOf(r) \in SUBSET Notification
    BY DEF NotificationsOf, MentionTo, Notification, Reply
  <2>2. inbox' \in SUBSET Notification
    BY <1>6, <2>1 DEF Notify
  <2>3. QED
    BY <1>6, <2>2 DEF Notify
<1>7. ASSUME NEW p \in Posts, ChangeStatus(p)
      PROVE  TypeInv'
  BY <1>7 DEF ChangeStatus
<1>8. CASE UNCHANGED vars
  BY <1>8 DEF vars
<1>9. QED
  BY <1>1, <1>2, <1>3, <1>4, <1>5, <1>6, <1>7, <1>8 DEF Next

LEMMA TypeInit == Init => TypeInv
BY BlankType, FS_EmptySet, ReplyFloorsAssumption DEF Init, TypeInv, TypeOK

(* The variables have their types in every reachable state. *)
THEOREM TypeCorrect == Spec => []TypeOK
<1>1. TypeInv => TypeOK
  BY DEF TypeInv
<1>2. QED
  BY <1>1, TypeInit, TypeStep, PTL DEF Spec

-----------------------------------------------------------------------------
(* A step that leaves the committed rows alone leaves every post's floors    *)
(* and replies alone, and with them the three facts about committed rows.   *)
RowFacts == FloorsGapless /\ FloorsDistinct /\ ReplyCountExact

LEMMA SameRows ==
  ASSUME rows' = rows, replyCount' = replyCount,
         \A r \in rows : col'[r] = col[r], RowFacts
  PROVE  /\ \A p : Floors(p)' = Floors(p)
         /\ RowFacts'
<1>1. ASSUME NEW p
      PROVE  /\ Floors(p)' = Floors(p)
             /\ RepliesOf(p)' = RepliesOf(p)
             /\ \A r \in Floors(p) : col'[r] = col[r]
  BY DEF Floors, RepliesOf
<1>2. FloorsGapless'
  <2> SUFFICES ASSUME NEW p \in Posts
               PROVE  {col'[r].floor : r \in Floors(p)'}
                        = 1 .. Cardinality(Floors(p)')
    BY DEF FloorsGapless
  <2>1. {col'[r].floor : r \in Floors(p)'} = {col[r].floor : r \in Floors(p)}
    BY <1>1
  <2>2. QED
    BY <2>1, <1>1 DEF RowFacts, FloorsGapless
<1>3. FloorsDistinct'
  BY <1>1 DEF RowFacts, FloorsDistinct
<1>4. ReplyCountExact'
  BY <1>1 DEF RowFacts, ReplyCountExact
<1>5. QED
  BY <1>1, <1>2, <1>3, <1>4 DEF RowFacts

(* COMMIT is the step that matters: a floor joins the floors of its post     *)
(* with the number after the last, and any reply joins its post's count.    *)
LEMMA CommitRowFacts ==
  ASSUME TypeInv, RowFacts, Numbered, RowsCommitted, NEW r \in Requests, Commit(r)
  PROVE  RowFacts'
<1>0. PICK p \in Posts : p = col[r].post
  BY DEF TypeInv, TypeOK, Reply
<1>1. r \notin rows /\ rows' = rows \cup {r} /\ col' = col
  BY DEF Commit, CountedReply, Released, RowsCommitted, TypeInv, TypeOK, Reply
<1>2. replyCount' = [replyCount EXCEPT ![p] = @ + 1]
  BY <1>0 DEF Commit, CountedReply, Released
<1>3. \A q : RepliesOf(q)' = IF q = p THEN RepliesOf(q) \cup {r} ELSE RepliesOf(q)
  BY <1>0, <1>1 DEF RepliesOf
<1>4. ReplyCountExact'
  <2> SUFFICES ASSUME NEW q \in Posts
               PROVE  replyCount'[q] = Cardinality(RepliesOf(q)')
    BY DEF ReplyCountExact
  <2>1. replyCount[q] = Cardinality(RepliesOf(q))
    BY DEF RowFacts, ReplyCountExact
  <2>2. CASE q # p
    BY <1>2, <1>3, <2>1, <2>2 DEF TypeInv, TypeOK
  <2>3. CASE q = p
    <3>1. IsFiniteSet(RepliesOf(p)) /\ r \notin RepliesOf(p)
      <4>1. RepliesOf(p) \in SUBSET rows
        BY DEF RepliesOf
      <4>2. QED
        BY <4>1, <1>1, FS_Subset DEF TypeInv
    <3>2. Cardinality(RepliesOf(p) \cup {r}) = Cardinality(RepliesOf(p)) + 1
      BY <3>1, FS_AddElement
    <3>3. replyCount'[p] = replyCount[p] + 1
      BY <1>1, <1>2 DEF TypeInv, TypeOK
    <3>4. QED
      BY <1>3, <2>1, <2>3, <3>2, <3>3
  <2>4. QED
    BY <2>2, <2>3
<1>5. CASE col[r].parent # NoReply
  <2>1. \A q : Floors(q)' = Floors(q)
    BY <1>1, <1>5 DEF Floors
  <2>2. FloorsGapless' /\ FloorsDistinct'
    BY <1>1, <2>1 DEF RowFacts, FloorsGapless, FloorsDistinct
  <2>3. QED
    BY <1>4, <2>2 DEF RowFacts
<1>6. CASE col[r].parent = NoReply
  <2> DEFINE n == Cardinality(Floors(p))
  <2>1. \A q : Floors(q)' = IF q = p THEN Floors(q) \cup {r} ELSE Floors(q)
    BY <1>0, <1>1, <1>6 DEF Floors
  <2>2. IsFiniteSet(Floors(p)) /\ n \in Nat /\ r \notin Floors(p)
    BY <1>1, FloorsFinite DEF Floors
  <2>3. Cardinality(Floors(p)') = n + 1
    BY <2>1, <2>2, FS_AddElement
  <2>4. col[r].floor = n + 1
    BY <1>0, <1>6 DEF Numbered, Commit, Released
  <2>5. {col[s].floor : s \in Floors(p)} = 1 .. n
    BY <1>1 DEF RowFacts, FloorsGapless
  <2>6. FloorsGapless'
    <3> SUFFICES ASSUME NEW q \in Posts
                 PROVE  {col'[s].floor : s \in Floors(q)'}
                          = 1 .. Cardinality(Floors(q)')
      BY DEF FloorsGapless
    <3>1. CASE q # p
      BY <1>1, <2>1, <3>1 DEF RowFacts, FloorsGapless
    <3>2. CASE q = p
      <4>1. {col'[s].floor : s \in Floors(p)'}
              = {col[s].floor : s \in Floors(p)} \cup {n + 1}
        BY <1>1, <2>1, <2>4
      <4>2. (1 .. n) \cup {n + 1} = 1 .. (n + 1)
        BY <2>2
      <4>3. QED
        BY <3>2, <4>1, <4>2, <2>3, <2>5
    <3>3. QED
      BY <3>1, <3>2
  <2>7. FloorsDistinct'
    <3> SUFFICES ASSUME NEW q \in Posts, NEW s \in Floors(q)', NEW t \in Floors(q)',
                        col'[s].floor = col'[t].floor
                 PROVE  s = t
      BY DEF FloorsDistinct
    <3>1. \A x \in Floors(p) : col[x].floor # n + 1
      <4>1. n + 1 \notin 1 .. n
        BY <2>2
      <4>2. QED
        BY <2>5, <4>1
    <3>2. CASE q = p
      BY <1>1, <2>1, <2>4, <3>1, <3>2 DEF RowFacts, FloorsDistinct
    <3>3. CASE q # p
      BY <1>1, <2>1, <3>3 DEF RowFacts, FloorsDistinct
    <3>4. QED
      BY <3>2, <3>3
  <2>8. QED
    BY <1>4, <2>6, <2>7 DEF RowFacts
<1>7. QED
  BY <1>5, <1>6

-----------------------------------------------------------------------------
LockFacts == HoldsItsLock /\ LocksAreHeld /\ RowsCommitted /\ Numbered

LEMMA AcceptFacts ==
  ASSUME TypeInv, LockFacts, NEW r \in Requests, NEW p \in Posts,
         NEW a \in Users, NEW parent \in rows \cup {NoReply},
         NEW replyTo \in rows \cup {NoReply}, Accept(r, p, a, parent, replyTo)
  PROVE  /\ rows' = rows /\ replyCount' = replyCount
         /\ \A s \in rows : col'[s] = col[s]
         /\ \A s \in Requests \ {r} : col'[s] = col[s] /\ pc'[s] = pc[s]
         /\ pc'[r] = "lock" /\ pc[r] = "idle" /\ lock' = lock
BY DEF Accept, TypeInv, TypeOK, LockFacts, RowsCommitted

LEMMA CountFacts ==
  ASSUME TypeInv, LockFacts, NEW r \in Requests, CountFloors(r)
  PROVE  /\ rows' = rows /\ replyCount' = replyCount /\ lock' = lock
         /\ \A s \in rows : col'[s] = col[s]
         /\ \A s \in Requests \ {r} : col'[s] = col[s] /\ pc'[s] = pc[s]
         /\ pc'[r] = "insert" /\ pc[r] = "count"
         /\ col'[r].post = col[r].post /\ col'[r].parent = col[r].parent
         /\ col'[r].floor = Cardinality(Floors(col[r].post)) + 1
BY DEF CountFloors, TypeInv, TypeOK, Reply, LockFacts, RowsCommitted

LEMMA InvStep == IInv /\ TypeInv /\ [Next]_vars => IInv'
<1> SUFFICES ASSUME IInv, TypeInv, [Next]_vars PROVE LockFacts' /\ RowFacts'
  BY TypeStep DEF IInv, LockFacts, RowFacts, TypeInv
<1>0. LockFacts /\ RowFacts
  BY DEF IInv, LockFacts, RowFacts
<1> USE ReplyFloorsAssumption
<1>1. ASSUME NEW r \in Requests, NEW p \in Posts, NEW a \in Users,
             NEW parent \in rows \cup {NoReply},
             NEW replyTo \in rows \cup {NoReply},
             Accept(r, p, a, parent, replyTo)
      PROVE  LockFacts' /\ RowFacts'
  <2>1. /\ rows' = rows /\ replyCount' = replyCount
        /\ \A s \in rows : col'[s] = col[s]
        /\ \A s \in Requests \ {r} : col'[s] = col[s] /\ pc'[s] = pc[s]
        /\ pc'[r] = "lock" /\ pc[r] = "idle" /\ lock' = lock
    BY <1>0, <1>1, AcceptFacts
  <2>2. (\A q : Floors(q)' = Floors(q)) /\ RowFacts'
    BY <1>0, <2>1, SameRows
  <2>3. LocksAreHeld' /\ HoldsItsLock' /\ RowsCommitted'
    BY <1>0, <2>1 DEF LockFacts, LocksAreHeld, HoldsItsLock, InTransaction,
                      RowsCommitted, TypeInv, TypeOK
  <2>4. Numbered'
    <3> SUFFICES ASSUME NEW s \in Requests, pc'[s] = "insert",
                        col'[s].parent = NoReply
                 PROVE  col'[s].floor = Cardinality(Floors(col[s].post)) + 1
                        /\ col'[s].post = col[s].post
      BY <2>2 DEF Numbered
    <3>1. QED
      BY <1>0, <2>1 DEF LockFacts, Numbered
  <2>5. QED
    BY <2>2, <2>3, <2>4 DEF LockFacts
<1>2. ASSUME NEW r \in Requests, LockPost(r)
      PROVE  LockFacts' /\ RowFacts'
  <2>1. rows' = rows /\ replyCount' = replyCount /\ col' = col
    BY <1>2 DEF LockPost
  <2>2. (\A q : Floors(q)' = Floors(q)) /\ RowFacts'
    BY <1>0, <2>1, SameRows
  <2>3. \A s \in Requests : pc'[s] = "insert" /\ pc[s] # "insert" =>
          s = r /\ col[r].parent # NoReply
    BY <1>2 DEF LockPost, TypeInv, TypeOK
  <2>4. Numbered'
    BY <1>0, <2>1, <2>2, <2>3 DEF LockFacts, Numbered
  <2>5. LocksAreHeld' /\ HoldsItsLock' /\ RowsCommitted'
    <3>1. \A s \in Requests : col[s].post \in Posts
      BY DEF TypeInv, TypeOK, Reply
    <3>2. QED
      BY <1>0, <1>2, <2>1, <3>1 DEF LockPost, RowFree, LockFacts, LocksAreHeld,
         HoldsItsLock, InTransaction, RowsCommitted, TypeInv, TypeOK
  <2>6. QED
    BY <2>2, <2>4, <2>5 DEF LockFacts
<1>3. ASSUME NEW r \in Requests, CountFloors(r)
      PROVE  LockFacts' /\ RowFacts'
  <2>1. /\ rows' = rows /\ replyCount' = replyCount /\ lock' = lock
        /\ \A s \in rows : col'[s] = col[s]
        /\ \A s \in Requests \ {r} : col'[s] = col[s] /\ pc'[s] = pc[s]
        /\ pc'[r] = "insert" /\ pc[r] = "count"
        /\ col'[r].post = col[r].post /\ col'[r].parent = col[r].parent
        /\ col'[r].floor = Cardinality(Floors(col[r].post)) + 1
    BY <1>0, <1>3, CountFacts
  <2>2. (\A q : Floors(q)' = Floors(q)) /\ RowFacts'
    BY <1>0, <2>1, SameRows
  <2>3. LocksAreHeld' /\ HoldsItsLock' /\ RowsCommitted'
    BY <1>0, <2>1 DEF LockFacts, LocksAreHeld, HoldsItsLock, InTransaction,
                      RowsCommitted, TypeInv, TypeOK
  <2>4. Numbered'
    <3> SUFFICES ASSUME NEW s \in Requests, pc'[s] = "insert",
                        col'[s].parent = NoReply
                 PROVE  col'[s].floor = Cardinality(Floors(col[s].post)) + 1
                        /\ col'[s].post = col[s].post
      BY <2>2 DEF Numbered
    <3>1. QED
      BY <1>0, <2>1 DEF LockFacts, Numbered
  <2>5. QED
    BY <2>2, <2>3, <2>4 DEF LockFacts
<1>4. ASSUME NEW r \in Requests, Commit(r)
      PROVE  LockFacts' /\ RowFacts'
  <2>1. RowFacts'
    BY <1>0, <1>4, CommitRowFacts DEF LockFacts
  <2>2. RowsCommitted'
    BY <1>0, <1>4, TypeStep DEF Commit, CountedReply, Released, LockFacts, RowsCommitted, TypeInv, TypeOK
  <2>3. \A s \in Requests : col[s].post \in Posts
    BY DEF TypeInv, TypeOK, Reply
  <2>4. lock[col[r].post] = r
    BY <1>0, <1>4 DEF Commit, CountedReply, Released, LockFacts, HoldsItsLock, InTransaction
  <2>5. \A s \in Requests : s # r /\ InTransaction(s) => col[s].post # col[r].post
    BY <1>0, <2>4 DEF LockFacts, HoldsItsLock
  <2>6. HoldsItsLock' /\ LocksAreHeld'
    BY <1>0, <1>4, <2>3, <2>4, <2>5 DEF Commit, CountedReply, Released, LockFacts, LocksAreHeld,
       HoldsItsLock, InTransaction, TypeInv, TypeOK
  <2>7. Numbered'
    <3> SUFFICES ASSUME NEW s \in Requests, pc'[s] = "insert",
                        col'[s].parent = NoReply
                 PROVE  col'[s].floor = Cardinality(Floors(col[s].post)') + 1
                        /\ col'[s].post = col[s].post
      BY <1>4 DEF Numbered, Commit, Floors
    <3>1. s # r /\ pc[s] = "insert" /\ col' = col
      BY <1>4 DEF Commit, CountedReply, Released, TypeInv, TypeOK
    <3>2. Floors(col[s].post)' = Floors(col[s].post)
      BY <1>4, <2>5, <3>1 DEF Commit, CountedReply, Released, Floors, InTransaction
    <3>3. QED
      BY <1>0, <3>1, <3>2 DEF LockFacts, Numbered
  <2>8. QED
    BY <2>1, <2>2, <2>6, <2>7 DEF LockFacts
<1>5. ASSUME NEW r \in Requests, Abort(r)
      PROVE  LockFacts' /\ RowFacts'
  <2>1. rows' = rows /\ replyCount' = replyCount /\ col' = col
    BY <1>5 DEF Abort, Released
  <2>2. (\A q : Floors(q)' = Floors(q)) /\ RowFacts'
    BY <1>0, <2>1, SameRows
  <2>3. Numbered'
    BY <1>0, <1>5, <2>1, <2>2 DEF Abort, Released, LockFacts, Numbered, TypeInv, TypeOK
  <2>4. \A s \in Requests : col[s].post \in Posts
    BY DEF TypeInv, TypeOK, Reply
  <2>5. LocksAreHeld' /\ HoldsItsLock' /\ RowsCommitted'
    BY <1>0, <1>5, <2>1, <2>4 DEF Abort, Released, LockFacts, LocksAreHeld, HoldsItsLock,
       InTransaction, RowsCommitted, TypeInv, TypeOK
  <2>6. QED
    BY <2>2, <2>3, <2>5 DEF LockFacts
<1>6. ASSUME NEW r \in Requests, Notify(r)
      PROVE  LockFacts' /\ RowFacts'
  <2>1. rows' = rows /\ replyCount' = replyCount /\ col' = col /\ lock' = lock
    BY <1>6 DEF Notify
  <2>2. (\A q : Floors(q)' = Floors(q)) /\ RowFacts'
    BY <1>0, <2>1, SameRows
  <2>3. QED
    BY <1>0, <1>6, <2>1, <2>2 DEF Notify, LockFacts, LocksAreHeld, HoldsItsLock,
       Numbered, InTransaction, RowsCommitted, TypeInv, TypeOK
<1>7. ASSUME UNCHANGED <<replyCount, rows, col, lock, pc>>
      PROVE  LockFacts' /\ RowFacts'
  <2>1. (\A q : Floors(q)' = Floors(q)) /\ RowFacts'
    BY <1>0, <1>7, SameRows
  <2>2. QED
    BY <1>0, <1>7, <2>1 DEF LockFacts, LocksAreHeld, HoldsItsLock, Numbered,
       InTransaction, RowsCommitted
<1>8. ASSUME NEW p \in Posts, ChangeStatus(p)
      PROVE  LockFacts' /\ RowFacts'
  BY <1>7, <1>8 DEF ChangeStatus
<1>9. CASE UNCHANGED vars
  BY <1>7, <1>9 DEF vars
<1>10. QED
  BY <1>1, <1>2, <1>3, <1>4, <1>5, <1>6, <1>8, <1>9 DEF Next

LEMMA InvInit == Init => IInv
<1> SUFFICES ASSUME Init PROVE IInv
  OBVIOUS
<1>1. TypeOK
  BY TypeInit DEF TypeInv
<1>2. rows = {} /\ (\A p : Floors(p) = {} /\ RepliesOf(p) = {})
  BY DEF Init, Floors, RepliesOf
<1>3. FloorsGapless /\ FloorsDistinct /\ ReplyCountExact
  <2>1. Cardinality({}) = 0 /\ 1 .. 0 = {}
    BY FS_EmptySet
  <2>2. \A p \in Posts : {col[r].floor : r \in Floors(p)} = {}
    BY <1>2
  <2>3. FloorsGapless
    BY <1>2, <2>1, <2>2 DEF FloorsGapless
  <2>4. QED
    BY <1>2, <2>1, <2>3 DEF Init, FloorsDistinct, ReplyCountExact
<1>4. HoldsItsLock /\ LocksAreHeld /\ RowsCommitted /\ Numbered
  BY <1>2, FS_EmptySet DEF Init, HoldsItsLock, LocksAreHeld, RowsCommitted,
     Numbered, InTransaction
<1>5. QED
  BY <1>1, <1>3, <1>4 DEF IInv

LEMMA Invariant == Spec => [](IInv /\ TypeInv)
BY InvInit, InvStep, TypeInit, TypeStep, PTL DEF Spec

(* However many requests reply to however many posts at once, the floors of *)
(* every post are numbered 1, 2, 3, ... without a gap or a repetition: the  *)
(* claim of the comment of CreateReplyWithFloor.                           *)
THEOREM FloorsAreGapless == Spec => [](FloorsGapless /\ FloorsDistinct)
<1>1. IInv => FloorsGapless /\ FloorsDistinct
  BY DEF IInv
<1>2. QED
  BY <1>1, Invariant, PTL

(* The counter kept on the post always agrees with the rows it counts. *)
THEOREM ReplyCountIsExact == Spec => []ReplyCountExact
<1>1. IInv => ReplyCountExact
  BY DEF IInv
<1>2. QED
  BY <1>1, Invariant, PTL

(* No row lock outlives the transaction that took it. *)
THEOREM LocksHaveOwners == Spec => []LocksAreHeld
<1>1. IInv => LocksAreHeld
  BY DEF IInv
<1>2. QED
  BY <1>1, Invariant, PTL

-----------------------------------------------------------------------------
(* What Accept checked about the parent and the target of a reply stays true,  *)
(* because committed rows never change, and only new floors are numbered.    *)
AnswerFacts ==
  \A r \in Requests : pc[r] # "idle" =>
    /\ pc[r] = "count" => col[r].parent = NoReply
    /\ col[r].replyTo # NoReply =>
         /\ col[r].replyTo \in rows
         /\ col[col[r].replyTo].post = col[r].post
    /\ col[r].parent # NoReply =>
         /\ col[r].parent \in rows
         /\ col[r].floor = col[col[r].parent].floor
         /\ col[col[r].parent].parent # NoReply =>
              col[col[col[r].parent].parent].parent = NoReply

LEMMA AnswerAccept ==
  ASSUME IInv, TypeInv, AnswerFacts, NEW r \in Requests, NEW p \in Posts,
         NEW a \in Users, NEW parent \in rows \cup {NoReply},
         NEW replyTo \in rows \cup {NoReply}, Accept(r, p, a, parent, replyTo)
  PROVE  AnswerFacts'
<1>. DEFINE target == Target(parent, replyTo)
<1>1. /\ rows' = rows
      /\ \A s \in rows : col'[s] = col[s]
      /\ \A s \in Requests \ {r} : col'[s] = col[s] /\ pc'[s] = pc[s]
      /\ pc'[r] = "lock" /\ pc[r] = "idle"
  BY AcceptFacts DEF IInv, LockFacts
<1>2. col'[r] = [post |-> p, author |-> a, parent |-> parent, replyTo |-> target,
                 floor |-> IF parent = NoReply THEN 0 ELSE col[parent].floor]
  BY DEF Accept, TypeInv, TypeOK
<1>3. target \in rows \cup {NoReply} /\ (target # NoReply => col[target].post = p)
  BY DEF Accept, Target, TargetInPost
<1>4. parent # NoReply =>
        /\ parent \in rows
        /\ col[parent].parent # NoReply => col[parent].parent \in rows
        /\ col[parent].parent # NoReply => col[col[parent].parent].parent = NoReply
  <2>1. \A s \in rows : s \in Requests /\ pc[s] # "idle"
    BY DEF IInv, RowsCommitted, TypeInv, TypeOK
  <2>. QED
    BY <2>1 DEF Accept, TooDeep, AnswerFacts
<1>5. ASSUME NEW s \in Requests \ {r}, pc'[s] # "idle"
      PROVE  /\ pc'[s] = "count" => col'[s].parent = NoReply
             /\ col'[s].replyTo # NoReply =>
                  /\ col'[s].replyTo \in rows
                  /\ col'[col'[s].replyTo].post = col'[s].post
             /\ col'[s].parent # NoReply =>
                  /\ col'[s].parent \in rows
                  /\ col'[s].floor = col'[col'[s].parent].floor
                  /\ col'[col'[s].parent].parent # NoReply =>
                       col'[col'[col'[s].parent].parent].parent = NoReply
  <2>1. \A x \in rows : x \in Requests /\ pc[x] # "idle"
    BY DEF IInv, RowsCommitted, TypeInv, TypeOK
  <2>2. \A x \in rows : col[x].parent # NoReply => col[x].parent \in rows
    BY <2>1 DEF AnswerFacts
  <2>. QED
    BY <1>1, <1>5, <2>1, <2>2 DEF AnswerFacts
<1>6. QED
  BY <1>1, <1>2, <1>3, <1>4, <1>5 DEF AnswerFacts

(* Every other step keeps the columns of the rows, and of all requests if it  *)
(* does not number a floor.                                                *)
LEMMA AnswerKept ==
  ASSUME IInv, TypeInv, AnswerFacts, rows \subseteq rows',
         \A s \in Requests : /\ col'[s].parent = col[s].parent
                              /\ col'[s].replyTo = col[s].replyTo
                              /\ col'[s].post = col[s].post,
         \A s \in Requests : col'[s].floor = col[s].floor
                               \/ (s \notin rows /\ col[s].parent = NoReply),
         \A s \in Requests : pc'[s] # "idle" => pc[s] # "idle",
         \A s \in Requests : pc'[s] = "count" => col[s].parent = NoReply
  PROVE  AnswerFacts'
<1>1. \A x \in rows : x \in Requests /\ pc[x] # "idle"
  BY DEF IInv, RowsCommitted, TypeInv, TypeOK
<1>2. \A x \in rows : col[x].parent # NoReply => col[x].parent \in rows
  BY <1>1 DEF AnswerFacts
<1>3. \A x \in rows : col'[x].floor = col[x].floor
  BY <1>1
<1>. QED
  BY <1>1, <1>2, <1>3 DEF AnswerFacts

LEMMA AnswerStep == IInv /\ TypeInv /\ AnswerFacts /\ [Next]_vars => AnswerFacts'
<1> SUFFICES ASSUME IInv, TypeInv, AnswerFacts, [Next]_vars
             PROVE  AnswerFacts'
  OBVIOUS
<1>1. ASSUME NEW r \in Requests, NEW p \in Posts, NEW a \in Users,
             NEW parent \in rows \cup {NoReply},
             NEW replyTo \in rows \cup {NoReply},
             Accept(r, p, a, parent, replyTo)
      PROVE  AnswerFacts'
  BY <1>1, AnswerAccept
<1>2. ASSUME NEW r \in Requests, LockPost(r)
      PROVE  AnswerFacts'
  <2>1. /\ rows' = rows /\ col' = col
        /\ \A s \in Requests : pc'[s] # "idle" => pc[s] # "idle"
        /\ \A s \in Requests : pc'[s] = "count" =>
             pc[s] = "count" \/ col[s].parent = NoReply
    BY <1>2 DEF LockPost, TypeInv, TypeOK
  <2>. QED
    BY <2>1, AnswerKept DEF AnswerFacts
<1>3. ASSUME NEW r \in Requests, CountFloors(r)
      PROVE  AnswerFacts'
  <2>1. pc[r] = "count" /\ rows' = rows
        /\ pc' = [pc EXCEPT ![r] = "insert"]
        /\ col' = [col EXCEPT ![r].floor = Cardinality(Floors(col[r].post)) + 1]
    BY <1>3 DEF CountFloors
  <2>2. r \notin rows /\ col[r].parent = NoReply
    BY <2>1 DEF IInv, RowsCommitted, AnswerFacts
  <2>3. \A s \in Requests : pc'[s] # "idle" => pc[s] # "idle"
    BY <2>1 DEF TypeInv, TypeOK
  <2>4. \A s \in Requests : pc'[s] = "count" => col[s].parent = NoReply
    BY <2>1 DEF TypeInv, TypeOK, AnswerFacts
  <2>5. \A s \in Requests : /\ col'[s].parent = col[s].parent
                             /\ col'[s].replyTo = col[s].replyTo
                             /\ col'[s].post = col[s].post
    BY <2>1 DEF TypeInv, TypeOK, Reply
  <2>6. \A s \in Requests : col'[s].floor = col[s].floor
                             \/ (s \notin rows /\ col[s].parent = NoReply)
    BY <2>1, <2>2 DEF TypeInv, TypeOK
  <2>. QED
    BY <2>1, <2>3, <2>4, <2>5, <2>6, AnswerKept
<1>4. ASSUME rows \subseteq rows', col' = col,
             \A s \in Requests : pc'[s] # "idle" => pc[s] # "idle",
             \A s \in Requests : pc'[s] = "count" => pc[s] = "count"
      PROVE  AnswerFacts'
  BY <1>4, AnswerKept DEF AnswerFacts
<1>5. ASSUME NEW r \in Requests, Commit(r) \/ Abort(r) \/ Notify(r)
      PROVE  AnswerFacts'
  <2>1. /\ rows \subseteq rows' /\ col' = col
        /\ \A s \in Requests : pc'[s] # "idle" => pc[s] # "idle"
        /\ \A s \in Requests : pc'[s] = "count" => pc[s] = "count"
    BY <1>5 DEF Commit, Abort, Notify, TypeInv, TypeOK
  <2>. QED
    BY <1>4, <2>1
<1>6. ASSUME NEW p \in Posts, ChangeStatus(p)
      PROVE  AnswerFacts'
  BY <1>4, <1>6 DEF ChangeStatus
<1>7. CASE UNCHANGED vars
  BY <1>4, <1>7 DEF vars
<1>8. QED
  BY <1>1, <1>2, <1>3, <1>5, <1>6, <1>7 DEF Next

LEMMA AnswerInit == Init => AnswerFacts
BY DEF Init, AnswerFacts

LEMMA RowsAreAnswers ==
  ASSUME IInv, TypeInv, AnswerFacts
  PROVE  AnswersSamePost /\ ThreeLayers
<1>1. \A x \in rows : x \in Requests /\ pc[x] # "idle"
  BY DEF IInv, RowsCommitted, TypeInv, TypeOK
<1>. QED
  BY <1>1 DEF AnswerFacts, AnswersSamePost, ThreeLayers

LEMMA AnswerInvariant == Spec => [](AnswersSamePost /\ ThreeLayers)
<1>1. Spec => [](IInv /\ TypeInv /\ AnswerFacts)
  BY InvInit, InvStep, TypeInit, TypeStep, AnswerInit, AnswerStep, PTL DEF Spec
<1>. QED
  BY <1>1, RowsAreAnswers, PTL

(* Replies nest three deep at most, and a sub-reply carries the number of the *)
(* floor it hangs from, for any number of posts and concurrent requests.     *)
THEOREM RepliesNestThreeDeep == Spec => []ThreeLayers
BY AnswerInvariant, PTL

(* The reply somebody is told to be answered is one of the same post. *)
THEOREM AnswersStayInPost == Spec => []AnswersSamePost
BY AnswerInvariant, PTL

-----------------------------------------------------------------------------
(* What was sent about a reply says whom it went to: the post's author gets  *)
(* the "reply", somebody else the "mention", and the reply's author neither. *)
(* Only a committed reply is announced.                                     *)
Announced ==
  /\ \A r \in Requests : pc[r] = "notify" => r \in rows
  /\ \A n \in inbox :
       /\ n.about \in rows
       /\ n.to # col[n.about].author
       /\ (n.type = "reply") <=> (n.to = PostAuthor[col[n.about].post])

LEMMA AnnouncedKept ==
  ASSUME TypeInv, Announced, rows \subseteq rows', inbox' = inbox,
         \A s \in rows : col'[s].author = col[s].author /\ col'[s].post = col[s].post,
         \A s \in Requests : pc'[s] = "notify" => pc[s] = "notify" \/ s \in rows'
  PROVE  Announced'
<1>1. \A s \in Requests : pc'[s] = "notify" => s \in rows'
  BY DEF Announced
<1>2. \A n \in inbox' :
        /\ n.about \in rows'
        /\ n.to # col'[n.about].author
        /\ (n.type = "reply") <=> (n.to = PostAuthor[col'[n.about].post])
  BY DEF Announced
<1>3. QED
  BY <1>1, <1>2 DEF Announced

(* notifyReply: the two it may create differ in whom they are for. *)
LEMMA NotifyAnnounces ==
  ASSUME TypeInv, Announced, NEW r \in Requests, Notify(r)
  PROVE  Announced'
<1>1. r \in rows
  BY DEF Notify, Announced
<1>2. /\ rows' = rows /\ col' = col /\ inbox' \subseteq inbox \cup NotificationsOf(r)
      /\ \A s \in Requests : pc'[s] = "notify" => pc[s] = "notify"
  BY DEF Notify, TypeInv, TypeOK
<1>3. \A n \in NotificationsOf(r) :
        /\ n.about = r
        /\ n.to # col[r].author
        /\ (n.type = "reply") <=> (n.to = PostAuthor[col[r].post])
  BY DEF NotificationsOf, MentionTo
<1>4. QED
  BY <1>1, <1>2, <1>3 DEF Announced

LEMMA AnnouncedStep == IInv /\ TypeInv /\ Announced /\ [Next]_vars => Announced'
<1> SUFFICES ASSUME IInv, TypeInv, Announced, [Next]_vars
             PROVE  Announced'
  OBVIOUS
<1>1. ASSUME NEW r \in Requests, NEW p \in Posts, NEW a \in Users,
             NEW parent \in rows \cup {NoReply},
             NEW replyTo \in rows \cup {NoReply},
             Accept(r, p, a, parent, replyTo)
      PROVE  Announced'
  <2>1. /\ rows' = rows /\ inbox' = inbox
        /\ \A s \in Requests : pc'[s] = "notify" => pc[s] = "notify"
    BY <1>1 DEF Accept, TypeInv, TypeOK
  <2>2. \A s \in rows : col'[s] = col[s]
    BY <1>1, AcceptFacts DEF IInv, LockFacts
  <2>3. QED
    BY <2>1, <2>2, AnnouncedKept
<1>2. ASSUME NEW r \in Requests, CountFloors(r)
      PROVE  Announced'
  <2>1. /\ rows' = rows /\ inbox' = inbox
        /\ \A s \in Requests : pc'[s] = "notify" => pc[s] = "notify"
    BY <1>2 DEF CountFloors, TypeInv, TypeOK
  <2>2. \A s \in rows : col'[s].author = col[s].author /\ col'[s].post = col[s].post
    BY <1>2 DEF CountFloors, TypeInv, TypeOK, Reply
  <2>3. QED
    BY <2>1, <2>2, AnnouncedKept
<1>3. ASSUME NEW r \in Requests, LockPost(r) \/ Commit(r) \/ Abort(r)
      PROVE  Announced'
  <2>1. /\ rows \subseteq rows' /\ col' = col /\ inbox' = inbox
        /\ \A s \in Requests : pc'[s] = "notify" => pc[s] = "notify" \/ s \in rows'
    BY <1>3 DEF LockPost, Commit, Abort, TypeInv, TypeOK
  <2>2. QED
    BY <2>1, AnnouncedKept
<1>4. ASSUME NEW p \in Posts, ChangeStatus(p)
      PROVE  Announced'
  BY <1>4, AnnouncedKept DEF ChangeStatus
<1>5. CASE UNCHANGED vars
  BY <1>5, AnnouncedKept DEF vars
<1>6. QED
  BY <1>1, <1>2, <1>3, <1>4, <1>5, NotifyAnnounces DEF Next

LEMMA AnnouncedInit == Init => Announced
BY DEF Init, Announced

(* A reply is announced once to each who hears of it, never to its author,    *)
(* and only when it is stored, however many are notified at once.            *)
THEOREM NotificationsAreSound == Spec => []NotificationsSound
<1>1. TypeInv /\ Announced => NotificationsSound
  <2>1. ASSUME TypeInv, NEW n \in inbox, NEW m \in inbox,
               m.about = n.about, m.to = n.to, Announced
        PROVE  m = n
    <3>1. m.type = n.type
      BY <2>1 DEF Announced, TypeInv, TypeOK, Notification
    <3>2. QED
      BY <2>1, <3>1 DEF TypeInv, TypeOK, Notification
  <2>2. QED
    BY <2>1 DEF Announced, NotificationsSound
<1>2. QED
  BY <1>1, InvInit, InvStep, TypeInit, TypeStep, AnnouncedInit, AnnouncedStep,
     PTL DEF Spec

-----------------------------------------------------------------------------
(* The refinement.  Floors are both complete and distinct, so the choice in *)
(* FloorSequence has exactly one answer, and each committed reply is either *)
(* appended to the sequence of its post or only counted.                   *)
SequenceFacts ==
  \A p \in Posts :
    /\ Cardinality(Floors(p)) \in Nat
    /\ FloorSequence(p) \in Seq(Requests)
    /\ Len(FloorSequence(p)) = Cardinality(Floors(p))
    /\ \A n \in 1 .. Cardinality(Floors(p)) :
         /\ FloorSequence(p)[n] \in Floors(p)
         /\ col[FloorSequence(p)[n]].floor = n

LEMMA FloorSequenceFacts == IInv /\ TypeInv => SequenceFacts
<1> SUFFICES ASSUME IInv, TypeInv, NEW p \in Posts
             PROVE  /\ Cardinality(Floors(p)) \in Nat
                    /\ FloorSequence(p) \in Seq(Requests)
                    /\ Len(FloorSequence(p)) = Cardinality(Floors(p))
                    /\ \A n \in 1 .. Cardinality(Floors(p)) :
                         /\ FloorSequence(p)[n] \in Floors(p)
                         /\ col[FloorSequence(p)[n]].floor = n
  BY DEF SequenceFacts
<1> DEFINE N == Cardinality(Floors(p))
<1>1. N \in Nat
  BY FloorsFinite
<1>2. ASSUME NEW n \in 1 .. N
      PROVE  /\ FloorSequence(p)[n] \in Floors(p)
             /\ col[FloorSequence(p)[n]].floor = n
  <2>1. n \in {col[r].floor : r \in Floors(p)}
    BY DEF IInv, FloorsGapless
  <2>2. PICK r \in Floors(p) : col[r].floor = n
    BY <2>1
  <2> DEFINE here == {s \in Floors(p) : col[s].floor = n}
  <2>3. FloorSequence(p)[n] = CHOOSE s \in here : TRUE
    BY <2>2 DEF FloorSequence
  <2>4. QED
    BY <2>2, <2>3
<1>3. DOMAIN FloorSequence(p) = 1 .. N
  BY DEF FloorSequence
<1>4. Floors(p) \in SUBSET Requests
  BY DEF Floors, TypeInv, TypeOK
<1>5. FloorSequence(p) \in [1 .. N -> Requests]
  BY <1>2, <1>3, <1>4 DEF FloorSequence
<1>6. FloorSequence(p) \in Seq(Requests) /\ Len(FloorSequence(p)) = N
  BY <1>1, <1>5
<1>7. QED
  BY <1>1, <1>2, <1>6

LEMMA RefinesInit == Init => Abstract!Init
<1> SUFFICES ASSUME Init PROVE Abstract!Init
  OBVIOUS
<1>1. \A p \in Posts : FloorSequence(p) = <<>>
  <2>1. \A p : Cardinality(Floors(p)) = 0
    BY FS_EmptySet DEF Init, Floors
  <2>2. \A p \in Posts : DOMAIN FloorSequence(p) = {}
    BY <2>1 DEF FloorSequence
  <2>3. SequenceFacts
    BY InvInit, TypeInit, FloorSequenceFacts
  <2>4. QED
    BY <2>1, <2>3 DEF SequenceFacts
<1>2. QED
  BY <1>1 DEF Abstract!Init, Init

(* A step that changes no committed row is a stutter of the thread. *)
LEMMA SameSequences ==
  ASSUME IInv, SequenceFacts, SequenceFacts',
         rows' = rows, \A r \in rows : col'[r] = col[r]
  PROVE  \A p \in Posts : FloorSequence(p)' = FloorSequence(p)
<1> TAKE p \in Posts
<1>1. Floors(p)' = Floors(p) /\ \A r \in Floors(p) : col'[r] = col[r]
  BY DEF Floors
<1>2. ASSUME NEW n \in 1 .. Cardinality(Floors(p))
      PROVE  FloorSequence(p)'[n] = FloorSequence(p)[n]
  BY <1>1, <1>2 DEF SequenceFacts, IInv, FloorsDistinct
<1>3. QED
  BY <1>1, <1>2 DEF SequenceFacts

LEMMA CommitRefines ==
  ASSUME IInv, TypeInv, SequenceFacts, SequenceFacts',
         NEW r \in Requests, Commit(r)
  PROVE  Abstract!Next
<1>0. PICK p \in Posts : p = col[r].post
  BY DEF TypeInv, TypeOK, Reply
<1>1. r \notin rows /\ rows' = rows \cup {r} /\ col' = col
  BY DEF Commit, CountedReply, Released, IInv, RowsCommitted
<1>2. replyCount' = [replyCount EXCEPT ![p] = @ + 1]
  BY <1>0 DEF Commit, CountedReply, Released
<1>3. ASSUME NEW q \in Posts, Floors(q)' = Floors(q)
      PROVE  FloorSequence(q)' = FloorSequence(q)
  <2>1. \A n \in 1 .. Cardinality(Floors(q)) :
          FloorSequence(q)'[n] = FloorSequence(q)[n]
    BY <1>1, <1>3 DEF SequenceFacts, IInv, FloorsDistinct
  <2>2. QED
    BY <1>3, <2>1 DEF SequenceFacts
<1>4. CASE col[r].parent # NoReply
  <2>1. \A q : Floors(q)' = Floors(q)
    BY <1>1, <1>4 DEF Floors
  <2>2. Abstract!AddSubReply(p)
    BY <1>2, <1>3, <2>1 DEF Abstract!AddSubReply
  <2>3. QED
    BY <2>2 DEF Abstract!Next
<1>5. CASE col[r].parent = NoReply
  <2> DEFINE N == Cardinality(Floors(p))
  <2>1. \A q : Floors(q)' = IF q = p THEN Floors(q) \cup {r} ELSE Floors(q)
    BY <1>0, <1>1, <1>5 DEF Floors
  <2>2. N \in Nat /\ r \notin Floors(p) /\ IsFiniteSet(Floors(p))
    BY <1>1, FloorsFinite DEF Floors
  <2>3. Cardinality(Floors(p)') = N + 1
    BY <2>1, <2>2, FS_AddElement
  <2>4. col[r].floor = N + 1
    BY <1>0, <1>5 DEF IInv, Numbered, Commit, Released
  <2>5. FloorSequence(p)'[N + 1] = r
    <3>1. /\ FloorSequence(p)'[N + 1] \in Floors(p) \cup {r}
          /\ col'[FloorSequence(p)'[N + 1]].floor = N + 1
      BY <2>1, <2>2, <2>3 DEF SequenceFacts
    <3>2. \A x \in Floors(p) : col[x].floor \in 1 .. N
      BY DEF IInv, FloorsGapless
    <3>3. \A x \in Floors(p) : col[x].floor # N + 1
      BY <2>2, <3>2
    <3>4. QED
      BY <1>1, <3>1, <3>3
  <2>6. ASSUME NEW n \in 1 .. N
        PROVE  FloorSequence(p)'[n] = FloorSequence(p)[n]
    <3>1. n \in 1 .. (N + 1) /\ n # N + 1
      BY <2>2
    <3>2. /\ FloorSequence(p)'[n] \in Floors(p) \cup {r}
          /\ col'[FloorSequence(p)'[n]].floor = n
      BY <2>1, <2>3, <3>1 DEF SequenceFacts
    <3>3. FloorSequence(p)'[n] \in Floors(p)
      BY <1>1, <2>4, <3>1, <3>2
    <3>4. QED
      BY <1>1, <3>2, <3>3 DEF SequenceFacts, IInv, FloorsDistinct
  <2>7. FloorSequence(p)' = Append(FloorSequence(p), r)
    <3>1. FloorSequence(p) \in Seq(Requests) /\ Len(FloorSequence(p)) = N
      BY DEF SequenceFacts
    <3>2. FloorSequence(p)' \in Seq(Requests) /\ Len(FloorSequence(p)') = N + 1
      BY <2>3 DEF SequenceFacts
    <3>3. QED
      BY <2>2, <2>5, <2>6, <3>1, <3>2
  <2>8. \A q \in Posts : q # p => FloorSequence(q)' = FloorSequence(q)
    BY <1>3, <2>1
  <2>9. \A q \in Posts : \A n \in DOMAIN FloorSequence(q) : FloorSequence(q)[n] # r
    <3> TAKE q \in Posts
    <3>1. DOMAIN FloorSequence(q) = 1 .. Cardinality(Floors(q))
      BY DEF FloorSequence
    <3>2. QED
      BY <1>1, <3>1 DEF SequenceFacts, Floors
  <2>10. Abstract!AddFloor(p, r)
    BY <1>2, <2>7, <2>8, <2>9 DEF Abstract!AddFloor
  <2>11. QED
    BY <2>10 DEF Abstract!Next
<1>6. QED
  BY <1>4, <1>5

LEMMA RefinesNext ==
  IInv /\ TypeInv /\ SequenceFacts /\ SequenceFacts' /\ [Next]_vars
    => [Abstract!Next]_(Abstract!vars)
<1> SUFFICES ASSUME IInv, TypeInv, SequenceFacts, SequenceFacts', [Next]_vars
             PROVE  Abstract!Next \/ UNCHANGED Abstract!vars
  OBVIOUS
<1>0. LockFacts
  BY DEF IInv, LockFacts
<1>1. ASSUME rows' = rows, replyCount' = replyCount,
             \A r \in rows : col'[r] = col[r]
      PROVE  UNCHANGED Abstract!vars
  BY <1>1, SameSequences DEF Abstract!vars
<1>2. ASSUME NEW r \in Requests, NEW p \in Posts, NEW a \in Users,
             NEW parent \in rows \cup {NoReply},
             NEW replyTo \in rows \cup {NoReply},
             Accept(r, p, a, parent, replyTo)
      PROVE  UNCHANGED Abstract!vars
  BY <1>0, <1>1, <1>2, AcceptFacts
<1>3. ASSUME NEW r \in Requests, CountFloors(r)
      PROVE  UNCHANGED Abstract!vars
  BY <1>0, <1>1, <1>3, CountFacts
<1>4. ASSUME NEW r \in Requests, LockPost(r) \/ Abort(r) \/ Notify(r)
      PROVE  UNCHANGED Abstract!vars
  BY <1>1, <1>4 DEF LockPost, Abort, Notify
<1>5. ASSUME NEW p \in Posts, ChangeStatus(p)
      PROVE  UNCHANGED Abstract!vars
  BY <1>1, <1>5 DEF ChangeStatus
<1>6. CASE UNCHANGED vars
  BY <1>1, <1>6 DEF vars
<1>7. QED
  BY <1>2, <1>3, <1>4, <1>5, <1>6, CommitRefines DEF Next

(* CreateReply implements the append-only thread of module Thread: floors   *)
(* are only ever added at the end, in the order in which they commit.       *)
THEOREM ImplementsThread == Spec => ThreadSpec
<1>1. Spec => [](SequenceFacts /\ IInv /\ TypeInv)
  BY Invariant, FloorSequenceFacts, PTL
<1>2. QED
  BY <1>1, RefinesInit, RefinesNext, PTL DEF Spec, ThreadSpec, Abstract!Spec
=============================================================================
