---------------------------- MODULE Counters_proofs ----------------------------
(***************************************************************************)
(* The two numbers the server keeps beside what they count, view_count and  *)
(* like_count, for any number of posts, overlapping runs, calls, users and  *)
(* failures.                                                               *)
(*                                                                         *)
(* view_count: LossOnlyInWindow is not inductive: it does not say why the   *)
(* HDEL of a run is safe.  The reason is carried by the runs.  Between its  *)
(* HGETALL and its UPDATE of p, a run's delta makes up for whatever it is   *)
(* going to delete (Covered); after the UPDATE, view_count does (Flushed).  *)
(*                                                                         *)
(* like_count: the bound of DriftIsExplained is a sum over calls, and no    *)
(* step of one call can tell whether it still holds.  Explains names the    *)
(* calls that make the difference and says what brought each of them about. *)
(***************************************************************************)
EXTENDS ViewCounter, Likes, FiniteSetTheorems, TLAPS

Waiting(f, p) == p \in run[f].todo /\ ~(run[f].pc = "hdel" /\ run[f].post = p)

Covered ==
  \A f \in Runs, p \in Posts :
    Waiting(f, p) => views[p] <= viewCount[p] + run[f].delta[p] + exposed[p]

Flushed ==
  \A f \in Runs : run[f].pc = "hdel" =>
    /\ run[f].post \in run[f].todo
    /\ views[run[f].post] <= viewCount[run[f].post] + exposed[run[f].post]

IInv == TypeOK /\ LossOnlyInWindow /\ Covered /\ Flushed

LEMMA StoppedType == Stopped \in Run /\ Stopped.pc = "idle" /\ Stopped.todo = {}
BY ViewCounterAssumption DEF Stopped, Run, Zero

LEMMA DoneType ==
  ASSUME TypeOK, NEW f \in Runs, NEW p \in Posts
  PROVE  /\ Done(f, p) \in Run
         /\ Done(f, p).pc = "loop"
         /\ Done(f, p).todo = run[f].todo \ {p}
         /\ Done(f, p).delta = run[f].delta
BY DEF TypeOK, Run, Done

LEMMA InitIInv ==
  ASSUME Init
  PROVE  IInv
<1>1. TypeOK
  BY StoppedType, ViewCounterAssumption DEF Init, TypeOK, Zero
<1>2. LossOnlyInWindow /\ Covered /\ Flushed
  BY StoppedType DEF Init, LossOnlyInWindow, Covered, Flushed, Waiting, Counted, Zero
<1>. QED
  BY <1>1, <1>2 DEF IInv

LEMMA ViewStep ==
  ASSUME IInv, NEW p \in Posts, View(p)
  PROVE  IInv'
<1>. USE DEF IInv
<1>1. TypeOK'
  BY DEF TypeOK, View
<1>2. /\ run' = run /\ viewCount' = viewCount
      /\ \A q \in Posts : q # p => /\ views'[q] = views[q]
                                   /\ pending'[q] = pending[q]
                                   /\ exposed'[q] = exposed[q]
      /\ views'[p] = views[p] + 1 /\ pending'[p] = pending[p] + 1
      /\ exposed'[p] >= exposed[p]
      /\ (\E f \in Runs : Window(f, p)) => exposed'[p] = exposed[p] + 1
  BY DEF TypeOK, View
<1>3. LossOnlyInWindow'
  BY <1>1, <1>2 DEF LossOnlyInWindow, Counted, TypeOK
<1>4. Covered'
  <2>. SUFFICES ASSUME NEW f \in Runs, NEW q \in Posts, Waiting(f, q)'
                PROVE  (views[q] <= viewCount[q] + run[f].delta[q] + exposed[q])'
    BY DEF Covered
  <2>1. Waiting(f, q) /\ Window(f, q)
    BY <1>2 DEF Waiting, Window
  <2>. QED
    BY <1>1, <1>2, <2>1 DEF Covered, TypeOK, Run
<1>5. Flushed'
  <2>. SUFFICES ASSUME NEW f \in Runs, run'[f].pc = "hdel"
                PROVE  /\ run'[f].post \in run'[f].todo
                       /\ views'[run'[f].post]
                            <= viewCount'[run'[f].post] + exposed'[run'[f].post]
    BY DEF Flushed
  <2>1. run'[f].post \in Posts /\ run'[f].post \in run'[f].todo
    BY <1>2 DEF Flushed, TypeOK, Run
  <2>2. Window(f, run[f].post)
    BY <1>2, <2>1 DEF Window
  <2>. QED
    BY <1>1, <1>2, <2>1, <2>2 DEF Flushed, TypeOK
<1>. QED
  BY <1>1, <1>3, <1>4, <1>5

(* A step of a run that leaves the counters alone and finishes with some    *)
(* posts: reading the hash is the one that starts with any.                *)
LEMMA ShrinkStep ==
  ASSUME IInv, TypeOK', NEW f \in Runs,
         UNCHANGED <<viewCount, pending, views, exposed>>,
         \A g \in Runs : g # f => run'[g] = run[g],
         run'[f].pc # "hdel",
         \/ run'[f].todo = {}
         \/ run[f].pc = "loop" /\ run'[f].todo \subseteq run[f].todo
              /\ run'[f].delta = run[f].delta
         \/ run'[f].delta = pending
  PROVE  IInv'
<1>. USE DEF IInv
<1>1. LossOnlyInWindow'
  BY DEF LossOnlyInWindow, Counted
<1>2. Covered'
  <2>. SUFFICES ASSUME NEW g \in Runs, NEW q \in Posts, Waiting(g, q)'
                PROVE  (views[q] <= viewCount[q] + run[g].delta[q] + exposed[q])'
    BY DEF Covered
  <2>1. CASE g # f
    BY <2>1 DEF Covered, Waiting
  <2>2. CASE g = f /\ run[f].pc = "loop" /\ run'[f].todo \subseteq run[f].todo
              /\ run'[f].delta = run[f].delta
    BY <2>2 DEF Covered, Waiting
  <2>3. CASE g = f /\ run'[f].delta = pending
    BY <2>3 DEF LossOnlyInWindow, Counted, TypeOK
  <2>4. CASE g = f /\ run'[f].todo = {}
    BY <2>4 DEF Waiting
  <2>. QED
    BY <2>1, <2>2, <2>3, <2>4
<1>3. Flushed'
  BY DEF Flushed
<1>. QED
  BY <1>1, <1>2, <1>3

LEMMA UpdateStep ==
  ASSUME IInv, NEW f \in Runs, NEW p \in Posts, Update(f, p)
  PROVE  IInv'
<1>. USE DEF IInv
<1>1. run[f].delta \in [Posts -> Nat] /\ run[f] \in Run
  BY DEF TypeOK, Run
<1>2. TypeOK'
  <2>1. [run[f] EXCEPT !.pc = "hdel", !.post = p] \in Run
    BY <1>1 DEF Run
  <2>2. viewCount[p] + run[f].delta[p] \in Nat
    BY <1>1 DEF TypeOK
  <2>. QED
    BY <2>1, <2>2 DEF TypeOK, Update, FirstWrite
<1>3. /\ pending' = pending /\ views' = views /\ exposed' = exposed
      /\ viewCount'[p] = viewCount[p] + run[f].delta[p]
      /\ \A q \in Posts : q # p => viewCount'[q] = viewCount[q]
      /\ \A g \in Runs : g # f => run'[g] = run[g]
      /\ run'[f].pc = "hdel" /\ run'[f].post = p
      /\ run'[f].todo = run[f].todo /\ run'[f].delta = run[f].delta
      /\ p \in run[f].todo /\ run[f].pc = "loop"
  BY <1>1 DEF TypeOK, Update, FirstWrite, Run
<1>4. \A q \in Posts : viewCount'[q] >= viewCount[q] /\ viewCount'[q] \in Nat
  BY <1>1, <1>3 DEF TypeOK
<1>5. LossOnlyInWindow'
  BY <1>2, <1>3, <1>4 DEF LossOnlyInWindow, Counted, TypeOK
<1>6. Covered'
  <2>. SUFFICES ASSUME NEW g \in Runs, NEW q \in Posts, Waiting(g, q)'
                PROVE  (views[q] <= viewCount[q] + run[g].delta[q] + exposed[q])'
    BY DEF Covered
  <2>1. Waiting(g, q) /\ run'[g].delta[q] = run[g].delta[q]
    BY <1>3 DEF Waiting
  <2>2. run[g].delta[q] \in Nat
    BY DEF TypeOK, Run
  <2>. QED
    BY <1>3, <1>4, <2>1, <2>2 DEF Covered, TypeOK
<1>7. Flushed'
  <2>. SUFFICES ASSUME NEW g \in Runs, run'[g].pc = "hdel"
                PROVE  /\ run'[g].post \in run'[g].todo
                       /\ views'[run'[g].post]
                            <= viewCount'[run'[g].post] + exposed'[run'[g].post]
    BY DEF Flushed
  <2>1. CASE g = f
    <3>1. views[p] <= viewCount[p] + run[f].delta[p] + exposed[p]
      BY <1>3 DEF Covered, Waiting
    <3>. QED
      BY <1>1, <1>3, <2>1, <3>1 DEF TypeOK
  <2>2. CASE g # f
    <3>1. run[g].post \in Posts /\ run'[g] = run[g]
      BY <1>3, <2>2 DEF TypeOK, Run
    <3>. QED
      BY <1>3, <1>4, <2>2, <3>1 DEF Flushed, TypeOK
  <2>. QED
    BY <2>1, <2>2
<1>. QED
  BY <1>2, <1>5, <1>6, <1>7

LEMMA DeleteStep ==
  ASSUME IInv, NEW f \in Runs, Delete(f)
  PROVE  IInv'
<1>. USE DEF IInv
<1>. DEFINE p == run[f].post
<1>1. run[f] \in Run /\ p \in Posts
  BY DEF TypeOK, Run
<1>2. TypeOK'
  BY <1>1, DoneType DEF TypeOK, Delete, Cleared
<1>3. /\ viewCount' = viewCount /\ views' = views /\ exposed' = exposed
      /\ pending'[p] = 0 /\ \A q \in Posts : q # p => pending'[q] = pending[q]
      /\ \A g \in Runs : g # f => run'[g] = run[g]
      /\ run'[f].pc = "loop" /\ run'[f].todo = run[f].todo \ {p}
      /\ run'[f].delta = run[f].delta
      /\ run[f].pc = "hdel"
  BY <1>1, DoneType DEF TypeOK, Delete, Cleared
<1>4. LossOnlyInWindow'
  BY <1>1, <1>2, <1>3 DEF LossOnlyInWindow, Flushed, Counted, TypeOK
<1>5. Covered'
  BY <1>3 DEF Covered, Waiting
<1>6. Flushed'
  BY <1>3 DEF Flushed
<1>. QED
  BY <1>2, <1>4, <1>5, <1>6

LEMMA NextIInv ==
  ASSUME IInv, [Next]_vars
  PROVE  IInv'
<1>1. CASE UNCHANGED vars
  BY <1>1 DEF vars, IInv, TypeOK, LossOnlyInWindow, Covered, Flushed, Waiting, Counted
<1>2. CASE \E p \in Posts : View(p)
  BY <1>2, ViewStep
<1>3. ASSUME NEW f \in Runs, ReadAll(f)
      PROVE  IInv'
  <2>1. TypeOK'
    <3>1. [run[f] EXCEPT !.pc = "loop", !.delta = pending,
                         !.todo = {p \in Posts : pending[p] > 0}] \in Run
      BY DEF IInv, TypeOK, Run
    <3>. QED
      BY <1>3, <3>1 DEF IInv, TypeOK, ReadAll, NonZero
  <2>2. run'[f].delta = pending /\ run'[f].pc = "loop"
    BY <1>3 DEF IInv, TypeOK, ReadAll, NonZero, Run
  <2>. QED
    BY <1>3, <2>1, <2>2, ShrinkStep DEF IInv, TypeOK, ReadAll, NonZero
<1>4. ASSUME NEW f \in Runs, NEW p \in Posts, UpdateFails(f, p)
      PROVE  IInv'
  <2>1. TypeOK'
    BY <1>4, DoneType, ViewCounterAssumption DEF IInv, TypeOK, UpdateFails, Fault
  <2>2. run[f].pc = "loop" /\ run'[f] = Done(f, p)
    BY <1>4 DEF IInv, TypeOK, UpdateFails
  <2>. QED
    BY <1>4, <2>1, <2>2, DoneType, ShrinkStep DEF IInv, TypeOK, UpdateFails
<1>5. ASSUME NEW f \in Runs, DeleteFails(f)
      PROVE  IInv'
  <2>1. TypeOK'
    <3>1. run[f].post \in Posts
      BY DEF IInv, TypeOK, Run
    <3>. QED
      BY <1>5, <3>1, DoneType, ViewCounterAssumption
         DEF IInv, TypeOK, DeleteFails, Fault
  <2>2. /\ run'[f].todo = run[f].todo \ {run[f].post} /\ run'[f].pc = "loop"
        /\ run'[f].delta = run[f].delta /\ run[f].pc = "hdel"
        /\ \A g \in Runs : g # f => run'[g] = run[g]
        /\ UNCHANGED <<viewCount, pending, views, exposed>>
    <3>1. run[f].post \in Posts
      BY DEF IInv, TypeOK, Run
    <3>. QED
      BY <1>5, <3>1, DoneType DEF IInv, TypeOK, DeleteFails
  <2>3. Covered' /\ Flushed' /\ LossOnlyInWindow'
    BY <2>2 DEF IInv, Covered, Flushed, Waiting, LossOnlyInWindow, Counted
  <2>. QED
    BY <2>1, <2>3 DEF IInv
<1>6. ASSUME NEW f \in Runs, Stop(f) \/ Finish(f)
      PROVE  IInv'
  <2>1. TypeOK'
    BY <1>6, StoppedType, ViewCounterAssumption DEF IInv, TypeOK, Stop, Finish, Fault
  <2>2. run' = [run EXCEPT ![f] = Stopped]
    BY <1>6 DEF Stop, Finish
  <2>. QED
    BY <1>6, <2>1, <2>2, StoppedType, ShrinkStep DEF IInv, TypeOK, Stop, Finish
<1>. QED
  BY <1>1, <1>2, <1>3, <1>4, <1>5, <1>6, UpdateStep, DeleteStep DEF Next

(* Only views between the HGETALL and the HDEL of a run are ever lost, for  *)
(* any number of posts, runs, views and failures.                          *)
THEOREM LossIsBounded == Spec => []LossOnlyInWindow
<1>1. Init => IInv
  BY InitIInv
<1>2. IInv /\ [Next]_vars => IInv'
  BY NextIInv
<1>3. IInv => LossOnlyInWindow
  BY DEF IInv
<1>. QED
  BY <1>1, <1>2, <1>3, PTL DEF Spec

(* The variables keep their types, the counters never below zero.          *)
THEOREM TypeCorrect == Spec => []TypeOK
<1>1. Init => IInv
  BY InitIInv
<1>2. IInv /\ [Next]_vars => IInv'
  BY NextIInv
<1>3. IInv => TypeOK
  BY DEF IInv
<1>. QED
  BY <1>1, <1>2, <1>3, PTL DEF Spec

-----------------------------------------------------------------------------
(* The sum of h[f] over the runs f, as the number of pairs of a run and one   *)
(* of 1..h[f].                                                             *)
Pairs(h) == {x \in Runs \X Nat : x[2] \in 1 .. h[x[1]]}

Sum(h) == Cardinality(Pairs(h))

Bounded(h, b) == h \in [Runs -> Nat] /\ \A f \in Runs : h[f] <= b

LEMMA SumFinite ==
  ASSUME NEW h, NEW b \in Nat, Bounded(h, b)
  PROVE  IsFiniteSet(Pairs(h)) /\ Sum(h) \in Nat
<1>1. IsFiniteSet(Runs \X (1 .. b))
  <2>1. 1 \in Int /\ b \in Int
    OBVIOUS
  <2>2. IsFiniteSet(1 .. b)
    BY <2>1, FS_Interval
  <2>3. QED
    BY <2>2, ViewCounterAssumption, FS_Product
<1>2. Pairs(h) \in SUBSET (Runs \X (1 .. b))
  BY DEF Pairs, Bounded
<1>3. QED
  BY <1>1, <1>2, FS_Subset, FS_CardinalityType DEF Sum

LEMMA SumMonotone ==
  ASSUME NEW h, NEW k, NEW b \in Nat, Bounded(h, b), Bounded(k, b),
         \A f \in Runs : k[f] <= h[f]
  PROVE  Sum(k) <= Sum(h)
<1>1. Pairs(k) \in SUBSET Pairs(h)
  BY DEF Pairs, Bounded
<1>2. QED
  BY <1>1, SumFinite, FS_Subset DEF Sum

(* If every term grows by one at most, the sum grows by the number of runs. *)
LEMMA SumOneMore ==
  ASSUME NEW h, NEW k, NEW b \in Nat, Bounded(h, b), Bounded(k, b),
         \A f \in Runs : k[f] <= h[f] + 1
  PROVE  Sum(k) <= Sum(h) + Cardinality(Runs)
<1> DEFINE new == Pairs(k) \ Pairs(h)
           whose == [x \in new |-> x[1]]
<1>1. \A x \in new : x \in Runs \X Nat /\ x[2] = h[x[1]] + 1
  BY DEF Pairs, Bounded
<1>2. whose \in Injection(new, Runs)
  BY <1>1 DEF Injection, IsInjective
<1>3. IsFiniteSet(new) /\ Cardinality(new) <= Cardinality(Runs)
  BY <1>2, ViewCounterAssumption, FS_Injection
<1>4. IsFiniteSet(Pairs(h)) /\ Sum(h) \in Nat
  BY SumFinite
<1>5. /\ IsFiniteSet(Pairs(h) \cup new)
      /\ Cardinality(Pairs(h) \cup new) <= Sum(h) + Cardinality(Runs)
  <2>1. Pairs(h) \cap new = {}
    OBVIOUS
  <2>2. Cardinality(Pairs(h) \cup new) = Sum(h) + Cardinality(new) - 0
    BY <1>3, <1>4, <2>1, FS_Union, FS_EmptySet DEF Sum
  <2>3. Cardinality(new) \in Nat /\ Cardinality(Runs) \in Nat
    BY <1>3, ViewCounterAssumption, FS_CardinalityType
  <2>4. QED
    <3>1. IsFiniteSet(Pairs(h) \cup new)
      BY <1>3, <1>4, FS_Union
    <3>2. QED
      BY <1>3, <1>4, <2>2, <2>3, <3>1
<1>6. Pairs(k) \in SUBSET (Pairs(h) \cup new)
  OBVIOUS
<1>7. Sum(k) <= Cardinality(Pairs(h) \cup new) /\ Cardinality(Pairs(h) \cup new) \in Nat
  BY <1>5, <1>6, FS_Subset, FS_CardinalityType DEF Sum
<1>8. Sum(k) \in Nat /\ Cardinality(Runs) \in Nat
  BY SumFinite, ViewCounterAssumption, FS_CardinalityType
<1>9. QED
  BY <1>4, <1>5, <1>7, <1>8

(* One term and the rest of the sum. *)
Rest(h, f) == {x \in Pairs(h) : x[1] # f}

LEMMA SumSplits ==
  ASSUME NEW h, NEW b \in Nat, Bounded(h, b), NEW f \in Runs
  PROVE  /\ Sum(h) = Cardinality(Rest(h, f)) + h[f]
         /\ Cardinality(Rest(h, f)) \in Nat
<1> DEFINE mine == {x \in Pairs(h) : x[1] = f}
           nth == [n \in 1 .. h[f] |-> <<f, n>>]
<1>1. h[f] \in Nat
  BY DEF Bounded
<1>2. nth \in Bijection(1 .. h[f], mine)
  <2>1. \A n \in 1 .. h[f] : nth[n] \in mine
    BY <1>1 DEF Pairs
  <2>2. \A x \in mine : x[2] \in 1 .. h[f] /\ x = nth[x[2]]
    BY <1>1 DEF Pairs
  <2>3. nth \in [1 .. h[f] -> mine]
    BY <2>1
  <2>4. \A m, n \in 1 .. h[f] : nth[m] = nth[n] => m = n
    OBVIOUS
  <2>5. QED
    BY <2>2, <2>3, <2>4 DEF Bijection, Injection, Surjection, IsInjective
<1>3. IsFiniteSet(mine) /\ Cardinality(mine) = h[f]
  <2>1. IsFiniteSet(1 .. h[f]) /\ Cardinality(1 .. h[f]) = h[f]
    <3>1. 1 \in Int /\ h[f] \in Int
      BY <1>1
    <3>2. /\ IsFiniteSet(1 .. h[f])
          /\ Cardinality(1 .. h[f]) = IF 1 > h[f] THEN 0 ELSE h[f] - 1 + 1
      BY <3>1, FS_Interval
    <3>3. QED
      BY <1>1, <3>2
  <2>2. QED
    BY <1>2, <2>1, FS_Bijection DEF ExistsBijection
<1>4. IsFiniteSet(Pairs(h))
  BY SumFinite
<1>5. Rest(h, f) \in SUBSET Pairs(h)
  BY DEF Rest
<1>6. IsFiniteSet(Rest(h, f)) /\ Cardinality(Rest(h, f)) \in Nat
  BY <1>4, <1>5, FS_Subset, FS_CardinalityType
<1>7. Rest(h, f) \cup mine = Pairs(h) /\ Rest(h, f) \cap mine = {}
  BY DEF Rest
<1>8. QED
  <2>1. Sum(h) = Cardinality(Rest(h, f)) + Cardinality(mine) - 0
    BY <1>3, <1>6, <1>7, FS_Union, FS_EmptySet DEF Sum
  <2>2. QED
    BY <1>1, <1>3, <1>6, <2>1

(* Two sums that differ in one term. *)
LEMMA SumDiffers ==
  ASSUME NEW h, NEW k, NEW b \in Nat, Bounded(h, b), Bounded(k, b),
         NEW f \in Runs, \A g \in Runs : g # f => k[g] = h[g]
  PROVE  Sum(k) + h[f] = Sum(h) + k[f]
<1>1. Rest(h, f) = Rest(k, f)
  BY DEF Rest, Pairs
<1>2. h[f] \in Nat /\ k[f] \in Nat
  BY DEF Bounded
<1>3. QED
  BY <1>1, <1>2, SumSplits

-----------------------------------------------------------------------------
(* What run f may still add to view_count of p before the field it read is    *)
(* deleted: what it has read, or, when it has not, what it may read.         *)
Owed(f, p) ==
  IF Waiting(f, p) THEN run[f].delta[p]
  ELSE IF run[f].pc = "hdel" /\ run[f].post = p THEN 0 ELSE pending[p]

OwedBy(p) == [f \in Runs |-> Owed(f, p)]

ReadsViews ==
  /\ \A p \in Posts : pending[p] <= views[p]
  /\ \A f \in Runs, p \in Posts : Waiting(f, p) => run[f].delta[p] <= views[p]
  /\ \A f \in Runs : run[f].pc = "idle" => run[f].todo = {}

(* What was added and what may still be is paid for by the views, once for    *)
(* each run and once for each fault.                                       *)
Paid ==
  \A p \in Posts :
    viewCount[p] + Sum(OwedBy(p)) <= views[p] * (Cardinality(Runs) + faults)

LEMMA OwedBounded ==
  ASSUME TypeOK, ReadsViews, NEW p \in Posts
  PROVE  Bounded(OwedBy(p), views[p]) /\ views[p] \in Nat
<1>1. \A f \in Runs : Owed(f, p) \in Nat /\ Owed(f, p) <= views[p]
  BY DEF TypeOK, Run, ReadsViews, Owed
<1>2. QED
  BY <1>1 DEF Bounded, OwedBy, TypeOK

LEMMA RunsCounted == Cardinality(Runs) \in Nat
BY FS_CardinalityType, ViewCounterAssumption

LEMMA ReadsViewsStep ==
  ASSUME IInv, ReadsViews, [Next]_vars, TypeOK'
  PROVE  ReadsViews'
<1> USE DEF IInv
<1>1. CASE UNCHANGED vars
  BY <1>1 DEF vars, ReadsViews, Waiting
<1>2. ASSUME NEW p \in Posts, View(p)
      PROVE  ReadsViews'
  <2>1. /\ run' = run
        /\ \A q \in Posts : q # p => views'[q] = views[q] /\ pending'[q] = pending[q]
        /\ views'[p] = views[p] + 1 /\ pending'[p] = pending[p] + 1
    BY <1>2 DEF View, TypeOK
  <2>2. \A q \in Posts : views[q] \in Nat /\ pending[q] \in Nat
    BY DEF TypeOK
  <2>3. \A f \in Runs, q \in Posts : run[f].delta[q] \in Nat
    BY DEF TypeOK, Run
  <2>4. \A q \in Posts : views[q] <= views'[q] /\ views'[q] \in Nat
    BY <2>1, <2>2
  <2>5. \A f \in Runs, q \in Posts : Waiting(f, q)' = Waiting(f, q)
    BY <2>1 DEF Waiting
  <2>6. \A f \in Runs, q \in Posts : Waiting(f, q) => run[f].delta[q] <= views'[q]
    BY <2>2, <2>3, <2>4 DEF ReadsViews
  <2>7. \A q \in Posts : pending'[q] <= views'[q]
    BY <2>1, <2>2 DEF ReadsViews
  <2>8. QED
    BY <2>1, <2>5, <2>6, <2>7 DEF ReadsViews
<1>3. ASSUME NEW f \in Runs, \A g \in Runs : g # f => run'[g] = run[g],
             views' = views, \A q \in Posts : pending'[q] \in {pending[q], 0},
             run'[f].pc = "idle" => run'[f].todo = {},
             \A q \in Posts : Waiting(f, q)' =>
               \/ run'[f].delta[q] = pending[q]
               \/ Waiting(f, q) /\ run'[f].delta = run[f].delta
      PROVE  ReadsViews'
  <2>1. \A q \in Posts : pending'[q] <= views'[q]
    BY <1>3 DEF ReadsViews, TypeOK
  <2>2. \A g \in Runs, q \in Posts : Waiting(g, q)' => run'[g].delta[q] <= views'[q]
    BY <1>3 DEF ReadsViews, Waiting
  <2>3. \A g \in Runs : run'[g].pc = "idle" => run'[g].todo = {}
    BY <1>3 DEF ReadsViews
  <2>4. QED
    BY <2>1, <2>2, <2>3 DEF ReadsViews
<1>4. ASSUME NEW f \in Runs, ReadAll(f)
      PROVE  ReadsViews'
  <2>1. /\ \A g \in Runs : g # f => run'[g] = run[g]
        /\ run'[f].pc = "loop" /\ run'[f].delta = pending
        /\ views' = views /\ pending' = pending
    BY <1>4 DEF ReadAll, TypeOK, Run
  <2>2. QED
    BY <1>3, <2>1
<1>5. ASSUME NEW f \in Runs, NEW p \in Posts, Update(f, p)
      PROVE  ReadsViews'
  <2>1. run[f] \in Run
    BY DEF TypeOK
  <2>2. /\ \A g \in Runs : g # f => run'[g] = run[g]
        /\ run'[f].pc = "hdel" /\ run'[f].post = p
        /\ run'[f].delta = run[f].delta /\ run'[f].todo = run[f].todo
        /\ run[f].pc = "loop"
        /\ views' = views /\ pending' = pending
    BY <1>5, <2>1 DEF Update, FirstWrite, TypeOK, Run
  <2>3. QED
    BY <1>3, <2>2 DEF Waiting
<1>6. ASSUME NEW f \in Runs, NEW p \in Posts, run' = [run EXCEPT ![f] = Done(f, p)],
             run[f].pc = "hdel" => run[f].post = p,
             views' = views, \A q \in Posts : pending'[q] \in {pending[q], 0}
      PROVE  ReadsViews'
  <2>1. /\ \A g \in Runs : g # f => run'[g] = run[g]
        /\ run'[f].pc = "loop"
        /\ run'[f].delta = run[f].delta /\ run'[f].todo = run[f].todo \ {p}
    BY <1>6, DoneType DEF TypeOK
  <2>2. QED
    BY <1>3, <1>6, <2>1 DEF Waiting
<1>7. ASSUME NEW f \in Runs, Stop(f) \/ Finish(f)
      PROVE  ReadsViews'
  <2>1. /\ \A g \in Runs : g # f => run'[g] = run[g]
        /\ run'[f].todo = {} /\ views' = views /\ pending' = pending
    BY <1>7, StoppedType DEF Stop, Finish, TypeOK
  <2>2. QED
    BY <1>3, <2>1 DEF Waiting
<1>8. ASSUME NEW f \in Runs, Delete(f) \/ DeleteFails(f)
      PROVE  ReadsViews'
  <2>1. run[f].post \in Posts
    BY DEF TypeOK, Run
  <2>2. /\ run' = [run EXCEPT ![f] = Done(f, run[f].post)] /\ views' = views
        /\ \A q \in Posts : pending'[q] \in {pending[q], 0}
    BY <1>8 DEF Delete, DeleteFails, Cleared, TypeOK
  <2>3. QED
    BY <1>6, <2>1, <2>2
<1>9. ASSUME NEW f \in Runs, NEW p \in Posts, UpdateFails(f, p)
      PROVE  ReadsViews'
  BY <1>6, <1>9 DEF UpdateFails, TypeOK
<1>10. QED
  BY <1>1, <1>2, <1>4, <1>5, <1>7, <1>8, <1>9 DEF Next

(* A view is paid for in each run that may read it. *)
LEMMA ViewPays ==
  ASSUME TypeOK, ReadsViews, TypeOK', ReadsViews', Paid, NEW p \in Posts, View(p)
  PROVE  Paid'
<1>1. /\ run' = run /\ viewCount' = viewCount /\ faults' = faults
      /\ \A q \in Posts : q # p => views'[q] = views[q] /\ pending'[q] = pending[q]
      /\ views'[p] = views[p] + 1 /\ pending'[p] = pending[p] + 1
  BY DEF View, TypeOK
<1> SUFFICES ASSUME NEW q \in Posts
             PROVE  viewCount[q] + Sum(OwedBy(q)')
                      <= views'[q] * (Cardinality(Runs) + faults)
  BY <1>1 DEF Paid
<1>2. CASE q # p
  <2>1. OwedBy(q)' = OwedBy(q)
    BY <1>1, <1>2 DEF OwedBy, Owed, Waiting
  <2>2. QED
    BY <1>1, <1>2, <2>1 DEF Paid
<1>3. CASE q = p
  <2> DEFINE h == OwedBy(p)
             k == OwedBy(p)'
  <2>1. Bounded(h, views'[p]) /\ Bounded(k, views'[p]) /\ views'[p] \in Nat
    <3>1. Bounded(h, views[p]) /\ views[p] \in Nat
      BY OwedBounded
    <3>2. Bounded(k, views'[p]) /\ views'[p] \in Nat
      <4>1. \A f \in Runs : Owed(f, p)' \in Nat /\ Owed(f, p)' <= views'[p]
        BY DEF TypeOK, Run, ReadsViews, Owed
      <4>2. QED
        BY <4>1 DEF Bounded, OwedBy, TypeOK
    <3>3. QED
      BY <1>1, <3>1, <3>2 DEF Bounded
  <2>2. \A f \in Runs : k[f] <= h[f] + 1
    <3>1. \A f \in Runs : Owed(f, p)' <= Owed(f, p) + 1
      BY <1>1 DEF Owed, Waiting, TypeOK, Run
    <3>2. QED
      BY <3>1 DEF OwedBy
  <2> HIDE DEF h, k
  <2>3. Sum(k) <= Sum(h) + Cardinality(Runs) /\ Sum(h) \in Nat /\ Sum(k) \in Nat
    BY <2>1, <2>2, SumOneMore, SumFinite
  <2>4. viewCount[p] + Sum(h) <= views[p] * (Cardinality(Runs) + faults)
    BY DEF Paid, h
  <2>5. views'[p] * (Cardinality(Runs) + faults)
          = views[p] * (Cardinality(Runs) + faults) + Cardinality(Runs) + faults
    BY <1>1, RunsCounted, ViewCounterAssumption DEF TypeOK
  <2>6. /\ views[p] * (Cardinality(Runs) + faults) \in Nat /\ faults \in Nat
        /\ viewCount[p] \in Nat
    BY RunsCounted, ViewCounterAssumption DEF TypeOK
  <2>7. viewCount[p] + Sum(k) <= views'[p] * (Cardinality(Runs) + faults)
    <3>1. ASSUME NEW m \in Nat, m = views[p] * (Cardinality(Runs) + faults),
                 NEW n \in Nat, n = Cardinality(Runs)
          PROVE  viewCount[p] + Sum(k) <= m + n + faults
      BY <2>3, <2>4, <2>6, <3>1
    <3>2. QED
      BY <2>5, <2>6, <3>1, RunsCounted
  <2>8. QED
    BY <1>3, <2>7 DEF k
<1>4. QED
  BY <1>2, <1>3

(* The UPDATE adds what was owed. *)
LEMMA UpdatePays ==
  ASSUME TypeOK, ReadsViews, TypeOK', ReadsViews', Paid,
         NEW f \in Runs, NEW p \in Posts, Update(f, p)
  PROVE  Paid'
<1>1. run[f] \in Run
  BY DEF TypeOK
<1>2. /\ \A g \in Runs : g # f => run'[g] = run[g]
      /\ run'[f].pc = "hdel" /\ run'[f].post = p
      /\ run'[f].delta = run[f].delta /\ run'[f].todo = run[f].todo
      /\ run[f].pc = "loop" /\ p \in run[f].todo
      /\ views' = views /\ pending' = pending /\ faults' = faults
      /\ viewCount'[p] = viewCount[p] + run[f].delta[p]
      /\ \A q \in Posts : q # p => viewCount'[q] = viewCount[q]
  BY <1>1 DEF Update, FirstWrite, TypeOK, Run
<1> SUFFICES ASSUME NEW q \in Posts
             PROVE  viewCount'[q] + Sum(OwedBy(q)')
                      <= views[q] * (Cardinality(Runs) + faults)
  BY <1>2 DEF Paid
<1>3. \A g \in Runs : g # f => Owed(g, q)' = Owed(g, q)
  BY <1>2 DEF Owed, Waiting
<1>4. CASE q # p
  <2>1. Owed(f, q)' = Owed(f, q)
    BY <1>2, <1>4 DEF Owed, Waiting
  <2>2. OwedBy(q)' = OwedBy(q)
    BY <1>3, <2>1 DEF OwedBy
  <2>3. QED
    BY <1>2, <1>4, <2>2 DEF Paid
<1>5. CASE q = p
  <2> DEFINE h == OwedBy(p)
             k == OwedBy(p)'
  <2>1. h[f] = run[f].delta[p] /\ k[f] = 0
    BY <1>2 DEF OwedBy, Owed, Waiting
  <2>2. \A g \in Runs : g # f => k[g] = h[g]
    BY <1>3, <1>5 DEF OwedBy
  <2>3. Bounded(h, views[p]) /\ views[p] \in Nat
    BY OwedBounded
  <2>4. k \in [Runs -> Nat] /\ \A g \in Runs : k[g] <= views[p]
    BY <2>1, <2>2, <2>3 DEF Bounded, OwedBy
  <2>5. viewCount[p] + Sum(h) <= views[p] * (Cardinality(Runs) + faults)
    BY DEF Paid
  <2> HIDE DEF h, k
  <2>6. Sum(k) + h[f] = Sum(h) + k[f] /\ Sum(h) \in Nat /\ Sum(k) \in Nat
    BY <2>2, <2>3, <2>4, SumDiffers, SumFinite DEF Bounded
  <2>7. viewCount[p] \in Nat /\ run[f].delta[p] \in Nat
    BY <1>1 DEF TypeOK, Run
  <2>8. viewCount'[p] + Sum(k) = viewCount[p] + Sum(h)
    BY <1>2, <2>1, <2>6, <2>7
  <2>9. QED
    BY <1>5, <2>5, <2>8 DEF k
<1>6. QED
  BY <1>4, <1>5

(* A fault pays for all that the run it hits may add once more. *)
LEMMA FaultPays ==
  ASSUME TypeOK, ReadsViews, TypeOK', ReadsViews', Paid, NEW f \in Runs,
         UNCHANGED <<viewCount, pending, views>>, faults' = faults + 1,
         \A g \in Runs : g # f => run'[g] = run[g]
  PROVE  Paid'
<1> SUFFICES ASSUME NEW q \in Posts
             PROVE  viewCount[q] + Sum(OwedBy(q)')
                      <= views[q] * (Cardinality(Runs) + (faults + 1))
  BY DEF Paid
<1> DEFINE h == OwedBy(q)
           k == OwedBy(q)'
<1>1. Bounded(h, views[q]) /\ views[q] \in Nat
  BY OwedBounded
<1>2. Bounded(k, views[q])
  <2>1. \A g \in Runs : Owed(g, q)' \in Nat /\ Owed(g, q)' <= views[q]
    BY DEF TypeOK, Run, ReadsViews, Owed
  <2>2. QED
    BY <2>1 DEF Bounded, OwedBy
<1>3. \A g \in Runs : g # f => k[g] = h[g]
  BY DEF OwedBy, Owed, Waiting
<1>4. viewCount[q] + Sum(h) <= views[q] * (Cardinality(Runs) + faults)
  BY DEF Paid
<1> HIDE DEF h, k
<1>5. Sum(k) + h[f] = Sum(h) + k[f] /\ Sum(h) \in Nat /\ Sum(k) \in Nat
  BY <1>1, <1>2, <1>3, SumDiffers, SumFinite
<1>6. h[f] \in Nat /\ k[f] \in Nat /\ k[f] <= views[q]
  BY <1>1, <1>2 DEF Bounded
<1>7. /\ views[q] * (Cardinality(Runs) + (faults + 1))
           = views[q] * (Cardinality(Runs) + faults) + views[q]
      /\ views[q] * (Cardinality(Runs) + faults) \in Nat
      /\ viewCount[q] \in Nat
  BY RunsCounted, ViewCounterAssumption DEF TypeOK
<1>8. ASSUME NEW m \in Nat, m = views[q] * (Cardinality(Runs) + faults)
      PROVE  viewCount[q] + Sum(k) <= m + views[q]
  BY <1>1, <1>4, <1>5, <1>6, <1>7, <1>8
<1>9. QED
  BY <1>7, <1>8 DEF k

(* A step that neither adds nor fails owes nothing more. *)
LEMMA QuietPays ==
  ASSUME TypeOK, ReadsViews, TypeOK', ReadsViews', Paid,
         UNCHANGED <<viewCount, views, faults>>,
         \A g \in Runs, q \in Posts : Owed(g, q)' <= Owed(g, q)
  PROVE  Paid'
<1> SUFFICES ASSUME NEW q \in Posts
             PROVE  viewCount[q] + Sum(OwedBy(q)')
                      <= views[q] * (Cardinality(Runs) + faults)
  BY DEF Paid
<1> DEFINE h == OwedBy(q)
           k == OwedBy(q)'
<1>1. Bounded(h, views[q]) /\ views[q] \in Nat
  BY OwedBounded
<1>2. Bounded(k, views[q])
  <2>1. \A g \in Runs : Owed(g, q)' \in Nat /\ Owed(g, q)' <= views[q]
    BY DEF TypeOK, Run, ReadsViews, Owed
  <2>2. QED
    BY <2>1 DEF Bounded, OwedBy
<1>3. \A g \in Runs : k[g] <= h[g]
  BY DEF OwedBy
<1>4. viewCount[q] + Sum(h) <= views[q] * (Cardinality(Runs) + faults)
  BY DEF Paid
<1> HIDE DEF h, k
<1>5. Sum(k) <= Sum(h) /\ Sum(h) \in Nat /\ Sum(k) \in Nat
  BY <1>1, <1>2, <1>3, SumMonotone, SumFinite
<1>6. viewCount[q] \in Nat /\ views[q] * (Cardinality(Runs) + faults) \in Nat
  BY RunsCounted, ViewCounterAssumption DEF TypeOK
<1>7. viewCount[q] + Sum(k) <= views[q] * (Cardinality(Runs) + faults)
  BY <1>4, <1>5, <1>6
<1>8. QED
  BY <1>7 DEF k

LEMMA PaidStep ==
  ASSUME IInv, ReadsViews, Paid, [Next]_vars
  PROVE  ReadsViews' /\ Paid'
<1>1. TypeOK /\ TypeOK'
  BY NextIInv DEF IInv
<1>2. ReadsViews'
  BY <1>1, ReadsViewsStep
<1>3. ASSUME UNCHANGED vars
      PROVE  Paid'
  BY <1>3 DEF vars, Paid, OwedBy, Owed, Waiting
<1>4. ASSUME NEW f \in Runs, ReadAll(f)
      PROVE  Paid'
  <2>1. /\ \A g \in Runs : g # f => run'[g] = run[g]
        /\ run'[f].pc = "loop" /\ run'[f].delta = pending
        /\ run'[f].todo = NonZero(pending) /\ run[f].pc = "idle"
        /\ UNCHANGED <<viewCount, pending, views, faults>>
    BY <1>1, <1>4 DEF ReadAll, TypeOK, Run
  <2>2. \A q \in Posts : Owed(f, q)' = pending[q] /\ Owed(f, q) = pending[q]
    BY <1>1, <2>1 DEF Owed, Waiting, NonZero, ReadsViews, TypeOK
  <2>3. \A g \in Runs, q \in Posts : g # f => Owed(g, q)' = Owed(g, q)
    BY <2>1 DEF Owed, Waiting
  <2>4. \A g \in Runs, q \in Posts : Owed(g, q) \in Nat
    BY <1>1 DEF Owed, TypeOK, Run
  <2>5. \A g \in Runs, q \in Posts : Owed(g, q)' <= Owed(g, q)
    BY <2>2, <2>3, <2>4
  <2>6. QED
    BY <1>1, <1>2, <2>1, <2>5, QuietPays
<1>5. ASSUME NEW f \in Runs, Delete(f)
      PROVE  Paid'
  <2> DEFINE p == run[f].post
  <2>1. p \in Posts
    BY <1>1 DEF TypeOK, Run
  <2>2. /\ \A g \in Runs : g # f => run'[g] = run[g]
        /\ run'[f].pc = "loop" /\ run'[f].delta = run[f].delta
        /\ run'[f].todo = run[f].todo \ {p} /\ run[f].pc = "hdel"
        /\ pending'[p] = 0 /\ \A q \in Posts : q # p => pending'[q] = pending[q]
        /\ UNCHANGED <<viewCount, views, faults>>
    BY <1>1, <1>5, <2>1, DoneType DEF Delete, Cleared, TypeOK
  <2>3. \A g \in Runs, q \in Posts :
          run[g].delta[q] \in Nat /\ pending[q] \in Nat /\ pending'[q] <= pending[q]
    BY <1>1, <2>2 DEF TypeOK, Run
  <2> HIDE DEF p
  <2>4. \A g \in Runs, q \in Posts : g # f => Owed(g, q)' <= Owed(g, q)
    BY <2>2, <2>3 DEF Owed, Waiting
  <2>5. \A q \in Posts : Owed(f, q)' <= Owed(f, q)
    BY <2>2, <2>3 DEF Owed, Waiting, p
  <2>6. QED
    BY <1>1, <1>2, <2>2, <2>4, <2>5, QuietPays
<1>6. ASSUME NEW f \in Runs, Finish(f)
      PROVE  Paid'
  <2>1. /\ \A g \in Runs : g # f => run'[g] = run[g]
        /\ run'[f].todo = {} /\ run'[f].pc = "idle"
        /\ run[f].todo = {} /\ run[f].pc = "loop"
        /\ UNCHANGED <<viewCount, pending, views, faults>>
    BY <1>1, <1>6, StoppedType DEF Finish, TypeOK
  <2>2. \A g \in Runs, q \in Posts : g # f => Owed(g, q)' = Owed(g, q)
    BY <2>1 DEF Owed, Waiting
  <2>3. \A q \in Posts : Owed(f, q)' = Owed(f, q)
    BY <2>1 DEF Owed, Waiting
  <2>4. \A g \in Runs, q \in Posts : Owed(g, q) \in Nat
    BY <1>1 DEF Owed, TypeOK, Run
  <2>5. \A g \in Runs, q \in Posts : Owed(g, q)' <= Owed(g, q)
    BY <2>2, <2>3, <2>4
  <2>6. QED
    BY <1>1, <1>2, <2>1, <2>5, QuietPays
<1>7. ASSUME NEW f \in Runs,
             DeleteFails(f) \/ Stop(f) \/ \E p \in Posts : UpdateFails(f, p)
      PROVE  Paid'
  <2>1. /\ \A g \in Runs : g # f => run'[g] = run[g]
        /\ faults' = faults + 1 /\ UNCHANGED <<viewCount, pending, views>>
    BY <1>1, <1>7 DEF DeleteFails, Stop, UpdateFails, Fault, TypeOK
  <2>2. QED
    BY <1>1, <1>2, <2>1, FaultPays
<1>8. ASSUME NEW p \in Posts, View(p)
      PROVE  Paid'
  BY <1>1, <1>2, <1>8, ViewPays
<1>9. ASSUME NEW f \in Runs, NEW p \in Posts, Update(f, p)
      PROVE  Paid'
  BY <1>1, <1>2, <1>9, UpdatePays
<1>10. Paid'
  BY <1>3, <1>4, <1>5, <1>6, <1>7, <1>8, <1>9 DEF Next
<1>11. QED
  BY <1>2, <1>10

LEMMA PaidInit ==
  ASSUME Init
  PROVE  ReadsViews /\ Paid
<1>1. TypeOK /\ ReadsViews
  BY InitIInv, StoppedType DEF IInv, Init, ReadsViews, Waiting, Zero
<1>2. ASSUME NEW p \in Posts
      PROVE  viewCount[p] + Sum(OwedBy(p)) <= views[p] * (Cardinality(Runs) + faults)
  <2>1. viewCount[p] = 0 /\ views[p] = 0
    BY DEF Init, Zero
  <2>2. Bounded(OwedBy(p), 0)
    BY <1>1, <2>1, OwedBounded
  <2>3. Pairs(OwedBy(p)) = {}
    BY <2>2 DEF Pairs, Bounded
  <2>4. Sum(OwedBy(p)) = 0
    BY <2>3, FS_EmptySet DEF Sum
  <2>5. Cardinality(Runs) + faults \in Nat
    BY <1>1, RunsCounted, ViewCounterAssumption DEF TypeOK
  <2>6. QED
    BY <2>1, <2>4, <2>5
<1>3. QED
  BY <1>1, <1>2 DEF Paid

(* A view is never counted more often than there are runs to read it and      *)
(* faults to make one read it again, for any number of each.                *)
THEOREM OvercountBounded == Spec => []OvercountIsBounded
<1>1. Init => IInv /\ ReadsViews /\ Paid
  BY InitIInv, PaidInit
<1>2. IInv /\ ReadsViews /\ Paid /\ [Next]_vars => IInv' /\ ReadsViews' /\ Paid'
  BY NextIInv, PaidStep
<1>3. IInv /\ ReadsViews /\ Paid => OvercountIsBounded
  <2> SUFFICES ASSUME IInv, ReadsViews, Paid, NEW p \in Posts
               PROVE  viewCount[p] <= views[p] * (Cardinality(Runs) + faults)
    BY DEF OvercountIsBounded
  <2>1. Sum(OwedBy(p)) \in Nat /\ viewCount[p] \in Nat
    BY OwedBounded, SumFinite DEF IInv, TypeOK
  <2>2. viewCount[p] + Sum(OwedBy(p)) <= views[p] * (Cardinality(Runs) + faults)
    BY DEF Paid
  <2>3. views[p] * (Cardinality(Runs) + faults) \in Nat
    BY RunsCounted, ViewCounterAssumption DEF IInv, TypeOK
  <2>4. QED
    BY <2>1, <2>2, <2>3
<1>4. QED
  BY <1>1, <1>2, <1>3, PTL DEF Spec

-----------------------------------------------------------------------------
(* The calls on target t that are at pc and have written delta d. *)
At(pc, d, t) ==
  {r \in LikeCalls(t) : req[r].pc = pc /\ req[r].delta = d}

Deleted(t) == {r \in LikeCalls(t) : req[r].delta = -1}

(* N are the calls whose DELETE found no row.  Each of them is explained by   *)
(* another call of the same user that deleted one; and where a DELETE is     *)
(* about to find none, there is such a call already.                        *)
Explains(N, t) ==
  /\ N \subseteq Deleted(t)
  /\ Drift(t) = Cardinality(At("failed", -1, t))
                       - Cardinality(At("failed", 1, t)) - Cardinality(N)
  /\ \A r \in N : \E c \in Deleted(t) \ N : Caller[c] = Caller[r]
  /\ \A r \in LikeCalls(t) :
       req[r].pc = "delete" /\ RowOf(r) \notin rows =>
         \E c \in Deleted(t) \ N : Caller[c] = Caller[r]

Sent == {r \in Requests : req[r].pc # "idle"}

LikeTypes ==
  /\ LikesTypeOK
  /\ IsFiniteSet(rows)
  /\ IsFiniteSet(Sent)
  /\ \A r \in Requests :
       /\ req[r].pc \in {"idle", "look", "delete", "insert"} => req[r].delta = 0
       /\ req[r].pc = "adjust" => req[r].kind = "like" /\ req[r].delta \in {-1, 1}

Explained == \A t \in Targets : \E N \in SUBSET Requests : Explains(N, t)

LEMMA CallsFinite ==
  ASSUME LikeTypes, NEW t
  PROVE  /\ IsFiniteSet(LikeCalls(t))
         /\ IsFiniteSet(LikesOf(t))
         /\ IsFiniteSet(Deleted(t))
         /\ \A pc, d : IsFiniteSet(At(pc, d, t))
<1>1. LikeCalls(t) \in SUBSET Sent
  BY DEF LikeCalls, Sent
<1>2. IsFiniteSet(LikeCalls(t))
  BY <1>1, FS_Subset DEF LikeTypes
<1>3. Deleted(t) \in SUBSET LikeCalls(t)
  BY DEF Deleted
<1>4. \A pc, d : At(pc, d, t) \in SUBSET LikeCalls(t)
  BY DEF At
<1>5. LikesOf(t) \in SUBSET rows
  BY DEF LikesOf
<1>6. IsFiniteSet(LikesOf(t))
  BY <1>5, FS_Subset DEF LikeTypes
<1>7. QED
  BY <1>2, <1>3, <1>4, <1>6, FS_Subset

(* What one call adds to or takes from a set. *)
LEMMA Moves ==
  ASSUME NEW S, NEW T, NEW x, IsFiniteSet(S), \A y : y # x => (y \in T <=> y \in S)
  PROVE  /\ IsFiniteSet(T)
         /\ Cardinality(S) \in Nat
         /\ Cardinality(T) = IF x \in S
                             THEN IF x \in T THEN Cardinality(S) ELSE Cardinality(S) - 1
                             ELSE IF x \in T THEN Cardinality(S) + 1 ELSE Cardinality(S)
<1>1. Cardinality(S) \in Nat
  BY FS_CardinalityType
<1>2. CASE x \in T
  <2>1. T = S \cup {x}
    BY <1>2
  <2>2. QED
    BY <1>1, <1>2, <2>1, FS_AddElement
<1>3. CASE x \notin T
  <2>1. T = S \ {x}
    BY <1>3
  <2>2. QED
    BY <1>1, <1>3, <2>1, FS_RemoveElement
<1>4. QED
  BY <1>2, <1>3

(* Call r goes on, the others stay. *)
Advances(r) ==
  /\ \A s \in Requests : s # r => req'[s] = req[s]
  /\ req'[r].pc # "idle"
  /\ req[r].pc # "idle" => /\ req'[r].kind = req[r].kind
                           /\ req'[r].target = req[r].target

LEMMA AdvanceTypes ==
  ASSUME LikeTypes, NEW r \in Requests, Advances(r), LikesTypeOK',
         IsFiniteSet(rows'),
         req'[r].pc \in {"look", "delete", "insert"} => req'[r].delta = 0,
         req'[r].pc = "adjust" => req'[r].kind = "like" /\ req'[r].delta \in {-1, 1}
  PROVE  LikeTypes'
<1>1. Sent' = Sent \cup {r}
  BY DEF Sent, Advances
<1>2. IsFiniteSet(Sent')
  BY <1>1, FS_AddElement DEF LikeTypes
<1>3. \A s \in Requests :
        /\ req'[s].pc \in {"idle", "look", "delete", "insert"} => req'[s].delta = 0
        /\ req'[s].pc = "adjust" => req'[s].kind = "like" /\ req'[s].delta \in {-1, 1}
  BY DEF Advances, LikeTypes
<1>4. QED
  BY <1>2, <1>3 DEF LikeTypes

LEMMA CallMoves ==
  ASSUME LikeTypes, NEW r \in Requests, Advances(r), NEW t
  PROVE  /\ \A y : y # r => (y \in LikeCalls(t)' <=> y \in LikeCalls(t))
         /\ \A y : y # r => (y \in Deleted(t)' <=> y \in Deleted(t))
         /\ \A pc, d, y : y # r => (y \in At(pc, d, t)' <=> y \in At(pc, d, t))
BY DEF LikeCalls, Deleted, At, Advances

LEMMA AtMoves ==
  ASSUME LikeTypes, NEW r \in Requests, Advances(r), NEW t, NEW pc, NEW d
  PROVE  /\ Cardinality(At(pc, d, t)) \in Nat
         /\ Cardinality(At(pc, d, t)') =
              IF r \in At(pc, d, t)
              THEN IF r \in At(pc, d, t)' THEN Cardinality(At(pc, d, t))
                                          ELSE Cardinality(At(pc, d, t)) - 1
              ELSE IF r \in At(pc, d, t)' THEN Cardinality(At(pc, d, t)) + 1
                                          ELSE Cardinality(At(pc, d, t))
<1>1. \A y : y # r => (y \in At(pc, d, t)' <=> y \in At(pc, d, t))
  BY CallMoves
<1>2. IsFiniteSet(At(pc, d, t))
  BY CallsFinite
<1>3. QED
  BY <1>1, <1>2, Moves

DriftFormula ==
  \A t : Drift(t) = likeCount[t]
           + (Cardinality(At("adjust", 1, t)) - Cardinality(At("adjust", -1, t)))
           - Cardinality(LikesOf(t))

LEMMA DriftIs == DriftFormula
<1> SUFFICES ASSUME NEW t
             PROVE  Drift(t) = likeCount[t]
               + (Cardinality(At("adjust", 1, t)) - Cardinality(At("adjust", -1, t)))
               - Cardinality(LikesOf(t))
  BY DEF DriftFormula
<1>1. \A d : Adjusting(t, d) = At("adjust", d, t)
  BY DEF Adjusting, At
<1>2. Due(t) = Cardinality(Adjusting(t, 1)) - Cardinality(Adjusting(t, -1))
  BY DEF Due
<1>3. Drift(t) = likeCount[t] + Due(t) - Cardinality(LikesOf(t))
  BY DEF Drift
<1>4. QED
  BY <1>1, <1>2, <1>3

LEMMA DriftWillBe == DriftFormula'
BY DriftIs, PTL

(* Where no like is taken away, and call r does not look for one in vain,     *)
(* the same N will do if the drift is still accounted for.                  *)
LEMMA ExplainsKept ==
  ASSUME LikeTypes, NEW r \in Requests, Advances(r), NEW t \in Targets,
         NEW N \in SUBSET Requests, Explains(N, t),
         r \in Deleted(t) => r \in Deleted(t)',
         \A x \in rows : x.kind = "like" => x \in rows',
         req'[r].pc = "delete" => RowOf(r)' \in rows',
         Drift(t)' = Cardinality(At("failed", -1, t)')
                            - Cardinality(At("failed", 1, t)') - Cardinality(N)
  PROVE  Explains(N, t)'
<1>1. Deleted(t) \subseteq Deleted(t)'
  BY CallMoves
<1>2. N \subseteq Deleted(t)'
  BY <1>1 DEF Explains
<1>3. \A s \in N : \E c \in Deleted(t)' \ N : Caller[c] = Caller[s]
  BY <1>1 DEF Explains
<1>4. ASSUME NEW s \in LikeCalls(t)', req'[s].pc = "delete",
             RowOf(s)' \notin rows'
      PROVE  \E c \in Deleted(t)' \ N : Caller[c] = Caller[s]
  <2>1. s \in Requests /\ s # r
    BY <1>4 DEF LikeCalls
  <2>2. req'[s] = req[s]
    BY <2>1 DEF Advances
  <2>3. s \in LikeCalls(t) /\ req[s].kind = "like"
    BY <1>4, <2>2 DEF LikeCalls
  <2>4. RowOf(s) \notin rows
    BY <1>4, <2>2, <2>3 DEF RowOf
  <2>5. \E c \in Deleted(t) \ N : Caller[c] = Caller[s]
    BY <1>4, <2>2, <2>3, <2>4 DEF Explains
  <2>6. QED
    BY <1>1, <2>5
<1>5. QED
  BY <1>2, <1>3, <1>4 DEF Explains

(* The drift and what accounts for it, by where call r comes from and goes.  *)
LEMMA DriftKept ==
  ASSUME LikeTypes, NEW r \in Requests, Advances(r), NEW t \in Targets,
         likeCount' = likeCount, LikesOf(t)' = LikesOf(t),
         \A d \in {-1, 1} : /\ r \notin At("adjust", d, t)
                            /\ r \notin At("adjust", d, t)'
                            /\ r \notin At("failed", d, t)
                            /\ r \notin At("failed", d, t)'
  PROVE  /\ Drift(t)' = Drift(t)
         /\ Cardinality(At("failed", -1, t)') = Cardinality(At("failed", -1, t))
         /\ Cardinality(At("failed", 1, t)') = Cardinality(At("failed", 1, t))
<1>1. \A d \in {-1, 1} :
        /\ Cardinality(At("adjust", d, t)') = Cardinality(At("adjust", d, t))
        /\ Cardinality(At("failed", d, t)') = Cardinality(At("failed", d, t))
  BY AtMoves
<1>2. Drift(t)' = likeCount'[t]
        + (Cardinality(At("adjust", 1, t)') - Cardinality(At("adjust", -1, t)'))
        - Cardinality(LikesOf(t)')
  BY DriftWillBe DEF DriftFormula
<1>3. QED
  BY <1>1, <1>2, DriftIs DEF DriftFormula

(* A step that neither deletes a like nor counts one. *)
LEMMA QuietCall ==
  ASSUME LikeTypes, Explained, NEW r \in Requests, Advances(r),
         likeCount' = likeCount, \A t : LikesOf(t)' = LikesOf(t),
         \A x \in rows : x.kind = "like" => x \in rows',
         req'[r].kind = "favorite" \/ (req[r].delta = 0 /\ req'[r].delta = 0),
         req'[r].pc = "delete" => RowOf(r)' \in rows'
  PROVE  Explained'
<1> SUFFICES ASSUME NEW t \in Targets
             PROVE  \E N \in SUBSET Requests : Explains(N, t)'
  BY DEF Explained
<1>1. PICK N \in SUBSET Requests : Explains(N, t)
  BY DEF Explained
<1>2. /\ r \notin Deleted(t)
      /\ \A pc : \A d \in {-1, 1} : r \notin At(pc, d, t) /\ r \notin At(pc, d, t)'
  BY DEF Deleted, At, LikeCalls, Advances
<1>3. Drift(t)' = Cardinality(At("failed", -1, t)')
                         - Cardinality(At("failed", 1, t)') - Cardinality(N)
  BY <1>1, <1>2, DriftKept DEF Explains
<1>4. Explains(N, t)'
  BY <1>1, <1>2, <1>3, ExplainsKept
<1>5. QED
  BY <1>4

(* An INSERT adds a row that is not there, and owes the count one. *)
LEMMA InsertCall ==
  ASSUME LikeTypes, Explained, NEW r \in Requests, Advances(r),
         req[r].pc = "insert", req[r].kind = "like",
         req'[r].pc = "adjust", req'[r].delta = 1,
         RowOf(r) \notin rows, rows' = rows \cup {RowOf(r)},
         likeCount' = likeCount, likeCount \in [Targets -> Int]
  PROVE  Explained'
<1> SUFFICES ASSUME NEW t \in Targets
             PROVE  \E N \in SUBSET Requests : Explains(N, t)'
  BY DEF Explained
<1>1. PICK N \in SUBSET Requests : Explains(N, t)
  BY DEF Explained
<1>2. /\ req[r].delta = 0 /\ req'[r].kind = "like" /\ req'[r].target = req[r].target
      /\ r \notin Deleted(t)
  BY DEF LikeTypes, Deleted, Advances
<1>3. \A pc : \A d \in {-1, 1} :
        /\ r \notin At(pc, d, t)
        /\ r \in At(pc, d, t)' <=> (pc = "adjust" /\ d = 1 /\ req[r].target = t)
  BY <1>2 DEF At, LikeCalls
<1>4. Cardinality(LikesOf(t)') =
        IF req[r].target = t THEN Cardinality(LikesOf(t)) + 1
                             ELSE Cardinality(LikesOf(t))
  <2>1. \A y : y # RowOf(r) =>
          (y \in LikesOf(t)' <=> y \in LikesOf(t))
    BY DEF LikesOf
  <2>2. /\ RowOf(r) \notin LikesOf(t)
        /\ RowOf(r) \in LikesOf(t)' <=> req[r].target = t
    BY DEF LikesOf, RowOf
  <2>3. IsFiniteSet(LikesOf(t))
    BY CallsFinite
  <2>4. QED
    BY <2>1, <2>2, <2>3, Moves
<1>5. Drift(t)' = Cardinality(At("failed", -1, t)')
                         - Cardinality(At("failed", 1, t)') - Cardinality(N)
  <2>1. /\ Cardinality(At("adjust", -1, t)') = Cardinality(At("adjust", -1, t))
        /\ Cardinality(At("failed", -1, t)') = Cardinality(At("failed", -1, t))
        /\ Cardinality(At("failed", 1, t)') = Cardinality(At("failed", 1, t))
    BY <1>3, AtMoves
  <2>2. Cardinality(At("adjust", 1, t)') =
          IF req[r].target = t THEN Cardinality(At("adjust", 1, t)) + 1
                               ELSE Cardinality(At("adjust", 1, t))
    BY <1>3, AtMoves
  <2>3. /\ likeCount[t] \in Int
        /\ Cardinality(At("adjust", 1, t)) \in Nat
        /\ Cardinality(At("adjust", -1, t)) \in Nat
        /\ Cardinality(LikesOf(t)) \in Nat
    BY AtMoves, CallsFinite, FS_CardinalityType
  <2>4. Drift(t)' = Drift(t)
    BY <1>4, <2>1, <2>2, <2>3, DriftIs, DriftWillBe DEF DriftFormula
  <2>5. QED
    BY <1>1, <2>1, <2>4 DEF Explains
<1>6. Explains(N, t)'
  BY <1>1, <1>2, <1>5, ExplainsKept
<1>7. QED
  BY <1>6

(* adjustCount adds what was owed; a failure forgets it. *)
LEMMA AdjustCall ==
  ASSUME LikeTypes, Explained, NEW r \in Requests, Advances(r),
         req[r].pc = "adjust", req'[r].delta = req[r].delta, rows' = rows,
         likeCount \in [Targets -> Int],
         \/ req'[r].pc = "done"
              /\ likeCount' = [likeCount EXCEPT ![req[r].target] = @ + req[r].delta]
         \/ req'[r].pc = "failed" /\ likeCount' = likeCount
  PROVE  Explained'
<1> SUFFICES ASSUME NEW t \in Targets
             PROVE  \E N \in SUBSET Requests : Explains(N, t)'
  BY DEF Explained
<1>1. PICK N \in SUBSET Requests : Explains(N, t)
  BY DEF Explained
<1>2. /\ req[r].delta \in {-1, 1} /\ req[r].kind = "like"
      /\ req'[r].kind = "like" /\ req'[r].target = req[r].target
  BY DEF LikeTypes, Advances
<1>3. r \in Deleted(t) => r \in Deleted(t)'
  BY <1>2 DEF Deleted, LikeCalls, Advances
<1>4. LikesOf(t)' = LikesOf(t)
  BY DEF LikesOf
<1>5. \A d \in {-1, 1} :
        /\ r \in At("adjust", d, t) <=> (d = req[r].delta /\ req[r].target = t)
        /\ r \notin At("adjust", d, t)'
        /\ r \notin At("failed", d, t)
        /\ r \in At("failed", d, t)'
             <=> (req'[r].pc = "failed" /\ d = req[r].delta /\ req[r].target = t)
  BY <1>2 DEF At, LikeCalls
<1>6. Drift(t)' = Cardinality(At("failed", -1, t)')
                         - Cardinality(At("failed", 1, t)') - Cardinality(N)
  <2>1. \A d \in {-1, 1} :
          /\ Cardinality(At("adjust", d, t)) \in Nat
          /\ Cardinality(At("failed", d, t)) \in Nat
          /\ Cardinality(At("adjust", d, t)') =
               IF d = req[r].delta /\ req[r].target = t
               THEN Cardinality(At("adjust", d, t)) - 1
               ELSE Cardinality(At("adjust", d, t))
          /\ Cardinality(At("failed", d, t)') =
               IF req'[r].pc = "failed" /\ d = req[r].delta /\ req[r].target = t
               THEN Cardinality(At("failed", d, t)) + 1
               ELSE Cardinality(At("failed", d, t))
    BY <1>5, AtMoves
  <2>2. likeCount[t] \in Int /\ Cardinality(LikesOf(t)) \in Nat
    BY CallsFinite, FS_CardinalityType
  <2>3. Cardinality(N) \in Nat
    <3>1. N \in SUBSET Deleted(t)
      BY <1>1 DEF Explains
    <3>2. QED
      BY <3>1, CallsFinite, FS_Subset, FS_CardinalityType
  <2>4. likeCount'[t] = IF req'[r].pc = "done" /\ req[r].target = t
                        THEN likeCount[t] + req[r].delta ELSE likeCount[t]
    OBVIOUS
  <2>5. /\ Drift(t)' = likeCount'[t]
             + (Cardinality(At("adjust", 1, t)') - Cardinality(At("adjust", -1, t)'))
             - Cardinality(LikesOf(t))
        /\ Drift(t) = likeCount[t]
             + (Cardinality(At("adjust", 1, t)) - Cardinality(At("adjust", -1, t)))
             - Cardinality(LikesOf(t))
    BY <1>4, DriftIs, DriftWillBe DEF DriftFormula
  <2>6. Drift(t) = Cardinality(At("failed", -1, t))
                          - Cardinality(At("failed", 1, t)) - Cardinality(N)
    BY <1>1 DEF Explains
  <2>7. CASE req[r].target # t
    BY <2>1, <2>2, <2>3, <2>4, <2>5, <2>6, <2>7
  <2>8. CASE req[r].target = t /\ req[r].delta = 1
    BY <2>1, <2>2, <2>3, <2>4, <2>5, <2>6, <2>8
  <2>9. CASE req[r].target = t /\ req[r].delta = -1
    BY <2>1, <2>2, <2>3, <2>4, <2>5, <2>6, <2>9
  <2>10. QED
    BY <1>2, <2>7, <2>8, <2>9
<1>7. Explains(N, t)'
  BY <1>1, <1>3, <1>6, ExplainsKept
<1>8. QED
  BY <1>7

(* A DELETE that finds its row takes one from the rows and owes the count     *)
(* minus one; one that finds none joins N.                                 *)
LEMMA DeleteCall ==
  ASSUME LikeTypes, Explained, NEW r \in Requests, Advances(r),
         req[r].pc = "delete", req[r].kind = "like",
         req'[r].pc = "adjust", req'[r].delta = -1,
         rows' = rows \ {RowOf(r)},
         likeCount' = likeCount, likeCount \in [Targets -> Int]
  PROVE  Explained'
<1> SUFFICES ASSUME NEW t \in Targets
             PROVE  \E N \in SUBSET Requests : Explains(N, t)'
  BY DEF Explained
<1>1. PICK N \in SUBSET Requests : Explains(N, t)
  BY DEF Explained
<1> DEFINE mine == req[r].target = t
           found == RowOf(r) \in rows
<1>2. /\ req[r].delta = 0 /\ req'[r].kind = "like" /\ req'[r].target = req[r].target
      /\ r \notin Deleted(t) /\ r \notin N
      /\ Deleted(t)' = IF mine THEN Deleted(t) \cup {r} ELSE Deleted(t)
  <2>1. req[r].delta = 0 /\ req'[r].kind = "like" /\ req'[r].target = req[r].target
    BY DEF LikeTypes, Advances
  <2>2. r \notin Deleted(t) /\ r \notin N
    BY <1>1, <2>1 DEF Deleted, Explains
  <2>3. r \in Deleted(t)' <=> mine
    BY <2>1 DEF Deleted, LikeCalls
  <2>4. \A y : y # r => (y \in Deleted(t)' <=> y \in Deleted(t))
    BY CallMoves
  <2>5. QED
    BY <2>1, <2>2, <2>3, <2>4
<1>3. \A pc : \A d \in {-1, 1} :
        /\ r \notin At(pc, d, t)
        /\ r \in At(pc, d, t)' <=> (pc = "adjust" /\ d = -1 /\ mine)
  BY <1>2 DEF At, LikeCalls
<1>4. Cardinality(LikesOf(t)') =
        IF mine /\ found THEN Cardinality(LikesOf(t)) - 1
                         ELSE Cardinality(LikesOf(t))
  <2>1. \A y : y # RowOf(r) =>
          (y \in LikesOf(t)' <=> y \in LikesOf(t))
    BY DEF LikesOf
  <2>2. /\ RowOf(r) \notin LikesOf(t)'
        /\ RowOf(r) \in LikesOf(t) <=> mine /\ found
    BY DEF LikesOf, RowOf
  <2>3. IsFiniteSet(LikesOf(t))
    BY CallsFinite
  <2>4. QED
    BY <2>1, <2>2, <2>3, Moves
<1>5. /\ Cardinality(At("failed", -1, t)') = Cardinality(At("failed", -1, t))
      /\ Cardinality(At("failed", 1, t)') = Cardinality(At("failed", 1, t))
      /\ Drift(t)' = IF mine /\ ~found THEN Drift(t) - 1 ELSE Drift(t)
  <2>1. /\ Cardinality(At("adjust", 1, t)') = Cardinality(At("adjust", 1, t))
        /\ Cardinality(At("failed", -1, t)') = Cardinality(At("failed", -1, t))
        /\ Cardinality(At("failed", 1, t)') = Cardinality(At("failed", 1, t))
    BY <1>3, AtMoves
  <2>2. Cardinality(At("adjust", -1, t)') =
          IF mine THEN Cardinality(At("adjust", -1, t)) + 1
                  ELSE Cardinality(At("adjust", -1, t))
    BY <1>3, AtMoves
  <2>3. /\ likeCount[t] \in Int
        /\ Cardinality(At("adjust", 1, t)) \in Nat
        /\ Cardinality(At("adjust", -1, t)) \in Nat
        /\ Cardinality(LikesOf(t)) \in Nat
    BY AtMoves, CallsFinite, FS_CardinalityType
  <2>4. /\ Drift(t)' = likeCount[t]
             + (Cardinality(At("adjust", 1, t)') - Cardinality(At("adjust", -1, t)'))
             - Cardinality(LikesOf(t)')
        /\ Drift(t) = likeCount[t]
             + (Cardinality(At("adjust", 1, t)) - Cardinality(At("adjust", -1, t)))
             - Cardinality(LikesOf(t))
    BY DriftIs, DriftWillBe DEF DriftFormula
  <2> HIDE DEF mine, found
  <2>5. QED
    BY <1>4, <2>1, <2>2, <2>3, <2>4
<1>6. ASSUME NEW s \in LikeCalls(t)', req'[s].pc = "delete"
      PROVE  /\ s \in LikeCalls(t) /\ req'[s] = req[s] /\ req[s].kind = "like"
             /\ RowOf(s)' = RowOf(s)
  BY <1>6 DEF LikeCalls, Advances, RowOf
<1>7. ASSUME ~(mine /\ ~found)
      PROVE  Explains(N, t)'
  <2>1. N \subseteq Deleted(t)'
    BY <1>1, <1>2 DEF Explains
  <2>2. \A s \in N : \E c \in Deleted(t)' \ N : Caller[c] = Caller[s]
    BY <1>1, <1>2 DEF Explains
  <2>3. ASSUME NEW s \in LikeCalls(t)', req'[s].pc = "delete",
               RowOf(s)' \notin rows'
        PROVE  \E c \in Deleted(t)' \ N : Caller[c] = Caller[s]
    <3>1. CASE RowOf(s) \notin rows
      BY <1>1, <1>2, <1>6, <2>3, <3>1 DEF Explains
    <3>2. CASE RowOf(s) \in rows
      <4>1. RowOf(s) = RowOf(r)
        BY <1>6, <2>3, <3>2
      <4>2. Caller[s] = Caller[r] /\ req[s].target = req[r].target
        BY <4>1 DEF RowOf
      <4>3. mine
        BY <1>6, <2>3, <4>2 DEF LikeCalls
      <4>4. r \in Deleted(t)' \ N
        BY <1>2, <4>3
      <4>5. QED
        BY <4>2, <4>4
    <3>3. QED
      BY <3>1, <3>2
  <2>4. Drift(t)' = Cardinality(At("failed", -1, t)')
                           - Cardinality(At("failed", 1, t)') - Cardinality(N)
    BY <1>1, <1>5, <1>7 DEF Explains
  <2>5. QED
    BY <2>1, <2>2, <2>3, <2>4 DEF Explains
<1>8. ASSUME mine, ~found
      PROVE  Explains(N \cup {r}, t)'
  <2> DEFINE M == N \cup {r}
  <2>1. PICK c \in Deleted(t) \ N : Caller[c] = Caller[r]
    <3>1. r \in LikeCalls(t)
      BY <1>8 DEF LikeCalls
    <3>2. QED
      BY <1>1, <1>8, <3>1 DEF Explains
  <2>2. Deleted(t) \ N \subseteq Deleted(t)' \ M
    BY <1>2
  <2>3. M \subseteq Deleted(t)'
    BY <1>1, <1>2, <1>8 DEF Explains
  <2>4. \A s \in M : \E b \in Deleted(t)' \ M : Caller[b] = Caller[s]
    BY <1>1, <2>1, <2>2 DEF Explains
  <2>5. ASSUME NEW s \in LikeCalls(t)', req'[s].pc = "delete",
               RowOf(s)' \notin rows'
        PROVE  \E b \in Deleted(t)' \ M : Caller[b] = Caller[s]
    <3>1. RowOf(s) \notin rows
      BY <1>6, <1>8, <2>5
    <3>2. \E b \in Deleted(t) \ N : Caller[b] = Caller[s]
      BY <1>1, <1>6, <2>5, <3>1 DEF Explains
    <3>3. QED
      BY <2>2, <3>2
  <2>6. Cardinality(M) = Cardinality(N) + 1 /\ Cardinality(N) \in Nat
    <3>1. N \in SUBSET Deleted(t)
      BY <1>1 DEF Explains
    <3>2. IsFiniteSet(N)
      BY <3>1, CallsFinite, FS_Subset
    <3>3. QED
      BY <1>2, <3>2, FS_AddElement, FS_CardinalityType
  <2>7. Drift(t)' = Cardinality(At("failed", -1, t)')
                           - Cardinality(At("failed", 1, t)') - Cardinality(M)
    <3>1. /\ Drift(t) = Cardinality(At("failed", -1, t))
                               - Cardinality(At("failed", 1, t)) - Cardinality(N)
          /\ Cardinality(At("failed", -1, t)) \in Nat
          /\ Cardinality(At("failed", 1, t)) \in Nat
      BY <1>1, AtMoves DEF Explains
    <3> HIDE DEF M
    <3>2. QED
      BY <1>5, <1>8, <2>6, <3>1
  <2>8. QED
    BY <2>3, <2>4, <2>5, <2>7 DEF Explains
<1>9. CASE mine /\ ~found
  <2>1. N \cup {r} \in SUBSET Requests
    OBVIOUS
  <2>2. QED
    BY <1>8, <1>9, <2>1
<1>10. QED
  BY <1>1, <1>7, <1>9

LEMMA LikeTypesStep ==
  ASSUME LikeTypes, NEW r \in Requests,
         \/ \E kind \in Kinds, t \in Targets : Start(r, kind, t)
         \/ Work(r)
  PROVE  /\ Advances(r)
         /\ LikeTypes'
<1> USE DEF LikeTypes, LikesTypeOK
<1>1. /\ req[r] \in Request /\ req[r].pc \in {"idle", "look", "delete", "insert", "adjust"}
      /\ \E q \in Request :
           /\ req' = [req EXCEPT ![r] = q]
           /\ q.pc # "idle"
           /\ req[r].pc # "idle" => q.kind = req[r].kind /\ q.target = req[r].target
           /\ q.pc \in {"look", "delete", "insert"} => q.delta = 0
           /\ q.pc = "adjust" => q.kind = "like" /\ q.delta \in {-1, 1}
  <2>1. req[r] \in Request
    OBVIOUS
  <2>2. ASSUME NEW kind \in Kinds, NEW t \in Targets, Start(r, kind, t)
        PROVE  <1>1
    <3> DEFINE q == [pc |-> "look", kind |-> kind, target |-> t, delta |-> 0]
    <3>1. q \in Request
      BY DEF Request, Kinds
    <3>2. QED
      BY <2>1, <2>2, <3>1 DEF Start
  <2>3. ASSUME NEW p \in {"delete", "insert", "done", "failed"},
               req' = [req EXCEPT ![r].pc = p],
               req[r].pc \in {"look", "delete", "insert", "adjust"},
               p \in {"delete", "insert"} => req[r].pc = "look"
        PROVE  <1>1
    <3> DEFINE q == [req[r] EXCEPT !.pc = p]
    <3>1. /\ q \in Request /\ q.pc = p /\ q.kind = req[r].kind
          /\ q.target = req[r].target /\ q.delta = req[r].delta
      BY <2>1 DEF Request
    <3>2. req' = [req EXCEPT ![r] = q]
      BY <2>3
    <3> HIDE DEF q
    <3>3. QED
      BY <2>1, <2>3, <3>1, <3>2
  <2>4. ASSUME NEW d \in {-1, 1}, req[r].pc \in {"delete", "insert"},
               req' = [req EXCEPT ![r].pc = AfterWrite(req[r].kind), ![r].delta = d]
        PROVE  <1>1
    <3> DEFINE q == [req[r] EXCEPT !.pc = AfterWrite(req[r].kind), !.delta = d]
    <3>1. /\ q \in Request /\ q.pc = AfterWrite(req[r].kind)
          /\ q.kind = req[r].kind /\ q.target = req[r].target /\ q.delta = d
      BY <2>1 DEF Request, AfterWrite
    <3>2. req' = [req EXCEPT ![r] = q]
      BY <2>1, <2>4
    <3>3. q.pc = IF req[r].kind = "like" THEN "adjust" ELSE "done"
      BY <3>1 DEF AfterWrite
    <3> HIDE DEF q
    <3>4. QED
      BY <2>1, <2>4, <3>1, <3>2, <3>3
  <2>5. CASE Look(r)
    BY <2>3, <2>5 DEF Look
  <2>6. CASE DeleteRow(r)
    BY <2>4, <2>6 DEF DeleteRow
  <2>7. CASE Insert(r)
    BY <2>4, <2>7 DEF Insert
  <2>8. CASE InsertRefused(r) \/ Adjust(r) \/ Fail(r)
    BY <2>3, <2>8 DEF InsertRefused, Adjust, Fail
  <2>9. QED
    BY <2>2, <2>5, <2>6, <2>7, <2>8 DEF Work
<1>2. Advances(r) /\ req' \in [Requests -> Request]
  BY <1>1 DEF Advances
<1>3. rows' \in SUBSET Row /\ IsFiniteSet(rows')
  <2>1. RowOf(r) \in Row
    BY <1>1, LikesAssumption DEF RowOf, Row, Request
  <2>2. rows' \in {rows, rows \ {RowOf(r)}, rows \cup {RowOf(r)}}
    BY DEF Start, Work, Look, DeleteRow, Insert,
           InsertRefused, Adjust, Fail
  <2>3. QED
    BY <2>1, <2>2, FS_AddElement, FS_RemoveElement
<1>4. likeCount' \in [Targets -> Int]
  <2>1. req[r].target \in Targets /\ req[r].delta \in Int
    BY <1>1 DEF Request
  <2>2. likeCount' = likeCount \/
        likeCount' = [likeCount EXCEPT ![req[r].target] = likeCount[req[r].target] + req[r].delta]
    BY DEF Start, Work, Look, DeleteRow, Insert,
           InsertRefused, Adjust, Adjusted, Fail
  <2>3. QED
    BY <2>1, <2>2
<1>5. LikesTypeOK'
  BY <1>2, <1>3, <1>4
<1>6. /\ req'[r].pc \in {"look", "delete", "insert"} => req'[r].delta = 0
      /\ req'[r].pc = "adjust" => req'[r].kind = "like" /\ req'[r].delta \in {-1, 1}
  BY <1>1
<1> HIDE DEF LikeTypes, LikesTypeOK
<1>7. QED
  BY <1>2, <1>3, <1>5, <1>6, AdvanceTypes

LEMMA ExplainedStep ==
  ASSUME LikeTypes, Explained, NEW r \in Requests,
         \/ \E kind \in Kinds, t \in Targets : Start(r, kind, t)
         \/ Work(r)
  PROVE  Explained'
<1>1. Advances(r) /\ req \in [Requests -> Request] /\ likeCount \in [Targets -> Int]
  BY LikeTypesStep DEF LikeTypes, LikesTypeOK
<1>2. /\ req[r].pc \in {"idle", "look", "delete", "insert"} => req[r].delta = 0
      /\ req[r].pc = "adjust" => req[r].kind = "like"
      /\ req[r].kind \in {"like", "favorite"}
  BY <1>1 DEF LikeTypes, Request, Kinds
<1>3. rows' = rows => \A t : LikesOf(t)' = LikesOf(t)
  BY DEF LikesOf
<1>4. ASSUME NEW kind \in Kinds, NEW t \in Targets, Start(r, kind, t)
      PROVE  Explained'
  <2>1. /\ req[r].pc = "idle" /\ req'[r].pc = "look" /\ req'[r].delta = 0
        /\ rows' = rows /\ likeCount' = likeCount
    BY <1>1, <1>4 DEF Start
  <2>2. QED
    BY <1>1, <1>2, <1>3, <2>1, QuietCall
<1>5. CASE Look(r)
  <2>1. /\ req[r].pc = "look" /\ req'[r].delta = req[r].delta
        /\ req'[r].pc = "delete" => RowOf(r)' \in rows
        /\ rows' = rows /\ likeCount' = likeCount
    BY <1>1, <1>5 DEF Look, RowOf
  <2>2. QED
    BY <1>1, <1>2, <1>3, <2>1, QuietCall
<1>6. CASE InsertRefused(r) \/ (Fail(r) /\ req[r].pc # "adjust")
  <2>1. /\ req[r].pc \in {"look", "delete", "insert"} /\ req'[r].delta = req[r].delta
        /\ req'[r].pc = "failed"
        /\ rows' = rows /\ likeCount' = likeCount
    <3>1. CASE InsertRefused(r)
      BY <1>1, <3>1 DEF InsertRefused
    <3>2. CASE Fail(r) /\ req[r].pc # "adjust"
      BY <1>1, <3>2 DEF Fail
    <3>3. QED
      BY <1>6, <3>1, <3>2
  <2>2. QED
    BY <1>1, <1>2, <1>3, <2>1, QuietCall
<1>7. CASE (Insert(r) \/ DeleteRow(r)) /\ req[r].kind = "favorite"
  <2>1. /\ req'[r].kind = "favorite" /\ req'[r].pc = "done" /\ likeCount' = likeCount
        /\ rows' \in {rows \cup {RowOf(r)}, rows \ {RowOf(r)}}
    <3>1. CASE Insert(r)
      BY <1>1, <1>7, <3>1 DEF Insert, AfterWrite
    <3>2. CASE DeleteRow(r)
      BY <1>1, <1>7, <3>2 DEF DeleteRow, AfterWrite
    <3>3. QED
      BY <1>7, <3>1, <3>2
  <2>2. RowOf(r).kind = "favorite"
    BY <1>7 DEF RowOf
  <2>3. \A x : x.kind = "like" => (x \in rows' <=> x \in rows)
    BY <2>1, <2>2
  <2>4. \A t : LikesOf(t)' = LikesOf(t)
    BY <2>3 DEF LikesOf
  <2>5. QED
    BY <1>1, <2>1, <2>3, <2>4, QuietCall
<1>8. CASE Insert(r) /\ req[r].kind = "like"
  <2>1. /\ req[r].pc = "insert" /\ req'[r].pc = "adjust" /\ req'[r].delta = 1
        /\ RowOf(r) \notin rows /\ rows' = rows \cup {RowOf(r)}
        /\ likeCount' = likeCount
    BY <1>1, <1>8 DEF Insert, Unique, AfterWrite
  <2>2. QED
    BY <1>1, <1>8, <2>1, InsertCall
<1>9. CASE DeleteRow(r) /\ req[r].kind = "like"
  <2>1. /\ req[r].pc = "delete" /\ req'[r].pc = "adjust" /\ req'[r].delta = -1
        /\ rows' = rows \ {RowOf(r)} /\ likeCount' = likeCount
    BY <1>1, <1>9 DEF DeleteRow, AfterWrite
  <2>2. QED
    BY <1>1, <1>9, <2>1, DeleteCall
<1>10. CASE Adjust(r) \/ (Fail(r) /\ req[r].pc = "adjust")
  <2>1. /\ req[r].pc = "adjust" /\ req'[r].delta = req[r].delta /\ rows' = rows
        /\ \/ req'[r].pc = "done"
                /\ likeCount' = [likeCount EXCEPT ![req[r].target] = @ + req[r].delta]
           \/ req'[r].pc = "failed" /\ likeCount' = likeCount
    <3>1. CASE Adjust(r)
      BY <1>1, <3>1 DEF Adjust, Adjusted
    <3>2. CASE Fail(r) /\ req[r].pc = "adjust"
      BY <1>1, <3>2 DEF Fail
    <3>3. QED
      BY <1>10, <3>1, <3>2
  <2>2. QED
    BY <1>1, <2>1, AdjustCall
<1>11. QED
  BY <1>2, <1>4, <1>5, <1>6, <1>7, <1>8, <1>9, <1>10 DEF Work

LEMMA LikeInit ==
  ASSUME LikesInit
  PROVE  LikeTypes /\ Explained
<1>1. /\ IsFiniteSet(rows) /\ rows \in SUBSET Row
      /\ likeCount = [t \in Targets |-> Cardinality(LikesOf(t))]
  BY DEF LikesInit
<1>2. \A t : IsFiniteSet(LikesOf(t)) /\ Cardinality(LikesOf(t)) \in Nat
  <2>1. \A t : LikesOf(t) \in SUBSET rows
    BY DEF LikesOf
  <2>2. QED
    BY <1>1, <2>1, FS_Subset, FS_CardinalityType
<1>3. req \in [Requests -> Request]
      /\ \A r \in Requests : req[r].pc = "idle" /\ req[r].delta = 0
  <2>1. (CHOOSE t \in Targets : TRUE) \in Targets
    BY LikesAssumption
  <2>2. QED
    BY <2>1 DEF LikesInit, Request, Kinds
<1>4. Sent = {} /\ \A t : LikeCalls(t) = {}
  BY <1>3 DEF Sent, LikeCalls
<1>5. LikeTypes
  BY <1>1, <1>2, <1>3, <1>4, FS_EmptySet DEF LikeTypes, LikesTypeOK
<1>6. ASSUME NEW t \in Targets
      PROVE  Explains({}, t)
  <2>1. Deleted(t) = {} /\ \A pc, d : At(pc, d, t) = {}
    BY <1>4 DEF Deleted, At
  <2>2. Drift(t) = 0
    <3>1. \A pc, d : Cardinality(At(pc, d, t)) = 0
      BY <2>1, FS_EmptySet
    <3>2. likeCount[t] = Cardinality(LikesOf(t)) /\ likeCount[t] \in Nat
      BY <1>1, <1>2
    <3>3. Drift(t) = likeCount[t]
            + (Cardinality(At("adjust", 1, t)) - Cardinality(At("adjust", -1, t)))
            - Cardinality(LikesOf(t))
      BY DriftIs DEF DriftFormula
    <3>4. QED
      BY <3>1, <3>2, <3>3
  <2>3. QED
    BY <1>4, <2>1, <2>2, FS_EmptySet DEF Explains
<1>7. QED
  BY <1>5, <1>6 DEF Explained

(* N is no larger than the number of calls beyond the first of each user: each *)
(* user with a call in N has one outside it.                               *)
LEMMA VainAreRepeats ==
  ASSUME LikeTypes, NEW t \in Targets, NEW N \in SUBSET Requests, Explains(N, t)
  PROVE  /\ Cardinality(N) \in Nat /\ Repeats(t) \in Int
         /\ Cardinality(N) <= Repeats(t)
<1> DEFINE C == LikeCalls(t)
           rest == C \ N
           users == {Caller[r] : r \in C}
           of == [r \in rest |-> Caller[r]]
<1>1. N \subseteq C /\ IsFiniteSet(C)
  BY CallsFinite DEF Explains, Deleted
<1>2. C \cap N = N
  BY <1>1
<1>3. /\ IsFiniteSet(rest) /\ Cardinality(rest) = Cardinality(C) - Cardinality(N)
      /\ Cardinality(N) \in Nat /\ Cardinality(C) \in Nat
  BY <1>1, <1>2, FS_Difference, FS_Subset, FS_CardinalityType
<1>4. of \in Surjection(rest, users)
  <2>1. of \in [rest -> users]
    OBVIOUS
  <2>2. ASSUME NEW u \in users
        PROVE  \E r \in rest : of[r] = u
    <3>1. PICK s \in C : u = Caller[s]
      OBVIOUS
    <3>2. CASE s \in N
      <4>1. PICK c \in Deleted(t) \ N : Caller[c] = Caller[s]
        BY <3>2 DEF Explains
      <4>2. c \in rest
        BY <4>1 DEF Deleted
      <4>3. QED
        BY <3>1, <4>1, <4>2
    <3>3. CASE s \notin N
      BY <3>1, <3>3
    <3>4. QED
      BY <3>2, <3>3
  <2>3. QED
    BY <2>1, <2>2 DEF Surjection
<1>5. IsFiniteSet(users) /\ Cardinality(users) <= Cardinality(rest) /\ Cardinality(users) \in Nat
  BY <1>3, <1>4, FS_Surjection, FS_CardinalityType
<1>6. Repeats(t) = Cardinality(C) - Cardinality(users)
  BY DEF Repeats
<1> HIDE DEF C, rest, users
<1>7. QED
  BY <1>3, <1>5, <1>6

LEMMA ExplainedBounds ==
  ASSUME LikeTypes, Explained
  PROVE  DriftIsExplained
<1> SUFFICES ASSUME NEW t \in Targets
             PROVE  Drift(t) \in -(Failures(t) + Repeats(t)) .. Failures(t)
  BY DEF DriftIsExplained
<1>1. PICK N \in SUBSET Requests : Explains(N, t)
  BY DEF Explained
<1> DEFINE F == {r \in LikeCalls(t) : req[r].pc = "failed"}
<1>2. IsFiniteSet(F)
  <2>1. F \in SUBSET LikeCalls(t)
    OBVIOUS
  <2>2. QED
    BY <2>1, CallsFinite, FS_Subset
<1>3. \A d : At("failed", d, t) \in SUBSET F
  BY DEF At
<1>4. Cardinality(F) \in Nat /\ Failures(t) = Cardinality(F)
  BY <1>2, FS_CardinalityType DEF Failures
<1> HIDE DEF F
<1>5. \A d : Cardinality(At("failed", d, t)) \in Nat
             /\ Cardinality(At("failed", d, t)) <= Cardinality(F)
  BY <1>2, <1>3, FS_Subset, FS_CardinalityType
<1>6. Drift(t) = Cardinality(At("failed", -1, t))
                        - Cardinality(At("failed", 1, t)) - Cardinality(N)
  BY <1>1 DEF Explains
<1>7. /\ Cardinality(N) \in Nat /\ Repeats(t) \in Int
      /\ Cardinality(N) <= Repeats(t)
  BY <1>1, VainAreRepeats
<1>8. QED
  BY <1>4, <1>5, <1>6, <1>7

LEMMA LikeInvariance == LikesSpec => [](LikeTypes /\ Explained)
<1>1. LikesInit => LikeTypes /\ Explained
  BY LikeInit
<1>2. LikeTypes /\ Explained /\ [LikesNext]_likesVars => LikeTypes' /\ Explained'
  <2> SUFFICES ASSUME LikeTypes, Explained, [LikesNext]_likesVars
               PROVE  LikeTypes' /\ Explained'
    OBVIOUS
  <2>1. CASE LikesNext
    BY <2>1, LikeTypesStep, ExplainedStep DEF LikesNext
  <2>2. CASE UNCHANGED likesVars
    <3>1. rows' = rows /\ likeCount' = likeCount /\ req' = req
      BY <2>2 DEF likesVars
    <3>2. LikeTypes'
      BY <3>1 DEF LikeTypes, LikesTypeOK, Sent
    <3>3. ASSUME NEW N, NEW t
          PROVE  Explains(N, t)' = Explains(N, t)
      BY <3>1 DEF Explains, Deleted, At, LikeCalls, RowOf, Drift,
                  Due, Adjusting, LikesOf
    <3>4. Explained'
      BY <3>3 DEF Explained
    <3>5. QED
      BY <3>2, <3>4
  <2>3. QED
    BY <2>1, <2>2
<1>3. QED
  BY <1>1, <1>2, PTL DEF LikesSpec

(* The rows, the counts and the calls of likes and favourites keep their types. *)
THEOREM LikesTyped == LikesSpec => []LikesTypeOK
<1>1. LikeTypes => LikesTypeOK
  BY DEF LikeTypes
<1>2. QED
  BY <1>1, LikeInvariance, PTL

(* like_count parts from the rows upwards only by calls that failed half way, *)
(* downwards only by those and by calls that one user repeats, for any number *)
(* of users, targets and calls at once.                                     *)
THEOREM DriftExplained == LikesSpec => []DriftIsExplained
<1>1. LikeTypes /\ Explained => DriftIsExplained
  BY ExplainedBounds
<1>2. QED
  BY <1>1, LikeInvariance, PTL
==============================================================================
