----------------------------- MODULE ViewCounter -----------------------------
(***************************************************************************)
(* Counting views: PostDetail adds one to a field of the Redis hash         *)
(* view:pending, and the cron job flushViewCounts moves the fields to       *)
(* posts.view_count: HGETALL, then for each post an UPDATE and an HDEL.     *)
(* The cron library starts a run every minute whether the previous one is   *)
(* over or not, and each server process has its own cron.                  *)
(***************************************************************************)
EXTENDS Naturals, FiniteSets

CONSTANTS
  Posts,
  Runs,         \* runs of flushViewCounts that may overlap
  MaxViews,     \* bound: views of a post
  MaxFaults     \* bound: failed statements and stops of the server

ASSUME ViewCounterAssumption ==
  /\ Posts # {}
  /\ IsFiniteSet(Runs)
  /\ MaxViews \in Nat
  /\ MaxFaults \in Nat

VARIABLES
  viewCount,    \* posts.view_count
  pending,      \* hash view:pending; 0 is an absent field
  run,          \* run[f] : the local variables of run f
  faults,       \* failures so far, counted to bound them
  views,        \* history: views[p], the calls of PostDetail for p
  exposed       \* history: the views that came between the HGETALL and the
                \* HDEL of a run

vars == <<viewCount, pending, run, faults, views, exposed>>

Run == [pc : {"idle", "loop", "hdel"}, delta : [Posts -> Nat],
        todo : SUBSET Posts, post : Posts]

TypeOK ==
  /\ viewCount \in [Posts -> Nat]
  /\ pending \in [Posts -> Nat]
  /\ run \in [Runs -> Run]
  /\ faults \in 0 .. MaxFaults
  /\ views \in [Posts -> Nat]
  /\ exposed \in [Posts -> Nat]

Zero == [p \in Posts |-> 0]

Stopped == [pc |-> "idle", delta |-> Zero, todo |-> {},
            post |-> CHOOSE p \in Posts : TRUE]

Init ==
  /\ viewCount = Zero
  /\ pending = Zero
  /\ run = [f \in Runs |-> Stopped]
  /\ faults = 0
  /\ views = Zero
  /\ exposed = Zero

-----------------------------------------------------------------------------
(* Run f has read the field of p and not yet finished with it. *)
Window(f, p) == p \in run[f].todo

Fault == faults < MaxFaults /\ faults' = faults + 1

(* HINCRBY view:pending p 1 *)
View(p) ==
  /\ views[p] < MaxViews
  /\ pending' = [pending EXCEPT ![p] = @ + 1]
  /\ views' = [views EXCEPT ![p] = @ + 1]
  /\ exposed' = [exposed EXCEPT ![p] =
       IF \E f \in Runs : Window(f, p) THEN @ + 1 ELSE @]
  /\ UNCHANGED <<viewCount, run, faults>>

(* The fields worth a flush: those of 0 are skipped. *)
NonZero_OffByOne(counts) == {p \in Posts : counts[p] > 1}

NonZero(counts) == {p \in Posts : counts[p] > 0}

(* HGETALL view:pending *)
ReadAll(f) ==
  /\ run[f].pc = "idle"
  /\ run' = [run EXCEPT ![f] =
       [@ EXCEPT !.pc = "loop", !.delta = pending,
                 !.todo = NonZero(pending)]]
  /\ UNCHANGED <<viewCount, pending, faults, views, exposed>>

(* The order of the two writes: the database first. *)
FirstWrite_Delete(f, p) ==
  /\ pending' = [pending EXCEPT ![p] = 0]
  /\ UNCHANGED viewCount

FirstWrite(f, p) ==
  /\ viewCount' = [viewCount EXCEPT ![p] = @ + run[f].delta[p]]
  /\ UNCHANGED pending

(* UPDATE posts SET view_count = view_count + delta.  Go visits the fields  *)
(* in any order.                                                           *)
Update(f, p) ==
  /\ run[f].pc = "loop"
  /\ p \in run[f].todo
  /\ FirstWrite(f, p)
  /\ run' = [run EXCEPT ![f] = [@ EXCEPT !.pc = "hdel", !.post = p]]
  /\ UNCHANGED <<faults, views, exposed>>

(* The loop goes on with the next post. *)
Done(f, p) == [run[f] EXCEPT !.pc = "loop", !.todo = run[f].todo \ {p}]

(* A failed UPDATE leaves the field for the next run. *)
UpdateFails(f, p) ==
  /\ Fault
  /\ run[f].pc = "loop"
  /\ p \in run[f].todo
  /\ run' = [run EXCEPT ![f] = Done(f, p)]
  /\ UNCHANGED <<viewCount, pending, views, exposed>>

Cleared_Nothing(f, p) == pending

Cleared_Subtract(f, p) ==
  [pending EXCEPT ![p] = @ - run[f].delta[p]]

Cleared(f, p) == [pending EXCEPT ![p] = 0]

(* HDEL view:pending p; its failure is only logged. *)
Delete(f) ==
  /\ run[f].pc = "hdel"
  /\ pending' = Cleared(f, run[f].post)
  /\ run' = [run EXCEPT ![f] = Done(f, run[f].post)]
  /\ UNCHANGED <<viewCount, faults, views, exposed>>

DeleteFails(f) ==
  /\ Fault
  /\ run[f].pc = "hdel"
  /\ run' = [run EXCEPT ![f] = Done(f, run[f].post)]
  /\ UNCHANGED <<viewCount, pending, views, exposed>>

(* The server stops in the middle of the loop. *)
Stop(f) ==
  /\ Fault
  /\ run[f].pc # "idle"
  /\ run' = [run EXCEPT ![f] = Stopped]
  /\ UNCHANGED <<viewCount, pending, views, exposed>>

Finish(f) ==
  /\ run[f].pc = "loop"
  /\ run[f].todo = {}
  /\ run' = [run EXCEPT ![f] = Stopped]
  /\ UNCHANGED <<viewCount, pending, faults, views, exposed>>

Next ==
  \/ \E p \in Posts : View(p)
  \/ \E f \in Runs :
       \/ ReadAll(f)
       \/ \E p \in Posts : Update(f, p) \/ UpdateFails(f, p)
       \/ Delete(f)
       \/ DeleteFails(f)
       \/ Stop(f)
       \/ Finish(f)

Spec == Init /\ [][Next]_vars

(* The cron starts a run every minute, and the loop of a run goes on. *)
FairSpec ==
  /\ Spec
  /\ \A f \in Runs :
       WF_vars(ReadAll(f) \/ (\E p \in Posts : Update(f, p))
                 \/ Delete(f) \/ Finish(f))

-----------------------------------------------------------------------------
(* What has been flushed or is still waiting. *)
Counted(p) == viewCount[p] + pending[p]

(* Only the views that come between a run's HGETALL and its HDEL can be     *)
(* lost: failures of either store, a stop between the two writes and        *)
(* overlapping runs lose none.                                             *)
LossOnlyInWindow == \A p \in Posts : views[p] <= Counted(p) + exposed[p]

(* A view is counted more than once only by runs that overlap, by a failed  *)
(* HDEL or by a stop between the two writes: each run adds it once, and once *)
(* more for each failure.                                                  *)
OvercountIsBounded ==
  \A p \in Posts : viewCount[p] <= views[p] * (Cardinality(Runs) + faults)

(* A waiting view reaches the database, or at least leaves the hash, in     *)
(* spite of failing updates and deletions.                                 *)
PendingIsFlushed == \A p \in Posts : pending[p] > 0 ~> pending[p] = 0
=============================================================================
