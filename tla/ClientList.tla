------------------------------ MODULE ClientList ------------------------------
(***************************************************************************)
(* A paginated list on the screen: the hook usePaginatedList and the screens *)
(* that change its query and call refresh() when it has changed.  Its pages  *)
(* are fetched by request(), so the list lives in the session of module     *)
(* ClientSession: a page may wait for a refresh of the tokens, be sent       *)
(* again, or fail with a logout.                                            *)
(***************************************************************************)
EXTENDS ClientSession, Naturals, Sequences

CONSTANTS
  Queries,      \* what the screen may ask for: sort order, tag, keyword
  MaxPages,     \* bound: pages of a query
  Fetch         \* the call that fetches pages

ASSUME ClientListAssumption ==
  /\ Fetch \in Requests
  /\ MaxPages \in Nat \ {0}

VARIABLES
  list,         \* the pages on the screen, each with the query it answers
  query,        \* fetcherRef.current: what the screen asks for now
  page,         \* pageRef.current
  hasMore,
  mode,         \* what holds lockRef, and whether refresh() is retrying
  asked,        \* the page under way
  mishap        \* history: a refresh was dropped or failed since the list
                \* last matched

pages == <<list, query, page, hasMore, mode, asked, mishap>>

vars == <<session, pages>>

Page == [query : Queries, page : 1 .. MaxPages]

TypeOK ==
  /\ SessionTypeOK
  /\ list \in Seq(Page) /\ Len(list) <= MaxPages
  /\ query \in Queries
  /\ page \in 1 .. MaxPages
  /\ hasMore \in BOOLEAN
  /\ mode \in {"idle", "refresh", "wait", "retry", "more"}
  /\ asked \in Page
  /\ mishap \in BOOLEAN

(* The screen is mounted and its effect has called refresh(). *)
Init ==
  /\ SessionInit({Fetch})
  /\ list = <<>>
  /\ query \in Queries
  /\ page = 1
  /\ hasMore = TRUE
  /\ mode = "refresh"
  /\ asked = [query |-> query, page |-> 1]
  /\ mishap = FALSE

-----------------------------------------------------------------------------
(* The call of fetcherRef.current(p), with the query of that moment. *)
Ask(q, p, m) ==
  /\ Send(Fetch, "call")
  /\ asked' = [query |-> q, page |-> p]
  /\ mode' = m

(* refresh() *)
Refresh ==
  /\ mode = "idle"
  /\ Ask(query, 1, "refresh")
  /\ page' = 1
  /\ UNCHANGED <<list, query, hasMore, mishap>>

(* The second attempt, 600 ms after the first has failed. *)
Retry ==
  /\ mode = "wait"
  /\ Ask(query, 1, "retry")
  /\ UNCHANGED <<list, query, page, hasMore, mishap>>

(* The screen changes the query and its effect calls refresh(), which does   *)
(* nothing while the lock is held.                                         *)
ChangeQuery(q) ==
  /\ q # query
  /\ query' = q
  /\ IF mode = "idle"
     THEN /\ Ask(q, 1, "refresh")
          /\ page' = 1
          /\ UNCHANGED mishap
     ELSE /\ mishap' = TRUE
          /\ UNCHANGED <<session, mode, asked, page>>
  /\ UNCHANGED <<list, hasMore>>

(* The lock of loadMore(). *)
MayLoad_Unlocked == mode \in {"idle", "wait"} /\ hasMore

MayLoad == mode = "idle" /\ hasMore

LoadMore ==
  /\ MayLoad
  /\ page < MaxPages
  /\ Len(list) < MaxPages
  /\ Ask(query, page + 1, "more")
  /\ UNCHANGED <<list, query, page, hasMore, mishap>>

(* pageRef.current after a page has come. *)
PageAfter_Next == asked.page + 1

PageAfter == asked.page

(* A page has come. *)
Shown(more) ==
  /\ list' = IF mode = "more" THEN Append(list, asked) ELSE <<asked>>
  /\ page' = PageAfter
  /\ hasMore' = more
  /\ mode' = "idle"
  /\ mishap' = IF mode = "more" THEN mishap ELSE asked.query # query
  /\ UNCHANGED <<query, asked>>

(* Who holds the lock after a failure: only the first attempt of refresh()   *)
(* keeps it.                                                               *)
ModeAfterMiss_NoFinally == IF mode = "retry" THEN "retry" ELSE "wait"

ModeAfterMiss == IF mode = "refresh" THEN "wait" ELSE "idle"

(* A page has not come: refresh() tries once more, then gives up and keeps   *)
(* the list it was to replace.                                             *)
Missed ==
  /\ mode' = ModeAfterMiss
  /\ mishap' = (mishap \/ mode = "retry")
  /\ UNCHANGED <<list, query, page, hasMore, asked>>

(* The answer, or failure to answer, a call or its refresh waits for; what    *)
(* the hook makes of the end of its own call comes with it.                 *)
Answer(r) ==
  \/ /\ Succeed(r)
     /\ IF r = Fetch THEN \E more \in BOOLEAN : Shown(more) ELSE UNCHANGED pages
  \/ /\ Fail(r) \/ ReplayUnanswered(r)
     /\ IF r = Fetch THEN Missed ELSE UNCHANGED pages
  \/ /\ Expired(r) \/ RefreshSucceeds(r)
     /\ UNCHANGED pages
  \/ /\ RefreshFails(r)
     /\ IF Fetch \in Woken(r) THEN Missed ELSE UNCHANGED pages

(* The other calls of the screens, and the user. *)
Elsewhere ==
  /\ \/ \E r \in Requests \ {Fetch} :
          \/ Send(r, "call")
          \/ Send(r, "me")
          \/ \E u \in Users : SendLogin(r, u)
     \/ Logout
  /\ UNCHANGED pages

(* The screen is mounted anew after a restart. *)
Reload ==
  /\ \E r \in Requests : Restart({Fetch}, r)
  /\ list' = <<>>
  /\ page' = 1
  /\ hasMore' = TRUE
  /\ mode' = "refresh"
  /\ asked' = [query |-> query, page |-> 1]
  /\ mishap' = FALSE
  /\ UNCHANGED query

Next ==
  \/ Refresh
  \/ Retry
  \/ \E q \in Queries : ChangeQuery(q)
  \/ LoadMore
  \/ \E r \in Requests : Answer(r)
  \/ Elsewhere
  \/ Reload

Spec == Init /\ [][Next]_vars

(* The network answers or gives up, and timers fire. *)
FairSpec ==
  /\ Spec
  /\ \A r \in Requests : WF_vars(Answer(r))
  /\ WF_vars(Retry)

-----------------------------------------------------------------------------
(* The list on the screen is pages 1 to n of the query on the screen, in      *)
(* order, none missing or twice, however calls are refreshed, replayed and   *)
(* retried.  Only a refresh that failed or was dropped breaks that.          *)
ListMatchesQuery ==
  (~mishap /\ mode \in {"idle", "more"}) =>
    /\ \A i \in DOMAIN list : list[i] = [query |-> query, page |-> i]
    /\ page = Len(list)

(* The lock is let go however the answer turns out, so the list can be        *)
(* refreshed again: a second attempt, a token refresh or a logout in between *)
(* only delay that (a reload starts over).                                  *)
LockIsReleased ==
  <>[][~Reload]_vars => (mode # "idle" ~> mode = "idle")
=============================================================================
