--------------------------- MODULE ClientList_proofs ---------------------------
(***************************************************************************)
(* Proofs about ClientSession and ClientList, for every set of users and     *)
(* queries and any number of calls in flight.                               *)
(*                                                                         *)
(* The invariant of the session, SessionInv, adds to OneRefresh that a       *)
(* refresh others may join is under way, and to TokensAreTheUsers that the   *)
(* calls that will write the tokens or the user carry those of the store.    *)
(* That of the list, ListInv, adds what the page under way is of.            *)
(***************************************************************************)
EXTENDS ClientList, TLAPS

TokensMatch == access = refresh

JoinedIsUnderWay ==
  /\ refreshing # None => refreshing \in Requests /\ Refreshing(refreshing)
  /\ \A r \in Requests : req[r].pc = "refresh" => refreshing # None

WritersAreCurrent == ~overtaken => \A r \in Writers : req[r].token = access

SessionInv ==
  /\ SessionTypeOK
  /\ TokensMatch
  /\ JoinedIsUnderWay
  /\ OneRefresh
  /\ WritersAreCurrent
  /\ TokensAreTheUsers

-----------------------------------------------------------------------------
(* A call changes hands within its type; nothing is written meanwhile.       *)
LEMMA SessionInitInv ==
  ASSUME NEW mounted \in SUBSET Requests, SessionInit(mounted)
  PROVE  SessionInv
<1> USE DEF SessionInit, Idle, Sent
<1>1. SessionTypeOK
  BY DEF SessionTypeOK, Request, Kinds
<1>2. \A r \in Requests : req[r].pc # "refresh" /\ req[r].kind = "call"
  OBVIOUS
<1>3. TokensMatch /\ JoinedIsUnderWay /\ OneRefresh
  BY <1>2 DEF TokensMatch, JoinedIsUnderWay, OneRefresh
<1>4. WritersAreCurrent
  BY <1>2 DEF WritersAreCurrent, Writers, InFlight
<1>5. TokensAreTheUsers
  BY DEF TokensAreTheUsers
<1>6. QED
  BY <1>1, <1>3, <1>4, <1>5 DEF SessionInv

LEMMA SendInv ==
  ASSUME SessionInv, NEW r \in Requests, NEW kind \in {"call", "me"}, Send(r, kind)
  PROVE  SessionInv'
<1> USE ClientSessionAssumption
<1> DEFINE new == Sent(kind, access)
<1>1. /\ SessionTypeOK /\ req' = [req EXCEPT ![r] = new]
      /\ new \in Request /\ new.pc = "sent" /\ new.kind = kind /\ new.token = access
      /\ new.waits = None
      /\ UNCHANGED <<access, refresh, user, overtaken, refreshing>>
  BY DEF SessionInv, SessionTypeOK, Send, Sent, Request, Kinds, KeepsSession
<1> HIDE DEF new
<1>2. SessionTypeOK'
  BY <1>1 DEF SessionTypeOK
<1>3. /\ req'[r] = new /\ req[r].pc = "idle"
      /\ \A s \in Requests : s # r => req'[s] = req[s]
  BY <1>1 DEF SessionTypeOK, Send
<1>4. TokensMatch'
  BY <1>1 DEF SessionInv, TokensMatch
<1>5. JoinedIsUnderWay' /\ OneRefresh'
  BY <1>1, <1>3 DEF SessionInv, JoinedIsUnderWay, OneRefresh, Refreshing
<1>6. WritersAreCurrent'
  BY <1>1, <1>3 DEF SessionInv, WritersAreCurrent, Writers, InFlight
<1>7. TokensAreTheUsers'
  BY <1>1, <1>3 DEF SessionInv, TokensAreTheUsers, InFlight
<1>8. QED
  BY <1>2, <1>4, <1>5, <1>6, <1>7 DEF SessionInv

LEMMA SendLoginInv ==
  ASSUME SessionInv, NEW r \in Requests, NEW u \in Users, SendLogin(r, u)
  PROVE  SessionInv'
<1> USE ClientSessionAssumption
<1> DEFINE new == Sent("login", u)
<1>1. /\ SessionTypeOK /\ req' = [req EXCEPT ![r] = new]
      /\ new \in Request /\ new.pc = "sent" /\ new.kind = "login"
      /\ UNCHANGED <<access, refresh, user, overtaken, refreshing>>
  BY DEF SessionInv, SessionTypeOK, SendLogin, Sent, Request, Kinds, KeepsSession
<1> HIDE DEF new
<1>2. SessionTypeOK'
  BY <1>1 DEF SessionTypeOK
<1>3. /\ req'[r] = new /\ req[r].pc = "idle"
      /\ \A s \in Requests : s # r => req'[s] = req[s]
  BY <1>1 DEF SessionTypeOK, SendLogin
<1>4. TokensMatch'
  BY <1>1 DEF SessionInv, TokensMatch
<1>5. JoinedIsUnderWay' /\ OneRefresh'
  BY <1>1, <1>3 DEF SessionInv, JoinedIsUnderWay, OneRefresh, Refreshing
<1>6. WritersAreCurrent'
  BY <1>1, <1>3 DEF SessionInv, WritersAreCurrent, Writers, InFlight
<1>7. TokensAreTheUsers'
  BY <1>1, <1>3 DEF SessionInv, TokensAreTheUsers, InFlight
<1>8. QED
  BY <1>2, <1>4, <1>5, <1>6, <1>7 DEF SessionInv

(* A call that is sent or sent again ends; no refresh waits for it.          *)
LEMMA EndsType ==
  ASSUME SessionInv, NEW r \in Requests, req[r].pc \in {"sent", "replay"}, End(r)
  PROVE  /\ req' \in [Requests -> Request]
         /\ req'[r].pc = "idle"
         /\ \A s \in Requests : s # r => req'[s] = req[s]
         /\ UNCHANGED refreshing => JoinedIsUnderWay' /\ OneRefresh'
<1>1. Idle \in Request /\ Idle.pc = "idle"
  BY DEF Idle, Request, Kinds
<1> HIDE DEF Idle
<1>2. /\ req' = [req EXCEPT ![r] = Idle] /\ req \in [Requests -> Request]
  BY DEF End, SessionInv, SessionTypeOK
<1>3. /\ req' \in [Requests -> Request] /\ req'[r].pc = "idle"
      /\ \A s \in Requests : s # r => req'[s] = req[s]
  BY <1>1, <1>2
<1>4. UNCHANGED refreshing => JoinedIsUnderWay' /\ OneRefresh'
  BY <1>3 DEF SessionInv, JoinedIsUnderWay, OneRefresh, Refreshing
<1>5. QED
  BY <1>3, <1>4

(* When the session changes hands and nobody is overtaken, no writer of the   *)
(* old one is left.                                                        *)
LEMMA OvertakenInv ==
  ASSUME SessionInv, NEW self, Overtakes(self), ~overtaken',
         \A r \in Requests \ self : req'[r] = req[r] \/ req'[r].pc = "idle",
         \A r \in Requests \cap self : req'[r].pc = "idle"
  PROVE  Writers' = {}
BY DEF Overtakes, Writers, InFlight

LEMMA SucceedInv ==
  ASSUME SessionInv, NEW r \in Requests, Succeed(r)
  PROVE  SessionInv'
<1> USE ClientSessionAssumption
<1>1. SessionTypeOK /\ req[r] \in Request /\ Deliver(r) /\ End(r) /\ UNCHANGED refreshing
      /\ req[r].pc \in {"sent", "replay"}
      /\ (req[r].kind # "call" => req[r].token # None)
  BY DEF SessionInv, SessionTypeOK, Succeed
<1>2. /\ req' \in [Requests -> Request] /\ JoinedIsUnderWay' /\ OneRefresh'
      /\ req'[r].pc = "idle" /\ \A s \in Requests : s # r => req'[s] = req[s]
  BY <1>1, EndsType
<1>3. CASE req[r].kind = "call"
  <2>1. UNCHANGED <<access, refresh, user, overtaken>>
    BY <1>1, <1>3 DEF Deliver, KeepsSession
  <2>2. SessionTypeOK' /\ TokensMatch'
    BY <1>1, <1>2, <2>1 DEF SessionInv, SessionTypeOK, TokensMatch
  <2>3. WritersAreCurrent' /\ TokensAreTheUsers'
    BY <1>2, <1>3, <2>1 DEF SessionInv, WritersAreCurrent, Writers, TokensAreTheUsers, InFlight
  <2>4. QED
    BY <1>2, <2>2, <2>3 DEF SessionInv
<1>4. CASE req[r].kind \in {"me", "restore"}
  <2>1. user' = req[r].token /\ UNCHANGED <<access, refresh, overtaken>>
    BY <1>1, <1>4 DEF Deliver
  <2>2. SessionTypeOK' /\ TokensMatch'
    BY <1>1, <1>2, <2>1 DEF SessionInv, SessionTypeOK, TokensMatch, Request
  <2>3. WritersAreCurrent'
    BY <1>2, <2>1 DEF SessionInv, WritersAreCurrent, Writers, InFlight
  <2>4. r \in Writers
    BY <1>1, <1>4 DEF Writers, InFlight
  <2>5. TokensAreTheUsers'
    BY <1>1, <1>4, <2>1, <2>2, <2>4
       DEF SessionInv, WritersAreCurrent, TokensAreTheUsers, TokensMatch
  <2>6. QED
    BY <1>2, <2>2, <2>3, <2>5 DEF SessionInv
<1>5. CASE req[r].kind = "login"
  <2>1. Store(req[r].token, req[r].token, req[r].token) /\ Overtakes({r})
    BY <1>1, <1>5 DEF Deliver
  <2>2. SessionTypeOK' /\ TokensMatch'
    BY <1>1, <1>2, <2>1 DEF SessionTypeOK, TokensMatch, Request, Store, Overtakes
  <2>3. ~overtaken' => Writers' = {}
    BY <1>2, <2>1, OvertakenInv
  <2>4. WritersAreCurrent'
    BY <2>3 DEF WritersAreCurrent
  <2>5. TokensAreTheUsers'
    BY <1>1, <1>5, <2>1 DEF TokensAreTheUsers, Store
  <2>6. QED
    BY <1>2, <2>2, <2>4, <2>5 DEF SessionInv
<1>6. QED
  BY <1>1, <1>3, <1>4, <1>5 DEF Request, Kinds

(* Tokens and user are cleared by a call that ends, or by nobody. *)
LEMMA ClearedInv ==
  ASSUME SessionInv, NEW self, Cleared, Overtakes(self),
         req' \in [Requests -> Request], refreshing' \in Requests \cup {None},
         JoinedIsUnderWay', OneRefresh', ~overtaken' => Writers' = {}
  PROVE  SessionInv'
<1>1. SessionTypeOK' /\ TokensMatch'
  BY DEF SessionTypeOK, TokensMatch, Cleared, Store, Overtakes
<1>2. WritersAreCurrent' /\ TokensAreTheUsers'
  BY DEF WritersAreCurrent, TokensAreTheUsers, Cleared, Store
<1>3. QED
  BY <1>1, <1>2 DEF SessionInv

LEMMA EndsClearedInv ==
  ASSUME SessionInv, NEW r \in Requests, req[r].pc \in {"sent", "replay"}, End(r),
         Cleared, Overtakes({r}), UNCHANGED refreshing
  PROVE  SessionInv'
<1>1. /\ req' \in [Requests -> Request] /\ JoinedIsUnderWay' /\ OneRefresh'
      /\ req'[r].pc = "idle" /\ \A s \in Requests : s # r => req'[s] = req[s]
  BY EndsType
<1>2. ~overtaken' => Writers' = {}
  BY <1>1, OvertakenInv
<1>3. refreshing' \in Requests \cup {None}
  BY DEF SessionInv, SessionTypeOK
<1>4. QED
  BY <1>1, <1>2, <1>3, ClearedInv

LEMMA FailInv ==
  ASSUME SessionInv, NEW r \in Requests, Fail(r)
  PROVE  SessionInv'
<1>1. CASE req[r].kind = "restore"
  BY <1>1, EndsClearedInv DEF Fail, Complain
<1>2. CASE req[r].kind # "restore"
  <2>1. /\ req' \in [Requests -> Request] /\ JoinedIsUnderWay' /\ OneRefresh'
        /\ req'[r].pc = "idle" /\ \A s \in Requests : s # r => req'[s] = req[s]
    BY EndsType DEF Fail
  <2>2. UNCHANGED <<access, refresh, user, overtaken, refreshing>>
    BY <1>2 DEF Fail, Complain, KeepsSession
  <2>3. SessionTypeOK' /\ TokensMatch'
    BY <2>1, <2>2 DEF SessionInv, SessionTypeOK, TokensMatch
  <2>4. WritersAreCurrent' /\ TokensAreTheUsers'
    BY <1>2, <2>1, <2>2
       DEF SessionInv, WritersAreCurrent, Writers, TokensAreTheUsers, InFlight
  <2>5. QED
    BY <2>1, <2>3, <2>4 DEF SessionInv
<1>3. QED
  BY <1>1, <1>2

LEMMA ReplayUnansweredInv ==
  ASSUME SessionInv, NEW r \in Requests, ReplayUnanswered(r)
  PROVE  SessionInv'
BY EndsClearedInv DEF ReplayUnanswered

LEMMA ExpiredCalls ==
  ASSUME SessionInv, NEW r \in Requests, Expired(r)
  PROVE  /\ refresh # None /\ UNCHANGED <<access, refresh, user, overtaken>>
         /\ refreshing' = Joined(r) /\ Joined(r) \in Requests
         /\ req' \in [Requests -> Request]
         /\ \A s \in Requests : s # r => req'[s] = req[s]
         /\ req[r].pc = "sent" /\ req'[r].pc = "refresh" /\ req'[r].waits = Joined(r)
         /\ req'[r].kind = req[r].kind
         /\ ~overtaken => req'[r].token = access
<1> USE ClientSessionAssumption
<1> DEFINE token == IF Joined(r) = r THEN refresh ELSE req[Joined(r)].token
           new == [req[r] EXCEPT !.pc = "refresh", !.waits = Joined(r), !.token = token]
<1>1. /\ SessionTypeOK /\ req[r] \in Request /\ req[r].pc = "sent" /\ refresh # None
      /\ UNCHANGED <<access, refresh, user, overtaken>> /\ refreshing' = Joined(r)
  BY DEF SessionInv, SessionTypeOK, Expired, KeepsSession
<1>2. Joined(r) \in Requests /\ (refreshing # None => Joined(r) # r)
  BY <1>1 DEF Joined, SessionTypeOK, SessionInv, JoinedIsUnderWay, Refreshing
<1>3. token \in Users \cup {None}
  BY <1>1, <1>2 DEF SessionTypeOK, Request
<1>4. ~overtaken => token = access
  BY <1>1, <1>2 DEF SessionInv, WritersAreCurrent, TokensMatch, Joined,
                    JoinedIsUnderWay, Refreshing, Writers, InFlight
<1> HIDE DEF token
<1>5. /\ new \in Request /\ new.pc = "refresh" /\ new.waits = Joined(r)
      /\ new.token = token /\ new.kind = req[r].kind
  BY <1>1, <1>2, <1>3 DEF Request
<1>6. req' = [req EXCEPT ![r] = new]
  BY <1>1 DEF SessionTypeOK, Expired, token
<1> HIDE DEF new
<1>7. QED
  BY <1>1, <1>2, <1>4, <1>5, <1>6 DEF SessionTypeOK

LEMMA ExpiredInv ==
  ASSUME SessionInv, NEW r \in Requests, Expired(r)
  PROVE  SessionInv'
<1> USE ClientSessionAssumption
<1>1. SessionTypeOK' /\ TokensMatch'
  BY ExpiredCalls DEF SessionInv, SessionTypeOK, TokensMatch
<1>2. Refreshing(refreshing)'
  BY ExpiredCalls DEF SessionInv, JoinedIsUnderWay, Refreshing, Joined
<1>3. JoinedIsUnderWay' /\ OneRefresh'
  <2>1. \A s \in Requests \ {r} : req[s].pc = "refresh" => Joined(r) = req[s].waits
    BY DEF SessionInv, OneRefresh, JoinedIsUnderWay, Joined
  <2>2. QED
    BY <1>2, <2>1, ExpiredCalls DEF JoinedIsUnderWay, OneRefresh
<1>4. WritersAreCurrent'
  BY ExpiredCalls DEF SessionInv, WritersAreCurrent, Writers, InFlight
<1>5. TokensAreTheUsers'
  BY ExpiredCalls DEF SessionInv, TokensAreTheUsers, InFlight
<1>6. QED
  BY <1>1, <1>3, <1>4, <1>5 DEF SessionInv

(* Every call that waits does so for the one refresh, so that none is left    *)
(* waiting when it ends.                                                   *)
LEMMA AllWoken ==
  ASSUME SessionInv, NEW f \in Requests, Refreshing(f)
  PROVE  Woken(f) = {r \in Requests : req[r].pc = "refresh"}
BY DEF SessionInv, OneRefresh, Refreshing, Woken

LEMMA WokenCalls ==
  ASSUME SessionInv, NEW f \in Requests, RefreshSucceeds(f), NEW r \in Requests
  PROVE  /\ req'[r] \in Request /\ req'[r].pc # "refresh"
         /\ req'[r].kind = req[r].kind /\ req'[r].token = req[r].token
         /\ (req'[r].pc = "idle") = (req[r].pc = "idle")
<1>1. req[r] \in Request /\ Refreshing(f)
  BY DEF SessionInv, SessionTypeOK, RefreshSucceeds
<1>2. CASE req[r].pc = "refresh"
  <2>1. req'[r] = [req[r] EXCEPT !.pc = "replay", !.waits = None]
    BY <1>1, <1>2, AllWoken DEF RefreshSucceeds
  <2>2. QED
    BY <1>1, <1>2, <2>1 DEF Request
<1>3. CASE req[r].pc # "refresh"
  BY <1>1, <1>3, AllWoken DEF RefreshSucceeds
<1>4. QED
  BY <1>2, <1>3

LEMMA RefreshSucceedsInv ==
  ASSUME SessionInv, NEW f \in Requests, RefreshSucceeds(f)
  PROVE  SessionInv'
<1> USE ClientSessionAssumption
<1>1. SessionTypeOK /\ Refreshing(f) /\ req[f] \in Request
  BY DEF SessionInv, SessionTypeOK, RefreshSucceeds
<1>2. \A r \in Requests :
        /\ req'[r] \in Request /\ req'[r].pc # "refresh"
        /\ req'[r].kind = req[r].kind /\ req'[r].token = req[r].token
        /\ (req'[r].pc = "idle") = (req[r].pc = "idle")
  BY WokenCalls
<1>3. req' \in [Requests -> Request]
  BY <1>2 DEF RefreshSucceeds
<1>4. /\ access' = req[f].token /\ refresh' = req[f].token /\ refreshing' = None
      /\ UNCHANGED <<user, overtaken>>
  BY DEF RefreshSucceeds
<1>5. SessionTypeOK' /\ TokensMatch'
  BY <1>1, <1>3, <1>4 DEF SessionTypeOK, TokensMatch, Request
<1>6. JoinedIsUnderWay' /\ OneRefresh'
  BY <1>2, <1>4 DEF JoinedIsUnderWay, OneRefresh
<1>7. ~overtaken => access' = access
  BY <1>1, <1>4 DEF SessionInv, WritersAreCurrent, Writers, InFlight, Refreshing
<1>8. WritersAreCurrent'
  BY <1>2, <1>4, <1>7 DEF SessionInv, WritersAreCurrent, Writers, InFlight
<1>9. TokensAreTheUsers'
  BY <1>2, <1>4, <1>5, <1>7 DEF SessionInv, TokensAreTheUsers, TokensMatch, InFlight
<1>10. QED
  BY <1>5, <1>6, <1>8, <1>9 DEF SessionInv

LEMMA RefreshFailsInv ==
  ASSUME SessionInv, NEW f \in Requests, RefreshFails(f)
  PROVE  SessionInv'
<1>1. SessionTypeOK /\ Refreshing(f)
  BY DEF SessionInv, RefreshFails
<1>2. Idle \in Request /\ Idle.pc = "idle"
  BY DEF Idle, Request, Kinds
<1> HIDE DEF Idle
<1>3. /\ req' \in [Requests -> Request]
      /\ \A r \in Requests : req'[r] = IF r \in Woken(f) THEN Idle ELSE req[r]
  BY <1>1, <1>2 DEF SessionTypeOK, RefreshFails
<1>4. \A r \in Requests : req'[r].pc # "refresh"
  BY <1>1, <1>2, <1>3, AllWoken
<1>5. refreshing' = None /\ JoinedIsUnderWay' /\ OneRefresh'
  BY <1>4 DEF RefreshFails, JoinedIsUnderWay, OneRefresh
<1>6. Cleared /\ Overtakes(Woken(f))
  BY DEF RefreshFails
<1>7. ~overtaken' => Writers' = {}
  BY <1>2, <1>3, <1>6, OvertakenInv
<1>8. QED
  BY <1>3, <1>5, <1>6, <1>7, ClearedInv

LEMMA LogoutInv ==
  ASSUME SessionInv, Logout
  PROVE  SessionInv'
<1>1. UNCHANGED <<req, refreshing>> /\ Cleared /\ Overtakes({})
  BY DEF Logout
<1>2. /\ req' \in [Requests -> Request] /\ refreshing' \in Requests \cup {None}
      /\ JoinedIsUnderWay' /\ OneRefresh'
  BY <1>1 DEF SessionInv, SessionTypeOK, JoinedIsUnderWay, OneRefresh, Refreshing
<1>3. ~overtaken' => Writers' = {}
  BY <1>1, OvertakenInv
<1>4. QED
  BY <1>1, <1>2, <1>3, ClearedInv

LEMMA RestartInv ==
  ASSUME SessionInv, NEW mounted \in SUBSET Requests, NEW r \in Requests,
         Restart(mounted, r)
  PROVE  SessionInv'
<1> USE ClientSessionAssumption
<1>1. \A s \in Requests :
        /\ req'[s] \in Request /\ req'[s].pc # "refresh"
        /\ req'[s].pc # "idle" => req'[s].token = access
  BY DEF SessionInv, SessionTypeOK, Restart, Sent, Idle, Request, Kinds
<1>2. refresh # None => req'[r].pc = "sent" /\ req'[r].kind = "restore"
  BY DEF Restart, Sent
<1>3. /\ user' = None /\ refreshing' = None /\ overtaken' = FALSE
      /\ UNCHANGED <<access, refresh>> /\ req' \in [Requests -> Request]
  BY <1>1 DEF Restart
<1>4. SessionTypeOK' /\ TokensMatch'
  BY <1>3 DEF SessionInv, SessionTypeOK, TokensMatch
<1>5. JoinedIsUnderWay' /\ OneRefresh'
  BY <1>1, <1>3 DEF JoinedIsUnderWay, OneRefresh
<1>6. WritersAreCurrent'
  BY <1>1, <1>3 DEF WritersAreCurrent, Writers, InFlight
<1>7. TokensAreTheUsers'
  BY <1>2, <1>3 DEF SessionInv, TokensMatch, TokensAreTheUsers, InFlight
<1>8. QED
  BY <1>4, <1>5, <1>6, <1>7 DEF SessionInv

-----------------------------------------------------------------------------
(* The call of the hook is under way just as long as the lock is held for    *)
(* an answer, and what it asked for is the page that comes next.            *)
Asking == mode \in {"refresh", "retry", "more"}

FetchIsAsked ==
  /\ req[Fetch].kind = "call"
  /\ (req[Fetch].pc # "idle") = Asking

AskedComesNext ==
  /\ mode \in {"refresh", "retry"} => asked.page = 1
  /\ (mode = "more" /\ ~mishap) => asked = [query |-> query, page |-> page + 1]
  /\ mode = "more" => Len(list) < MaxPages

ListTypeOK ==
  /\ list \in Seq(Page) /\ Len(list) <= MaxPages
  /\ query \in Queries
  /\ page \in 1 .. MaxPages
  /\ hasMore \in BOOLEAN
  /\ mode \in {"idle", "refresh", "wait", "retry", "more"}
  /\ asked \in Page
  /\ mishap \in BOOLEAN

ListInv == ListTypeOK /\ AskedComesNext /\ ListMatchesQuery

IInv == SessionInv /\ FetchIsAsked /\ ListInv

LEMMA InitIInv == Init => IInv
<1> SUFFICES ASSUME Init PROVE IInv
  OBVIOUS
<1> USE ClientListAssumption
<1>1. SessionInv
  BY SessionInitInv DEF Init
<1>2. FetchIsAsked
  BY DEF Init, SessionInit, Sent, FetchIsAsked, Asking
<1>3. ListTypeOK
  <2>1. /\ list = <<>> /\ query \in Queries /\ page = 1 /\ hasMore = TRUE
        /\ mode = "refresh" /\ asked = [query |-> query, page |-> 1] /\ mishap = FALSE
    BY DEF Init
  <2>2. list \in Seq(Page) /\ Len(list) = 0 /\ asked \in Page
    BY <2>1 DEF Page
  <2>3. Len(list) <= MaxPages /\ page \in 1 .. MaxPages
    BY <2>1, <2>2
  <2>4. hasMore \in BOOLEAN /\ mishap \in BOOLEAN
    BY <2>1
  <2>5. QED
    BY <2>1, <2>2, <2>3, <2>4 DEF ListTypeOK
<1>4. AskedComesNext /\ ListMatchesQuery
  BY DEF Init, AskedComesNext, ListMatchesQuery
<1>5. QED
  BY <1>1, <1>2, <1>3, <1>4 DEF IInv, ListInv

(* A page is asked for. *)
LEMMA AskInv ==
  ASSUME IInv, NEW q \in Queries, NEW p \in 1 .. MaxPages,
         NEW m \in {"refresh", "retry", "more"}, Ask(q, p, m)
  PROVE  /\ SessionInv' /\ FetchIsAsked'
         /\ asked' = [query |-> q, page |-> p] /\ asked' \in Page /\ mode' = m
<1> USE ClientListAssumption
<1>1. SessionInv'
  BY SendInv DEF IInv, Ask
<1>2. req'[Fetch] = Sent("call", access)
  BY DEF IInv, SessionInv, SessionTypeOK, Ask, Send
<1>3. asked' = [query |-> q, page |-> p] /\ asked' \in Page /\ mode' = m
  BY DEF Ask, Page
<1>4. FetchIsAsked'
  BY <1>2, <1>3 DEF FetchIsAsked, Asking, Sent
<1>5. QED
  BY <1>1, <1>3, <1>4

LEMMA RefreshInv ==
  ASSUME IInv, Refresh
  PROVE  IInv'
<1> USE ClientListAssumption
<1>1. /\ SessionInv' /\ FetchIsAsked' /\ asked' = [query |-> query, page |-> 1]
      /\ asked' \in Page /\ mode' = "refresh"
  BY AskInv DEF IInv, ListInv, ListTypeOK, Refresh
<1>2. ListInv'
  BY <1>1 DEF IInv, ListInv, ListTypeOK, AskedComesNext, ListMatchesQuery, Refresh
<1>3. QED
  BY <1>1, <1>2 DEF IInv

LEMMA RetryInv ==
  ASSUME IInv, Retry
  PROVE  IInv'
<1> USE ClientListAssumption
<1>1. /\ SessionInv' /\ FetchIsAsked' /\ asked' = [query |-> query, page |-> 1]
      /\ asked' \in Page /\ mode' = "retry"
  BY AskInv DEF IInv, ListInv, ListTypeOK, Retry
<1>2. ListInv'
  BY <1>1 DEF IInv, ListInv, ListTypeOK, AskedComesNext, ListMatchesQuery, Retry
<1>3. QED
  BY <1>1, <1>2 DEF IInv

LEMMA LoadMoreInv ==
  ASSUME IInv, LoadMore
  PROVE  IInv'
<1> USE ClientListAssumption
<1>1. page + 1 \in 1 .. MaxPages
  BY DEF IInv, ListInv, ListTypeOK, LoadMore
<1>2. /\ SessionInv' /\ FetchIsAsked' /\ asked' = [query |-> query, page |-> page + 1]
      /\ asked' \in Page /\ mode' = "more"
  BY <1>1, AskInv DEF IInv, ListInv, ListTypeOK, LoadMore
<1>3. mode = "idle" /\ Len(list) < MaxPages /\ UNCHANGED <<list, query, page, hasMore, mishap>>
  BY DEF LoadMore, MayLoad
<1>4. ListInv'
  BY <1>2, <1>3 DEF IInv, ListInv, ListTypeOK, AskedComesNext, ListMatchesQuery
<1>5. QED
  BY <1>2, <1>4 DEF IInv

LEMMA ChangeQueryInv ==
  ASSUME IInv, NEW q \in Queries, ChangeQuery(q)
  PROVE  IInv'
<1> USE ClientListAssumption
<1>1. CASE mode = "idle"
  <2>1. /\ SessionInv' /\ FetchIsAsked' /\ asked' = [query |-> q, page |-> 1]
        /\ asked' \in Page /\ mode' = "refresh"
    BY <1>1, AskInv DEF ChangeQuery
  <2>2. ListInv'
    BY <1>1, <2>1
       DEF IInv, ListInv, ListTypeOK, AskedComesNext, ListMatchesQuery, ChangeQuery
  <2>3. QED
    BY <2>1, <2>2 DEF IInv
<1>2. CASE mode # "idle"
  <2>1. UNCHANGED <<session, mode, asked, page, list, hasMore>> /\ mishap' /\ query' = q
    BY <1>2 DEF ChangeQuery, IInv, ListInv, ListTypeOK
  <2>2. SessionInv' /\ FetchIsAsked'
    BY <2>1 DEF IInv, SessionInv, SessionTypeOK, TokensMatch, JoinedIsUnderWay,
                OneRefresh, WritersAreCurrent, TokensAreTheUsers, Refreshing,
                Writers, InFlight, FetchIsAsked, Asking, session
  <2>3. ListInv'
    BY <2>1 DEF IInv, ListInv, ListTypeOK, AskedComesNext, ListMatchesQuery
  <2>4. QED
    BY <2>2, <2>3 DEF IInv
<1>3. QED
  BY <1>1, <1>2

(* The page that was asked for has come: it starts the list anew, or is the   *)
(* next one.                                                               *)
LEMMA ShownInv ==
  ASSUME IInv, Asking, NEW more \in BOOLEAN, Shown(more)
  PROVE  ListInv' /\ ~Asking'
<1> USE ClientListAssumption
<1>1. /\ list \in Seq(Page) /\ asked \in Page /\ query \in Queries
      /\ Len(list) <= MaxPages /\ asked.page \in 1 .. MaxPages
      /\ page \in 1 .. MaxPages /\ mishap \in BOOLEAN
  BY DEF IInv, ListInv, ListTypeOK, Page
<1>2. /\ mode' = "idle" /\ page' = asked.page /\ hasMore' = more
      /\ UNCHANGED <<query, asked>> /\ ~Asking'
  BY DEF Shown, PageAfter, Asking
<1>3. CASE mode = "more"
  <2>1. list' = Append(list, asked) /\ mishap' = mishap /\ Len(list) < MaxPages
    BY <1>3 DEF Shown, IInv, ListInv, AskedComesNext
  <2>2. ListTypeOK'
    BY <1>1, <1>2, <2>1 DEF ListTypeOK
  <2>3. ASSUME ~mishap
        PROVE  /\ \A i \in DOMAIN list' : list'[i] = [query |-> query, page |-> i]
               /\ asked.page = Len(list')
    <3>1. /\ \A i \in DOMAIN list : list[i] = [query |-> query, page |-> i]
          /\ page = Len(list) /\ asked = [query |-> query, page |-> page + 1]
      BY <1>3, <2>3 DEF IInv, ListInv, ListMatchesQuery, AskedComesNext
    <3>2. QED
      BY <1>1, <2>1, <3>1
  <2>4. ListMatchesQuery' /\ AskedComesNext'
    BY <1>2, <2>1, <2>3 DEF ListMatchesQuery, AskedComesNext
  <2>5. QED
    BY <1>2, <2>2, <2>4 DEF ListInv
<1>4. CASE mode # "more"
  <2>1. /\ list' = <<asked>> /\ mishap' = (asked.query # query)
        /\ asked.page = 1
    BY <1>4 DEF Shown, IInv, ListInv, AskedComesNext, Asking
  <2>2. ListTypeOK'
    BY <1>1, <1>2, <2>1 DEF ListTypeOK
  <2>3. /\ asked = [query |-> asked.query, page |-> 1]
        /\ DOMAIN list' = {1} /\ list'[1] = asked /\ Len(list') = 1
    BY <1>1, <2>1 DEF Page
  <2>4. ListMatchesQuery' /\ AskedComesNext'
    <3>1. ListMatchesQuery'
      <4>1. ASSUME ~mishap' PROVE asked.query = query
        BY <2>1, <4>1
      <4>2. QED
        BY <1>2, <2>1, <2>3, <4>1 DEF ListMatchesQuery
    <3>2. AskedComesNext'
      BY <1>2 DEF AskedComesNext
    <3>3. QED
      BY <3>1, <3>2
  <2>5. QED
    BY <1>2, <2>2, <2>4 DEF ListInv
<1>5. QED
  BY <1>3, <1>4

LEMMA MissedInv ==
  ASSUME IInv, Asking, Missed
  PROVE  ListInv' /\ ~Asking'
<1>1. ~Asking'
  BY DEF Asking, Missed, ModeAfterMiss
<1>2. ListInv'
  BY DEF IInv, ListInv, ListTypeOK, AskedComesNext, ListMatchesQuery, Asking, Missed,
         ModeAfterMiss
<1>3. QED
  BY <1>1, <1>2

LEMMA KeptList ==
  ASSUME IInv, UNCHANGED pages
  PROVE  ListInv' /\ Asking' = Asking
BY DEF pages, IInv, ListInv, ListTypeOK, AskedComesNext, ListMatchesQuery, Asking

(* An answer ends the call of the hook, wakes it or leaves it alone. *)
LEMMA AnswerInv ==
  ASSUME IInv, NEW r \in Requests, Answer(r)
  PROVE  IInv'
<1> USE ClientListAssumption
<1>1. /\ req \in [Requests -> Request] /\ req[Fetch] \in Request
      /\ req[Fetch].kind = "call" /\ (req[Fetch].pc # "idle") = Asking
      /\ SessionInv
  BY DEF IInv, SessionInv, SessionTypeOK, FetchIsAsked
<1>2. SessionInv'
  BY <1>1, SucceedInv, FailInv, ReplayUnansweredInv, ExpiredInv, RefreshSucceedsInv,
     RefreshFailsInv DEF Answer
<1>3. Idle.pc = "idle" /\ Idle.kind = "call"
  BY DEF Idle
<1> HIDE DEF Idle
<1>4. ASSUME Succeed(r) \/ Fail(r) \/ ReplayUnanswered(r), r = Fetch,
             (\E more \in BOOLEAN : Shown(more)) \/ Missed
      PROVE  IInv'
  <2>1. Asking /\ req'[Fetch] = Idle
    BY <1>1, <1>4 DEF Succeed, Fail, ReplayUnanswered, End
  <2>2. ListInv' /\ ~Asking'
    BY <1>4, <2>1, ShownInv, MissedInv
  <2>3. FetchIsAsked'
    BY <1>3, <2>1, <2>2 DEF FetchIsAsked, Asking
  <2>4. QED
    BY <1>2, <2>2, <2>3 DEF IInv
<1>5. ASSUME Succeed(r) \/ Fail(r) \/ ReplayUnanswered(r), r # Fetch, UNCHANGED pages
      PROVE  IInv'
  <2>1. req'[Fetch] = req[Fetch]
    BY <1>1, <1>5 DEF Succeed, Fail, ReplayUnanswered, End
  <2>2. QED
    BY <1>1, <1>2, <1>5, <2>1, KeptList DEF IInv, FetchIsAsked
<1>6. ASSUME Expired(r) \/ RefreshSucceeds(r), UNCHANGED pages
      PROVE  IInv'
  <2>1. /\ req'[Fetch].kind = "call"
        /\ (req'[Fetch].pc # "idle") = (req[Fetch].pc # "idle")
    BY <1>1, <1>6, ExpiredCalls, WokenCalls
  <2>2. QED
    BY <1>1, <1>2, <1>6, <2>1, KeptList DEF IInv, FetchIsAsked
<1>7. ASSUME RefreshFails(r), Fetch \in Woken(r), Missed
      PROVE  IInv'
  <2>1. req'[Fetch] = Idle /\ Asking
    BY <1>1, <1>7 DEF RefreshFails, Woken
  <2>2. ListInv' /\ ~Asking'
    BY <1>7, <2>1, MissedInv
  <2>3. FetchIsAsked'
    BY <1>3, <2>1, <2>2 DEF FetchIsAsked, Asking
  <2>4. QED
    BY <1>2, <2>2, <2>3 DEF IInv
<1>8. ASSUME RefreshFails(r), Fetch \notin Woken(r), UNCHANGED pages
      PROVE  IInv'
  <2>1. req'[Fetch] = req[Fetch]
    BY <1>1, <1>8 DEF RefreshFails
  <2>2. QED
    BY <1>1, <1>2, <1>8, <2>1, KeptList DEF IInv, FetchIsAsked
<1>9. QED
  BY <1>4, <1>5, <1>6, <1>7, <1>8 DEF Answer

LEMMA ElsewhereInv ==
  ASSUME IInv, Elsewhere
  PROVE  IInv'
<1> USE ClientListAssumption
<1>1. SessionInv'
  BY SendInv, SendLoginInv, LogoutInv DEF IInv, Elsewhere
<1>2. req'[Fetch] = req[Fetch]
  BY DEF IInv, SessionInv, SessionTypeOK, Elsewhere, Send, SendLogin, Logout
<1>3. UNCHANGED pages
  BY DEF Elsewhere
<1>4. QED
  BY <1>1, <1>2, <1>3, KeptList DEF IInv, FetchIsAsked

LEMMA ReloadInv ==
  ASSUME IInv, Reload
  PROVE  IInv'
<1> USE ClientListAssumption
<1>1. SessionInv'
  BY RestartInv DEF IInv, Reload
<1>2. FetchIsAsked'
  BY DEF Reload, Restart, Sent, FetchIsAsked, Asking
<1>3. ListInv'
  <2>1. /\ list' = <<>> /\ query' \in Queries /\ page' = 1 /\ hasMore' = TRUE
        /\ mode' = "refresh" /\ asked' = [query |-> query', page |-> 1]
        /\ mishap' = FALSE
    BY DEF Reload, IInv, ListInv, ListTypeOK
  <2>2. ListTypeOK'
    <3>1. (list \in Seq(Page) /\ Len(list) = 0 /\ asked \in Page)'
      BY <2>1 DEF Page
    <3>2. (Len(list) <= MaxPages /\ page \in 1 .. MaxPages)'
      BY <2>1, <3>1
    <3>3. (hasMore \in BOOLEAN /\ mishap \in BOOLEAN)'
      BY <2>1
    <3>4. QED
      BY <2>1, <3>1, <3>2, <3>3 DEF ListTypeOK
  <2>3. AskedComesNext' /\ ListMatchesQuery'
    BY <2>1 DEF AskedComesNext, ListMatchesQuery
  <2>4. QED
    BY <2>2, <2>3 DEF ListInv
<1>4. QED
  BY <1>1, <1>2, <1>3 DEF IInv

LEMMA NextIInv == IInv /\ [Next]_vars => IInv'
<1> SUFFICES ASSUME IInv, [Next]_vars PROVE IInv'
  OBVIOUS
<1>1. CASE UNCHANGED vars
  <2>1. SessionInv' /\ FetchIsAsked'
    BY <1>1 DEF IInv, SessionInv, SessionTypeOK, TokensMatch, JoinedIsUnderWay,
                OneRefresh, WritersAreCurrent, TokensAreTheUsers, Refreshing,
                Writers, InFlight, FetchIsAsked, Asking, vars, session, pages
  <2>2. QED
    BY <1>1, <2>1, KeptList DEF IInv, vars
<1>2. QED
  BY <1>1, RefreshInv, RetryInv, ChangeQueryInv, LoadMoreInv, AnswerInv, ElsewhereInv,
     ReloadInv DEF Next

LEMMA Invariance == Spec => []IInv
BY InitIInv, NextIInv, PTL DEF Spec

-----------------------------------------------------------------------------
(* The variables of the token store, the auth store and the list keep their  *)
(* types.                                                                   *)
THEOREM ClientTypes == Spec => []TypeOK
<1>1. IInv => TypeOK
  BY DEF IInv, SessionInv, ListInv, ListTypeOK, TypeOK
<1>2. QED
  BY <1>1, Invariance, PTL

(* Any number of calls that meet an expired token share one refresh, the one  *)
(* refreshAccess would hand to the next.                                    *)
THEOREM RefreshIsShared == Spec => []OneRefresh
<1>1. IInv => OneRefresh
  BY DEF IInv, SessionInv
<1>2. QED
  BY <1>1, Invariance, PTL

(* The tokens are those of the user on the screen as long as no answer of a   *)
(* former session is on its way when the session changes hands.             *)
THEOREM TokensFollowTheUser == Spec => []TokensAreTheUsers
<1>1. IInv => TokensAreTheUsers
  BY DEF IInv, SessionInv
<1>2. QED
  BY <1>1, Invariance, PTL

(* The list is pages 1 to n of the query on the screen unless a refresh of it *)
(* was dropped or failed, whatever happens to the tokens meanwhile.         *)
THEOREM ListIsTheQuerys == Spec => []ListMatchesQuery
<1>1. IInv => ListMatchesQuery
  BY DEF IInv, ListInv
<1>2. QED
  BY <1>1, Invariance, PTL
===============================================================================
