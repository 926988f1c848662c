---------------------------- MODULE ClientSession ----------------------------
(***************************************************************************)
(* The client's side of a session: request() of api/request.ts, the refresh *)
(* its callers share, and the auth store that logs in, out and restores.    *)
(*                                                                         *)
(* JavaScript runs one continuation at a time, so a step is what happens    *)
(* between two answers of the network or clicks of the user.  A token is    *)
(* told by its user only: whether the server still takes it is part of the  *)
(* answer, which may be anything at any time.                               *)
(***************************************************************************)
CONSTANTS
  Users,
  Requests,     \* calls of request() in flight, one each at a time
  None          \* no token, nobody logged in, no refresh under way

ASSUME ClientSessionAssumption == None \notin Users \cup Requests

VARIABLES
  access,       \* the user of the access token in the token store
  refresh,      \* the user of the refresh token there
  user,         \* the user of the auth store; None is logged out
  req,          \* req[r] : where call r is
  refreshing,   \* the call that started the refresh others join
  overtaken     \* history: the session changed hands while answers of the
                \* previous one were on their way

session == <<access, refresh, user, req, refreshing, overtaken>>

(* call : any call; me : one whose answer becomes the user of the store;    *)
(* restore : the one at start-up; login : one that brings new tokens.       *)
Kinds == {"call", "me", "restore", "login"}

Request == [pc : {"idle", "sent", "refresh", "replay"}, kind : Kinds,
            token : Users \cup {None},     \* whose token it carries
            waits : Requests \cup {None}]  \* whose refresh it waits for

SessionTypeOK ==
  /\ access \in Users \cup {None}
  /\ refresh \in Users \cup {None}
  /\ user \in Users \cup {None}
  /\ req \in [Requests -> Request]
  /\ refreshing \in Requests \cup {None}
  /\ overtaken \in BOOLEAN

Idle == [pc |-> "idle", kind |-> "call", token |-> None, waits |-> None]

Sent(kind, token) ==
  [pc |-> "sent", kind |-> kind, token |-> token, waits |-> None]

(* A first start: no tokens, and the calls of the screen that is mounted. *)
SessionInit(mounted) ==
  /\ access = None
  /\ refresh = None
  /\ user = None
  /\ req = [r \in Requests |->
              IF r \in mounted THEN Sent("call", None) ELSE Idle]
  /\ refreshing = None
  /\ overtaken = FALSE

InFlight == {r \in Requests : req[r].pc # "idle"}

(* The calls whose answer writes the tokens or the user. *)
Writers ==
  {r \in InFlight : req[r].pc = "refresh" \/ req[r].kind \in {"me", "restore"}}

-----------------------------------------------------------------------------
(* The three stores written together, as login, logout and a refresh do. *)
Store(a, f, u) == access' = a /\ refresh' = f /\ user' = u

(* tokenStore.clear() and logout(). *)
Cleared_AccessOnly == Store(None, refresh, None)

Cleared == Store(None, None, None)

(* The session changes hands: what others still write belongs to the old one. *)
Overtakes(self) == overtaken' = (Writers \ self # {})

KeepsSession == UNCHANGED <<access, refresh, user, overtaken>>

-----------------------------------------------------------------------------
Send(r, kind) ==
  /\ req[r].pc = "idle"
  /\ kind = "me" => user # None
  /\ req' = [req EXCEPT ![r] = Sent(kind, access)]
  /\ KeepsSession
  /\ UNCHANGED refreshing

(* login, loginByCode, ssoLogin and register send the credentials of u. *)
SendLogin(r, u) ==
  /\ req[r].pc = "idle"
  /\ \A s \in Requests : req[s].pc # "idle" => req[s].kind # "login"
  /\ req' = [req EXCEPT ![r] = Sent("login", u)]
  /\ KeepsSession
  /\ UNCHANGED refreshing

(* What the caller does with a good answer. *)
Deliver(r) ==
  LET kind == req[r].kind
      who  == req[r].token
  IN CASE kind = "call" -> KeepsSession
       [] kind \in {"me", "restore"} ->
            /\ user' = who
            /\ UNCHANGED <<access, refresh, overtaken>>
       [] kind = "login" ->
            /\ Store(who, who, who)
            /\ Overtakes({r})

(* What the caller does with an error: restore() logs out. *)
Complain(r) ==
  IF req[r].kind = "restore" THEN Cleared /\ Overtakes({r})
                             ELSE KeepsSession

End(r) == req' = [req EXCEPT ![r] = Idle]

(* Code OK.  Only public routes answer it to a call without a token. *)
Succeed(r) ==
  /\ req[r].pc \in {"sent", "replay"}
  /\ req[r].kind # "call" => req[r].token # None
  /\ Deliver(r)
  /\ End(r)
  /\ UNCHANGED refreshing

(* Any other code, 20001 and 20002 included where they are not retried, or   *)
(* no answer to the first call.                                            *)
Fail(r) ==
  /\ req[r].pc \in {"sent", "replay"}
  /\ Complain(r)
  /\ End(r)
  /\ UNCHANGED refreshing

(* refreshAccess: a refresh that is under way is joined. *)
Joined_Never(r) == r

Joined(r) == IF refreshing = None THEN r ELSE refreshing

(* Code 20001 or 20002 with a refresh token in the store. *)
Expired(r) ==
  /\ req[r].pc = "sent"
  /\ req[r].kind # "login"
  /\ refresh # None
  /\ req' = [req EXCEPT ![r].pc = "refresh", ![r].waits = Joined(r),
                        ![r].token = IF Joined(r) = r THEN refresh
                                     ELSE req[Joined(r)].token]
  /\ refreshing' = Joined(r)
  /\ KeepsSession

(* The calls that wait for the refresh call f started. *)
Woken_StarterOnly(f) == {f}

Woken(f) == {r \in Requests : req[r].pc = "refresh" /\ req[r].waits = f}

Refreshing(f) == req[f].pc = "refresh" /\ req[f].waits = f

(* The new pair is stored, and every call that waits is sent again. *)
RefreshSucceeds(f) ==
  /\ Refreshing(f)
  /\ access' = req[f].token
  /\ refresh' = req[f].token
  /\ req' = [r \in Requests |->
       IF r \in Woken(f) THEN [req[r] EXCEPT !.pc = "replay", !.waits = None]
                         ELSE req[r]]
  /\ refreshing' = None
  /\ UNCHANGED <<user, overtaken>>

(* Refused or unanswered: each of them clears the tokens and logs out. *)
RefreshFails(f) ==
  /\ Refreshing(f)
  /\ Cleared
  /\ req' = [r \in Requests |-> IF r \in Woken(f) THEN Idle ELSE req[r]]
  /\ refreshing' = None
  /\ Overtakes(Woken(f))

(* No answer to the second call: the same. *)
ReplayUnanswered(r) ==
  /\ req[r].pc = "replay"
  /\ Cleared
  /\ End(r)
  /\ Overtakes({r})
  /\ UNCHANGED refreshing

Logout ==
  /\ user # None
  /\ Cleared
  /\ Overtakes({})
  /\ UNCHANGED <<req, refreshing>>

(* The page is reloaded or the app started again: the tokens are kept, the    *)
(* mounted screen sends its calls and restore() asks who the tokens are of. *)
Restart(mounted, r) ==
  /\ r \notin mounted
  /\ user' = None
  /\ req' = [s \in Requests |->
       IF s \in mounted THEN Sent("call", access)
       ELSE IF s = r /\ refresh # None THEN Sent("restore", access)
       ELSE Idle]
  /\ refreshing' = None
  /\ overtaken' = FALSE
  /\ UNCHANGED <<access, refresh>>

-----------------------------------------------------------------------------
(* Concurrent calls that meet an expired token share one refresh, and it is  *)
(* the one later calls would join.                                         *)
OneRefresh ==
  \A r \in Requests : req[r].pc = "refresh" =>
    refreshing = req[r].waits /\ Refreshing(refreshing)

(* The tokens in the store are those of the user on the screen, whatever is  *)
(* refreshed, replayed or fails: both are of one user, nobody is shown who   *)
(* has no tokens, and tokens without a user are being restored.  Only an     *)
(* answer that was on its way when the session changed hands can mix them.  *)
TokensAreTheUsers ==
  ~overtaken =>
    /\ access = refresh
    /\ user # None => access = user
    /\ (user = None /\ access # None) =>
         \E r \in InFlight : req[r].kind = "restore"

(* Every call is answered or refused in the end, those that wait for         *)
(* somebody else's refresh included.                                       *)
CallsEnd == \A r \in Requests : req[r].pc = "refresh" ~> req[r].pc # "refresh"
=============================================================================
