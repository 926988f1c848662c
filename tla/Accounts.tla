------------------------------- MODULE Accounts -------------------------------
(***************************************************************************)
(* Accounts and the credentials that lead to them: AuthService.             *)
(*                                                                         *)
(* Register, the four logins, BindEmail and the changes of password each     *)
(* look a row of users up and then insert or update one, in statements of   *)
(* their own and without a transaction.  The unique indexes on email,        *)
(* wechat_open_id and cas_subject refuse a second row of the same value.     *)
(* Bans are in module UserCache: here a refused call is one that fails.      *)
(***************************************************************************)
EXTENDS EmailCodes

CONSTANTS
  Ids,          \* bound: the accounts that can be created
  OpenIds,      \* WeChat identities
  Subjects,     \* CAS identities (student numbers)
  NoUser        \* no row with this id

Account == [email : Emails \cup {None}, openid : OpenIds \cup {None},
            subject : Subjects \cup {None}, verified : BOOLEAN,
            password : BOOLEAN]

ASSUME AccountsAssumption ==
  /\ None \notin Ids \cup OpenIds \cup Subjects \cup Emails \cup Requests
                 \cup Scenes
  /\ NoUser \notin Account

VARIABLES
  users,        \* users[a] : the row of table users with id a
  gone,         \* the ids of deleted rows, which are not used again
  req,          \* req[r] : the call r serves, where it is, what it has read
  doubled       \* history: calls of BindEmail that ran while another one of
                \* the same account did, or one that merged into it

vars == <<codes, users, gone, req, doubled>>

(* What a call looks an account up by; "id" is the caller's own. *)
Kinds == {"send", "register", "code", "reset", "bind", "password",
          "wechat", "sso", "change"}

Credentials == Emails \cup OpenIds \cup Subjects \cup {None}

Request == [pc : {"idle", "cool", "store", "mark", "mail", "verify", "used",
                  "me", "find", "create", "write", "bind", "move", "delete"},
            kind : Kinds, cred : Credentials, scene : Scenes \cup {None},
            me : Ids \cup {None}, openid : OpenIds \cup {None},
            found : Ids \cup {None}]

TypeOK ==
  /\ CodesTypeOK
  /\ users \in [Ids -> Account \cup {NoUser}]
  /\ gone \in SUBSET Ids
  /\ req \in [Requests -> Request]
  /\ doubled \in SUBSET Requests

Idle == [pc |-> "idle", kind |-> "send", cred |-> None, scene |-> None,
         me |-> None, openid |-> None, found |-> None]

Init ==
  /\ CodesInit
  /\ users = [a \in Ids |-> NoUser]
  /\ gone = {}
  /\ req = [r \in Requests |-> Idle]
  /\ doubled = {}

Exists(a) == users[a] # NoUser

Field(kind) == CASE kind = "wechat" -> "openid"
                 [] kind = "sso"    -> "subject"
                 [] OTHER           -> "email"

(* SELECT ... WHERE field = value LIMIT 1 *)
Holders(field, v) == {a \in Ids : Exists(a) /\ users[a][field] = v}

(* The unique indexes: no other row than those of `self` has the value. *)
Free_NoIndex(field, v, self) == TRUE

Free(field, v, self) == Holders(field, v) \subseteq self

Goto(r, pc) == req' = [req EXCEPT ![r].pc = pc]

End(r) ==
  /\ req' = [req EXCEPT ![r] = Idle]
  /\ doubled' = doubled \ {r}

-----------------------------------------------------------------------------
(* Calls come in.  The purposes of a code: SendCode is told which, the others *)
(* know theirs.                                                            *)
SceneOf(kind) == CASE kind = "register" -> "register"
                   [] kind = "code"     -> "login"
                   [] kind = "reset"    -> "reset"
                   [] kind = "bind"     -> "bind"
                   [] OTHER             -> None

Called(r, kind, cred, scene, me, pc) ==
  /\ req[r].pc = "idle"
  /\ req' = [req EXCEPT ![r] =
       [Idle EXCEPT !.pc = pc, !.kind = kind, !.cred = cred, !.scene = scene,
                    !.me = me]]
  /\ UNCHANGED <<codes, users, gone>>

KnownScene_Any(s) == TRUE

KnownScene(s) == s \in Scenes

SendCode(r, e, s) ==
  /\ KnownScene(s)
  /\ Called(r, "send", e, s, None, "cool")
  /\ UNCHANGED doubled

WithCode(r, kind, e) ==
  /\ Called(r, kind, e, SceneOf(kind), None, "verify")
  /\ UNCHANGED doubled

(* Login, WechatLogin, SSOLogin: the password, WeChat or CAS is asked first.  *)
WithCredential(r, kind, v) ==
  /\ Called(r, kind, v, None, None, "find")
  /\ UNCHANGED doubled

BindsOf(a) == {s \in Requests : req[s].kind = "bind" /\ req[s].me = a}

(* The token of a deleted account passes Auth while its cached row lasts. *)
Known(a) == Exists(a) \/ a \in gone

BindEmail(r, a, e) ==
  /\ Known(a)
  /\ Called(r, "bind", e, "bind", a, "verify")
  /\ doubled' = IF BindsOf(a) = {} THEN doubled
                                   ELSE doubled \cup BindsOf(a) \cup {r}

ChangePassword(r, a) ==
  /\ Known(a)
  /\ Called(r, "change", None, None, a, "me")
  /\ UNCHANGED doubled

-----------------------------------------------------------------------------
(* SendCode and Verify *)
Cool(r) ==
  /\ req[r].pc = "cool"
  /\ req[r].cred \notin cooldown
  /\ Goto(r, "store")
  /\ UNCHANGED <<codes, users, gone, doubled>>

Store(r) ==
  /\ req[r].pc = "store"
  /\ StoreCode(r, req[r].cred, req[r].scene)
  /\ Goto(r, "mark")
  /\ UNCHANGED <<users, gone, doubled>>

Mark(r) ==
  /\ req[r].pc = "mark"
  /\ MarkCooldown(req[r].cred)
  /\ Goto(r, "mail")
  /\ UNCHANGED <<users, gone, doubled>>

Mail(r) ==
  /\ req[r].pc = "mail"
  /\ MailCode(r, req[r].cred, req[r].scene)
  /\ End(r)
  /\ UNCHANGED <<users, gone>>

Verify(r) ==
  /\ req[r].pc = "verify"
  /\ ReadCode(req[r].cred, req[r].scene)
  /\ Goto(r, "used")
  /\ UNCHANGED <<users, gone, doubled>>

Use(r) ==
  /\ req[r].pc = "used"
  /\ DropCode(req[r].cred, req[r].scene)
  /\ Goto(r, IF req[r].kind = "bind" THEN "me" ELSE "find")
  /\ UNCHANGED <<users, gone, doubled>>

-----------------------------------------------------------------------------
(* Logins and passwords *)

(* The row is there: a login succeeds, a reset goes on to write.  LoginByCode *)
(* marks the account verified if it is not, and goes on if that fails.       *)
FindSome(r) ==
  LET kind == req[r].kind IN
  /\ req[r].pc = "find"
  /\ kind \in {"code", "wechat", "sso", "password", "reset"}
  /\ \E a \in Holders(Field(kind), req[r].cred) :
       IF kind = "reset"
       THEN /\ req' = [req EXCEPT ![r].pc = "write", ![r].found = a]
            /\ UNCHANGED <<users, doubled>>
       ELSE /\ \/ UNCHANGED users
               \/ kind = "code" /\ users' = [users EXCEPT ![a].verified = TRUE]
            /\ End(r)
  /\ UNCHANGED <<codes, gone>>

(* It is not: Register and the logins without a password create it. *)
FindNone(r) ==
  /\ req[r].pc = "find"
  /\ req[r].kind \in {"register", "code", "wechat", "sso"}
  /\ Holders(Field(req[r].kind), req[r].cred) = {}
  /\ Goto(r, "create")
  /\ UNCHANGED <<codes, users, gone, doubled>>

NewAccount(kind, v) ==
  [email    |-> IF kind \in {"register", "code"} THEN v ELSE None,
   openid   |-> IF kind = "wechat" THEN v ELSE None,
   subject  |-> IF kind = "sso" THEN v ELSE None,
   verified |-> kind # "wechat",
   password |-> kind = "register"]

Create(r, a) ==
  LET kind == req[r].kind IN
  /\ req[r].pc = "create"
  /\ ~Exists(a) /\ a \notin gone
  /\ Free(Field(kind), req[r].cred, {})
  /\ users' = [users EXCEPT ![a] = NewAccount(kind, req[r].cred)]
  /\ End(r)
  /\ UNCHANGED <<codes, gone>>

(* ResetPassword and ChangePassword write the hash, if the row still exists. *)
WritePassword(r) ==
  LET a == req[r].found IN
  /\ req[r].pc = "write"
  /\ users' = IF Exists(a) THEN [users EXCEPT ![a].password = TRUE] ELSE users
  /\ End(r)
  /\ UNCHANGED <<codes, gone>>

-----------------------------------------------------------------------------
(* BindEmail and mergeWechat *)
AlreadyBound_Never(a, e) == FALSE

AlreadyBound(a, e) == users[a].email = e

FindMe(r) ==
  LET a == req[r].me IN
  /\ req[r].pc = "me"
  /\ Exists(a)
  /\ IF req[r].kind = "change"
     THEN /\ req' = [req EXCEPT ![r].pc = "write", ![r].found = a]
          /\ UNCHANGED <<users, doubled>>
     ELSE IF AlreadyBound(a, req[r].cred)
     THEN /\ users' \in {users, [users EXCEPT ![a].verified = TRUE]}
          /\ End(r)
     ELSE /\ req' = [req EXCEPT ![r].pc = "find", ![r].openid = users[a].openid]
          /\ UNCHANGED <<users, doubled>>
  /\ UNCHANGED <<codes, gone>>

(* Nobody has the address: it is written to the caller's row. *)
FindNobody(r) ==
  /\ req[r].pc = "find"
  /\ req[r].kind = "bind"
  /\ Holders("email", req[r].cred) = {}
  /\ Goto(r, "bind")
  /\ UNCHANGED <<codes, users, gone, doubled>>

Bound_NoFlag(a, e) == [users[a] EXCEPT !.email = e]

Bound(a, e) == [users[a] EXCEPT !.email = e, !.verified = TRUE]

WriteEmail(r) ==
  LET a == req[r].me IN
  /\ req[r].pc = "bind"
  /\ Free("email", req[r].cred, {a})
  /\ users' = IF Exists(a) THEN [users EXCEPT ![a] = Bound(a, req[r].cred)]
                           ELSE users
  /\ End(r)
  /\ UNCHANGED <<codes, gone>>

(* Somebody has it: the merge is refused unless the caller came by WeChat and *)
(* the other has no WeChat identity or the same.                           *)
FindOther(r) ==
  /\ req[r].pc = "find"
  /\ req[r].kind = "bind"
  /\ req[r].openid # None
  /\ \E a \in Holders("email", req[r].cred) :
       /\ users[a].openid \in {None, req[r].openid}
       /\ req' = [req EXCEPT ![r].pc = "move", ![r].found = a]
  /\ UNCHANGED <<codes, users, gone, doubled>>

(* HasContent found nothing (otherwise the call fails); the identity is       *)
(* written to the other row.                                               *)
Move(r) ==
  LET a == req[r].found IN
  /\ req[r].pc = "move"
  /\ Free("openid", req[r].openid, {a})
  /\ users' = IF Exists(a) THEN [users EXCEPT ![a].openid = req[r].openid]
                           ELSE users
  /\ Goto(r, "delete")
  /\ doubled' = doubled \cup (BindsOf(a) \ {r})
  /\ UNCHANGED <<codes, gone>>

DeleteMe(r) ==
  LET a == req[r].me IN
  /\ req[r].pc = "delete"
  /\ users' = [users EXCEPT ![a] = NoUser]
  /\ gone' = gone \cup {a}
  /\ End(r)
  /\ UNCHANGED codes

(* Any check or statement may refuse or fail, and the server may stop; what   *)
(* was written stays.                                                      *)
Fail(r) ==
  /\ req[r].pc # "idle"
  /\ ForgetCode(r)
  /\ End(r)
  /\ UNCHANGED <<users, gone>>

Arrive(r) ==
  \/ \E e \in Emails :
       \/ \E s \in Scenes \cup {"other"} : SendCode(r, e, s)
       \/ \E kind \in {"register", "code", "reset"} : WithCode(r, kind, e)
       \/ WithCredential(r, "password", e)
       \/ \E a \in Ids : BindEmail(r, a, e)
  \/ \E w \in OpenIds : WithCredential(r, "wechat", w)
  \/ \E s \in Subjects : WithCredential(r, "sso", s)
  \/ \E a \in Ids : ChangePassword(r, a)

Work(r) ==
  \/ Cool(r) \/ Store(r) \/ Mark(r) \/ Mail(r)
  \/ Verify(r) \/ Use(r)
  \/ FindSome(r) \/ FindNone(r)
  \/ \E a \in Ids : Create(r, a)
  \/ WritePassword(r)
  \/ FindMe(r) \/ FindNobody(r) \/ WriteEmail(r)
  \/ FindOther(r) \/ Move(r) \/ DeleteMe(r)
  \/ Fail(r)

Next ==
  \/ \E r \in Requests : Arrive(r) \/ Work(r)
  \/ /\ \/ \E k \in Keys : CodeExpires(k)
        \/ \E e \in Emails : CooldownExpires(e)
     /\ UNCHANGED <<users, gone, req, doubled>>

Spec == Init /\ [][Next]_vars

-----------------------------------------------------------------------------
(* A credential leads to one account: first logins with the same identity, a  *)
(* registration and a binding of the same address, all looked up before any  *)
(* is inserted, leave one of them.                                         *)
OneAccountEach ==
  \A a, b \in Ids : \A field \in {"email", "openid", "subject"} :
    (Exists(a) /\ Exists(b) /\ users[a][field] # None
       /\ users[a][field] = users[b][field]) => a = b

(* Nobody gets an address he has not read a code at, and a code sent for one  *)
(* purpose does not serve another, however old, overwritten or repeated the   *)
(* codes are.                                                              *)
AddressesAreProven ==
  \A a \in Ids : (Exists(a) /\ users[a].email # None) =>
    users[a].email \in proven

(* RequireVerified looks at the flag only: it is set exactly on the accounts  *)
(* with an address or a CAS identity, whichever calls made and joined them.  *)
VerifiedByIdentity ==
  \A a \in Ids : Exists(a) =>
    (users[a].verified <=> users[a].email # None \/ users[a].subject # None)

(* BindEmail by itself never costs its caller his account: one that          *)
(* disappears leaves its WeChat identity with another, or was being bound, or *)
(* merged into, by two calls at once.                                      *)
LossNeedsTwoBinds ==
  [][\A a \in Ids : (Exists(a) /\ ~Exists(a)') =>
       \/ \E b \in Ids : Exists(b)' /\ users'[b].openid = users[a].openid
       \/ \E r \in doubled : req[r].pc = "delete" /\ req[r].me = a]_vars

(* TECH-mini program, 3.2: a merge gives the WeChat identity to the account   *)
(* that has the address and deletes the temporary one.  The identity of a    *)
(* deleted account leads to the other.                                     *)
MergeKeepsIdentity ==
  [][\A a \in Ids : (Exists(a) /\ ~Exists(a)') =>
       \E b \in Ids : Exists(b)' /\ users'[b].openid = users[a].openid]_vars
=============================================================================
