---------------------------- MODULE Accounts_proofs ----------------------------
(***************************************************************************)
(* Proofs about Accounts, for every set of addresses, identities, accounts   *)
(* and calls.                                                              *)
(*                                                                         *)
(* AddressesAreProven depends on what is in Redis and on what a call carries *)
(* to its INSERT or UPDATE.  The inductive invariant adds that a code is      *)
(* only ever found under the purpose it was mailed for (CodesServeTheirScene)*)
(* and, for each step of a call, what kind of call takes it, what it looks    *)
(* up, and that an address it may write has been proven (CallOK).           *)
(*                                                                         *)
(* LossNeedsTwoBinds needs an invariant of its own, about the calls of        *)
(* BindEmail that no other one crosses (BindsInv, last section).             *)
(***************************************************************************)
EXTENDS Accounts, TLAPS

CodesServeTheirScene ==
  \A e \in Emails, s \in Scenes : code[<<e, s>>] \in {None, s}

(* What a call with the record q may be at, when the addresses P are proven. *)
CallOK(q, P) ==
  /\ q \in Request
  /\ q.pc # "idle" =>
       /\ q.kind \in {"send", "register", "code", "reset", "bind", "password"}
            => q.cred \in Emails
       /\ q.kind = "wechat" => q.cred \in OpenIds
       /\ q.kind = "sso" => q.cred \in Subjects
       /\ q.kind \in {"bind", "change"} => q.me \in Ids
  /\ q.pc \in {"cool", "store", "mark", "mail"} => q.kind = "send" /\ q.scene \in Scenes
  /\ q.pc \in {"verify", "used"} =>
       q.kind \in {"register", "code", "reset", "bind"} /\ q.scene = SceneOf(q.kind)
  /\ q.pc = "me" => q.kind \in {"bind", "change"}
  /\ q.pc = "create" => q.kind \in {"register", "code", "wechat", "sso"}
  /\ q.pc \in {"bind", "move", "delete"} => q.kind = "bind"
  /\ q.pc \in {"write", "move"} => q.found \in Ids
  /\ (q.kind \in {"register", "code", "bind"} /\ q.pc \in {"used", "me", "find", "create", "bind"})
       => q.cred \in P

CallsOK == req \in [Requests -> Request] /\ \A r \in Requests : CallOK(req[r], proven)

UsersOK ==
  /\ users \in [Ids -> Account \cup {NoUser}]
  /\ OneAccountEach
  /\ AddressesAreProven
  /\ VerifiedByIdentity

IInv ==
  /\ CodesTypeOK /\ CodesServeTheirScene
  /\ gone \in SUBSET Ids /\ doubled \in SUBSET Requests
  /\ CallsOK
  /\ UsersOK

(* What every step leaves to be shown of the codes and the histories. *)
CodesInv == CodesTypeOK /\ CodesServeTheirScene

HistoriesOK == gone \in SUBSET Ids /\ doubled \in SUBSET Requests

-----------------------------------------------------------------------------
(* Addresses stay proven, and a call that is left alone stays as it was. *)
LEMMA CallKept ==
  ASSUME NEW q, NEW P, NEW Q, CallOK(q, P), P \subseteq Q
  PROVE  CallOK(q, Q)
BY DEF CallOK

LEMMA CallStep ==
  ASSUME CallsOK, NEW r \in Requests, NEW q, req' = [req EXCEPT ![r] = q],
         proven \subseteq proven', CallOK(q, proven')
  PROVE  CallsOK'
<1>1. q \in Request
  BY DEF CallOK
<1>2. ASSUME NEW s \in Requests PROVE CallOK(req'[s], proven')
  <2>1. CASE s = r
    BY <2>1 DEF CallsOK
  <2>2. CASE s # r
    <3>1. req'[s] = req[s] /\ CallOK(req[s], proven)
      BY <2>2 DEF CallsOK
    <3>2. QED
      BY <3>1, CallKept
  <2>3. QED
    BY <2>1, <2>2
<1>3. QED
  BY <1>1, <1>2 DEF CallsOK

LEMMA EndStep ==
  ASSUME IInv, NEW r \in Requests, End(r), proven \subseteq proven'
  PROVE  CallsOK' /\ doubled' \in SUBSET Requests
<1>1. CallOK(Idle, proven')
  BY DEF CallOK, Idle, Request, Kinds, Credentials
<1>2. QED
  BY <1>1, CallStep DEF IInv, End

(* A call moves on within its type. *)
LEMMA GotoStep ==
  ASSUME IInv, NEW r \in Requests, NEW pc, Goto(r, pc), proven \subseteq proven',
         pc \in {"store", "mark", "mail", "used", "me", "find", "create", "bind", "delete"},
         pc \in {"store", "mark", "mail"} => req[r].pc \in {"cool", "store", "mark"},
         pc = "used" => req[r].pc = "verify"
                        /\ (req[r].kind \in {"register", "code", "bind"} => req[r].cred \in proven'),
         pc = "me" => req[r].pc = "used" /\ req[r].kind = "bind",
         pc = "find" => req[r].pc \in {"used", "me"},
         pc = "create" => req[r].pc = "find" /\ req[r].kind \in {"register", "code", "wechat", "sso"},
         pc = "bind" => req[r].pc = "find" /\ req[r].kind = "bind",
         pc = "delete" => req[r].pc = "move"
  PROVE  CallsOK'
<1> DEFINE old == req[r]
           q == [pc |-> pc, kind |-> old.kind, cred |-> old.cred, scene |-> old.scene,
                 me |-> old.me, openid |-> old.openid, found |-> old.found]
<1>1. req \in [Requests -> Request] /\ CallOK(old, proven)
  BY DEF IInv, CallsOK
<1>2. old \in Request
  BY <1>1
<1>3. [old EXCEPT !.pc = pc] = q
  BY <1>2 DEF Request
<1>4. req' = [req EXCEPT ![r] = q]
  BY <1>1, <1>3 DEF Goto
<1>5. CallOK(q, proven')
  BY <1>1, <1>2 DEF CallOK, Request
<1>6. QED
  BY <1>4, <1>5, CallStep DEF IInv

-----------------------------------------------------------------------------
(* The rows of table users. *)
LEMMA UsersKept ==
  ASSUME UsersOK, UNCHANGED users, proven \subseteq proven'
  PROVE  UsersOK'
BY DEF UsersOK, OneAccountEach, AddressesAreProven, VerifiedByIdentity, Exists

LEMMA UsersWritten ==
  ASSUME UsersOK, NEW a \in Ids, NEW new \in Account,
         users' = [users EXCEPT ![a] = new], proven \subseteq proven',
         new.email # None => new.email \in proven',
         new.verified <=> new.email # None \/ new.subject # None,
         \A field \in {"email", "openid", "subject"} :
           new[field] # None => Holders(field, new[field]) \subseteq {a}
  PROVE  UsersOK'
<1> USE AccountsAssumption
<1>1. /\ users' \in [Ids -> Account \cup {NoUser}] /\ users'[a] = new
      /\ \A b \in Ids : b # a => users'[b] = users[b]
  BY DEF UsersOK
<1>2. OneAccountEach'
  <2> SUFFICES ASSUME NEW b \in Ids, NEW c \in Ids,
                      NEW field \in {"email", "openid", "subject"},
                      Exists(b)', Exists(c)', users'[b][field] # None,
                      users'[b][field] = users'[c][field]
               PROVE  b = c
    BY DEF OneAccountEach
  <2>1. CASE b # a /\ c # a
    BY <1>1, <2>1 DEF UsersOK, OneAccountEach, Exists
  <2>2. CASE b = a /\ c # a
    BY <1>1, <2>2 DEF Holders, Exists
  <2>3. CASE b # a /\ c = a
    BY <1>1, <2>3 DEF Holders, Exists
  <2>4. QED
    BY <2>1, <2>2, <2>3
<1>3. AddressesAreProven'
  BY <1>1 DEF UsersOK, AddressesAreProven, Exists
<1>4. VerifiedByIdentity'
  BY <1>1 DEF UsersOK, VerifiedByIdentity, Exists
<1>5. QED
  BY <1>1, <1>2, <1>3, <1>4 DEF UsersOK

-----------------------------------------------------------------------------
(* The record of a call that comes in. *)
LEMMA CalledRecord ==
  ASSUME NEW r \in Requests, NEW kind, NEW cred, NEW scene, NEW me, NEW pc,
         Called(r, kind, cred, scene, me, pc)
  PROVE  /\ UNCHANGED <<codes, users, gone>>
         /\ req' = [req EXCEPT ![r] = [pc |-> pc, kind |-> kind, cred |-> cred,
                      scene |-> scene, me |-> me, openid |-> None, found |-> None]]
<1> DEFINE a == [Idle EXCEPT !.pc = pc]
           b == [a EXCEPT !.kind = kind]
           c == [b EXCEPT !.cred = cred]
           d == [c EXCEPT !.scene = scene]
           e == [d EXCEPT !.me = me]
<1>1. UNCHANGED <<codes, users, gone>> /\ req' = [req EXCEPT ![r] = e]
  BY DEF Called
<1>2. a = [pc |-> pc, kind |-> "send", cred |-> None, scene |-> None,
           me |-> None, openid |-> None, found |-> None]
  BY DEF Idle
<1> HIDE DEF a
<1>3. b = [pc |-> pc, kind |-> kind, cred |-> None, scene |-> None,
           me |-> None, openid |-> None, found |-> None]
  BY <1>2
<1> HIDE DEF b
<1>4. c = [pc |-> pc, kind |-> kind, cred |-> cred, scene |-> None,
           me |-> None, openid |-> None, found |-> None]
  BY <1>3
<1> HIDE DEF c
<1>5. d = [pc |-> pc, kind |-> kind, cred |-> cred, scene |-> scene,
           me |-> None, openid |-> None, found |-> None]
  BY <1>4
<1> HIDE DEF d
<1>6. e = [pc |-> pc, kind |-> kind, cred |-> cred, scene |-> scene,
           me |-> me, openid |-> None, found |-> None]
  BY <1>5
<1> HIDE DEF e
<1>7. QED
  BY <1>1, <1>6

(* A call comes in: it has proven nothing yet. *)
LEMMA CalledInv ==
  ASSUME IInv, NEW r \in Requests, NEW kind, NEW cred, NEW scene, NEW me, NEW pc,
         Called(r, kind, cred, scene, me, pc), doubled' \in SUBSET Requests,
         CallOK([pc |-> pc, kind |-> kind, cred |-> cred, scene |-> scene, me |-> me,
                 openid |-> None, found |-> None], proven)
  PROVE  IInv'
<1>1. /\ UNCHANGED <<codes, users, gone>>
      /\ req' = [req EXCEPT ![r] = [pc |-> pc, kind |-> kind, cred |-> cred,
                   scene |-> scene, me |-> me, openid |-> None, found |-> None]]
  BY CalledRecord
<1>2. CallsOK'
  BY <1>1, CallStep DEF IInv, codes
<1>3. UsersOK'
  BY <1>1, UsersKept DEF IInv, codes
<1>4. QED
  BY <1>1, <1>2, <1>3 DEF IInv, codes, CodesTypeOK, CodesServeTheirScene

LEMMA ArriveInv ==
  ASSUME IInv, NEW r \in Requests, Arrive(r)
  PROVE  IInv'
<1> USE AccountsAssumption
<1> DEFINE New(pc, kind, cred, scene, me) ==
             [pc |-> pc, kind |-> kind, cred |-> cred, scene |-> scene, me |-> me,
              openid |-> None, found |-> None]
<1> USE DEF CallOK, Request, Kinds, Credentials
<1>1. doubled \in SUBSET Requests
  BY DEF IInv
<1>2. ASSUME NEW e \in Emails, NEW s \in Scenes \cup {"other"}, SendCode(r, e, s)
      PROVE  IInv'
  <2>1. s \in Scenes /\ CallOK(New("cool", "send", e, s, None), proven)
    BY <1>2 DEF SendCode, KnownScene
  <2>2. QED
    BY <1>1, <1>2, <2>1, CalledInv DEF SendCode
<1>3. ASSUME NEW e \in Emails, NEW kind \in {"register", "code", "reset"},
             WithCode(r, kind, e)
      PROVE  IInv'
  <2>1. CallOK(New("verify", kind, e, SceneOf(kind), None), proven)
    BY DEF SceneOf, Scenes
  <2>2. QED
    BY <1>1, <1>3, <2>1, CalledInv DEF WithCode
<1>4. ASSUME NEW e \in Emails, WithCredential(r, "password", e)
      PROVE  IInv'
  <2>1. CallOK(New("find", "password", e, None, None), proven)
    OBVIOUS
  <2>2. QED
    BY <1>1, <1>4, <2>1, CalledInv DEF WithCredential
<1>5. ASSUME NEW e \in Emails, NEW a \in Ids, BindEmail(r, a, e)
      PROVE  IInv'
  <2>1. CallOK(New("verify", "bind", e, "bind", a), proven)
    BY DEF SceneOf, Scenes
  <2>2. doubled' \in SUBSET Requests
    BY <1>1, <1>5 DEF BindEmail, BindsOf
  <2>3. QED
    BY <1>5, <2>1, <2>2, CalledInv DEF BindEmail
<1>6. ASSUME NEW w \in OpenIds, WithCredential(r, "wechat", w)
      PROVE  IInv'
  <2>1. CallOK(New("find", "wechat", w, None, None), proven)
    OBVIOUS
  <2>2. QED
    BY <1>1, <1>6, <2>1, CalledInv DEF WithCredential
<1>7. ASSUME NEW s \in Subjects, WithCredential(r, "sso", s)
      PROVE  IInv'
  <2>1. CallOK(New("find", "sso", s, None, None), proven)
    OBVIOUS
  <2>2. QED
    BY <1>1, <1>7, <2>1, CalledInv DEF WithCredential
<1>8. ASSUME NEW a \in Ids, ChangePassword(r, a)
      PROVE  IInv'
  <2>1. CallOK(New("me", "change", None, None, a), proven)
    OBVIOUS
  <2>2. QED
    BY <1>1, <1>8, <2>1, CalledInv DEF ChangePassword
<1>9. QED
  BY <1>2, <1>3, <1>4, <1>5, <1>6, <1>7, <1>8 DEF Arrive

-----------------------------------------------------------------------------
(* The steps that deal with Redis and the mail. *)
LEMMA CodeStep ==
  ASSUME IInv, NEW r \in Requests, UNCHANGED <<users, gone>>, CodesInv',
         CallsOK', doubled' \in SUBSET Requests, proven \subseteq proven'
  PROVE  IInv'
BY UsersKept DEF IInv, CodesInv

LEMMA CallTypes ==
  ASSUME IInv, NEW r \in Requests
  PROVE  req[r] \in Request /\ CallOK(req[r], proven)
BY DEF IInv, CallsOK

LEMMA CoolInv ==
  ASSUME IInv, NEW r \in Requests, Cool(r)
  PROVE  IInv'
<1>1. UNCHANGED <<codes, users, gone, doubled>> /\ Goto(r, "store") /\ req[r].pc = "cool"
  BY DEF Cool
<1>2. CallsOK'
  BY <1>1, GotoStep DEF codes
<1>3. QED
  BY <1>1, <1>2, CodeStep DEF codes, CodesInv, IInv, CodesTypeOK, CodesServeTheirScene

LEMMA StoreInv ==
  ASSUME IInv, NEW r \in Requests, Store(r)
  PROVE  IInv'
<1>1. /\ UNCHANGED <<users, gone, doubled, proven, cooldown>> /\ Goto(r, "mark")
      /\ req[r].pc = "store" /\ req[r].cred \in Emails /\ req[r].scene \in Scenes
  BY CallTypes DEF Store, StoreCode, CallOK
<1> DEFINE k == <<req[r].cred, req[r].scene>>
<1>2. /\ code' = [code EXCEPT ![k] = None] /\ k \in Keys
      /\ unsent' = NotAt(k) \cup {[by |-> r, key |-> k]}
  BY <1>1 DEF Store, StoreCode, CodeKey, Keys
<1>3. CallsOK'
  BY <1>1, GotoStep
<1>4. CodesInv'
  BY <1>1, <1>2 DEF IInv, CodesInv, CodesTypeOK, CodesServeTheirScene, Unsent, NotAt, Keys
<1>5. QED
  BY <1>1, <1>3, <1>4, CodeStep DEF IInv

LEMMA MarkInv ==
  ASSUME IInv, NEW r \in Requests, Mark(r)
  PROVE  IInv'
<1>1. /\ UNCHANGED <<users, gone, doubled, proven, code, unsent>> /\ Goto(r, "mail")
      /\ req[r].pc = "mark" /\ req[r].cred \in Emails
      /\ cooldown' \in {cooldown, cooldown \cup {req[r].cred}}
  BY CallTypes DEF Mark, MarkCooldown, CallOK
<1>2. CallsOK'
  BY <1>1, GotoStep
<1>3. CodesInv'
  BY <1>1 DEF IInv, CodesInv, CodesTypeOK, CodesServeTheirScene
<1>4. QED
  BY <1>1, <1>2, <1>3, CodeStep DEF IInv

LEMMA MailInv ==
  ASSUME IInv, NEW r \in Requests, Mail(r)
  PROVE  IInv'
<1>1. /\ UNCHANGED <<users, gone, proven, cooldown>> /\ End(r)
      /\ req[r].cred \in Emails /\ req[r].scene \in Scenes
  BY CallTypes DEF Mail, MailCode, CallOK
<1> DEFINE k == <<req[r].cred, req[r].scene>>
<1>2. /\ code' = code \/ code' = [code EXCEPT ![k] = req[r].scene]
      /\ unsent' \subseteq unsent /\ k \in Keys
  BY <1>1 DEF Mail, MailCode, CodeKey, Keys
<1>3. CallsOK' /\ doubled' \in SUBSET Requests
  BY <1>1, EndStep
<1>4. CodesInv'
  BY <1>1, <1>2 DEF IInv, CodesInv, CodesTypeOK, CodesServeTheirScene, Keys
<1>5. QED
  BY <1>1, <1>3, <1>4, CodeStep DEF IInv

(* Verify: the code that is there was mailed for the purpose of the call. *)
LEMMA VerifyInv ==
  ASSUME IInv, NEW r \in Requests, Verify(r)
  PROVE  IInv'
<1> USE AccountsAssumption
<1> DEFINE e == req[r].cred
           s == req[r].scene
<1>1. /\ UNCHANGED <<users, gone, doubled, code, unsent, cooldown>> /\ Goto(r, "used")
      /\ req[r].pc = "verify" /\ req[r].kind \in {"register", "code", "reset", "bind"}
      /\ e \in Emails /\ s = SceneOf(req[r].kind)
  BY CallTypes DEF Verify, ReadCode, CallOK
<1>2. s \in Scenes /\ (s = "reset" => req[r].kind = "reset")
  BY <1>1 DEF SceneOf, Scenes
<1>3. code[<<e, s>>] = s
  BY <1>1, <1>2 DEF IInv, CodesServeTheirScene, Verify, ReadCode, CodeKey
<1>4. proven' = IF s # "reset" THEN proven \cup {e} ELSE proven
  BY <1>3 DEF Verify, ReadCode, CodeKey
<1>5. CallsOK'
  <2>1. req[r].kind \in {"register", "code", "bind"} => e \in proven'
    BY <1>2, <1>4
  <2>2. QED
    BY <1>1, <1>4, <2>1, GotoStep
<1>6. CodesInv'
  BY <1>1, <1>4 DEF IInv, CodesInv, CodesTypeOK, CodesServeTheirScene
<1>7. QED
  BY <1>1, <1>4, <1>5, <1>6, CodeStep DEF IInv

LEMMA UseInv ==
  ASSUME IInv, NEW r \in Requests, Use(r)
  PROVE  IInv'
<1>1. /\ UNCHANGED <<users, gone, doubled, proven, cooldown>>
      /\ Goto(r, IF req[r].kind = "bind" THEN "me" ELSE "find")
      /\ req[r].pc = "used" /\ req[r].cred \in Emails
      /\ req[r].kind \in {"register", "code", "reset", "bind"}
      /\ req[r].scene \in Scenes
  BY CallTypes DEF Use, DropCode, CallOK, SceneOf, Scenes
<1> DEFINE k == <<req[r].cred, req[r].scene>>
<1>2. /\ k \in Keys
      /\ code' = code \/ code' = [code EXCEPT ![k] = None]
      /\ unsent' \subseteq unsent
  BY <1>1 DEF Use, DropCode, CodeKey, Keys, NotAt
<1>3. CallsOK'
  BY <1>1, GotoStep
<1>4. CodesInv'
  BY <1>1, <1>2 DEF IInv, CodesInv, CodesTypeOK, CodesServeTheirScene, Keys
<1>5. QED
  BY <1>1, <1>3, <1>4, CodeStep DEF IInv

LEMMA FailInv ==
  ASSUME IInv, NEW r \in Requests, Fail(r)
  PROVE  IInv'
<1>1. /\ UNCHANGED <<users, gone, proven, cooldown, code>> /\ End(r)
      /\ unsent' \subseteq unsent
  BY DEF Fail, ForgetCode
<1>2. CallsOK' /\ doubled' \in SUBSET Requests
  BY <1>1, EndStep
<1>3. CodesInv'
  BY <1>1 DEF IInv, CodesInv, CodesTypeOK, CodesServeTheirScene
<1>4. QED
  BY <1>1, <1>2, <1>3, CodeStep DEF IInv

LEMMA ExpiresInv ==
  ASSUME IInv, UNCHANGED <<users, gone, req, doubled>>,
         \/ \E k \in Keys : CodeExpires(k)
         \/ \E e \in Emails : CooldownExpires(e)
  PROVE  IInv'
<1>1. UNCHANGED proven /\ unsent' = unsent /\ cooldown' \subseteq cooldown
  BY DEF CodeExpires, CooldownExpires
<1>2. code' = code \/ \E k \in Keys : code' = [code EXCEPT ![k] = None]
  BY DEF CodeExpires, CooldownExpires
<1>3. CodesInv'
  BY <1>1, <1>2 DEF IInv, CodesInv, CodesTypeOK, CodesServeTheirScene, Keys
<1>4. CallsOK' /\ UsersOK'
  BY <1>1, UsersKept DEF IInv, CallsOK
<1>5. QED
  BY <1>3, <1>4 DEF IInv, CodesInv

-----------------------------------------------------------------------------
(* The steps that read and write the rows of users. *)
LEMMA RowStep ==
  ASSUME IInv, UNCHANGED <<codes, gone>>, CallsOK', UsersOK', doubled' \in SUBSET Requests
  PROVE  IInv'
BY DEF IInv, codes, CodesTypeOK, CodesServeTheirScene

LEMMA RowType ==
  ASSUME IInv, NEW a \in Ids, Exists(a)
  PROVE  users[a] \in Account
BY DEF IInv, UsersOK, Exists

(* A row keeps its identities: those it has are nobody else's. *)
LEMMA OwnValues ==
  ASSUME IInv, NEW a \in Ids, Exists(a), NEW field \in {"email", "openid", "subject"},
         users[a][field] # None
  PROVE  Holders(field, users[a][field]) \subseteq {a}
BY DEF IInv, UsersOK, OneAccountEach, Holders

LEMMA SameCodes ==
  ASSUME UNCHANGED codes
  PROVE  proven' = proven
BY DEF codes

(* An account that is there has its flag set, or a password. *)
LEMMA FlagWritten ==
  ASSUME IInv, NEW a \in Ids, Exists(a), users[a].email # None,
         users' = [users EXCEPT ![a].verified = TRUE], UNCHANGED proven
  PROVE  UsersOK'
<1> DEFINE new == [users[a] EXCEPT !.verified = TRUE]
<1>1. users[a] \in Account
  BY RowType
<1>2. /\ new \in Account /\ new.email = users[a].email /\ new.openid = users[a].openid
      /\ new.subject = users[a].subject /\ new.verified = TRUE
  BY <1>1 DEF Account
<1>3. users' = [users EXCEPT ![a] = new]
  OBVIOUS
<1> HIDE DEF new
<1>4. new.email # None => new.email \in proven'
  BY <1>2 DEF IInv, UsersOK, AddressesAreProven
<1>5. \A field \in {"email", "openid", "subject"} :
        new[field] # None => Holders(field, new[field]) \subseteq {a}
  BY <1>2, OwnValues
<1>6. QED
  BY <1>2, <1>3, <1>4, <1>5, UsersWritten DEF IInv

LEMMA PasswordWritten ==
  ASSUME IInv, NEW a \in Ids, Exists(a),
         users' = [users EXCEPT ![a].password = TRUE], UNCHANGED proven
  PROVE  UsersOK'
<1> DEFINE new == [users[a] EXCEPT !.password = TRUE]
<1>1. users[a] \in Account
  BY RowType
<1>2. /\ new \in Account /\ new.email = users[a].email /\ new.openid = users[a].openid
      /\ new.subject = users[a].subject /\ new.verified = users[a].verified
  BY <1>1 DEF Account
<1>3. users' = [users EXCEPT ![a] = new]
  OBVIOUS
<1> HIDE DEF new
<1>4. new.email # None => new.email \in proven'
  BY <1>2 DEF IInv, UsersOK, AddressesAreProven
<1>5. new.verified <=> new.email # None \/ new.subject # None
  BY <1>2 DEF IInv, UsersOK, VerifiedByIdentity
<1>6. \A field \in {"email", "openid", "subject"} :
        new[field] # None => Holders(field, new[field]) \subseteq {a}
  BY <1>2, OwnValues
<1>7. QED
  BY <1>2, <1>3, <1>4, <1>5, <1>6, UsersWritten DEF IInv

(* A call goes on to write to the row it has found. *)
LEMMA FoundStep ==
  ASSUME IInv, NEW r \in Requests, NEW a \in Ids, NEW pc \in {"write", "move"},
         req[r].pc # "idle", pc = "move" => req[r].kind = "bind",
         req' = [req EXCEPT ![r].pc = pc, ![r].found = a], UNCHANGED proven
  PROVE  CallsOK'
<1> DEFINE old == req[r]
           half == [old EXCEPT !.pc = pc]
           q == [pc |-> pc, kind |-> old.kind, cred |-> old.cred, scene |-> old.scene,
                 me |-> old.me, openid |-> old.openid, found |-> a]
<1>1. old \in Request /\ CallOK(old, proven) /\ req \in [Requests -> Request]
  BY CallTypes DEF IInv, CallsOK
<1>2. half = [pc |-> pc, kind |-> old.kind, cred |-> old.cred, scene |-> old.scene,
              me |-> old.me, openid |-> old.openid, found |-> old.found]
  BY <1>1 DEF Request
<1>3. req' = [req EXCEPT ![r] = [half EXCEPT !.found = a]]
  BY <1>1
<1> HIDE DEF half
<1>4. [half EXCEPT !.found = a] = q
  BY <1>2
<1>5. CallOK(q, proven')
  BY <1>1 DEF CallOK, Request
<1>6. QED
  BY <1>3, <1>4, <1>5, CallStep DEF IInv

LEMMA FindSomeInv ==
  ASSUME IInv, NEW r \in Requests, FindSome(r)
  PROVE  IInv'
<1> USE AccountsAssumption
<1>1. PICK a \in Holders(Field(req[r].kind), req[r].cred) :
        IF req[r].kind = "reset"
        THEN /\ req' = [req EXCEPT ![r].pc = "write", ![r].found = a]
             /\ UNCHANGED <<users, doubled>>
        ELSE /\ \/ UNCHANGED users
                \/ req[r].kind = "code" /\ users' = [users EXCEPT ![a].verified = TRUE]
             /\ End(r)
  BY DEF FindSome
<1>2. /\ req[r].pc = "find" /\ UNCHANGED <<codes, gone>> /\ proven' = proven
      /\ a \in Ids /\ Exists(a) /\ users[a][Field(req[r].kind)] = req[r].cred
      /\ CallOK(req[r], proven)
  BY <1>1, SameCodes, CallTypes DEF FindSome, Holders
<1>3. CASE req[r].kind = "reset"
  <2>1. CallsOK' /\ UsersOK' /\ doubled' = doubled
    BY <1>1, <1>2, <1>3, FoundStep, UsersKept DEF IInv
  <2>2. QED
    BY <1>2, <2>1, RowStep DEF IInv
<1>4. CASE req[r].kind # "reset"
  <2>1. CallsOK' /\ doubled' \in SUBSET Requests
    BY <1>1, <1>2, <1>4, EndStep
  <2>2. CASE UNCHANGED users
    BY <1>2, <2>1, <2>2, UsersKept, RowStep DEF IInv
  <2>3. CASE req[r].kind = "code" /\ users' = [users EXCEPT ![a].verified = TRUE]
    <3>1. users[a].email = req[r].cred /\ req[r].cred \in Emails
      BY <1>2, <2>3 DEF Field, CallOK
    <3>2. UsersOK'
      BY <1>2, <2>3, <3>1, FlagWritten
    <3>3. QED
      BY <1>2, <2>1, <3>2, RowStep
  <2>4. QED
    BY <1>1, <1>4, <2>2, <2>3
<1>5. QED
  BY <1>3, <1>4

LEMMA FindNoneInv ==
  ASSUME IInv, NEW r \in Requests, FindNone(r) \/ FindNobody(r)
  PROVE  IInv'
<1>1. UNCHANGED <<codes, users, gone, doubled>> /\ proven' = proven
  BY SameCodes DEF FindNone, FindNobody
<1>2. CallsOK'
  BY <1>1, GotoStep DEF FindNone, FindNobody
<1>3. QED
  BY <1>1, <1>2, UsersKept, RowStep DEF IInv

(* The row Register and the first logins insert. *)
LEMMA CreateInv ==
  ASSUME IInv, NEW r \in Requests, NEW a \in Ids, Create(r, a)
  PROVE  IInv'
<1> USE AccountsAssumption
<1> DEFINE kind == req[r].kind
           cred == req[r].cred
           new == NewAccount(kind, cred)
<1>1. /\ UNCHANGED <<codes, gone>> /\ proven' = proven /\ End(r)
      /\ Free(Field(kind), cred, {})
      /\ users' = [users EXCEPT ![a] = new] /\ req[r].pc = "create"
      /\ CallOK(req[r], proven)
  BY SameCodes, CallTypes DEF Create
<1>2. /\ kind \in {"register", "code"} => cred \in Emails /\ cred \in proven
      /\ kind = "wechat" => cred \in OpenIds
      /\ kind = "sso" => cred \in Subjects
      /\ kind \in {"register", "code", "wechat", "sso"}
  BY <1>1 DEF CallOK
<1>3. /\ new \in Account
      /\ new.email = IF kind \in {"register", "code"} THEN cred ELSE None
      /\ new.openid = IF kind = "wechat" THEN cred ELSE None
      /\ new.subject = IF kind = "sso" THEN cred ELSE None
      /\ new.verified = (kind # "wechat")
  BY <1>2 DEF NewAccount, Account
<1> HIDE DEF new
<1>4. \A field \in {"email", "openid", "subject"} :
        new[field] # None => Holders(field, new[field]) \subseteq {a}
  BY <1>1, <1>2, <1>3 DEF Free, Field
<1>5. /\ new.email # None => new.email \in proven'
      /\ new.verified <=> new.email # None \/ new.subject # None
  BY <1>1, <1>2, <1>3
<1>6. UsersOK'
  BY <1>1, <1>3, <1>4, <1>5, UsersWritten DEF IInv
<1>7. CallsOK' /\ doubled' \in SUBSET Requests
  BY <1>1, EndStep
<1>8. QED
  BY <1>1, <1>6, <1>7, RowStep

LEMMA WritePasswordInv ==
  ASSUME IInv, NEW r \in Requests, WritePassword(r)
  PROVE  IInv'
<1>1. /\ UNCHANGED <<codes, gone>> /\ proven' = proven /\ End(r)
      /\ req[r].pc = "write" /\ req[r].found \in Ids
  BY SameCodes, CallTypes DEF WritePassword, CallOK
<1>2. UsersOK'
  BY <1>1, UsersKept, PasswordWritten DEF IInv, WritePassword
<1>3. QED
  BY <1>1, <1>2, EndStep, RowStep

(* BindEmail has found its caller. *)
LEMMA FindMeInv ==
  ASSUME IInv, NEW r \in Requests, FindMe(r)
  PROVE  IInv'
<1> USE AccountsAssumption
<1> DEFINE old == req[r]
           a == old.me
<1>1. /\ UNCHANGED <<codes, gone>> /\ proven' = proven /\ old.pc = "me" /\ Exists(a)
      /\ old.kind \in {"bind", "change"} /\ a \in Ids
      /\ old \in Request /\ CallOK(old, proven)
  BY SameCodes, CallTypes DEF FindMe, CallOK
<1>2. CASE old.kind = "change"
  <2>1. CallsOK' /\ UsersOK' /\ doubled' = doubled
    BY <1>1, <1>2, FoundStep, UsersKept DEF IInv, FindMe
  <2>2. QED
    BY <1>1, <2>1, RowStep DEF IInv
<1>3. CASE old.kind = "bind" /\ AlreadyBound(a, old.cred)
  <2>1. End(r) /\ users' \in {users, [users EXCEPT ![a].verified = TRUE]}
    BY <1>1, <1>3 DEF FindMe
  <2>2. users[a].email = old.cred /\ old.cred \in Emails
    BY <1>1, <1>3 DEF AlreadyBound, CallOK
  <2>3. UsersOK'
    BY <1>1, <2>1, <2>2, UsersKept, FlagWritten DEF IInv
  <2>4. QED
    BY <1>1, <2>1, <2>3, EndStep, RowStep
<1>4. CASE old.kind = "bind" /\ ~AlreadyBound(a, old.cred)
  <2>1. /\ UNCHANGED <<users, doubled>>
        /\ req' = [req EXCEPT ![r].pc = "find", ![r].openid = users[a].openid]
    BY <1>1, <1>4 DEF FindMe
  <2>2. users[a].openid \in OpenIds \cup {None}
    BY <1>1, RowType DEF Account
  <2> DEFINE half == [old EXCEPT !.pc = "find"]
             q == [pc |-> "find", kind |-> old.kind, cred |-> old.cred,
                   scene |-> old.scene, me |-> old.me, openid |-> users[a].openid,
                   found |-> old.found]
  <2>3. half = [pc |-> "find", kind |-> old.kind, cred |-> old.cred,
                scene |-> old.scene, me |-> old.me, openid |-> old.openid,
                found |-> old.found]
    BY <1>1 DEF Request
  <2>4. req' = [req EXCEPT ![r] = [half EXCEPT !.openid = users[a].openid]]
    BY <2>1 DEF IInv, CallsOK
  <2> HIDE DEF half
  <2>5. [half EXCEPT !.openid = users[a].openid] = q
    BY <2>3
  <2>6. CallOK(q, proven')
    BY <1>1, <1>4, <2>2 DEF CallOK, Request
  <2>7. CallsOK'
    BY <1>1, <2>4, <2>5, <2>6, CallStep DEF IInv
  <2>8. QED
    BY <1>1, <2>1, <2>7, UsersKept, RowStep DEF IInv
<1>5. QED
  BY <1>1, <1>2, <1>3, <1>4

(* The unique index lets nobody else have the address by now. *)
LEMMA WriteEmailInv ==
  ASSUME IInv, NEW r \in Requests, WriteEmail(r)
  PROVE  IInv'
<1> USE AccountsAssumption
<1> DEFINE a == req[r].me
           e == req[r].cred
           new == Bound(a, e)
<1>1. /\ UNCHANGED <<codes, gone>> /\ proven' = proven /\ End(r)
      /\ Free("email", e, {a}) /\ a \in Ids /\ e \in Emails /\ e \in proven
      /\ users' = IF Exists(a) THEN [users EXCEPT ![a] = new] ELSE users
  BY SameCodes, CallTypes DEF WriteEmail, CallOK
<1>2. CASE ~Exists(a)
  BY <1>1, <1>2, UsersKept, EndStep, RowStep DEF IInv
<1>3. CASE Exists(a)
  <2>1. users[a] \in Account
    BY <1>1, <1>3, RowType
  <2> DEFINE half == [users[a] EXCEPT !.email = e]
  <2>2. half \in Account /\ half.email = e /\ half.openid = users[a].openid
        /\ half.subject = users[a].subject
    BY <1>1, <2>1 DEF Account
  <2>3. new = [half EXCEPT !.verified = TRUE]
    BY DEF Bound
  <2> HIDE DEF half
  <2>4. /\ new \in Account /\ new.email = e /\ new.openid = users[a].openid
        /\ new.subject = users[a].subject /\ new.verified = TRUE
    BY <2>2, <2>3 DEF Account
  <2> HIDE DEF new
  <2>5. \A field \in {"email", "openid", "subject"} :
          new[field] # None => Holders(field, new[field]) \subseteq {a}
    BY <1>1, <1>3, <2>4, OwnValues DEF Free
  <2>6. UsersOK'
    BY <1>1, <1>3, <2>4, <2>5, UsersWritten DEF IInv
  <2>7. QED
    BY <1>1, <2>6, EndStep, RowStep
<1>4. QED
  BY <1>2, <1>3

LEMMA FindOtherInv ==
  ASSUME IInv, NEW r \in Requests, FindOther(r)
  PROVE  IInv'
<1>1. UNCHANGED <<codes, users, gone, doubled>> /\ proven' = proven
  BY SameCodes DEF FindOther
<1>2. PICK a \in Ids : req' = [req EXCEPT ![r].pc = "move", ![r].found = a]
  BY DEF FindOther, Holders
<1>3. CallsOK'
  BY <1>1, <1>2, FoundStep DEF FindOther
<1>4. QED
  BY <1>1, <1>3, UsersKept, RowStep DEF IInv

LEMMA MoveInv ==
  ASSUME IInv, NEW r \in Requests, Move(r)
  PROVE  IInv'
<1> USE AccountsAssumption
<1> DEFINE a == req[r].found
           w == req[r].openid
           new == [users[a] EXCEPT !.openid = w]
<1>1. /\ UNCHANGED <<codes, gone>> /\ proven' = proven /\ Goto(r, "delete")
      /\ doubled' \in SUBSET Requests
      /\ req[r].pc = "move" /\ Free("openid", w, {a}) /\ a \in Ids
      /\ w \in OpenIds \cup {None}
      /\ users' = IF Exists(a) THEN [users EXCEPT ![a] = new] ELSE users
  BY SameCodes, CallTypes DEF Move, CallOK, Request, BindsOf, IInv
<1>2. CallsOK'
  BY <1>1, GotoStep
<1>3. CASE ~Exists(a)
  BY <1>1, <1>2, <1>3, UsersKept, RowStep DEF IInv
<1>4. CASE Exists(a)
  <2>1. users[a] \in Account
    BY <1>1, <1>4, RowType
  <2>2. /\ new \in Account /\ new.email = users[a].email /\ new.openid = w
        /\ new.subject = users[a].subject /\ new.verified = users[a].verified
    BY <1>1, <2>1 DEF Account
  <2> HIDE DEF new
  <2>3. \A field \in {"email", "openid", "subject"} :
          new[field] # None => Holders(field, new[field]) \subseteq {a}
    BY <1>1, <1>4, <2>2, OwnValues DEF Free
  <2>4. /\ new.email # None => new.email \in proven'
        /\ new.verified <=> new.email # None \/ new.subject # None
    BY <1>1, <1>4, <2>2 DEF IInv, UsersOK, AddressesAreProven, VerifiedByIdentity
  <2>5. UsersOK'
    BY <1>1, <1>4, <2>2, <2>3, <2>4, UsersWritten DEF IInv
  <2>6. QED
    BY <1>1, <1>2, <2>5, RowStep DEF IInv
<1>5. QED
  BY <1>3, <1>4

LEMMA DeleteMeInv ==
  ASSUME IInv, NEW r \in Requests, DeleteMe(r)
  PROVE  IInv'
<1> DEFINE a == req[r].me
<1>1. /\ UNCHANGED codes /\ proven' = proven /\ End(r) /\ a \in Ids
      /\ users' = [users EXCEPT ![a] = NoUser] /\ gone' = gone \cup {a}
  BY SameCodes, CallTypes DEF DeleteMe, CallOK
<1>2. UsersOK'
  BY <1>1 DEF IInv, UsersOK, OneAccountEach, AddressesAreProven, VerifiedByIdentity, Exists
<1>3. CallsOK' /\ doubled' \in SUBSET Requests
  BY <1>1, EndStep
<1>4. QED
  BY <1>1, <1>2, <1>3 DEF IInv, codes, CodesTypeOK, CodesServeTheirScene

-----------------------------------------------------------------------------
LEMMA InitIInv == Init => IInv
<1> SUFFICES ASSUME Init PROVE IInv
  OBVIOUS
<1>1. CodesTypeOK /\ CodesServeTheirScene
  BY DEF Init, CodesInit, CodesTypeOK, CodesServeTheirScene, Keys
<1>2. CallOK(Idle, proven)
  BY DEF CallOK, Idle, Request, Kinds, Credentials
<1>3. CallsOK
  BY <1>2 DEF Init, CallsOK, CallOK
<1>4. UsersOK
  BY DEF Init, UsersOK, OneAccountEach, AddressesAreProven, VerifiedByIdentity, Exists
<1>5. QED
  BY <1>1, <1>3, <1>4 DEF IInv, Init

LEMMA NextIInv == IInv /\ [Next]_vars => IInv'
<1> SUFFICES ASSUME IInv, [Next]_vars PROVE IInv'
  OBVIOUS
<1>1. ASSUME NEW r \in Requests, Work(r) PROVE IInv'
  BY <1>1, CoolInv, StoreInv, MarkInv, MailInv, VerifyInv, UseInv, FindSomeInv,
     FindNoneInv, CreateInv, WritePasswordInv, FindMeInv, WriteEmailInv, FindOtherInv,
     MoveInv, DeleteMeInv, FailInv DEF Work
<1>2. CASE UNCHANGED vars
  <2>1. proven' = proven /\ CodesInv'
    BY <1>2 DEF vars, codes, IInv, CodesInv, CodesTypeOK, CodesServeTheirScene
  <2>2. CallsOK' /\ UsersOK'
    BY <1>2, <2>1, UsersKept DEF vars, IInv, CallsOK
  <2>3. QED
    BY <1>2, <2>1, <2>2 DEF vars, IInv, CodesInv
<1>3. QED
  BY <1>1, <1>2, ArriveInv, ExpiresInv DEF Next

LEMMA Invariance == Spec => []IInv
BY InitIInv, NextIInv, PTL DEF Spec

(* The tables, the keys of Redis and the calls keep their types. *)
THEOREM AccountTypes == Spec => []TypeOK
<1>1. IInv => TypeOK
  BY DEF IInv, CallsOK, UsersOK, TypeOK
<1>2. QED
  BY <1>1, Invariance, PTL

(* However many first logins, registrations, bindings and merges of the same  *)
(* address or identity run at once, it leads to one account.                 *)
THEOREM OneAccount == Spec => []OneAccountEach
<1>1. IInv => OneAccountEach
  BY DEF IInv, UsersOK
<1>2. QED
  BY <1>1, Invariance, PTL

(* Nobody has an address he has not read a code at, one mailed for the very   *)
(* purpose he entered it for, however calls of SendCode and Verify overlap.  *)
THEOREM AddressesProven == Spec => []AddressesAreProven
<1>1. IInv => AddressesAreProven
  BY DEF IInv, UsersOK
<1>2. QED
  BY <1>1, Invariance, PTL

(* The flag RequireVerified looks at is set on just the accounts with an      *)
(* address or a CAS identity, whichever calls made, bound and merged them.   *)
THEOREM FlagIsEarned == Spec => []VerifiedByIdentity
<1>1. IInv => VerifiedByIdentity
  BY DEF IInv, UsersOK
<1>2. QED
  BY <1>1, Invariance, PTL

-----------------------------------------------------------------------------
(* BindEmail.  A call that no other one crosses finds its own row as it read  *)
(* it: with the identity it carries and another address, hence not by the    *)
(* address it binds.  The UPDATE of mergeWechat then meets the unique index   *)
(* on wechat_open_id, so such a call deletes no row that is there.           *)
Binding(r) == req[r].kind = "bind"

OwnRow(r) ==
  LET q == req[r] IN
  /\ q.pc \in {"find", "bind", "move"} /\ Exists(q.me) =>
       users[q.me].openid = q.openid /\ users[q.me].email # q.cred
  /\ q.pc = "move" => q.openid # None /\ (Exists(q.me) => q.found # q.me)
  /\ q.pc = "delete" => ~Exists(q.me)

BindsInv ==
  /\ \A a \in gone : ~Exists(a)
  /\ \A r \in Requests : Binding(r) => req[r].me \in Ids /\ Known(req[r].me)
  /\ \A r, s \in Requests :
       r # s /\ Binding(r) /\ Binding(s) /\ req[r].me = req[s].me => r \in doubled
  /\ \A r \in Requests : Binding(r) /\ r \notin doubled => OwnRow(r)

(* A step leaves the identity and the address of row a alone. *)
Steady(a) ==
  /\ Exists(a)' <=> Exists(a)
  /\ Exists(a) => /\ users'[a].openid = users[a].openid
                  /\ users'[a].email = users[a].email

NobodyLost == \A a \in Ids : Exists(a) => Exists(a)'

(* Call r does a step, and for calls that remain uncrossed their rows are     *)
(* steady.                                                                 *)
LEMMA BindsStep ==
  ASSUME BindsInv, NEW r \in Requests,
         \A s \in Requests : s # r => req'[s] = req[s],
         doubled \ {r} \subseteq doubled',
         \A a \in gone' : ~Exists(a)',
         \A a \in Ids : Known(a) => Known(a)',
         \A s \in Requests :
           s # r /\ Binding(s) /\ s \notin doubled' => Steady(req[s].me),
         Binding(r)' => /\ Binding(r) /\ req'[r].me = req[r].me
                        /\ r \in doubled => r \in doubled'
                        /\ r \notin doubled' => OwnRow(r)'
  PROVE  BindsInv'
<1>1. \A s \in Requests : Binding(s)' => Binding(s) /\ req'[s].me = req[s].me
  BY DEF Binding
<1>2. \A s \in Requests : Binding(s)' => (req[s].me \in Ids /\ Known(req[s].me))'
  BY <1>1 DEF BindsInv
<1>3. ASSUME NEW s \in Requests, NEW t \in Requests, s # t, Binding(s)', Binding(t)',
             req'[s].me = req'[t].me
      PROVE  s \in doubled'
  <2>1. s \in doubled
    BY <1>1, <1>3 DEF BindsInv
  <2>2. QED
    BY <1>3, <2>1
<1>4. ASSUME NEW s \in Requests, Binding(s)', s \notin doubled'
      PROVE  OwnRow(s)'
  <2>1. CASE s = r
    BY <1>4, <2>1
  <2>2. CASE s # r
    <3>1. OwnRow(s) /\ Steady(req[s].me) /\ req'[s] = req[s]
      BY <1>1, <1>4, <2>2 DEF BindsInv
    <3>2. QED
      BY <3>1 DEF OwnRow, Steady
  <2>3. QED
    BY <2>1, <2>2
<1>5. QED
  BY <1>2, <1>3, <1>4 DEF BindsInv, Known

LEMMA SameRows ==
  ASSUME BindsInv, UNCHANGED <<users, gone>>
  PROVE  /\ \A a : Steady(a)
         /\ \A a \in gone' : ~Exists(a)'
         /\ \A a \in Ids : Known(a) => Known(a)'
         /\ NobodyLost
BY DEF BindsInv, Steady, Exists, Known, NobodyLost

(* The call ends: it binds nothing any more. *)
LEMMA EndBinds ==
  ASSUME IInv, BindsInv, NEW r \in Requests, End(r),
         \A a \in gone' : ~Exists(a)',
         \A a \in Ids : Known(a) => Known(a)',
         \A s \in Requests :
           s # r /\ Binding(s) /\ s \notin doubled' => Steady(req[s].me)
  PROVE  BindsInv'
<1>1. \A s \in Requests : s # r => req'[s] = req[s]
  BY DEF End
<1>2. ~Binding(r)' /\ doubled' = doubled \ {r}
  BY DEF End, Binding, Idle, IInv, CallsOK
<1>3. QED
  BY <1>1, <1>2, BindsStep

(* The call goes on, and nobody's row changes. *)
LEMMA GoBinds ==
  ASSUME IInv, BindsInv, NEW r \in Requests, NEW pc, Goto(r, pc),
         UNCHANGED <<users, gone, doubled>>,
         Binding(r) => \/ pc \in {"store", "mark", "mail", "used", "me"}
                       \/ pc = "bind" /\ req[r].pc = "find"
  PROVE  BindsInv' /\ NobodyLost
<1>1. \A s \in Requests : s # r => req'[s] = req[s]
  BY DEF Goto
<1>2. /\ req'[r].pc = pc /\ req'[r].kind = req[r].kind /\ req'[r].cred = req[r].cred
      /\ req'[r].me = req[r].me /\ req'[r].openid = req[r].openid
  BY CallTypes DEF Goto, IInv, CallsOK, Request
<1>3. ASSUME Binding(r), r \notin doubled PROVE OwnRow(r)'
  BY <1>2, <1>3 DEF OwnRow, BindsInv, Exists
<1>4. Binding(r)' => Binding(r)
  BY <1>2 DEF Binding
<1>5. QED
  BY <1>1, <1>2, <1>3, <1>4, SameRows, BindsStep

LEMMA CalledFields ==
  ASSUME IInv, NEW r \in Requests, NEW kind, NEW cred, NEW scene, NEW me, NEW pc,
         Called(r, kind, cred, scene, me, pc)
  PROVE  req'[r].pc = pc /\ req'[r].kind = kind /\ req'[r].me = me
BY CalledRecord DEF IInv, CallsOK

(* A call comes in that binds nothing. *)
LEMMA CalledBinds ==
  ASSUME IInv, BindsInv, NEW r \in Requests, NEW kind, NEW cred, NEW scene, NEW me,
         NEW pc, Called(r, kind, cred, scene, me, pc), kind # "bind",
         UNCHANGED doubled
  PROVE  BindsInv' /\ NobodyLost
<1>1. /\ \A s \in Requests : s # r => req'[s] = req[s]
      /\ UNCHANGED <<users, gone>>
  BY DEF Called
<1>2. req'[r].kind = kind
  BY CalledFields
<1>3. ~Binding(r)'
  BY <1>2 DEF Binding
<1>4. QED
  BY <1>1, <1>3, SameRows, BindsStep

(* A call comes in to bind an address.  It is crossed, and crosses the others, *)
(* if there are any of the same account.                                   *)
LEMMA BindEmailBinds ==
  ASSUME IInv, BindsInv, NEW r \in Requests, NEW a \in Ids, NEW e \in Emails,
         BindEmail(r, a, e)
  PROVE  BindsInv' /\ NobodyLost
<1>1. /\ \A s \in Requests : s # r => req'[s] = req[s]
      /\ UNCHANGED <<users, gone>> /\ Known(a) /\ doubled \subseteq doubled'
      /\ BindsOf(a) # {} => doubled' = doubled \cup BindsOf(a) \cup {r}
  BY DEF BindEmail, Called
<1>2. /\ req'[r].kind = "bind" /\ req'[r].me = a /\ req'[r].pc = "verify"
  BY CalledFields DEF BindEmail
<1>3. \A s \in Requests : s # r => (Binding(s)' <=> Binding(s))
  BY <1>1 DEF Binding
<1>4. /\ \A x \in gone' : ~Exists(x)'
      /\ \A s \in Requests : Binding(s)' => (req[s].me \in Ids /\ Known(req[s].me))'
  BY <1>1, <1>2, <1>3, SameRows DEF BindsInv
<1>5. ASSUME NEW s \in Requests, NEW t \in Requests, s # t, Binding(s)', Binding(t)',
             req'[s].me = req'[t].me
      PROVE  s \in doubled'
  <2>1. CASE s # r /\ t # r
    BY <1>1, <1>3, <1>5, <2>1 DEF BindsInv
  <2>2. CASE s = r \/ t = r
    <3>1. PICK u \in Requests : u # r /\ u \in {s, t} /\ Binding(u) /\ req[u].me = a
      BY <1>1, <1>2, <1>3, <1>5, <2>2
    <3>2. u \in BindsOf(a)
      BY <3>1 DEF BindsOf, Binding
    <3>3. u \in doubled' /\ r \in doubled'
      BY <1>1, <3>2
    <3>4. QED
      BY <1>5, <2>2, <3>1, <3>3
  <2>3. QED
    BY <2>1, <2>2
<1>6. ASSUME NEW s \in Requests, Binding(s)', s \notin doubled'
      PROVE  OwnRow(s)'
  <2>1. CASE s = r
    BY <1>2, <2>1 DEF OwnRow
  <2>2. CASE s # r
    <3>1. OwnRow(s) /\ req'[s] = req[s]
      BY <1>1, <1>3, <1>6, <2>2 DEF BindsInv
    <3>2. QED
      BY <1>1, <3>1 DEF OwnRow, Exists
  <2>3. QED
    BY <2>1, <2>2
<1>7. BindsInv'
  BY <1>4, <1>5, <1>6 DEF BindsInv
<1>8. QED
  BY <1>1, <1>7, SameRows

(* A row is written, but neither its identity nor its address. *)
LEMMA WrittenSteady ==
  ASSUME IInv, BindsInv, NEW a \in Ids, UNCHANGED gone,
         \/ UNCHANGED users
         \/ /\ Exists(a) /\ \E new \in Account :
                /\ users' = [users EXCEPT ![a] = new]
                /\ new.openid = users[a].openid /\ new.email = users[a].email
  PROVE  /\ \A b \in Ids : Steady(b)
         /\ \A b \in gone' : ~Exists(b)'
         /\ \A b \in Ids : Known(b) => Known(b)'
         /\ NobodyLost
<1> USE AccountsAssumption
<1>1. CASE UNCHANGED users
  BY <1>1, SameRows
<1>2. ASSUME Exists(a), NEW new \in Account, users' = [users EXCEPT ![a] = new],
             new.openid = users[a].openid, new.email = users[a].email
      PROVE  \A b \in Ids : Steady(b)
  BY <1>2 DEF Steady, Exists, IInv, UsersOK
<1>3. \A b \in Ids : Steady(b)
  BY <1>1, <1>2
<1>4. gone \in SUBSET Ids
  BY DEF IInv
<1>5. QED
  BY <1>3, <1>4 DEF Steady, BindsInv, Known, NobodyLost

LEMMA FlagKeeps ==
  ASSUME NEW x \in Account
  PROVE  LET new == [x EXCEPT !.verified = TRUE]
         IN  new \in Account /\ new.openid = x.openid /\ new.email = x.email
BY DEF Account

LEMMA PasswordKeeps ==
  ASSUME NEW x \in Account
  PROVE  LET new == [x EXCEPT !.password = TRUE]
         IN  new \in Account /\ new.openid = x.openid /\ new.email = x.email
BY DEF Account

LEMMA FoundFields ==
  ASSUME IInv, NEW r \in Requests, NEW a, NEW pc,
         req' = [req EXCEPT ![r].pc = pc, ![r].found = a]
  PROVE  /\ \A s \in Requests : s # r => req'[s] = req[s]
         /\ req'[r].pc = pc /\ req'[r].found = a /\ req'[r].kind = req[r].kind
         /\ req'[r].cred = req[r].cred /\ req'[r].me = req[r].me
         /\ req'[r].openid = req[r].openid
<1> DEFINE half == [req[r] EXCEPT !.pc = pc]
           q == [half EXCEPT !.found = a]
<1>1. req[r] \in Request /\ req \in [Requests -> Request]
  BY DEF IInv, CallsOK
<1>2. half = [pc |-> pc, kind |-> req[r].kind, cred |-> req[r].cred,
              scene |-> req[r].scene, me |-> req[r].me, openid |-> req[r].openid,
              found |-> req[r].found]
  BY <1>1 DEF Request
<1>3. req' = [req EXCEPT ![r] = q]
  BY <1>1
<1> HIDE DEF half
<1>4. q = [pc |-> pc, kind |-> req[r].kind, cred |-> req[r].cred,
           scene |-> req[r].scene, me |-> req[r].me, openid |-> req[r].openid,
           found |-> a]
  BY <1>2
<1> HIDE DEF q
<1>5. QED
  BY <1>1, <1>3, <1>4

LEMMA FindSomeBinds ==
  ASSUME IInv, BindsInv, NEW r \in Requests, FindSome(r)
  PROVE  BindsInv' /\ NobodyLost
<1>1. PICK a \in Holders(Field(req[r].kind), req[r].cred) :
        IF req[r].kind = "reset"
        THEN /\ req' = [req EXCEPT ![r].pc = "write", ![r].found = a]
             /\ UNCHANGED <<users, doubled>>
        ELSE /\ \/ UNCHANGED users
                \/ req[r].kind = "code" /\ users' = [users EXCEPT ![a].verified = TRUE]
             /\ End(r)
  BY DEF FindSome
<1>2. a \in Ids /\ Exists(a) /\ gone' = gone /\ users[a] \in Account
  BY <1>1, RowType DEF FindSome, Holders
<1>3. CASE req[r].kind = "reset"
  <2>1. UNCHANGED <<users, gone, doubled>>
    BY <1>1, <1>2, <1>3
  <2>2. \A s \in Requests : s # r => req'[s] = req[s]
    BY <1>1, <1>3, FoundFields
  <2>3. ~Binding(r)'
    BY <1>1, <1>3, FoundFields DEF Binding
  <2>4. QED
    BY <2>1, <2>2, <2>3, SameRows, BindsStep
<1>4. CASE req[r].kind # "reset"
  <2>1. End(r) /\ (UNCHANGED users \/ users' = [users EXCEPT ![a].verified = TRUE])
    BY <1>1, <1>4
  <2>2. /\ \A b \in Ids : Steady(b)
        /\ \A b \in gone' : ~Exists(b)'
        /\ \A b \in Ids : Known(b) => Known(b)'
        /\ NobodyLost
    BY <1>2, <2>1, FlagKeeps, WrittenSteady
  <2>3. QED
    BY <2>1, <2>2, EndBinds DEF BindsInv
<1>5. QED
  BY <1>3, <1>4

(* A new account takes an id nobody has had. *)
LEMMA CreateBinds ==
  ASSUME IInv, BindsInv, NEW r \in Requests, NEW a \in Ids, Create(r, a)
  PROVE  BindsInv' /\ NobodyLost
<1> USE AccountsAssumption
<1>1. /\ End(r) /\ gone' = gone /\ ~Exists(a) /\ a \notin gone
      /\ gone \in SUBSET Ids
      /\ \E new : users' = [users EXCEPT ![a] = new]
  BY DEF Create, IInv
<1>2. \A b \in Ids : b # a => Steady(b)
  BY <1>1 DEF Steady, Exists, IInv, UsersOK
<1>3. \A b \in gone' : ~Exists(b)'
  BY <1>1, <1>2 DEF BindsInv, Steady
<1>4. \A b \in Ids : Known(b) => b # a /\ Known(b)'
  BY <1>1, <1>2 DEF Known, Steady
<1>5. NobodyLost
  BY <1>1, <1>2 DEF Steady, NobodyLost
<1>6. QED
  BY <1>1, <1>2, <1>3, <1>4, <1>5, EndBinds DEF BindsInv

LEMMA WritePasswordBinds ==
  ASSUME IInv, BindsInv, NEW r \in Requests, WritePassword(r)
  PROVE  BindsInv' /\ NobodyLost
<1> DEFINE a == req[r].found
<1>1. /\ End(r) /\ gone' = gone /\ a \in Ids
      /\ UNCHANGED users \/ (Exists(a) /\ users' = [users EXCEPT ![a].password = TRUE])
  BY CallTypes DEF WritePassword, CallOK
<1>2. Exists(a) => users[a] \in Account
  BY <1>1, RowType
<1>3. /\ \A b \in Ids : Steady(b)
      /\ \A b \in gone' : ~Exists(b)'
      /\ \A b \in Ids : Known(b) => Known(b)'
      /\ NobodyLost
  BY <1>1, <1>2, PasswordKeeps, WrittenSteady
<1>4. QED
  BY <1>1, <1>3, EndBinds DEF BindsInv

LEMMA FindMeBinds ==
  ASSUME IInv, BindsInv, NEW r \in Requests, FindMe(r)
  PROVE  BindsInv' /\ NobodyLost
<1> DEFINE old == req[r]
           a == old.me
<1>1. /\ gone' = gone /\ old.pc = "me" /\ Exists(a) /\ a \in Ids
      /\ old.kind \in {"bind", "change"} /\ users[a] \in Account
  BY CallTypes, RowType DEF FindMe, CallOK
<1>2. CASE old.kind = "change"
  <2>1. UNCHANGED <<users, doubled>> /\ req' = [req EXCEPT ![r].pc = "write", ![r].found = a]
    BY <1>1, <1>2 DEF FindMe
  <2>2. \A s \in Requests : s # r => req'[s] = req[s]
    BY <2>1, FoundFields
  <2>3. ~Binding(r)'
    BY <1>2, <2>1, FoundFields DEF Binding
  <2>4. QED
    BY <1>1, <2>1, <2>2, <2>3, SameRows, BindsStep
<1>3. CASE old.kind = "bind" /\ AlreadyBound(a, old.cred)
  <2>1. End(r) /\ (UNCHANGED users \/ users' = [users EXCEPT ![a].verified = TRUE])
    BY <1>1, <1>3 DEF FindMe
  <2>2. /\ \A b \in Ids : Steady(b)
        /\ \A b \in gone' : ~Exists(b)'
        /\ \A b \in Ids : Known(b) => Known(b)'
        /\ NobodyLost
    BY <1>1, <2>1, FlagKeeps, WrittenSteady
  <2>3. QED
    BY <2>1, <2>2, EndBinds DEF BindsInv
<1>4. CASE old.kind = "bind" /\ ~AlreadyBound(a, old.cred)
  <2>1. /\ UNCHANGED <<users, doubled>>
        /\ req' = [req EXCEPT ![r].pc = "find", ![r].openid = users[a].openid]
    BY <1>1, <1>4 DEF FindMe
  <2>2. /\ \A s \in Requests : s # r => req'[s] = req[s]
        /\ req'[r].pc = "find" /\ req'[r].openid = users[a].openid
        /\ req'[r].kind = old.kind /\ req'[r].cred = old.cred /\ req'[r].me = a
    <3> DEFINE half == [old EXCEPT !.pc = "find"]
               q == [half EXCEPT !.openid = users[a].openid]
    <3>1. old \in Request /\ req \in [Requests -> Request]
      BY DEF IInv, CallsOK
    <3>2. half = [pc |-> "find", kind |-> old.kind, cred |-> old.cred,
                  scene |-> old.scene, me |-> a, openid |-> old.openid,
                  found |-> old.found]
      BY <3>1 DEF Request
    <3>3. req' = [req EXCEPT ![r] = q]
      BY <2>1, <3>1
    <3> HIDE DEF half
    <3>4. q = [pc |-> "find", kind |-> old.kind, cred |-> old.cred,
               scene |-> old.scene, me |-> a, openid |-> users[a].openid,
               found |-> old.found]
      BY <3>2
    <3> HIDE DEF q
    <3>5. QED
      BY <3>1, <3>3, <3>4
  <2>3. users[a].email # old.cred
    BY <1>4 DEF AlreadyBound
  <2>4. OwnRow(r)'
    BY <2>1, <2>2, <2>3 DEF OwnRow
  <2>5. Binding(r)' => Binding(r)
    BY <2>2 DEF Binding
  <2>6. QED
    BY <1>1, <2>1, <2>2, <2>4, <2>5, SameRows, BindsStep
<1>5. QED
  BY <1>1, <1>2, <1>3, <1>4

(* The address is written to the caller's row: other calls that bind it are   *)
(* crossed.                                                                *)
LEMMA WriteEmailBinds ==
  ASSUME IInv, BindsInv, NEW r \in Requests, WriteEmail(r)
  PROVE  BindsInv' /\ NobodyLost
<1> USE AccountsAssumption
<1>0. PICK a \in Ids : a = req[r].me
  BY CallTypes DEF WriteEmail, CallOK
<1>1. /\ End(r) /\ gone' = gone /\ gone \in SUBSET Ids /\ Binding(r)
      /\ users' = IF Exists(a) THEN [users EXCEPT ![a] = Bound(a, req[r].cred)] ELSE users
  BY <1>0, CallTypes DEF WriteEmail, CallOK, Binding, IInv
<1>2. \A b \in Ids : b # a => Steady(b)
  BY <1>1 DEF Steady, Exists, IInv, UsersOK
<1>3. Exists(a) => users[a] \in Account
  BY <1>1, RowType
<1>4. Exists(a) => Bound(a, req[r].cred) # NoUser
  <2>1. Exists(a) => [users[a] EXCEPT !.email = req[r].cred] \in Account
    BY <1>1, <1>3, CallTypes DEF Account, CallOK, WriteEmail
  <2> DEFINE half == [users[a] EXCEPT !.email = req[r].cred]
  <2>2. Bound(a, req[r].cred) = [half EXCEPT !.verified = TRUE]
    BY DEF Bound
  <2> HIDE DEF half
  <2>3. Exists(a) => [half EXCEPT !.verified = TRUE] \in Account
    BY <2>1, FlagKeeps DEF half
  <2>4. QED
    BY <2>2, <2>3
<1>5. Exists(a)' <=> Exists(a)
  BY <1>1, <1>4 DEF Exists, IInv, UsersOK
<1>6. \A b \in Ids : Exists(b)' <=> Exists(b)
  BY <1>2, <1>5 DEF Steady
<1>7. /\ \A b \in gone' : ~Exists(b)'
      /\ \A b \in Ids : Known(b) => Known(b)'
      /\ NobodyLost
  BY <1>1, <1>6 DEF BindsInv, Known, NobodyLost
<1>8. ASSUME NEW s \in Requests, s # r, Binding(s), s \notin doubled'
      PROVE  Steady(req[s].me)
  <2>1. s \notin doubled
    BY <1>1, <1>8 DEF End
  <2>2. req[s].me \in Ids /\ req[s].me # a
    BY <1>0, <1>1, <1>8, <2>1 DEF BindsInv
  <2>3. QED
    BY <1>2, <2>2
<1>9. QED
  BY <1>1, <1>7, <1>8, EndBinds

(* Who has the address is not the caller, whose row has another one. *)
LEMMA FindOtherBinds ==
  ASSUME IInv, BindsInv, NEW r \in Requests, FindOther(r)
  PROVE  BindsInv' /\ NobodyLost
<1>1. PICK a \in Holders("email", req[r].cred) :
        req' = [req EXCEPT ![r].pc = "move", ![r].found = a]
  BY DEF FindOther
<1>2. /\ UNCHANGED <<users, gone, doubled>> /\ req[r].pc = "find" /\ Binding(r)
      /\ req[r].openid # None
  BY DEF FindOther, Binding
<1>3. users[a].email = req[r].cred
  BY DEF Holders
<1>4. /\ \A s \in Requests : s # r => req'[s] = req[s]
      /\ req'[r].pc = "move" /\ req'[r].found = a /\ req'[r].kind = req[r].kind
      /\ req'[r].cred = req[r].cred /\ req'[r].me = req[r].me
      /\ req'[r].openid = req[r].openid
  BY <1>1, FoundFields
<1>5. ASSUME r \notin doubled PROVE OwnRow(r)'
  BY <1>2, <1>3, <1>4, <1>5 DEF OwnRow, BindsInv, Exists
<1>6. QED
  BY <1>2, <1>4, <1>5, SameRows, BindsStep

(* The identity is written to the other row: calls that bind that account are *)
(* crossed; and an uncrossed call gets here only when its own row is gone.    *)
LEMMA MoveBinds ==
  ASSUME IInv, BindsInv, NEW r \in Requests, Move(r)
  PROVE  BindsInv' /\ NobodyLost
<1> USE AccountsAssumption
<1> DEFINE w == req[r].openid
<1>0. PICK a \in Ids : a = req[r].found
  BY CallTypes DEF Move, CallOK
<1>1. /\ gone' = gone /\ gone \in SUBSET Ids /\ Binding(r)
      /\ req[r].pc = "move" /\ Goto(r, "delete") /\ Free("openid", w, {a})
      /\ doubled' = doubled \cup (BindsOf(a) \ {r})
      /\ users' = IF Exists(a) THEN [users EXCEPT ![a].openid = w] ELSE users
  BY <1>0, CallTypes DEF Move, CallOK, Binding, IInv
<1>2. \A b \in Ids : b # a => Steady(b)
  BY <1>1 DEF Steady, Exists, IInv, UsersOK
<1>3. Exists(a)' <=> Exists(a)
  <2>1. Exists(a) => users[a] \in Account /\ w \in OpenIds \cup {None}
    BY <1>1, RowType, CallTypes DEF Request
  <2>2. Exists(a) => [users[a] EXCEPT !.openid = w] \in Account
    BY <2>1 DEF Account
  <2>3. QED
    BY <1>1, <2>2 DEF Exists, IInv, UsersOK
<1>4. \A b \in Ids : Exists(b)' <=> Exists(b)
  BY <1>2, <1>3 DEF Steady
<1>5. /\ \A b \in gone' : ~Exists(b)'
      /\ \A b \in Ids : Known(b) => Known(b)'
      /\ NobodyLost
  BY <1>1, <1>4 DEF BindsInv, Known, NobodyLost
<1>6. ASSUME NEW s \in Requests, s # r, Binding(s), s \notin doubled'
      PROVE  Steady(req[s].me)
  <2>1. s \notin BindsOf(a)
    BY <1>1, <1>6
  <2>2. req[s].me # a /\ req[s].me \in Ids
    BY <1>6, <2>1 DEF BindsOf, Binding, BindsInv
  <2>3. QED
    BY <1>2, <2>2
<1>7. /\ \A s \in Requests : s # r => req'[s] = req[s]
      /\ req'[r].pc = "delete" /\ req'[r].kind = req[r].kind /\ req'[r].me = req[r].me
  BY <1>1, CallTypes DEF Goto, IInv, CallsOK, Request
<1>8. ASSUME r \notin doubled' PROVE OwnRow(r)'
  <2>1. OwnRow(r) /\ req[r].me \in Ids
    BY <1>1, <1>8 DEF BindsInv
  <2>2. ~Exists(req[r].me)
    <3> SUFFICES ASSUME Exists(req[r].me) PROVE FALSE
      OBVIOUS
    <3>1. users[req[r].me].openid = w /\ a # req[r].me
      BY <1>0, <1>1, <2>1 DEF OwnRow
    <3>2. req[r].me \in Holders("openid", w)
      BY <2>1, <3>1 DEF Holders
    <3>3. QED
      BY <1>1, <3>1, <3>2 DEF Free
  <2>3. ~Exists(req[r].me)'
    BY <1>4, <2>1, <2>2, <1>7 DEF Exists
  <2>4. QED
    BY <1>7, <2>3 DEF OwnRow
<1>9. QED
  BY <1>1, <1>5, <1>6, <1>7, <1>8, BindsStep DEF Binding

(* A row that is there is deleted by a crossed call only. *)
LEMMA DeleteMeBinds ==
  ASSUME IInv, BindsInv, NEW r \in Requests, DeleteMe(r)
  PROVE  /\ BindsInv'
         /\ \A a \in Ids : Exists(a) /\ ~Exists(a)' =>
              r \in doubled /\ req[r].pc = "delete" /\ req[r].me = a
<1>0. PICK a \in Ids : a = req[r].me
  BY CallTypes DEF DeleteMe, CallOK
<1>1. /\ End(r) /\ gone' = gone \cup {a} /\ gone \in SUBSET Ids
      /\ Binding(r) /\ req[r].pc = "delete" /\ users' = [users EXCEPT ![a] = NoUser]
  BY <1>0, CallTypes DEF DeleteMe, CallOK, Binding, IInv
<1>2. (\A b \in Ids : b # a => Steady(b)) /\ ~Exists(a)'
  BY <1>1 DEF Steady, Exists, IInv, UsersOK
<1>3. /\ \A b \in gone' : ~Exists(b)'
      /\ \A b \in Ids : Known(b) => Known(b)'
  BY <1>1, <1>2 DEF BindsInv, Known, Steady
<1>4. ASSUME NEW s \in Requests, s # r, Binding(s), s \notin doubled'
      PROVE  Steady(req[s].me)
  <2>1. s \notin doubled
    BY <1>1, <1>4 DEF End
  <2>2. req[s].me \in Ids /\ req[s].me # a
    BY <1>0, <1>1, <1>4, <2>1 DEF BindsInv
  <2>3. QED
    BY <1>2, <2>2
<1>5. BindsInv'
  BY <1>1, <1>3, <1>4, EndBinds
<1>6. ASSUME NEW b \in Ids, Exists(b), ~Exists(b)'
      PROVE  r \in doubled /\ req[r].me = b
  BY <1>0, <1>1, <1>2, <1>6 DEF BindsInv, OwnRow, Steady
<1>7. QED
  BY <1>1, <1>5, <1>6

(* A code, the cooldown or the mail: nothing that binding looks at. *)
LEMMA CodesBinds ==
  ASSUME IInv, BindsInv, NEW r \in Requests,
         Cool(r) \/ Store(r) \/ Mark(r) \/ Verify(r) \/ Use(r) \/ FindNone(r) \/ FindNobody(r)
  PROVE  BindsInv' /\ NobodyLost
<1>1. CASE Cool(r)
  BY <1>1, GoBinds DEF Cool
<1>2. CASE Store(r)
  BY <1>2, GoBinds DEF Store
<1>3. CASE Mark(r)
  BY <1>3, GoBinds DEF Mark
<1>4. CASE Verify(r)
  BY <1>4, GoBinds DEF Verify
<1>5. CASE Use(r)
  <2>1. /\ Goto(r, IF req[r].kind = "bind" THEN "me" ELSE "find")
        /\ UNCHANGED <<users, gone, doubled>>
    BY <1>5 DEF Use
  <2>2. QED
    BY <2>1, GoBinds DEF Binding
<1>6. CASE FindNone(r)
  <2>1. Goto(r, "create") /\ UNCHANGED <<users, gone, doubled>> /\ ~Binding(r)
    BY <1>6 DEF FindNone, Binding
  <2>2. QED
    BY <2>1, GoBinds
<1>7. CASE FindNobody(r)
  <2>1. Goto(r, "bind") /\ UNCHANGED <<users, gone, doubled>> /\ req[r].pc = "find"
    BY <1>7 DEF FindNobody
  <2>2. QED
    BY <2>1, GoBinds
<1>8. QED
  BY <1>1, <1>2, <1>3, <1>4, <1>5, <1>6, <1>7

LEMMA ArriveBinds ==
  ASSUME IInv, BindsInv, NEW r \in Requests, Arrive(r)
  PROVE  BindsInv' /\ NobodyLost
<1>1. ASSUME NEW e \in Emails, NEW s, SendCode(r, e, s)
      PROVE  BindsInv' /\ NobodyLost
  BY <1>1, CalledBinds DEF SendCode
<1>2. ASSUME NEW e \in Emails, NEW kind \in {"register", "code", "reset"},
             WithCode(r, kind, e)
      PROVE  BindsInv' /\ NobodyLost
  BY <1>2, CalledBinds DEF WithCode
<1>3. ASSUME NEW v, NEW kind \in {"password", "wechat", "sso"}, WithCredential(r, kind, v)
      PROVE  BindsInv' /\ NobodyLost
  BY <1>3, CalledBinds DEF WithCredential
<1>4. ASSUME NEW a \in Ids, ChangePassword(r, a)
      PROVE  BindsInv' /\ NobodyLost
  BY <1>4, CalledBinds DEF ChangePassword
<1>5. QED
  BY <1>1, <1>2, <1>3, <1>4, BindEmailBinds DEF Arrive

LEMMA EndsBinds ==
  ASSUME IInv, BindsInv, NEW r \in Requests, Mail(r) \/ Fail(r)
  PROVE  BindsInv' /\ NobodyLost
<1>1. End(r) /\ UNCHANGED <<users, gone>>
  BY DEF Mail, Fail
<1>2. QED
  BY <1>1, SameRows, EndBinds

(* What a step may do to the rows that are there. *)
LossIsCrossed ==
  \A a \in Ids : Exists(a) /\ ~Exists(a)' =>
    \E r \in doubled : req[r].pc = "delete" /\ req[r].me = a

LEMMA NextBinds ==
  ASSUME IInv, BindsInv, [Next]_vars
  PROVE  BindsInv' /\ LossIsCrossed
<1>1. ASSUME NEW r \in Requests, DeleteMe(r)
      PROVE  BindsInv' /\ LossIsCrossed
  BY <1>1, DeleteMeBinds DEF LossIsCrossed
<1>2. ASSUME NEW r \in Requests, Work(r), ~DeleteMe(r)
      PROVE  BindsInv' /\ NobodyLost
  BY <1>2, CodesBinds, EndsBinds, FindSomeBinds, CreateBinds, WritePasswordBinds,
     FindMeBinds, WriteEmailBinds, FindOtherBinds, MoveBinds DEF Work
<1>3. ASSUME UNCHANGED <<users, gone, req, doubled>>
      PROVE  BindsInv' /\ NobodyLost
  BY <1>3 DEF BindsInv, OwnRow, Binding, Exists, Known, NobodyLost
<1>4. UNCHANGED vars => UNCHANGED <<users, gone, req, doubled>>
  BY DEF vars
<1>5. NobodyLost => LossIsCrossed
  BY DEF NobodyLost, LossIsCrossed
<1>6. QED
  BY <1>1, <1>2, <1>3, <1>4, <1>5, ArriveBinds DEF Next

(* BindEmail never costs its caller his account by itself: one that           *)
(* disappears leaves its WeChat identity with another, or was being bound, or *)
(* merged into, by two calls at once, for any number of calls and accounts.  *)
THEOREM LossTakesTwo == Spec => LossNeedsTwoBinds
<1>1. Init => IInv /\ BindsInv
  <2>1. Init => BindsInv
    BY DEF Init, BindsInv, Binding, Idle, Exists
  <2>2. QED
    BY <2>1, InitIInv
<1>2. IInv /\ BindsInv /\ [Next]_vars => IInv' /\ BindsInv' /\ LossIsCrossed
  BY NextIInv, NextBinds
<1>3. LossIsCrossed =>
        \A a \in Ids : (Exists(a) /\ ~Exists(a)') =>
          \/ \E b \in Ids : Exists(b)' /\ users'[b].openid = users[a].openid
          \/ \E r \in doubled : req[r].pc = "delete" /\ req[r].me = a
  BY DEF LossIsCrossed
<1>4. QED
  BY <1>1, <1>2, <1>3, PTL DEF Spec, LossNeedsTwoBinds
===============================================================================
