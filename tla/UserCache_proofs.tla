-------------------------- MODULE UserCache_proofs --------------------------
(***************************************************************************)
(* Proofs about UserCache, for any number of users, requests and BanUser     *)
(* calls, with and without a failing Redis.                                *)
(*                                                                         *)
(* SanctionsStick needs to know what a call that has set the status has     *)
(* done (CommandsDo); SanctionsHaveRecords that it inserted its ban first;   *)
(* NoTokensAfterBan that a request which must be refused has read, or will   *)
(* read, the banned row (RefusedReadBanned).                                *)
(***************************************************************************)
EXTENDS UserCache, TLAPS

(* A BanUser call past its INSERT has its ban on record; one past its UPDATE *)
(* has left a sanction in the row.                                         *)
CommandsDo ==
  \A c \in Commands :
    /\ cmd[c].pc \in {"update", "del", "done"} =>
         \E b \in bans : b.user = cmd[c].user /\ b.type = cmd[c].type
    /\ cmd[c].pc \in {"del", "done"} => db[cmd[c].user].status # "normal"

(* A request that came in after a settled ban: the row still says so, and a  *)
(* login or refresh has not loaded any other.                              *)
RefusedReadBanned ==
  \A r \in mustRefuse :
    /\ req[r].pc # "idle"
    /\ db[req[r].user].status = "banned"
    /\ req[r].route = "token" =>
         /\ req[r].pc \in {"load", "check"}
         /\ req[r].pc = "check" => req[r].row.status = "banned"

IInv ==
  /\ TypeOK
  /\ SanctionsStick
  /\ SanctionsHaveRecords
  /\ CommandsDo
  /\ RefusedReadBanned

-----------------------------------------------------------------------------
LEMMA IdleIsRequest == Idle \in Request
BY UserCacheAssumption DEF Idle, Request, Routes

LEMMA InitIInv ==
  ASSUME Init
  PROVE  IInv
<1>1. TypeOK
  <2>1. db \in [Users -> Row]
    BY DEF Init, Row, Status
  <2>2. cmd \in [Commands -> Command]
    BY UserCacheAssumption DEF Init, Command
  <2>3. req \in [Requests -> Request]
    BY IdleIsRequest DEF Init
  <2>. QED
    BY <2>1, <2>2, <2>3 DEF Init, TypeOK
<1>2. SanctionsStick /\ CommandsDo /\ RefusedReadBanned
  BY DEF Init, SanctionsStick, CommandsDo, RefusedReadBanned
<1>3. SanctionsHaveRecords
  BY DEF Init, SanctionsHaveRecords
<1>. QED
  BY <1>1, <1>2, <1>3 DEF IInv

(* A step of a request that leaves the database and the calls of BanUser      *)
(* alone can only disturb the types and RefusedReadBanned.                  *)
LEMMA RequestFrame ==
  ASSUME IInv, UNCHANGED <<db, bans, cmd, announced>>, TypeOK', RefusedReadBanned'
  PROVE  IInv'
BY DEF IInv, SanctionsStick, SanctionsHaveRecords, CommandsDo

(* The answer of a request: what must be refused is one request less. *)
LEMMA AnswerStep ==
  ASSUME IInv, NEW r \in Requests, Answer(r), UNCHANGED db
  PROVE  /\ req' \in [Requests -> Request]
         /\ mustRefuse' \in SUBSET Requests
         /\ RefusedReadBanned'
<1>1. req' \in [Requests -> Request] /\ mustRefuse' \in SUBSET Requests
  BY IdleIsRequest DEF IInv, TypeOK, Answer
<1>2. \A s \in mustRefuse' : s \in mustRefuse /\ req'[s] = req[s]
  BY DEF IInv, TypeOK, Answer
<1>. QED
  BY <1>1, <1>2 DEF IInv, RefusedReadBanned

LEMMA ArriveStep ==
  ASSUME IInv, NEW r \in Requests, NEW u \in Users, NEW route \in Routes,
         Arrive(r, u, route)
  PROVE  IInv'
<1>. DEFINE new == [pc |-> FirstStep(route), user |-> u, route |-> route,
                    row |-> NoRow]
<1>1. new \in Request
  BY DEF Request, FirstStep, Routes
<1>2. req'[r] = new /\ \A s \in Requests \ {r} : req'[s] = req[s]
  BY DEF IInv, TypeOK, Arrive
<1>3. TypeOK'
  BY <1>1 DEF IInv, TypeOK, Arrive
<1>4. RefusedReadBanned'
  <2>. SUFFICES ASSUME NEW s \in mustRefuse'
                PROVE  /\ req'[s].pc # "idle"
                       /\ db'[req'[s].user].status = "banned"
                       /\ req'[s].route = "token" =>
                            /\ req'[s].pc \in {"load", "check"}
                            /\ req'[s].pc = "check" =>
                                 req'[s].row.status = "banned"
    BY DEF RefusedReadBanned
  <2>1. CASE s # r
    BY <1>2, <2>1 DEF IInv, TypeOK, RefusedReadBanned, Arrive
  <2>2. CASE s = r /\ SettledBan(u)
    BY <1>2, <2>2 DEF Arrive, SettledBan, FirstStep
  <2>3. CASE s = r /\ ~SettledBan(u)
    BY <2>3 DEF IInv, RefusedReadBanned, Arrive
  <2>. QED
    BY <2>1, <2>2, <2>3
<1>. QED
  BY <1>3, <1>4, RequestFrame DEF Arrive

(* The steps of a request up to its check. *)
LEMMA LoadStep ==
  ASSUME IInv, NEW r \in Requests, ReadCache(r) \/ ReadDB(r) \/ Fill(r)
  PROVE  IInv'
<1>1. TypeOK'
  <2>1. CASE ReadCache(r)
    <3>1. cached[req[r].user] \in Row \cup {NoRow}
      BY DEF IInv, TypeOK, Request
    <3>. QED
      BY <2>1, <3>1 DEF IInv, TypeOK, ReadCache, Goto, Request
  <2>2. CASE ReadDB(r)
    <3>1. db[req[r].user] \in Row
      BY DEF IInv, TypeOK, Request
    <3>. QED
      BY <2>2, <3>1 DEF IInv, TypeOK, ReadDB, Request
  <2>3. CASE Fill(r)
    <3>1. req[r].row \in Row \cup {NoRow}
      BY DEF IInv, TypeOK, Request
    <3>. QED
      BY <2>3, <3>1 DEF IInv, TypeOK, Fill, Goto, Request
  <2>. QED
    BY <2>1, <2>2, <2>3
<1>2. RefusedReadBanned'
  BY DEF IInv, TypeOK, RefusedReadBanned, ReadCache, ReadDB, Fill, Goto, Request
<1>. QED
  BY <1>1, <1>2, RequestFrame DEF ReadCache, ReadDB, Fill

(* A request that must be refused and has loaded the row is refused here. *)
LEMMA CheckStep ==
  ASSUME IInv, NEW r \in Requests, Check(r)
  PROVE  IInv'
<1>1. CASE Refused(req[r].route, req[r].row)
  <2>1. Answer(r) /\ UNCHANGED <<db, cached, bans, cmd, announced>>
    BY <1>1 DEF Check
  <2>2. TypeOK'
    BY <2>1, AnswerStep DEF IInv, TypeOK
  <2>. QED
    BY <2>1, <2>2, AnswerStep, RequestFrame
<1>2. CASE ~Refused(req[r].route, req[r].row)
  <2>1. Goto(r, "serve") /\ UNCHANGED <<db, cached, bans, cmd, announced, mustRefuse>>
    BY <1>2 DEF Check
  <2>2. TypeOK'
    BY <2>1 DEF IInv, TypeOK, Goto, Request
  <2>3. RefusedReadBanned'
    BY <1>2, <2>1 DEF IInv, TypeOK, RefusedReadBanned, Goto, Refused, Check
  <2>. QED
    BY <2>1, <2>2, <2>3, RequestFrame
<1>. QED
  BY <1>1, <1>2

LEMMA ServeStep ==
  ASSUME IInv, NEW r \in Requests, Serve(r) \/ InvalidateMe(r)
  PROVE  IInv'
<1>1. Answer(r) /\ UNCHANGED <<db, bans, cmd, announced>>
  BY DEF Serve, InvalidateMe
<1>2. cached' \in [Users -> Row \cup {NoRow}]
  <2>1. CASE Serve(r)
    BY <2>1 DEF IInv, TypeOK, Serve
  <2>2. CASE InvalidateMe(r)
    BY <2>2 DEF IInv, TypeOK, InvalidateMe, Invalidated
  <2>. QED
    BY <2>1, <2>2
<1>3. TypeOK'
  BY <1>1, <1>2, AnswerStep DEF IInv, TypeOK
<1>. QED
  BY <1>1, <1>3, AnswerStep, RequestFrame

LEMMA FindMeStep ==
  ASSUME IInv, NEW r \in Requests, FindMe(r)
  PROVE  IInv'
<1>1. db[req[r].user] \in Row
  BY DEF IInv, TypeOK, Request
<1>2. TypeOK'
  <2> DEFINE new == [req[r] EXCEPT !.pc = "save", !.row = db[req[r].user]]
  <2>1. new \in Request
    BY <1>1 DEF IInv, TypeOK, Request
  <2>2. req' = [req EXCEPT ![r] = new]
    BY DEF IInv, TypeOK, FindMe
  <2> HIDE DEF new
  <2>3. QED
    BY <2>1, <2>2 DEF IInv, TypeOK, FindMe
<1>3. RefusedReadBanned'
  BY DEF IInv, TypeOK, RefusedReadBanned, FindMe
<1>. QED
  BY <1>2, <1>3, RequestFrame DEF FindMe

(* The profile columns are written and the status is not. *)
LEMMA SaveMeStep ==
  ASSUME IInv, NEW r \in Requests, NEW profile \in Profiles, SaveMe(r, profile)
  PROVE  IInv'
<1>1. db' \in [Users -> Row]
  BY DEF IInv, TypeOK, SaveMe, Updated, Row, Request
<1>2. \A u \in Users : db'[u].status = db[u].status
  BY DEF IInv, TypeOK, SaveMe, Updated, Row, Request
<1>3. /\ req' = [req EXCEPT ![r].pc = "del"]
      /\ UNCHANGED <<cached, bans, cmd, announced, mustRefuse>>
      /\ req[r].pc = "save"
  BY DEF SaveMe, Goto
<1>4. TypeOK'
  BY <1>1, <1>3 DEF IInv, TypeOK, Request
<1>5. SanctionsStick' /\ SanctionsHaveRecords'
  BY <1>2, <1>3 DEF IInv, TypeOK, SanctionsStick, SanctionsHaveRecords
<1>6. CommandsDo'
  BY <1>2, <1>3 DEF IInv, TypeOK, CommandsDo, Command
<1>7. RefusedReadBanned'
  BY <1>2, <1>3 DEF IInv, TypeOK, RefusedReadBanned, Request
<1>. QED
  BY <1>4, <1>5, <1>6, <1>7 DEF IInv

LEMMA ExpireStep ==
  ASSUME IInv, NEW u \in Users, Expire(u)
  PROVE  IInv'
<1>1. TypeOK'
  BY DEF IInv, TypeOK, Expire
<1>2. RefusedReadBanned'
  BY DEF IInv, RefusedReadBanned, Expire
<1>. QED
  BY <1>1, <1>2, RequestFrame DEF Expire

-----------------------------------------------------------------------------
(* BanUser.  Bans never leave the record: a step that keeps, of every ban, one *)
(* of the same user and type keeps what is said about records.             *)
LEMMA RecordsKept ==
  ASSUME IInv, UNCHANGED <<db, req, cmd, announced, mustRefuse>>,
         \A b \in bans : \E a \in bans' : a.user = b.user /\ a.type = b.type
  PROVE  /\ SanctionsStick' /\ SanctionsHaveRecords'
         /\ CommandsDo' /\ RefusedReadBanned'
<1>1. SanctionsStick' /\ RefusedReadBanned'
  BY DEF IInv, SanctionsStick, RefusedReadBanned
<1>2. SanctionsHaveRecords'
  BY DEF IInv, SanctionsHaveRecords
<1>3. CommandsDo'
  BY DEF IInv, CommandsDo
<1>. QED
  BY <1>1, <1>2, <1>3

LEMMA StartBanStep ==
  ASSUME IInv, NEW c \in Commands, NEW u \in Users,
         NEW type \in {"muted", "banned", "other"}, NEW d \in Durations,
         StartBan(c, u, type, d)
  PROVE  IInv'
<1>1. TypeOK'
  BY DEF IInv, TypeOK, StartBan, KnownType, Command
<1>2. cmd'[c].pc = "create" /\ \A x \in Commands \ {c} : cmd'[x] = cmd[x]
  BY DEF IInv, TypeOK, StartBan
<1>3. CommandsDo'
  BY <1>2 DEF IInv, CommandsDo, StartBan
<1>4. SanctionsStick' /\ SanctionsHaveRecords' /\ RefusedReadBanned'
  BY DEF IInv, SanctionsStick, SanctionsHaveRecords, RefusedReadBanned, StartBan
<1>. QED
  BY <1>1, <1>3, <1>4 DEF IInv

LEMMA CreateBanStep ==
  ASSUME IInv, NEW c \in Commands, CreateBan(c)
  PROVE  IInv'
<1>. DEFINE new == [user |-> cmd[c].user, type |-> cmd[c].type,
                    duration |-> cmd[c].duration, over |-> FALSE]
<1>1. new \in Ban
  BY DEF IInv, TypeOK, Command, Ban
<1>2. /\ cmd' = [cmd EXCEPT ![c].pc = "update"]
      /\ bans' = bans \cup {new}
      /\ UNCHANGED <<db, cached, req, announced, mustRefuse>>
  BY DEF CreateBan
<1>3. TypeOK'
  BY <1>1, <1>2 DEF IInv, TypeOK, Command
<1>4. /\ \A x \in Commands \ {c} : cmd'[x] = cmd[x]
      /\ cmd'[c].pc = "update"
      /\ cmd'[c].user = cmd[c].user /\ cmd'[c].type = cmd[c].type
  BY <1>2 DEF IInv, TypeOK, Command
<1>5. CommandsDo'
  <2>1. cmd'[c].pc = "update" /\ new \in bans'
        /\ new.user = cmd'[c].user /\ new.type = cmd'[c].type
    BY <1>2, <1>4
  <2>2. \A x \in Commands \ {c} :
          /\ cmd'[x].pc \in {"update", "del", "done"} =>
               \E b \in bans' : b.user = cmd'[x].user /\ b.type = cmd'[x].type
          /\ cmd'[x].pc \in {"del", "done"} => db'[cmd'[x].user].status # "normal"
    <3>. HIDE DEF new
    <3>. QED
      BY <1>2, <1>4 DEF IInv, CommandsDo
  <2>. HIDE DEF new
  <2>. QED
    BY <2>1, <2>2 DEF CommandsDo
<1>6. SanctionsStick' /\ SanctionsHaveRecords' /\ RefusedReadBanned'
  BY <1>2 DEF IInv, SanctionsStick, SanctionsHaveRecords, RefusedReadBanned
<1>. QED
  BY <1>3, <1>5, <1>6 DEF IInv

(* The ban is on record when the status is set, and no request that was to be *)
(* refused is one of this user any more.                                    *)
LEMMA UpdateStatusStep ==
  ASSUME IInv, NEW c \in Commands, UpdateStatus(c)
  PROVE  IInv'
<1>. DEFINE u == cmd[c].user
<1>0. u \in Users /\ cmd[c].type \in {"muted", "banned"} /\ cmd[c].pc = "update"
  BY DEF IInv, TypeOK, Command, UpdateStatus, StatusPoint
<1>1. /\ db' = [db EXCEPT ![u].status = cmd[c].type]
      /\ cmd' = [cmd EXCEPT ![c].pc = "del"]
      /\ mustRefuse' = {r \in mustRefuse : req[r].user # u}
      /\ UNCHANGED <<cached, bans, req, announced>>
  BY DEF UpdateStatus
<1>2. TypeOK'
  <2>1. db' \in [Users -> Row]
    BY <1>0, <1>1 DEF IInv, TypeOK, Row, Status
  <2>2. cmd' \in [Commands -> Command]
    BY <1>1 DEF IInv, TypeOK, Command
  <2>. QED
    BY <1>1, <2>1, <2>2 DEF IInv, TypeOK
<1>3. db'[u].status = cmd[c].type /\ \A v \in Users \ {u} : db'[v] = db[v]
  BY <1>0, <1>1 DEF IInv, TypeOK, Row
<1>4. /\ \A x \in Commands \ {c} : cmd'[x] = cmd[x]
      /\ cmd'[c].user = u /\ cmd'[c].type = cmd[c].type
  BY <1>1 DEF IInv, TypeOK, Command
<1>5. SanctionsStick'
  BY <1>0, <1>1, <1>3 DEF IInv, TypeOK, SanctionsStick
<1>6. \E b \in bans : b.user = u /\ b.type = cmd[c].type
  BY <1>0 DEF IInv, CommandsDo
<1>7. SanctionsHaveRecords'
  BY <1>1, <1>3, <1>6 DEF IInv, SanctionsHaveRecords
<1>8. CommandsDo'
  <2>. SUFFICES ASSUME NEW x \in Commands
                PROVE  /\ cmd'[x].pc \in {"update", "del", "done"} =>
                            \E b \in bans' : b.user = cmd'[x].user
                                            /\ b.type = cmd'[x].type
                       /\ cmd'[x].pc \in {"del", "done"} =>
                            db'[cmd'[x].user].status # "normal"
    BY DEF CommandsDo
  <2>1. CASE x = c
    BY <1>0, <1>1, <1>3, <1>4, <1>6, <2>1
  <2>2. CASE x # c
    <3>1. cmd[x].user \in Users
      BY DEF IInv, TypeOK, Command
    <3>. QED
      BY <1>0, <1>1, <1>3, <1>4, <2>2, <3>1 DEF IInv, CommandsDo
  <2>. QED
    BY <2>1, <2>2
<1>9. RefusedReadBanned'
  <2>1. \A r \in mustRefuse : req[r].user \in Users
    BY DEF IInv, TypeOK, Request
  <2>. QED
    BY <1>1, <1>3, <2>1 DEF IInv, RefusedReadBanned
<1>. QED
  BY <1>2, <1>5, <1>7, <1>8, <1>9 DEF IInv

LEMMA InvalidateBannedStep ==
  ASSUME IInv, NEW c \in Commands, InvalidateBanned(c)
  PROVE  IInv'
<1>1. /\ cmd' = [cmd EXCEPT ![c].pc = "done"]
      /\ announced' = announced \cup {cmd[c].user}
      /\ UNCHANGED <<db, bans, req, mustRefuse>>
      /\ cmd[c].pc = "del"
  BY DEF InvalidateBanned
<1>2. cached' \in [Users -> Row \cup {NoRow}]
  BY DEF IInv, TypeOK, InvalidateBanned, Invalidated
<1>3. TypeOK'
  BY <1>1, <1>2 DEF IInv, TypeOK, Command
<1>4. SanctionsStick'
  BY <1>1 DEF IInv, SanctionsStick, CommandsDo
<1>5. CommandsDo'
  BY <1>1 DEF IInv, TypeOK, CommandsDo, Command
<1>6. SanctionsHaveRecords' /\ RefusedReadBanned'
  BY <1>1 DEF IInv, SanctionsHaveRecords, RefusedReadBanned
<1>. QED
  BY <1>3, <1>4, <1>5, <1>6 DEF IInv

LEMMA FailBanStep ==
  ASSUME IInv, NEW c \in Commands, FailBan(c)
  PROVE  IInv'
<1>1. TypeOK'
  BY DEF IInv, TypeOK, FailBan, Command
<1>2. CommandsDo'
  BY DEF IInv, TypeOK, CommandsDo, FailBan, Command
<1>3. SanctionsStick' /\ SanctionsHaveRecords' /\ RefusedReadBanned'
  BY DEF IInv, SanctionsStick, SanctionsHaveRecords, RefusedReadBanned, FailBan
<1>. QED
  BY <1>1, <1>2, <1>3 DEF IInv

LEMMA EndBanStep ==
  ASSUME IInv, NEW b \in bans, EndBan(b)
  PROVE  IInv'
<1>. DEFINE ended == [b EXCEPT !.over = TRUE]
<1>1. b \in Ban
  BY DEF IInv, TypeOK
<1>2. ended \in Ban /\ ended.user = b.user /\ ended.type = b.type
  BY <1>1 DEF Ban
<1>3. bans' = (bans \ {b}) \cup {ended}
      /\ UNCHANGED <<db, cached, req, cmd, announced, mustRefuse>>
  BY DEF EndBan
<1>4. TypeOK'
  BY <1>2, <1>3 DEF IInv, TypeOK
<1>5. \A x \in bans : \E a \in bans' : a.user = x.user /\ a.type = x.type
  BY <1>2, <1>3
<1>. QED
  BY <1>3, <1>4, <1>5, RecordsKept DEF IInv

LEMMA NextIInv ==
  ASSUME IInv, [Next]_vars
  PROVE  IInv'
<1>1. ASSUME NEW r \in Requests, NEW u \in Users, NEW route \in Routes,
             Arrive(r, u, route)
      PROVE  IInv'
  BY <1>1, ArriveStep
<1>2. ASSUME NEW r \in Requests, Work(r)
      PROVE  IInv'
  BY <1>2, LoadStep, CheckStep, ServeStep, FindMeStep, SaveMeStep DEF Work
<1>3. ASSUME NEW u \in Users, Expire(u)
      PROVE  IInv'
  BY <1>3, ExpireStep
<1>4. ASSUME NEW c \in Commands, NEW u \in Users,
             NEW type \in {"muted", "banned", "other"}, NEW d \in Durations,
             StartBan(c, u, type, d)
      PROVE  IInv'
  BY <1>4, StartBanStep
<1>5. ASSUME NEW c \in Commands, BanStep(c)
      PROVE  IInv'
  BY <1>5, CreateBanStep, UpdateStatusStep, InvalidateBannedStep DEF BanStep
<1>6. ASSUME NEW c \in Commands, FailBan(c)
      PROVE  IInv'
  BY <1>6, FailBanStep
<1>7. ASSUME NEW b \in bans, EndBan(b)
      PROVE  IInv'
  BY <1>7, EndBanStep
<1>8. CASE UNCHANGED vars
  <2>1. TypeOK'
    BY <1>8 DEF IInv, TypeOK, vars
  <2>2. RefusedReadBanned'
    BY <1>8 DEF IInv, RefusedReadBanned, vars
  <2>. QED
    BY <1>8, <2>1, <2>2, RequestFrame DEF vars
<1>. QED
  BY <1>1, <1>2, <1>3, <1>4, <1>5, <1>6, <1>7, <1>8 DEF Next

(* What a request that must be refused has read is enough for the property. *)
LEMMA RefusedGetNoTokens ==
  ASSUME IInv
  PROVE  NoTokensAfterBan
BY DEF IInv, RefusedReadBanned, NoTokensAfterBan

-----------------------------------------------------------------------------
(* The inductive invariant holds in every reachable state. *)
THEOREM UserInvariant == Spec => []IInv
BY InitIInv, NextIInv, PTL DEF Spec

(* Every variable keeps its type, whatever the interleaving of requests and  *)
(* BanUser calls.                                                          *)
THEOREM UserTypes == Spec => []TypeOK
<1>1. IInv => TypeOK
  BY DEF IInv
<1>. QED
  BY <1>1, UserInvariant, PTL

(* No profile update or later sanction makes a sanctioned user normal again: *)
(* UpdateMe writes only the columns it was given.                           *)
THEOREM SanctionsAreKept == Spec => []SanctionsStick
<1>1. IInv => SanctionsStick
  BY DEF IInv
<1>. QED
  BY <1>1, UserInvariant, PTL

(* Whatever fails in BanUser, a status other than normal has its ban.  *)
THEOREM SanctionsAreOnRecord == Spec => []SanctionsHaveRecords
<1>1. IInv => SanctionsHaveRecords
  BY DEF IInv
<1>. QED
  BY <1>1, UserInvariant, PTL

(* Login and refresh read the database: a settled ban ends the issue of tokens *)
(* however stale the cached row is.                                         *)
THEOREM BannedGetNoTokens == Spec => []NoTokensAfterBan
<1>1. IInv => NoTokensAfterBan
  BY RefusedGetNoTokens
<1>. QED
  BY <1>1, UserInvariant, PTL
=============================================================================
