------------------------------ MODULE UserCache ------------------------------
(***************************************************************************)
(* Who may call: the users table, its copy in Redis, and the sanctions.    *)
(*                                                                         *)
(* The middleware Auth and OptionalAuth load the caller's row through a     *)
(* cache-aside read (loadUser): Redis first, then the database, then a     *)
(* SET with a TTL.  Login and refresh read the database instead.  BanUser  *)
(* inserts a ban, updates users.status and deletes the cached row; UpdateMe *)
(* updates the profile columns and deletes it.  Nothing makes these steps  *)
(* atomic, and every error of Redis is ignored.                            *)
(***************************************************************************)
EXTENDS Naturals

CONSTANTS
  Users,
  Requests,     \* goroutines of the server; each serves one request at a time
  Commands,     \* calls of BanUser, one each
  Profiles,     \* the contents of the profile columns
  Durations,    \* a subset of {"permanent", "timed"}: durationHours = 0 or not
  RedisMayFail, \* whether a command to Redis may fail
  NoRow         \* nothing loaded, nothing cached

Status == {"normal", "muted", "banned"}
Routes == {"public", "member", "update", "token"}
Row    == [status : Status, profile : Profiles]
Ban    == [user : Users, type : {"muted", "banned"},
           duration : Durations, over : BOOLEAN]

ASSUME UserCacheAssumption ==
  /\ Users # {}
  /\ NoRow \notin Row
  /\ Durations \subseteq {"permanent", "timed"}
  /\ Durations # {}
  /\ RedisMayFail \in BOOLEAN

VARIABLES
  db,           \* db[u] : the row of u in table users
  cached,       \* cached[u] : the value of Redis key user:{u}
  bans,         \* the rows of table bans
  req,          \* req[r] : where request r is, and what it has loaded
  cmd,          \* cmd[c] : where BanUser call c is, and its arguments
  announced,    \* history: the users an operator was told to be sanctioned
  mustRefuse    \* history: requests that came in after a settled ban

vars == <<db, cached, bans, req, cmd, announced, mustRefuse>>

Request == [pc : {"idle", "get", "load", "fill", "check", "serve", "find",
                  "save", "del"},
            user : Users, route : Routes, row : Row \cup {NoRow}]

Command == [pc : {"idle", "create", "update", "del", "done", "failed"},
            user : Users, type : {"muted", "banned"}, duration : Durations]

TypeOK ==
  /\ db \in [Users -> Row]
  /\ cached \in [Users -> Row \cup {NoRow}]
  /\ bans \in SUBSET Ban
  /\ req \in [Requests -> Request]
  /\ cmd \in [Commands -> Command]
  /\ announced \in SUBSET Users
  /\ mustRefuse \in SUBSET Requests

Idle == [pc |-> "idle", user |-> CHOOSE u \in Users : TRUE,
         route |-> "public", row |-> NoRow]

Init ==
  /\ db \in [Users -> [status : {"normal"}, profile : Profiles]]
  /\ cached = [u \in Users |-> NoRow]
  /\ bans = {}
  /\ req = [r \in Requests |-> Idle]
  /\ cmd = [c \in Commands |->
       [pc |-> "idle", user |-> CHOOSE u \in Users : TRUE, type |-> "muted",
        duration |-> CHOOSE d \in Durations : TRUE]]
  /\ announced = {}
  /\ mustRefuse = {}

Goto(r, pc) == req' = [req EXCEPT ![r].pc = pc]

(* The request is answered and its goroutine free for another. *)
Answer(r) ==
  /\ req' = [req EXCEPT ![r] = Idle]
  /\ mustRefuse' = mustRefuse \ {r}

-----------------------------------------------------------------------------
(* Requests *)

(* An operator was told that u is banned, and nothing is under way to change *)
(* that.                                                                   *)
SettledBan(u) ==
  /\ db[u].status = "banned"
  /\ u \in announced
  /\ \A c \in Commands : cmd[c].user = u => cmd[c].pc \in {"idle", "done"}

(* Where a request gets the row from: login and refresh never ask Redis. *)
FirstStep_Cached(route) == "get"

FirstStep(route) == IF route = "token" THEN "load" ELSE "get"

Arrive(r, u, route) ==
  /\ req[r].pc = "idle"
  /\ req' = [req EXCEPT ![r] = [pc |-> FirstStep(route), user |-> u,
                                route |-> route, row |-> NoRow]]
  /\ mustRefuse' = IF SettledBan(u) THEN mustRefuse \cup {r} ELSE mustRefuse
  /\ UNCHANGED <<db, cached, bans, cmd, announced>>

(* GetJSON: a hit gives the cached row, a miss or an error the database. *)
ReadCache(r) ==
  /\ req[r].pc = "get"
  /\ \/ /\ cached[req[r].user] # NoRow
        /\ req' = [req EXCEPT ![r].pc = "check", ![r].row = cached[req[r].user]]
     \/ /\ cached[req[r].user] = NoRow \/ RedisMayFail
        /\ Goto(r, "load")
  /\ UNCHANGED <<db, cached, bans, cmd, announced, mustRefuse>>

ReadDB(r) ==
  /\ req[r].pc = "load"
  /\ req' = [req EXCEPT ![r].row = db[req[r].user],
                        ![r].pc = IF req[r].route = "token" THEN "check"
                                                            ELSE "fill"]
  /\ UNCHANGED <<db, cached, bans, cmd, announced, mustRefuse>>

(* SetJSON, which may fail unnoticed. *)
Fill(r) ==
  /\ req[r].pc = "fill"
  /\ \/ cached' = [cached EXCEPT ![req[r].user] = req[r].row]
     \/ RedisMayFail /\ UNCHANGED cached
  /\ Goto(r, "check")
  /\ UNCHANGED <<db, bans, cmd, announced, mustRefuse>>

(* Every route but those under OptionalAuth turns a banned user away. *)
Refused(route, row) == route # "public" /\ row.status = "banned"

Check(r) ==
  /\ req[r].pc = "check"
  /\ IF Refused(req[r].route, req[r].row)
     THEN Answer(r)
     ELSE Goto(r, "serve") /\ UNCHANGED mustRefuse
  /\ UNCHANGED <<db, cached, bans, cmd, announced>>

(* The handlers that leave table users alone, issuing a token pair included. *)
Serve(r) ==
  /\ req[r].pc = "serve"
  /\ req[r].route # "update"
  /\ Answer(r)
  /\ UNCHANGED <<db, cached, bans, cmd, announced>>

(* UpdateMe reads the row again, from the database. *)
FindMe(r) ==
  /\ req[r].pc = "serve"
  /\ req[r].route = "update"
  /\ req' = [req EXCEPT ![r].pc = "save", ![r].row = db[req[r].user]]
  /\ UNCHANGED <<db, cached, bans, cmd, announced, mustRefuse>>

(* Updates(fields) writes the profile columns only, not the row it read. *)
Updated_WholeRow(old, read, profile) == [read EXCEPT !.profile = profile]

Updated(old, read, profile) == [old EXCEPT !.profile = profile]

SaveMe(r, profile) ==
  /\ req[r].pc = "save"
  /\ LET u == req[r].user IN
       db' = [db EXCEPT ![u] = Updated(@, req[r].row, profile)]
  /\ Goto(r, "del")
  /\ UNCHANGED <<cached, bans, cmd, announced, mustRefuse>>

(* DEL user:{u}, which may fail unnoticed. *)
Invalidated(u) ==
  {[cached EXCEPT ![u] = NoRow]} \cup (IF RedisMayFail THEN {cached} ELSE {})

InvalidateMe(r) ==
  /\ req[r].pc = "del"
  /\ cached' \in Invalidated(req[r].user)
  /\ Answer(r)
  /\ UNCHANGED <<db, bans, cmd, announced>>

(* UserTTL runs out. *)
Expires_Never(u) == FALSE

Expires(u) == cached[u] # NoRow

Expire(u) ==
  /\ Expires(u)
  /\ cached' = [cached EXCEPT ![u] = NoRow]
  /\ UNCHANGED <<db, bans, req, cmd, announced, mustRefuse>>

-----------------------------------------------------------------------------
(* BanUser *)

(* banType is mute or ban; anything else is refused. *)
KnownType_Any(type) == TRUE

KnownType(type) == type \in {"muted", "banned"}

StartBan(c, u, type, duration) ==
  /\ cmd[c].pc = "idle"
  /\ KnownType(type)
  /\ cmd' = [cmd EXCEPT ![c] = [pc |-> "create", user |-> u, type |-> type,
                                duration |-> duration]]
  /\ UNCHANGED <<db, cached, bans, req, announced, mustRefuse>>

CreateBan(c) ==
  /\ cmd[c].pc = "create"
  /\ bans' = bans \cup {[user |-> cmd[c].user, type |-> cmd[c].type,
                         duration |-> cmd[c].duration, over |-> FALSE]}
  /\ cmd' = [cmd EXCEPT ![c].pc = "update"]
  /\ UNCHANGED <<db, cached, req, announced, mustRefuse>>

(* The status follows the type of the ban just inserted. *)
StatusPoint_First(c) == cmd[c].pc \in {"create", "update"}

StatusPoint(c) == cmd[c].pc = "update"

UpdateStatus(c) ==
  LET u == cmd[c].user IN
  /\ StatusPoint(c)
  /\ db' = [db EXCEPT ![u].status = cmd[c].type]
  /\ cmd' = [cmd EXCEPT ![c].pc = "del"]
  /\ mustRefuse' = {r \in mustRefuse : req[r].user # u}
  /\ UNCHANGED <<cached, bans, req, announced>>

InvalidateBanned(c) ==
  /\ cmd[c].pc = "del"
  /\ cached' \in Invalidated(cmd[c].user)
  /\ cmd' = [cmd EXCEPT ![c].pc = "done"]
  /\ announced' = announced \cup {cmd[c].user}
  /\ UNCHANGED <<db, bans, req, mustRefuse>>

(* A statement fails or the server stops: what was done stays done. *)
FailBan(c) ==
  /\ cmd[c].pc \in {"create", "update", "del"}
  /\ cmd' = [cmd EXCEPT ![c].pc = "failed"]
  /\ UNCHANGED <<db, cached, bans, req, announced, mustRefuse>>

(* ended_at goes by. *)
EndBan(b) ==
  /\ b.duration = "timed"
  /\ ~b.over
  /\ bans' = (bans \ {b}) \cup {[b EXCEPT !.over = TRUE]}
  /\ UNCHANGED <<db, cached, req, cmd, announced, mustRefuse>>

Work(r) ==
  \/ ReadCache(r)
  \/ ReadDB(r)
  \/ Fill(r)
  \/ Check(r)
  \/ Serve(r)
  \/ FindMe(r)
  \/ \E profile \in Profiles : SaveMe(r, profile)
  \/ InvalidateMe(r)

BanStep(c) == CreateBan(c) \/ UpdateStatus(c) \/ InvalidateBanned(c)

Next ==
  \/ \E r \in Requests :
       \/ \E u \in Users, route \in Routes : Arrive(r, u, route)
       \/ Work(r)
  \/ \E u \in Users : Expire(u)
  \/ \E c \in Commands :
       \/ \E u \in Users, type \in {"muted", "banned", "other"}, d \in Durations :
            StartBan(c, u, type, d)
       \/ BanStep(c)
       \/ FailBan(c)
  \/ \E b \in bans : EndBan(b)

Spec == Init /\ [][Next]_vars

(* Goroutines run; Redis expires keys; time passes. *)
FairSpec ==
  /\ Spec
  /\ \A r \in Requests : WF_vars(Work(r))
  /\ \A c \in Commands : WF_vars(BanStep(c))
  /\ \A u \in Users : WF_vars(Expire(u))
  /\ WF_vars(\E b \in bans : EndBan(b))

-----------------------------------------------------------------------------
(* No lost update: once BanUser has returned, no profile update or other    *)
(* sanction that was in flight makes the user's status normal again.       *)
SanctionsStick == \A u \in announced : db[u].status # "normal"

(* BanUser inserts the ban before it changes the status: whatever fails in  *)
(* between, a sanctioned user has a ban of that type on record.            *)
SanctionsHaveRecords ==
  \A u \in Users : db[u].status # "normal" =>
    \E b \in bans : b.user = u /\ b.type = db[u].status

(* A login or refresh that comes in when a ban is settled gets no tokens,   *)
(* however stale the copy in Redis is.                                     *)
NoTokensAfterBan ==
  \A r \in mustRefuse : req[r].route = "token" => req[r].pc # "serve"

(* The copy in Redis converges: when a user's row stays as it is, the cached *)
(* one is in the end that row or absent, in spite of late fills and lost    *)
(* deletions.  This is what the TTL is for.                                *)
CacheConverges ==
  \A u \in Users, v \in Row :
    <>[](db[u] = v) => <>[](cached[u] \in {NoRow, v})

(* admin.go, BanUser: "the cached user is invalidated, so that the ban      *)
(* takes effect at once".  No request that comes in after a settled ban    *)
(* passes Auth.                                                            *)
BanTakesEffectAtOnce ==
  \A r \in mustRefuse : req[r].route # "public" => req[r].pc # "serve"
=============================================================================
