-------------------------------- MODULE Screen --------------------------------
(***************************************************************************)
(* What the screens of the two clients, the app (apps/app) and the web       *)
(* pages (luojia-web), have in common: a screen keeps local state, has       *)
(* calls under way, and is told their answers one by one, in any order.      *)
(*                                                                         *)
(* One screen is mounted at a time.  Leaving it drops its local state, and   *)
(* an answer that comes later finds nobody to tell, so the state space of    *)
(* all screens is the sum of theirs.  "db" is the part of the server the     *)
(* mounted screen shows, as this user sees and changes it.                  *)
(***************************************************************************)
EXTENDS Integers, FiniteSets, Sequences, SequencesExt

CONSTANTS
  None,         \* nothing: no post, no draft, no answer yet
  MaxCalls      \* bound: calls of the screen under way at once

ASSUME ScreenAssumption == MaxCalls \in Nat \ {0} /\ None \notin {"ok", "edit", "password"}

VARIABLES
  client,       \* "app" or "web"
  screen,       \* the screen, or the part of one, that is mounted
  ui,           \* its local state
  calls,        \* its calls under way, in the order they were sent
  db,           \* what the server has
  upset         \* history: calls of the screen have crossed, so that answers
                \* may have been shown in another order than they were given

vars == <<client, screen, ui, calls, db, upset>>

Clients == {"app", "web"}

(* A screen as it is mounted. *)
Mount(c, s, u, ks, d) ==
  [client |-> c, screen |-> s, ui |-> u, calls |-> ks, db |-> d]

Starts(m) ==
  /\ client = m.client
  /\ screen = m.screen
  /\ ui = m.ui
  /\ calls = m.calls
  /\ db = m.db
  /\ upset = FALSE

(* The user opens another screen, or an answer takes him there. *)
Opens(m) ==
  /\ client = m.client /\ UNCHANGED client
  /\ screen' = m.screen
  /\ ui' = m.ui
  /\ calls' = m.calls
  /\ db' = m.db
  /\ upset' = FALSE

(* Where the screens of the models are left for. *)
Home(c) == Mount(c, "home", None, <<>>, None)

Stays == UNCHANGED <<client, screen>>

(* A call, and what the server has answered to it. *)
Call(kind, of) == [kind |-> kind, of |-> of, ans |-> None]

Send(k) == Len(calls) < MaxCalls /\ calls' = Append(calls, k)

(* Call i is over: answered, refused or lost. *)
Ends(i) == calls' = RemoveAt(calls, i)

Served(i, ans) == calls' = [calls EXCEPT ![i].ans = ans]

UnderWay(kind) == \E i \in DOMAIN calls : calls[i].kind = kind
=============================================================================
