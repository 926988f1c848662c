------------------------------ MODULE PlanScreen ------------------------------
(***************************************************************************)
(* Booking a seat of the library ahead, app/library-plan.tsx and             *)
(* pages/LibraryPlan.tsx, and the job that books it (service/campus.go).      *)
(*                                                                         *)
(* Screen "seats" is the form: a building gives its rooms, a room and a date  *)
(* their seats, each list fetched when what it depends on changes.  Screen   *)
(* "plans" is the list of plans, which the user deletes while the server     *)
(* carries them out.                                                        *)
(***************************************************************************)
EXTENDS Screen

CONSTANTS
  Buildings,
  RoomsOf,      \* RoomsOf[b] : the rooms of building b
  Dates,
  Plans,        \* plans, those still to be made included
  MaxRuns       \* bound: runs of the job under way at once

ASSUME PlanScreenAssumption ==
  DOMAIN RoomsOf = Buildings /\ MaxRuns \in Nat /\ None \notin Plans

Rooms == UNION {RoomsOf[b] : b \in Buildings}

(* A list of seats, and a seat on it, are told by what they were asked for. *)
SeatList == [room : Rooms, date : Dates]

(* BookingPlanPending, -Succeeded and -Failed; a plan may not exist (yet). *)
Statuses == {"none", "pending", "done", "failed", "gone"}

(* ListBookingPlans: the plans there are, with their status. *)
PlansOf(d) == [p \in {q \in Plans : d.st[q] \notin {"none", "gone"}} |-> d.st[p]]

NoRun == [todo |-> {}, at |-> None, won |-> FALSE]

PlanTypeOK ==
  screen \in {"seats", "plans"} =>
    /\ db.st \in [Plans -> Statuses]
    /\ db.booked \subseteq Plans
    /\ db.runs \in [1 .. MaxRuns -> [todo : SUBSET Plans, at : Plans \cup {None},
                                     won : BOOLEAN]]
    /\ IF screen = "seats"
       THEN ui \in [building : Buildings \cup {None}, rooms : Buildings \cup {None},
                    room : Rooms \cup {None}, seats : SeatList \cup {None},
                    seat : SeatList \cup {None}, date : Dates, turning : BOOLEAN,
                    sending : BOOLEAN, loaded : BOOLEAN, plans : {None, PlansOf(db)}
                    \cup UNION {[S -> Statuses] : S \in SUBSET Plans}]
       ELSE ui.deleting \subseteq Plans

(* Mounted, logged in: the plans and the buildings have been asked for. *)
PlanMounts ==
  {Mount(c, "seats",
         [building |-> None, rooms |-> None, room |-> None, seats |-> None,
          seat |-> None, date |-> d, turning |-> FALSE, sending |-> FALSE,
          loaded |-> FALSE, plans |-> None],
         <<Call("plans", None), Call("buildings", None)>>,
         [st |-> [p \in Plans |-> "none"], booked |-> {}, again |-> FALSE,
          runs |-> [r \in 1 .. MaxRuns |-> NoRun]]) :
     c \in Clients, d \in Dates}
  \cup
  {Mount(c, "plans",
         [plans |-> None, deleting |-> {}],
         <<Call("plans", None)>>,
         [st |-> s, booked |-> {}, again |-> FALSE,
          runs |-> [r \in 1 .. MaxRuns |-> NoRun]]) :
     c \in Clients, s \in [Plans -> {"none", "pending"}]}

-----------------------------------------------------------------------------
(* The effect on the building empties what depends on it; the list of rooms   *)
(* stays until the new one comes.                                          *)
ChooseBuilding(b) ==
  /\ b # ui.building /\ (b # None => ui.loaded)
  /\ b = None => client = "web"
  /\ ui' = [ui EXCEPT !.building = b, !.room = None, !.seats = None,
                      !.seat = None, !.rooms = IF b = None THEN None ELSE @]
  /\ IF b = None THEN UNCHANGED calls ELSE Send(Call("rooms", b))
  /\ Stays /\ UNCHANGED <<db, upset>>

(* The effect on the room and the date: the seat is chosen anew.  The former  *)
(* list of seats is shown until the new one comes.                         *)
Asked(r, d) ==
  [ui EXCEPT !.room = r, !.date = d, !.turning = @ \/ r # None, !.seat = None,
             !.seats = IF r = None THEN None ELSE @]

AskSeats(r, d) ==
  /\ ui' = Asked(r, d)
  /\ IF r = None THEN UNCHANGED calls
     ELSE Send(Call("seats", [room |-> r, date |-> d]))
  /\ upset' = (r # None /\ UnderWay("seats"))
  /\ Stays /\ UNCHANGED db

ChooseRoom(r) ==
  /\ ui.building # None /\ r # ui.room
  /\ IF r = None THEN client = "web"
     ELSE ui.rooms # None /\ r \in RoomsOf[ui.rooms]
  /\ AskSeats(r, ui.date)

ChooseDate(d) ==
  /\ d # ui.date
  /\ AskSeats(ui.room, d)

(* A spinner turns while seats are fetched, but it locks nothing. *)
ChooseSeat ==
  /\ ui.room # None /\ ui.seats # None /\ ui.seats # ui.seat
  /\ ui' = [ui EXCEPT !.seat = ui.seats]
  /\ upset' = (upset \/ ui.turning)
  /\ Stays /\ UNCHANGED <<calls, db>>

(* The web's list of seats starts with an empty line, as its others do. *)
ChooseNoSeat ==
  /\ ui.room # None /\ ui.seat # None
  /\ ui' = [ui EXCEPT !.seat = None]
  /\ Stays /\ UNCHANGED <<calls, db, upset>>

(* onSubmit of a form that is filled in; the times are left out. *)
SubmitPlan ==
  /\ ~ui.sending
  /\ ui.building # None /\ ui.room # None /\ ui.seat # None
  /\ ui' = [ui EXCEPT !.sending = TRUE]
  /\ Send(Call("create", [seat |-> ui.seat, room |-> ui.room, date |-> ui.date]))
  /\ Stays /\ UNCHANGED <<db, upset>>

(* onDelete of a card, confirmed; the button turns until it is answered. *)
DeletePlan(p) ==
  /\ ui.plans # None /\ p \in DOMAIN ui.plans \ ui.deleting
  /\ ui' = [ui EXCEPT !.deleting = @ \cup {p}]
  /\ Send(Call("delete", p))
  /\ upset' = (upset \/ calls # <<>>)
  /\ Stays /\ UNCHANGED db

-----------------------------------------------------------------------------
(* CreateBookingPlan and DeleteBookingPlan are one statement each, whatever   *)
(* the job is doing; the rest reads.                                       *)
AfterPlan(k) ==
  CASE k.kind = "create" ->
         {[db EXCEPT !.st[p] = "pending"] : p \in {q \in Plans : db.st[q] = "none"}}
    [] k.kind = "delete" -> {[db EXCEPT !.st[k.of] = "gone"]}
    [] OTHER -> {db}

ServePlan(i) ==
  /\ calls[i].ans = None
  /\ db' \in AfterPlan(calls[i])
  /\ Served(i, IF calls[i].kind = "plans" THEN PlansOf(db) ELSE "ok")
  /\ Stays /\ UNCHANGED <<ui, upset>>

(* What a form or a list makes of an answer. *)
Arrived(k) ==
  CASE k.kind = "plans" -> [ui EXCEPT !.plans = k.ans]
    [] k.kind = "buildings" -> [ui EXCEPT !.loaded = TRUE]
    [] k.kind = "rooms" -> [ui EXCEPT !.rooms = k.of]
    [] k.kind = "seats" -> [ui EXCEPT !.seats = k.of, !.turning = FALSE]
    [] k.kind = "create" -> [ui EXCEPT !.sending = FALSE]
    [] k.kind = "delete" -> [ui EXCEPT !.deleting = @ \ {k.of}]

(* onCreated and onDeleted: the plans are asked for again, and not waited for. *)
Refetched_Never(k) == <<>>

Refetched(k) ==
  IF k.kind \in {"create", "delete"} THEN <<Call("plans", None)>> ELSE <<>>

(* A list of plans that is answered last, and nothing happened since. *)
PlansSettle(k) ==
  screen = "plans" /\ k.kind = "plans" /\ Len(calls) = 1 /\ k.ans = PlansOf(db)

PlanAnswered(i) ==
  LET k == calls[i]
  IN /\ k.ans # None
     /\ ui' = Arrived(k)
     /\ calls' = RemoveAt(calls, i) \o Refetched(k)
     /\ upset' = ((upset \/ (k.kind = "delete" /\ Len(calls) > 1)) /\ ~PlansSettle(k))
     /\ Stays /\ UNCHANGED db

(* Refused or lost: a list of rooms or seats is emptied, the others stay. *)
Unarrived(k) ==
  CASE k.kind = "rooms" -> [ui EXCEPT !.rooms = None]
    [] k.kind = "seats" -> [ui EXCEPT !.seats = None, !.turning = FALSE]
    [] k.kind = "create" -> [ui EXCEPT !.sending = FALSE]
    [] k.kind = "delete" -> [ui EXCEPT !.deleting = @ \ {k.of}]
    [] OTHER -> ui

PlanMissed(i) ==
  LET k == calls[i]
  IN /\ ui' = Unarrived(k)
     /\ Ends(i)
     /\ upset' = (upset \/ (screen = "plans"
                            /\ (k.kind = "plans" \/ (k.kind = "delete" /\ k.ans # None))))
     /\ Stays /\ UNCHANGED db

-----------------------------------------------------------------------------
(* A run of the job has the plans it read as due, and goes through them; the  *)
(* next one starts a minute later, whether it has ended or not.             *)
Held(r) == db.runs[r].todo

(* RunDueBookings: every pending plan is due. *)
StartRun(r) ==
  LET due == {p \in Plans : db.st[p] = "pending"}
  IN /\ due # {} /\ Held(r) = {}
     /\ db' = [db EXCEPT !.runs[r].todo = due,
                         !.again = @ \/ \E s \in DOMAIN db.runs : Held(s) \cap due # {}]
     /\ Stays /\ UNCHANGED <<ui, calls, upset>>

(* runOne: the library books a seat once; whether the plan is still there is  *)
(* not asked.                                                              *)
Book(r, p, won) ==
  /\ p \in Held(r) /\ db.runs[r].at = None
  /\ won => p \notin db.booked
  /\ db' = [db EXCEPT !.runs[r].at = p, !.runs[r].won = won,
                      !.booked = IF won THEN @ \cup {p} ELSE @]
  /\ Stays /\ UNCHANGED <<ui, calls, upset>>

(* UpdateStatus, by the id alone. *)
Outcome_Swallowed(r) == "done"

Outcome(r) == IF db.runs[r].won THEN "done" ELSE "failed"

Record(r) ==
  LET p == db.runs[r].at
  IN /\ p # None
     /\ db' = [db EXCEPT !.st[p] = IF @ = "gone" THEN @ ELSE Outcome(r),
                         !.runs[r].todo = @ \ {p}, !.runs[r].at = None,
                         !.runs[r].won = FALSE]
     /\ upset' = TRUE
     /\ Stays /\ UNCHANGED <<ui, calls>>

(* The server is restarted: what was booked and not recorded is due again. *)
RestartJob ==
  /\ \E r \in DOMAIN db.runs : Held(r) # {}
  /\ db' = [db EXCEPT !.runs = [r \in DOMAIN db.runs |-> NoRun],
                      !.again = @ \/ \E r \in DOMAIN db.runs : db.runs[r].at # None]
  /\ Stays /\ UNCHANGED <<ui, calls, upset>>

JobNext ==
  \/ \E r \in DOMAIN db.runs :
       \/ StartRun(r)
       \/ \E p \in Plans, won \in BOOLEAN : Book(r, p, won)
       \/ Record(r)
  \/ RestartJob

-----------------------------------------------------------------------------
(* The form of the two clients, and the cards of the plans. *)
FormActions ==
  \/ \E b \in Buildings \cup {None} : ChooseBuilding(b)
  \/ \E r \in Rooms \cup {None} : ChooseRoom(r)
  \/ \E d \in Dates : ChooseDate(d)
  \/ ChooseSeat
  \/ SubmitPlan

AppSeats == client = "app" /\ FormActions

WebSeats == client = "web" /\ (FormActions \/ ChooseNoSeat)

AppPlans == client = "app" /\ \E p \in Plans : DeletePlan(p)

WebPlans == client = "web" /\ \E p \in Plans : DeletePlan(p)

PlanNext ==
  \/ screen = "seats" /\ (AppSeats \/ WebSeats)
  \/ screen = "plans" /\ (AppPlans \/ WebPlans \/ JobNext)
  \/ /\ screen \in {"seats", "plans"}
     /\ \E i \in DOMAIN calls : ServePlan(i) \/ PlanAnswered(i) \/ PlanMissed(i)

-----------------------------------------------------------------------------
(* The seat a plan is made for is one the library offered for its room and    *)
(* date, however these are changed: only a seat picked while the spinner     *)
(* turns, or lists that overtook each other, can be another room's.         *)
SeatIsOffered ==
  (screen = "seats" /\ ~upset /\ ui.seat # None) =>
    ui.seat = [room |-> ui.room, date |-> ui.date]

(* With nothing under way the list shows the plans there are, and each as the *)
(* job left it, unless the job recorded something or an answer was lost.    *)
PlansAreShown ==
  (screen = "plans" /\ calls = <<>> /\ ~upset) => ui.plans = PlansOf(db)

(* A plan no run is at says whether its seat is booked: booked and recorded   *)
(* are two steps with the library between them, and only a plan that is run  *)
(* twice, by overlapping runs or after a restart, may be told wrong.        *)
BookingsAreRecorded ==
  (screen = "plans" /\ ~db.again) =>
    \A p \in Plans :
      (db.st[p] \in {"done", "failed"}) => (db.st[p] = "done") = (p \in db.booked)
=============================================================================
