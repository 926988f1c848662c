----------------------------- MODULE ReplyScreen -----------------------------
(***************************************************************************)
(* The replies below a post and the box they are written in: the other half  *)
(* of app/post/[id].tsx and pages/PostDetail.tsx.  Floors come in pages (see *)
(* ClientList for the pages themselves); the replies below a floor are       *)
(* fetched when it is unfolded; a reply that was sent makes the list start   *)
(* anew.                                                                   *)
(***************************************************************************)
EXTENDS Screen

CONSTANTS
  Floors,       \* floors of the post, those still to be written included
  Drafts        \* what the user may have written in the box

ASSUME ReplyScreenAssumption ==
  /\ IsFiniteSet(Floors)
  /\ None \notin Drafts /\ \A fs \in SUBSET Floors : fs # None

NewFloor(d) == Floors \ d.floors

ReplyTypeOK ==
  screen = "replies" =>
    /\ ui \in [list : SUBSET Floors, kids : SUBSET Floors,
               open : SUBSET Floors, opening : SUBSET Floors, lock : BOOLEAN,
               draft : Drafts \cup {None}, nested : BOOLEAN,
               sending : BOOLEAN, count : Nat]
    /\ db \in [floors : SUBSET Floors, stored : SUBSET Drafts]

(* The page has just asked for its first floors; nothing is written yet. *)
ReplyMounts ==
  {Mount(c, "replies",
         [list |-> {}, kids |-> {}, open |-> {}, opening |-> {}, lock |-> TRUE,
          draft |-> None, nested |-> FALSE, sending |-> FALSE,
          count |-> Cardinality(fs)],
         <<Call("page", None)>>,
         [floors |-> fs, stored |-> {}]) :
     c \in Clients, fs \in (SUBSET Floors) \ {Floors}}

-----------------------------------------------------------------------------
(* What is typed while a reply is being sent goes with it when it is stored. *)
Type(text) ==
  /\ text # ui.draft
  /\ ui' = [ui EXCEPT !.draft = text]
  /\ upset' = (upset \/ ui.sending)
  /\ Stays /\ UNCHANGED <<calls, db>>

(* The button to reply to somebody, which floors and the replies to them have *)
(* but not the third layer, and the cancel button: whom the draft answers, if *)
(* it is not the post itself.                                              *)
Answerable == ui.list # {}

PickTarget ==
  /\ Answerable \/ ui.nested
  /\ ui' = [ui EXCEPT !.nested = ~@]
  /\ Stays /\ UNCHANGED <<calls, db, upset>>

(* Whether the reply is anonymous goes with the call and is left out. *)
Submitting_ClearsNow == [ui EXCEPT !.sending = TRUE, !.draft = None]

Submitting == [ui EXCEPT !.sending = TRUE]

(* submitReply, by a user who is logged in *)
SubmitReply ==
  /\ ui.draft # None /\ ~ui.sending
  /\ ui' = Submitting
  /\ Send(Call("reply", [text |-> ui.draft, nested |-> ui.nested]))
  /\ Stays /\ UNCHANGED <<db, upset>>

(* toggleFloor: folded, unfolded with what is there, or fetched first. *)
ToggleFloor(f) ==
  /\ f \in ui.list
  /\ IF f \in ui.open
     THEN ui' = [ui EXCEPT !.open = @ \ {f}] /\ UNCHANGED calls
     ELSE IF f \in ui.kids
     THEN ui' = [ui EXCEPT !.open = @ \cup {f}] /\ UNCHANGED calls
     ELSE /\ ui' = [ui EXCEPT !.opening = @ \cup {f}]
          /\ Send(Call("kids", f))
  /\ Stays /\ UNCHANGED <<db, upset>>

(* The end of the list is scrolled to. *)
LoadFloors ==
  /\ ~ui.lock /\ ui.list # {}
  /\ ui' = [ui EXCEPT !.lock = TRUE]
  /\ Send(Call("more", None))
  /\ Stays /\ UNCHANGED <<db, upset>>

(* The app's list is pulled down: nothing is folded first. *)
PullDown ==
  /\ ~ui.lock
  /\ ui' = [ui EXCEPT !.lock = TRUE]
  /\ Send(Call("page", None))
  /\ Stays /\ UNCHANGED <<db, upset>>

-----------------------------------------------------------------------------
(* The server stores the reply, or reads the floors. *)
Stored(k) ==
  [db EXCEPT !.stored = @ \cup {k.of.text},
             !.floors = IF k.of.nested THEN @
                        ELSE @ \cup {CHOOSE f \in NewFloor(db) : TRUE}]

ServeReply(i) ==
  LET k == calls[i]
  IN /\ k.ans = None
     /\ k.kind = "reply" => k.of.nested \/ NewFloor(db) # {}
     /\ db' = IF k.kind = "reply" THEN Stored(k) ELSE db
     /\ Served(i, db.floors)
     /\ Stays /\ UNCHANGED <<ui, upset>>

(* refreshReplies() while the list is locked does nothing. *)
Refreshed(k) ==
  [ui EXCEPT !.draft = None, !.nested = FALSE, !.open = {}, !.opening = {},
             !.sending = FALSE, !.lock = TRUE,
             !.count = IF k.of.nested THEN @ ELSE @ + 1]

(* The reply is stored: the box is emptied, every floor folded, and the list  *)
(* asked for again.                                                        *)
ReplySent(i) ==
  /\ calls[i].kind = "reply" /\ calls[i].ans # None
  /\ ui' = Refreshed(calls[i])
  /\ calls' = IF ui.lock THEN RemoveAt(calls, i)
              ELSE Append(RemoveAt(calls, i), Call("page", None))
  /\ upset' = (upset \/ ui.lock)
  /\ Stays /\ UNCHANGED db

(* The floors of a page come without the replies below them. *)
Listed(k) ==
  IF k.kind = "page"
  THEN [ui EXCEPT !.list = k.ans, !.kids = {}, !.lock = FALSE]
  ELSE [ui EXCEPT !.list = @ \cup k.ans, !.lock = FALSE]

(* A floor is unfolded when its replies have come. *)
Unfolded(k) ==
  [ui EXCEPT !.kids = @ \cup ({k.of} \cap ui.list),
             !.open = @ \cup {k.of}, !.opening = @ \ {k.of}]

(* A list that starts anew under unfolded floors leaves them without replies. *)
ListAnswered(i) ==
  LET k == calls[i]
  IN /\ k.kind \in {"page", "more", "kids"} /\ k.ans # None
     /\ ui' = IF k.kind = "kids" THEN Unfolded(k) ELSE Listed(k)
     /\ Ends(i)
     /\ upset' = (upset \/ (k.kind = "page" /\ ui.open \cup ui.opening # {})
                        \/ (k.kind = "kids" /\ k.of \notin ui.list))
     /\ Stays /\ UNCHANGED db

(* Refused or lost: the flag of the call is let go, nothing else changes. *)
ReplyMissed(i) ==
  LET k == calls[i]
  IN /\ ui' = CASE k.kind = "reply" -> [ui EXCEPT !.sending = FALSE]
                [] k.kind = "kids" -> [ui EXCEPT !.opening = @ \ {k.of}]
                [] OTHER -> [ui EXCEPT !.lock = FALSE]
     /\ Ends(i)
     /\ upset' = (upset \/ k.kind = "page" \/ (k.kind = "reply" /\ k.ans # None))
     /\ Stays /\ UNCHANGED db

ReplyAnswers ==
  \E i \in DOMAIN calls :
    ServeReply(i) \/ ReplySent(i) \/ ListAnswered(i) \/ ReplyMissed(i)

(* What both have below the post, and what only the app has. *)
ReplyActions ==
  \/ \E text \in Drafts : Type(text)
  \/ PickTarget
  \/ SubmitReply
  \/ \E f \in Floors : ToggleFloor(f)
  \/ LoadFloors

AppReplies == client = "app" /\ (ReplyActions \/ PullDown)

WebReplies == client = "web" /\ ReplyActions

ReplyNext == screen = "replies" /\ (AppReplies \/ WebReplies \/ ReplyAnswers)

-----------------------------------------------------------------------------
(* A draft leaves the box only when the server has stored it, and one that    *)
(* was refused can be sent again.  (What is typed over it while it is being  *)
(* sent is lost.)                                                          *)
DraftIsStored ==
  [][(screen = "replies" /\ screen' = "replies" /\ ui.draft # None
      /\ ui'.draft = None /\ ~upset)
     => ui.draft \in db.stored]_vars

(* With nothing under way the list has every floor, the user's own last one  *)
(* included, unfolded floors have their replies, and the number above the    *)
(* list counts all but the nested ones.  Only a list that was busy when the  *)
(* reply was stored, or that started anew under unfolded floors, differs.    *)
RepliesAreShown ==
  (screen = "replies" /\ calls = <<>> /\ ~upset) =>
    /\ ui.list = db.floors
    /\ ui.open \subseteq ui.kids
    /\ ui.count = Cardinality(db.floors)
=============================================================================
