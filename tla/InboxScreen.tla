----------------------------- MODULE InboxScreen -----------------------------
(***************************************************************************)
(* Private messages and notifications.                                       *)
(*                                                                         *)
(*   "chat"   a conversation, app/conversation/[id].tsx and                  *)
(*            pages/Messages.tsx, whose first page is polled                 *)
(*   "mail"   the list of conversations, (tabs)/messages.tsx and             *)
(*            pages/Messages.tsx, and the badge that counts the unread ones  *)
(*   "notes"  app/notifications.tsx and pages/Notifications.tsx, which mark  *)
(*            what is clicked and count the badge down before the server has *)
(*            answered                                                       *)
(*                                                                         *)
(* A message is told by its conversation and its place in it.               *)
(***************************************************************************)
EXTENDS Screen, FiniteSetsExt

CONSTANTS
  Chats,
  PageSize,     \* 20 in the code
  MaxMessages,  \* bound: messages of a conversation
  Notes         \* notifications, those still to come included

ASSUME InboxScreenAssumption ==
  /\ PageSize \in Nat \ {0}
  /\ MaxMessages \in Nat \ {0}
  /\ IsFiniteSet(Notes)

Message == [chat : Chats, n : 1 .. MaxMessages]

(* The first page of a conversation, turned round: the oldest message first. *)
FirstPage(d, c) ==
  LET len  == d.sent[c]
      from == IF len > PageSize THEN len - PageSize ELSE 0
  IN [i \in 1 .. len - from |-> [chat |-> c, n |-> from + i]]

InboxTypeOK ==
  /\ screen = "chat" =>
       /\ ui \in [chat : Chats, messages : Seq(Message), draft : BOOLEAN,
                  sending : BOOLEAN]
       /\ db \in [sent : [Chats -> 0 .. MaxMessages]]
  /\ screen = "mail" =>
       /\ ui \in [list : {None} \cup SUBSET Chats, lock : BOOLEAN,
                  at : Chats \cup {None}, badge : SUBSET Chats]
       /\ db \in [unread : SUBSET Chats]
  /\ screen = "notes" =>
       /\ ui \in [shown : SUBSET Notes, read : SUBSET Notes, badge : Nat,
                  lock : BOOLEAN, counted : SUBSET Notes]
       /\ db \in [come : SUBSET Notes, unread : SUBSET Notes]

(* A conversation is opened and its first page asked for. *)
ChatMounts ==
  {Mount(c, "chat",
         [chat |-> ch, messages |-> <<>>, draft |-> FALSE, sending |-> FALSE],
         <<Call("poll", ch)>>,
         [sent |-> s]) :
     c \in Clients, ch \in Chats, s \in [Chats -> 0 .. 1]}

(* The list is asked for, and the badge: the conversations it counts. *)
MailMounts ==
  {Mount(c, "mail",
         [list |-> None, lock |-> TRUE, at |-> None, badge |-> {}],
         <<Call("page", None), Call("count", None)>>,
         [unread |-> u]) : c \in Clients, u \in SUBSET Chats}

(* The list is asked for; the badge has been counted before. *)
NoteMounts ==
  {Mount(c, "notes",
         [shown |-> {}, read |-> {}, badge |-> Cardinality(u), lock |-> TRUE,
          counted |-> u],
         <<Call("page", None)>>,
         [come |-> u, unread |-> u]) :
     c \in Clients, u \in SUBSET Notes}

-----------------------------------------------------------------------------
(* The timer of five seconds; the web page also polls when a chat is opened. *)
Poll ==
  /\ Send(Call("poll", ui.chat))
  /\ upset' = (upset \/ UnderWay("send"))
  /\ Stays /\ UNCHANGED <<ui, db>>

(* Text in the box: kept when another conversation is opened. *)
TypeMessage ==
  /\ ~ui.draft
  /\ ui' = [ui EXCEPT !.draft = TRUE]
  /\ Stays /\ UNCHANGED <<calls, db, upset>>

SendMessage ==
  /\ ui.draft /\ ~ui.sending
  /\ ui' = [ui EXCEPT !.sending = TRUE]
  /\ Send(Call("send", ui.chat))
  /\ upset' = (upset \/ UnderWay("poll"))
  /\ Stays /\ UNCHANGED db

(* The web keeps the messages on the screen until those of c have come. *)
Switching(c) == [ui EXCEPT !.chat = c]

OpenChat(c) ==
  /\ c # ui.chat
  /\ ui' = Switching(c)
  /\ Send(Call("poll", c))
  /\ upset' = (upset \/ calls # <<>>)
  /\ Stays /\ UNCHANGED db

-----------------------------------------------------------------------------
(* Somebody writes: the other one, or this user as one of his calls is served. *)
Written(c) == [db EXCEPT !.sent[c] = @ + 1]

PeerWrites(c) ==
  /\ db.sent[c] < MaxMessages
  /\ db' = Written(c)
  /\ Stays /\ UNCHANGED <<ui, calls, upset>>

ServeChat(i) ==
  LET k == calls[i]
  IN /\ k.ans = None
     /\ k.kind = "send" => db.sent[k.of] < MaxMessages
     /\ db' = IF k.kind = "send" THEN Written(k.of) ELSE db
     /\ Served(i, IF k.kind = "send" THEN [chat |-> k.of, n |-> db.sent[k.of] + 1]
                  ELSE FirstPage(db, k.of))
     /\ Stays /\ UNCHANGED <<ui, upset>>

(* The app replaces its messages when the page is longer or shorter than what *)
(* it shows, or ends in another message; the web always.                    *)
HasNew(latest) ==
  \/ client = "web"
  \/ Len(latest) # Len(ui.messages)
  \/ latest # <<>> /\ Last(latest) # Last(ui.messages)

Polled_Appended(latest) == ui.messages \o latest

Polled(latest) == IF HasNew(latest) THEN latest ELSE ui.messages

ChatPolled(i) ==
  /\ calls[i].kind # "send" /\ calls[i].ans # None
  /\ ui' = [ui EXCEPT !.messages = Polled(calls[i].ans),
                      !.sending = @ /\ calls[i].kind # "reload"]
  /\ Ends(i)
  /\ upset' = ((upset \/ (~HasNew(calls[i].ans) /\ ui.messages # calls[i].ans))
               /\ ~(Len(calls) = 1 /\ ui'.messages = FirstPage(db, ui.chat)))
  /\ Stays /\ UNCHANGED db

(* The app adds the message; the web goes (back) to its conversation, reads   *)
(* it, and is busy until that is answered.                                  *)
MessageSent(i) ==
  /\ calls[i].kind = "send" /\ calls[i].ans # None
  /\ IF client = "app"
     THEN /\ ui' = [ui EXCEPT !.draft = FALSE, !.sending = FALSE,
                              !.messages = Append(@, calls[i].ans)]
          /\ Ends(i)
     ELSE /\ ui' = [ui EXCEPT !.draft = FALSE, !.chat = calls[i].of]
          /\ calls' = RemoveAt(calls, i) \o <<Call("reload", calls[i].of)>> \o
                      (IF calls[i].of = ui.chat THEN <<>>
                       ELSE <<Call("poll", calls[i].of)>>)
  /\ Len(ui.messages) <= MaxMessages
  /\ UNCHANGED upset
  /\ Stays /\ UNCHANGED db

(* A lost answer to a message leaves the text in the box, to be sent again. *)
ChatMissed(i) ==
  /\ ui' = IF calls[i].kind = "poll" THEN ui ELSE [ui EXCEPT !.sending = FALSE]
  /\ Ends(i)
  /\ upset' = TRUE
  /\ Stays /\ UNCHANGED db

(* What the two let their users do, and their timers. *)
AppChat == client = "app" /\ (Poll \/ TypeMessage \/ SendMessage)

WebChat ==
  /\ client = "web"
  /\ \/ Poll \/ TypeMessage \/ SendMessage
     \/ \E c \in Chats : OpenChat(c)

ChatNext ==
  /\ screen = "chat"
  /\ \/ AppChat \/ WebChat
     \/ \E c \in Chats : PeerWrites(c)
     \/ \E i \in DOMAIN calls :
          ServeChat(i) \/ ChatPolled(i) \/ MessageSent(i) \/ ChatMissed(i)

-----------------------------------------------------------------------------
(* fetchUnread() of the message store, called by the timers of the tabs and   *)
(* of the web's App too.                                                   *)
Recount(cs) == Append(cs, Call("count", None))

(* Only a call that reads a conversation can overtake a count. *)
Uncounts == UnderWay("read") \/ UnderWay("load")

CountMail ==
  /\ Len(calls) < MaxCalls
  /\ calls' = Recount(calls)
  /\ upset' = (upset \/ Uncounts \/ UnderWay("count"))
  /\ Stays /\ UNCHANGED <<ui, db>>

(* A conversation is opened: reading its first page marks it as read.  The    *)
(* app counts at the same time, the web when it has been read.              *)
OpenMail(c) ==
  /\ ui.list # None /\ c # ui.at
  /\ ui' = [ui EXCEPT !.at = c]
  /\ IF client = "app"
     THEN /\ Len(calls) + 2 <= MaxCalls
          /\ calls' = Recount(Append(calls, Call("load", c)))
          /\ upset' = TRUE
     ELSE /\ Send(Call("read", c))
          /\ upset' = (upset \/ calls # <<>>)
  /\ Stays /\ UNCHANGED db

(* The timer of the conversation that is open. *)
PollMail ==
  /\ ui.at # None
  /\ Send(Call("read", ui.at))
  /\ upset' = (upset \/ calls # <<>>)
  /\ Stays /\ UNCHANGED <<ui, db>>

(* Back to the list; the app asks for it and counts again. *)
CloseMail ==
  /\ ui.at # None
  /\ ui' = [ui EXCEPT !.at = None, !.lock = @ \/ client = "app"]
  /\ IF client = "app"
     THEN /\ Len(calls) + 2 <= MaxCalls
          /\ calls' = Recount(IF ui.lock THEN calls
                              ELSE Append(calls, Call("page", None)))
          /\ upset' = (upset \/ Uncounts \/ UnderWay("count"))
     ELSE UNCHANGED <<calls, upset>>
  /\ Stays /\ UNCHANGED db

(* The app's list is pulled down. *)
RefreshMail ==
  /\ ui.at = None /\ ~ui.lock
  /\ ui' = [ui EXCEPT !.lock = TRUE]
  /\ Send(Call("page", None))
  /\ Stays /\ UNCHANGED <<db, upset>>

MailComes(c) ==
  /\ c \notin db.unread
  /\ db' = [unread |-> db.unread \cup {c}]
  /\ Stays /\ UNCHANGED <<ui, calls, upset>>

ServeMail(i) ==
  LET k     == calls[i]
      after == IF k.kind \in {"load", "read"} THEN db.unread \ {k.of} ELSE db.unread
  IN /\ k.ans = None
     /\ db' = [unread |-> after]
     /\ Served(i, after)
     /\ Stays /\ UNCHANGED <<ui, upset>>

(* loadMessages of the web and the app's timer count when they have read. *)
Recounted(k) == IF k.kind = "read" THEN Recount(<<>>) ELSE <<>>

MailAnswered(i) ==
  LET k == calls[i]
  IN /\ k.ans # None
     /\ ui' = CASE k.kind = "page" -> [ui EXCEPT !.list = k.ans, !.lock = FALSE]
                [] k.kind = "count" -> [ui EXCEPT !.badge = k.ans]
                [] OTHER -> ui
     /\ calls' = RemoveAt(calls, i) \o Recounted(k)
     /\ upset' = ((upset \/ (k.kind = "read" /\ Len(calls) > 1))
                  /\ ~(k.kind = "count" /\ Len(calls) = 1 /\ k.ans = db.unread))
     /\ Stays /\ UNCHANGED db

MailMissed(i) ==
  /\ ui' = IF calls[i].kind = "page" THEN [ui EXCEPT !.lock = FALSE] ELSE ui
  /\ Ends(i)
  /\ upset' = (upset \/ calls[i].kind # "page")
  /\ Stays /\ UNCHANGED db

MailActions == CountMail \/ PollMail \/ CloseMail \/ \E c \in Chats : OpenMail(c)

AppMail == client = "app" /\ (MailActions \/ RefreshMail)

WebMail == client = "web" /\ MailActions

MailNext ==
  /\ screen = "mail"
  /\ \/ AppMail \/ WebMail
     \/ \E c \in Chats : MailComes(c)
     \/ \E i \in DOMAIN calls : ServeMail(i) \/ MailAnswered(i) \/ MailMissed(i)

-----------------------------------------------------------------------------
(* handleRead: marked and counted down at once; whether the server follows is *)
(* not looked at.                                                          *)
Down(n) == IF n > 0 THEN n - 1 ELSE 0

Marked(n) == n \in ui.shown /\ n \notin ui.read

ReadNote(n) ==
  /\ Marked(n)
  /\ ui' = [ui EXCEPT !.read = @ \cup {n}, !.badge = Down(@)]
  /\ Send(Call("read", n))
  /\ upset' = (upset \/ n \notin ui.counted \/ UnderWay("count") \/ UnderWay("page"))
  /\ Stays /\ UNCHANGED db

(* The poll of the tabs, or of the web's App: every 5 or 25 seconds. *)
CountNotes ==
  /\ Send(Call("count", None))
  /\ upset' = (upset \/ UnderWay("read") \/ UnderWay("count"))
  /\ Stays /\ UNCHANGED <<ui, db>>

RefreshNotes ==
  /\ ~ui.lock
  /\ ui' = [ui EXCEPT !.lock = TRUE]
  /\ Send(Call("page", None))
  /\ upset' = (upset \/ UnderWay("read"))
  /\ Stays /\ UNCHANGED db

NoteComes(n) ==
  /\ n \notin db.come
  /\ db' = [come |-> db.come \cup {n}, unread |-> db.unread \cup {n}]
  /\ Stays /\ UNCHANGED <<ui, calls, upset>>

ServeNotes(i) ==
  LET k == calls[i]
  IN /\ k.ans = None
     /\ db' = IF k.kind = "read" THEN [db EXCEPT !.unread = @ \ {k.of}] ELSE db
     /\ Served(i, db)
     /\ Stays /\ UNCHANGED <<ui, upset>>

NotesAnswered(i) ==
  LET k == calls[i]
  IN /\ k.ans # None
     /\ ui' = CASE k.kind = "page" ->
                     [ui EXCEPT !.shown = k.ans.come, !.lock = FALSE,
                                !.read = k.ans.come \ k.ans.unread]
                [] k.kind = "count" ->
                     [ui EXCEPT !.badge = Cardinality(k.ans.unread),
                                !.counted = k.ans.come]
                [] OTHER -> ui
     /\ Ends(i)
     /\ upset' = (upset /\ ~(k.kind = "count" /\ Len(calls) = 1
                             /\ k.ans.unread = db.unread
                             /\ ui.read = ui.shown \ db.unread))
     /\ Stays /\ UNCHANGED db

NotesMissed(i) ==
  LET k == calls[i]
  IN /\ ui' = IF k.kind = "page" THEN [ui EXCEPT !.lock = FALSE] ELSE ui
     /\ Ends(i)
     /\ upset' = (upset \/ (k.kind = "read" /\ k.ans = None))
     /\ Stays /\ UNCHANGED db

NoteActions == CountNotes \/ RefreshNotes \/ \E n \in Notes : ReadNote(n)

AppNotes == client = "app" /\ NoteActions

WebNotes == client = "web" /\ NoteActions

NotesNext ==
  /\ screen = "notes"
  /\ \/ AppNotes \/ WebNotes
     \/ \E n \in Notes : NoteComes(n)
     \/ \E i \in DOMAIN calls :
          ServeNotes(i) \/ NotesAnswered(i) \/ NotesMissed(i)

-----------------------------------------------------------------------------
(* A conversation shows its own messages only, in order and each once,        *)
(* whatever is polled, sent and switched between: only calls that crossed or *)
(* failed, or a page the app takes for the one it shows, differ.            *)
ChatIsInOrder ==
  (screen = "chat" /\ calls = <<>> /\ ~upset) =>
    \A i \in DOMAIN ui.messages :
      /\ ui.messages[i].chat = ui.chat
      /\ i > 1 => ui.messages[i].n > ui.messages[i - 1].n
      /\ ui.messages[i].n <= db.sent[ui.chat]

(* The badge is the number of unread notifications among those that had come  *)
(* when it was last counted, though it is counted down before the server     *)
(* knows: calls that cross or fail, and a click on a notification it does    *)
(* not count yet, put it wrong until it is counted again.                   *)
BadgeIsExact ==
  (screen = "notes" /\ calls = <<>> /\ ~upset) =>
    /\ ui.badge = Cardinality(db.unread \cap ui.counted)
    /\ ui.read \cap db.unread = {}

(* What has been read is counted no more: with nothing under way the badge    *)
(* counts unread conversations only, though reading and counting are calls   *)
(* of their own.  Those that crossed, as they always do when the app opens a *)
(* conversation, leave it wrong until it is counted again.                  *)
MailIsCounted ==
  (screen = "mail" /\ calls = <<>> /\ ~upset) => ui.badge \subseteq db.unread
=============================================================================
