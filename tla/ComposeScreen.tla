---------------------------- MODULE ComposeScreen ----------------------------
(***************************************************************************)
(* Writing a post or editing one, app/compose.tsx and pages/Compose.tsx: the *)
(* board and the tags that depend on it, pictures uploaded while the rest is *)
(* filled in, the post an edit starts from, and sending it all.              *)
(***************************************************************************)
EXTENDS Screen

CONSTANTS
  Boards,
  TagsOf,       \* TagsOf[b] : the tags of board b
  EditBoard,    \* the board of the post that may be edited
  MaxTags,      \* 5 in the code
  MaxImages,    \* 9 in the code
  MaxPick       \* bound: pictures picked at once

ASSUME ComposeScreenAssumption ==
  /\ DOMAIN TagsOf = Boards /\ EditBoard \in Boards
  /\ MaxTags \in Nat /\ MaxImages \in Nat /\ MaxPick \in Nat \ {0}

Tags == UNION {TagsOf[b] : b \in Boards}

ASSUME TagsAreFinite == IsFiniteSet(Tags)

(* What the fields hold: nothing, what was typed, or the post being edited. *)
Texts == {"none", "typed", "post"}

ComposeTypeOK ==
  screen = "compose" =>
    /\ ui \in [edit : BOOLEAN, board : Boards \cup {None}, tags : SUBSET Tags,
               avail : Boards \cup {None}, custom : 0 .. MaxTags,
               images : 0 .. MaxImages + 2 * MaxPick, text : Texts,
               filled : BOOLEAN, uploading : BOOLEAN, sending : BOOLEAN]
    /\ db \in [created : Nat, saved : BOOLEAN]

(* A new post, or the editing of one, which is asked for at once. *)
ComposeMounts ==
  {Mount(c, "compose",
         [edit |-> e, board |-> None, tags |-> {}, avail |-> None, custom |-> 0,
          images |-> 0, text |-> "none", filled |-> FALSE, uploading |-> FALSE,
          sending |-> FALSE],
         IF e THEN <<Call("get", None)>> ELSE <<>>,
         [created |-> 0, saved |-> FALSE]) :
     c \in Clients, e \in BOOLEAN}

(* The effect on boardId: a new board's tags are asked for. *)
AskTags(cs, old, new) ==
  IF new = old THEN cs ELSE Append(cs, Call("tags", new))

(* Two answers about tags may come in the wrong order. *)
TagsCross(new) == new # ui.board /\ UnderWay("tags")

-----------------------------------------------------------------------------
Write(t) ==
  /\ t \in {"none", "typed"} /\ t # ui.text
  /\ ui' = [ui EXCEPT !.text = t]
  /\ Stays /\ UNCHANGED <<calls, db, upset>>

Chosen_KeepsTags(b) == [ui EXCEPT !.board = b]

Chosen(b) == [ui EXCEPT !.board = b, !.tags = {}]

(* onBoardChange, and the first board when the categories have come *)
ChooseBoard(b) ==
  /\ ~ui.edit
  /\ Len(calls) < MaxCalls
  /\ ui' = Chosen(b)
  /\ calls' = AskTags(calls, ui.board, b)
  /\ upset' = (upset \/ TagsCross(b))
  /\ Stays /\ UNCHANGED db

(* The tags on the screen may still be those of the board chosen before. *)
ToggleTag(t) ==
  /\ ui.avail # None /\ t \in TagsOf[ui.avail]
  /\ ui' = [ui EXCEPT !.tags =
                IF t \in ui.tags THEN ui.tags \ {t} ELSE ui.tags \cup {t}]
  /\ upset' = (upset \/ ui.avail # ui.board)
  /\ Stays /\ UNCHANGED <<calls, db>>

(* addCustomTag of a new name; the name of a tag that exists selects it. *)
AddCustom ==
  /\ Cardinality(ui.tags) + ui.custom < MaxTags
  /\ ui' = [ui EXCEPT !.custom = @ + 1]
  /\ Stays /\ UNCHANGED <<calls, db, upset>>

RemoveCustom ==
  /\ ui.custom > 0
  /\ ui' = [ui EXCEPT !.custom = @ - 1]
  /\ Stays /\ UNCHANGED <<calls, db, upset>>

(* The button is there while there is room; the web's takes another click     *)
(* while it turns.                                                         *)
PickImages(n) ==
  /\ ui.images < MaxImages
  /\ client = "app" => ~ui.uploading
  /\ ui' = [ui EXCEPT !.uploading = TRUE]
  /\ Send(Call("upload", n))
  /\ Stays /\ UNCHANGED <<db, upset>>

RemoveImage ==
  /\ ui.images > 0
  /\ ui' = [ui EXCEPT !.images = @ - 1]
  /\ Stays /\ UNCHANGED <<calls, db, upset>>

(* What submit() asks of the form; in an edit it is the board that tells     *)
(* that the post has been loaded.                                          *)
Complete == ui.board # None /\ ui.text # "none"

Free == ~ui.sending

(* Pictures still being uploaded do not hold it up: they are left out.       *)
(* (MaxCalls also bounds the posts that are published.)                     *)
Submit ==
  /\ Free
  /\ Complete
  /\ db.created < MaxCalls
  /\ ui' = [ui EXCEPT !.sending = TRUE]
  /\ Send(Call(IF ui.edit THEN "save" ELSE "create", None))
  /\ Stays /\ UNCHANGED <<db, upset>>

(* The web page stays mounted between /compose and /compose?edit=..., with    *)
(* everything that was filled in.                                          *)
ChangeAddress ==
  /\ client = "web"
  /\ ui' = [ui EXCEPT !.edit = ~@, !.filled = FALSE]
  /\ Len(calls) < MaxCalls
  /\ calls' = IF ui.edit THEN calls ELSE Append(calls, Call("get", None))
  /\ upset' = TRUE
  /\ Stays /\ UNCHANGED db

-----------------------------------------------------------------------------
ServeCompose(i) ==
  /\ calls[i].ans = None
  /\ db' = CASE calls[i].kind = "create" -> [db EXCEPT !.created = @ + 1]
             [] calls[i].kind = "save" -> [db EXCEPT !.saved = TRUE]
             [] OTHER -> db
  /\ Served(i, "ok")
  /\ Stays /\ UNCHANGED <<ui, upset>>

(* The post to edit replaces what was typed meanwhile. *)
Filled ==
  [ui EXCEPT !.board = EditBoard, !.tags = TagsOf[EditBoard], !.images = 1,
             !.text = "post", !.filled = TRUE]

(* The web shows each picture as it is uploaded, the app all of them, and no  *)
(* more than there is room for.                                            *)
Room(n) == IF n > MaxImages THEN MaxImages ELSE n

Uploaded(n) ==
  IF client = "web"
  THEN [ui EXCEPT !.images = @ + 1, !.uploading = n > 1]
  ELSE [ui EXCEPT !.images = Room(@ + n), !.uploading = FALSE]

Filling(i) ==
  /\ calls[i].kind = "get" /\ calls[i].ans # None
  /\ ui' = Filled
  /\ calls' = AskTags(RemoveAt(calls, i), ui.board, EditBoard)
  /\ upset' = (upset \/ TagsCross(EditBoard))
  /\ Stays /\ UNCHANGED db

TagsCame(i) ==
  /\ calls[i].kind = "tags" /\ calls[i].ans # None
  /\ ui' = [ui EXCEPT !.avail = calls[i].of]
  /\ Ends(i)
  /\ Stays /\ UNCHANGED <<db, upset>>

ImageCame(i) ==
  LET n == calls[i].of
  IN /\ calls[i].kind = "upload" /\ calls[i].ans # None
     /\ ui.images < MaxImages + MaxPick
     /\ ui' = Uploaded(n)
     /\ calls' = IF client = "web" /\ n > 1
                 THEN Append(RemoveAt(calls, i), Call("upload", n - 1))
                 ELSE RemoveAt(calls, i)
     /\ Stays /\ UNCHANGED <<db, upset>>

(* The page of the post replaces the form. *)
Published(i) ==
  /\ calls[i].kind \in {"create", "save"} /\ calls[i].ans # None
  /\ Opens(Home(client))

(* A post whose answer is lost has been written all the same. *)
ComposeMissed(i) ==
  LET k == calls[i]
  IN /\ ui' = CASE k.kind = "tags" -> [ui EXCEPT !.avail = None]
                [] k.kind = "upload" -> [ui EXCEPT !.uploading = FALSE]
                [] k.kind \in {"create", "save"} -> [ui EXCEPT !.sending = FALSE]
                [] OTHER -> ui
     /\ Ends(i)
     /\ upset' = (upset \/ (k.kind = "create" /\ k.ans # None))
     /\ Stays /\ UNCHANGED db

ComposeAnswers ==
  \E i \in DOMAIN calls :
    \/ ServeCompose(i)
    \/ Filling(i) \/ TagsCame(i) \/ ImageCame(i)
    \/ Published(i) \/ ComposeMissed(i)

-----------------------------------------------------------------------------
(* What the app's screen lets its user do. *)
AppCompose ==
  /\ client = "app"
  /\ \/ \E t \in Texts : Write(t)
     \/ \E b \in Boards : ChooseBoard(b)
     \/ \E t \in Tags : ToggleTag(t)
     \/ AddCustom \/ RemoveCustom
     \/ \E n \in 1 .. MaxPick : PickImages(n)
     \/ RemoveImage
     \/ Submit

(* The web page: the same fields, and an address of its own. *)
WebCompose ==
  /\ client = "web"
  /\ \/ \E t \in Texts : Write(t)
     \/ \E b \in Boards : ChooseBoard(b)
     \/ \E t \in Tags : ToggleTag(t)
     \/ AddCustom \/ RemoveCustom
     \/ \E n \in 1 .. MaxPick : PickImages(n)
     \/ RemoveImage
     \/ Submit
     \/ ChangeAddress

ComposeNext ==
  screen = "compose" /\ (AppCompose \/ WebCompose \/ ComposeAnswers)

-----------------------------------------------------------------------------
(* An edit is sent only from a form the post has been loaded into, so it      *)
(* cannot wipe what the user never saw.  (The web page breaks that when it is *)
(* taken from a new post to an edit without being left.)                    *)
EditsWhatWasLoaded ==
  (screen = "compose" /\ ui.edit /\ UnderWay("save") /\ ~upset) => ui.filled

(* The tags that are sent are tags of the board the post goes to, however the *)
(* answers about tags overtake each other: a board that is chosen drops them. *)
TagsAreTheBoards ==
  (screen = "compose" /\ ~upset /\ ui.board # None) =>
    ui.tags \subseteq TagsOf[ui.board]

(* One visit publishes one post, however often the button is pressed; only    *)
(* an answer that is lost makes the user send it again.                     *)
PublishedOnce == (screen = "compose" /\ ~upset) => db.created <= 1
=============================================================================
