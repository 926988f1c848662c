----------------------------- MODULE BrowseScreen -----------------------------
(***************************************************************************)
(* Finding one's way.                                                       *)
(*                                                                         *)
(*   "board"   the page of a board, board/[id].tsx and Board.tsx, or of a    *)
(*             user, user/[id].tsx and User.tsx: a head and a list of posts, *)
(*             asked for by effects of their own.  On the web both stay      *)
(*             mounted when a link leads to another one.                    *)
(*   "boards"  the categories, loaded once for all who show them: the menu   *)
(*             of BoardSelect and the sidebar (BoardSidebar.tsx)            *)
(*   "dict"    DictSelect.tsx, which completes what is typed                *)
(*   "lists"   the feed and the user's own lists: index.tsx, my-posts.tsx,   *)
(*             my-favorites.tsx, Home.tsx, the tabs of Profile.tsx          *)
(***************************************************************************)
EXTENDS Screen

CONSTANTS
  Ids,          \* boards, or users
  Categories,
  CategoryOf,   \* CategoryOf[b] : the category board b is in
  Words         \* what may be typed

ASSUME BrowseScreenAssumption ==
  CategoryOf \in [Ids -> Categories] /\ Categories # {}

(* Every board has one tag, told by its board; the order of the posts is      *)
(* chosen like a tag, and left out.                                        *)
PostQuery == [id : Ids, tag : Ids \cup {None}]

(* The feed, and what a user has; only the web lists his replies.            *)
Lists == {"feed", "posts", "favorites", "replies"}

BrowseTypeOK ==
  /\ screen = "board" =>
       ui \in [user : BOOLEAN, id : Ids, tag : Ids \cup {None},
               head : Ids \cup {None}, list : SUBSET PostQuery, lock : BOOLEAN,
               spins : BOOLEAN]
  /\ screen = "boards" =>
       ui \in [loaded : BOOLEAN, at : Ids \cup {None}, open : SUBSET Categories,
               menu : BOOLEAN, active : Categories \cup {None},
               value : Ids \cup {None}]
  /\ screen = "dict" =>
       ui \in [word : Words, options : Words \cup {None}, mark : BOOLEAN,
               drop : BOOLEAN]
  /\ screen = "lists" =>
       /\ ui \in [of : Lists, list : SUBSET {"old", "new"}, lock : BOOLEAN]
       /\ db \in {"old", "new"}

(* A list as it is mounted; "new" when a post of it has gone since then. *)
ListPage(c, t, now) ==
  Mount(c, "lists", [of |-> t, list |-> {}, lock |-> TRUE],
        <<Call("page", t)>>, now)

(* A board or a user as it is mounted, and the options of a form's field. *)
BoardPage(c, u, b) ==
  Mount(c, "board",
        [user |-> u, id |-> b, tag |-> None, head |-> None, list |-> {},
         lock |-> TRUE, spins |-> u],
        <<Call("head", b), Call("page", [id |-> b, tag |-> None])>>, None)

DictPage(w) ==
  Mount("web", "dict",
        [word |-> w, options |-> None, mark |-> FALSE, drop |-> FALSE],
        <<Call("options", [word |-> w, live |-> TRUE])>>, None)

BrowseMounts ==
  {BoardPage(c, u, b) : c \in Clients, u \in BOOLEAN, b \in Ids}
  \cup
  {Mount(c, "boards",
         [loaded |-> FALSE, at |-> b, open |-> {}, menu |-> FALSE,
          active |-> None, value |-> v],
         <<Call("categories", None)>>, None) :
     c \in Clients, b \in Ids \cup {None}, v \in Ids \cup {None}}
  \cup {DictPage(w) : w \in Words}
  \cup {ListPage(c, t, "old") : c \in Clients, t \in Lists}

-----------------------------------------------------------------------------
(* The list of a board or a user.  refresh() while it is locked does nothing. *)
Now == [id |-> ui.id, tag |-> ui.tag]

Refresh(query) ==
  /\ ui.lock \/ Len(calls) < MaxCalls
  /\ calls' = IF ui.lock THEN calls ELSE Append(calls, Call("page", query))
  /\ upset' = (upset \/ ui.lock \/ query.tag \notin {None, ui.id})

(* The tags on the page are those of the head. *)
ChooseTag(t) ==
  /\ ~ui.user /\ ui.head # None
  /\ t \in {None, ui.head} \ {ui.tag}
  /\ ui' = [ui EXCEPT !.tag = t, !.lock = TRUE]
  /\ Refresh([id |-> ui.id, tag |-> t])
  /\ Stays /\ UNCHANGED db

(* A link to another board, or user: three effects on the id.  The tag that   *)
(* was chosen stays chosen.                                                *)
Following(b) ==
  [ui EXCEPT !.id = b, !.lock = TRUE, !.spins = ui.user]

GoTo(b) ==
  /\ client = "web" /\ b # ui.id
  /\ ui' = Following(b)
  /\ Len(calls) + (IF ui.lock THEN 1 ELSE 2) <= MaxCalls
  /\ calls' = calls \o <<Call("head", b)>> \o
              (IF ui.lock THEN <<>> ELSE <<Call("page", [Now EXCEPT !.id = b])>>)
  /\ upset' = (calls # <<>> \/ ui.lock \/ ui.tag # None)
  /\ Stays /\ UNCHANGED db

(* Of a user only a spinner is shown, or that there is none, until he came.   *)
Shows == ui.user => ~ui.spins /\ ui.head # None

(* The end of the list is reached; the app's list is pulled down. *)
MorePosts ==
  /\ ~ui.lock /\ ui.list # {} /\ Shows
  /\ ui' = [ui EXCEPT !.lock = TRUE]
  /\ Send(Call("more", Now))
  /\ Stays /\ UNCHANGED <<db, upset>>

PullPosts ==
  /\ client = "app" /\ ~ui.lock /\ Shows
  /\ ui' = [ui EXCEPT !.lock = TRUE]
  /\ Send(Call("page", Now))
  /\ Stays /\ UNCHANGED <<db, upset>>

ServeBrowse(i) ==
  /\ calls[i].ans = None
  /\ Served(i, IF screen = "lists" THEN db ELSE "ok")
  /\ Stays /\ UNCHANGED <<ui, db, upset>>

(* A page replaces the list or is added to it. *)
Browsed(k) ==
  CASE k.kind = "head" -> [ui EXCEPT !.head = k.of, !.spins = FALSE]
    [] k.kind = "page" -> [ui EXCEPT !.list = {k.of}, !.lock = FALSE]
    [] k.kind = "more" -> [ui EXCEPT !.list = @ \cup {k.of}, !.lock = FALSE]

BrowseAnswered(i) ==
  /\ calls[i].ans # None
  /\ ui' = Browsed(calls[i])
  /\ Ends(i)
  /\ Stays /\ UNCHANGED <<db, upset>>

BrowseMissed(i) ==
  /\ ui' = IF calls[i].kind = "head" THEN [ui EXCEPT !.head = None, !.spins = FALSE]
           ELSE [ui EXCEPT !.lock = FALSE]
  /\ Ends(i)
  /\ upset' = TRUE
  /\ Stays /\ UNCHANGED db

-----------------------------------------------------------------------------
(* load() of the category store: every component that shows categories calls  *)
(* it when it is mounted, and it asks until they have come once.            *)
LoadCategories ==
  /\ ~ui.loaded
  /\ Send(Call("categories", None))
  /\ Stays /\ UNCHANGED <<ui, db, upset>>

(* The effect of the sidebar on the board of the address and the categories.  *)
Unfold(u) == IF u.loaded /\ u.at # None
             THEN [u EXCEPT !.open = @ \cup {CategoryOf[u.at]}] ELSE u

(* Folding what the address is in is the user's own doing. *)
ToggleCategory(c) ==
  /\ client = "web" /\ ui.loaded
  /\ ui' = [ui EXCEPT !.open = IF c \in @ THEN @ \ {c} ELSE @ \cup {c}]
  /\ upset' = (upset \/ c \in ui.open)
  /\ Stays /\ UNCHANGED <<calls, db>>

GoBoard(b) ==
  /\ client = "web" /\ b # ui.at
  /\ b # None => ui.loaded
  /\ ui' = Unfold([ui EXCEPT !.at = b])
  /\ Stays /\ UNCHANGED <<calls, db, upset>>

(* toggle() of the menu: it opens at the category of the value, if that is    *)
(* known by then, else at the first one.                                   *)
First == CHOOSE c \in Categories : TRUE

Located == IF ui.loaded /\ ui.value # None THEN CategoryOf[ui.value]
           ELSE IF ui.loaded THEN First ELSE None

ToggleMenu ==
  /\ ui' = IF ui.menu THEN [ui EXCEPT !.menu = FALSE]
           ELSE [ui EXCEPT !.menu = TRUE, !.active = Located]
  /\ Stays /\ UNCHANGED <<calls, db, upset>>

(* What the right column shows: the active category, or the first one. *)
Active == IF ui.active = None THEN First ELSE ui.active

PointAt(c) ==
  /\ ui.menu /\ ui.loaded /\ c # ui.active
  /\ ui' = [ui EXCEPT !.active = c]
  /\ Stays /\ UNCHANGED <<calls, db, upset>>

(* None: all boards, where the menu offers them. *)
PickBoard(b) ==
  /\ ui.menu
  /\ b # None => ui.loaded /\ CategoryOf[b] = Active
  /\ ui' = [ui EXCEPT !.value = b, !.menu = FALSE]
  /\ Stays /\ UNCHANGED <<calls, db, upset>>

(* The cross of the web's pill, which leaves the menu as it is. *)
ClearBoard ==
  /\ ui.value # None
  /\ ui' = [ui EXCEPT !.value = None]
  /\ Stays /\ UNCHANGED <<calls, db, upset>>

CategoriesCame(i) ==
  /\ calls[i].ans # None
  /\ ui' = IF client = "web" THEN Unfold([ui EXCEPT !.loaded = TRUE])
           ELSE [ui EXCEPT !.loaded = TRUE]
  /\ Ends(i)
  /\ Stays /\ UNCHANGED <<db, upset>>

(* Nothing tries again by itself. *)
CategoriesMissed(i) == Ends(i) /\ Stays /\ UNCHANGED <<ui, db, upset>>

-----------------------------------------------------------------------------
(* The effect on the word: typing asks for completions, and the calls of what *)
(* was there before are cancelled.                                         *)
Cancelling == [i \in DOMAIN calls |-> [calls[i] EXCEPT !.of.live = FALSE]]

TypeWord(w) ==
  /\ w # ui.word
  /\ Len(calls) < MaxCalls
  /\ ui' = [ui EXCEPT !.word = w, !.drop = TRUE, !.mark = FALSE]
  /\ calls' = Append(Cancelling, Call("options", [word |-> w, live |-> TRUE]))
  /\ Stays /\ UNCHANGED <<db, upset>>

(* The arrows mark an option; the list is opened and closed. *)
MarkOption ==
  /\ ui.drop /\ ui.options # None
  /\ ui' = [ui EXCEPT !.mark = ~@]
  /\ Stays /\ UNCHANGED <<calls, db, upset>>

CloseOptions ==
  /\ ui' = [ui EXCEPT !.drop = ~@, !.mark = FALSE]
  /\ Stays /\ UNCHANGED <<calls, db, upset>>

(* select(): the option becomes the word, and the list is closed. *)
PickOption(w) ==
  /\ ui.drop /\ ui.options # None /\ w # ui.word
  /\ Len(calls) < MaxCalls
  /\ ui' = [ui EXCEPT !.word = w, !.drop = FALSE, !.mark = FALSE]
  /\ calls' = Append(Cancelling, Call("options", [word |-> w, live |-> TRUE]))
  /\ Stays /\ UNCHANGED <<db, upset>>

(* The answer to a call that was cancelled is nobody's. *)
OptionsCame(i) ==
  /\ calls[i].ans # None
  /\ ui' = IF calls[i].of.live THEN [ui EXCEPT !.options = calls[i].of.word] ELSE ui
  /\ Ends(i)
  /\ Stays /\ UNCHANGED <<db, upset>>

OptionsMissed(i) ==
  /\ ui' = IF calls[i].of.live THEN [ui EXCEPT !.options = None] ELSE ui
  /\ Ends(i)
  /\ Stays /\ UNCHANGED <<db, upset>>

-----------------------------------------------------------------------------
(* A list of posts.  The tabs of the web's profile are components of their    *)
(* own: what is answered to the tab that was left is nobody's.              *)
Tabbed(t) == ListPage("web", t, db)

SwitchTab(t) ==
  /\ t # ui.of /\ "feed" \notin {t, ui.of}
  /\ ui' = Tabbed(t).ui
  /\ calls' = Tabbed(t).calls
  /\ upset' = FALSE
  /\ Stays /\ UNCHANGED db

(* The user deletes a post, or takes it from his favourites, on its own       *)
(* screen and comes back: the effect on the focus loads the list again,      *)
(* unless it is locked.  The feed has no such effect.                       *)
Revisit ==
  /\ ui.of # "feed" /\ ui.list # {}
  /\ db' = "new"
  /\ ui' = [ui EXCEPT !.lock = TRUE]
  /\ IF ui.lock THEN UNCHANGED calls ELSE Send(Call("page", ui.of))
  /\ upset' = (upset \/ ui.lock)
  /\ Stays

MoreItems ==
  /\ ~ui.lock /\ ui.list # {}
  /\ ui' = [ui EXCEPT !.lock = TRUE]
  /\ Send(Call("more", ui.of))
  /\ Stays /\ UNCHANGED <<db, upset>>

PullItems ==
  /\ ~ui.lock
  /\ ui' = [ui EXCEPT !.lock = TRUE]
  /\ Send(Call("page", ui.of))
  /\ Stays /\ UNCHANGED <<db, upset>>

ListCame(i) ==
  LET k == calls[i]
  IN /\ k.ans # None
     /\ ui' = [ui EXCEPT !.lock = FALSE,
                         !.list = IF k.kind = "page" THEN {k.ans} ELSE @ \cup {k.ans}]
     /\ Ends(i)
     /\ upset' = (upset /\ ~(k.kind = "page" /\ k.ans = db))
     /\ Stays /\ UNCHANGED db

ListMissed(i) ==
  /\ ui' = [ui EXCEPT !.lock = FALSE]
  /\ Ends(i)
  /\ upset' = TRUE
  /\ Stays /\ UNCHANGED db

-----------------------------------------------------------------------------
(* What each screen lets its user do: the page of a board and that of a user  *)
(* in the two clients,                                                     *)
AppBoard ==
  /\ client = "app" /\ ~ui.user
  /\ \/ \E t \in Ids \cup {None} : ChooseTag(t)
     \/ MorePosts \/ PullPosts

WebBoard ==
  /\ client = "web" /\ ~ui.user
  /\ \/ \E t \in Ids \cup {None} : ChooseTag(t)
     \/ \E b \in Ids : GoTo(b)
     \/ MorePosts

AppUser == client = "app" /\ ui.user /\ (MorePosts \/ PullPosts)

WebUser ==
  /\ client = "web" /\ ui.user
  /\ MorePosts \/ \E b \in Ids : GoTo(b)

(* the sidebar and the menu,                                                *)
Sidebar ==
  /\ client = "web"
  /\ \/ \E c \in Categories : ToggleCategory(c)
     \/ \E b \in Ids \cup {None} : GoBoard(b)

MenuActions ==
  \/ ToggleMenu
  \/ \E c \in Categories : PointAt(c)
  \/ \E b \in Ids \cup {None} : PickBoard(b)

AppMenu == client = "app" /\ MenuActions

WebMenu == client = "web" /\ (MenuActions \/ ClearBoard)

(* the word that is completed,                                              *)
Completes ==
  \/ \E w \in Words : TypeWord(w) \/ PickOption(w)
  \/ MarkOption \/ CloseOptions

(* and the lists.                                                           *)
AppLists == client = "app" /\ (Revisit \/ MoreItems \/ PullItems)

WebLists == client = "web" /\ (MoreItems \/ \E t \in Lists : SwitchTab(t))

-----------------------------------------------------------------------------
BoardNext ==
  /\ screen = "board"
  /\ \/ AppBoard \/ WebBoard \/ AppUser \/ WebUser
     \/ \E i \in DOMAIN calls : BrowseAnswered(i) \/ BrowseMissed(i)

BoardsNext ==
  /\ screen = "boards"
  /\ \/ LoadCategories \/ Sidebar \/ AppMenu \/ WebMenu
     \/ \E i \in DOMAIN calls : CategoriesCame(i) \/ CategoriesMissed(i)

DictNext ==
  /\ screen = "dict"
  /\ \/ Completes
     \/ \E i \in DOMAIN calls : OptionsCame(i) \/ OptionsMissed(i)

ListsNext ==
  /\ screen = "lists"
  /\ \/ AppLists \/ WebLists
     \/ \E i \in DOMAIN calls : ListCame(i) \/ ListMissed(i)

BrowseNext ==
  \/ BoardNext \/ BoardsNext \/ DictNext \/ ListsNext
  \/ /\ screen \in {"board", "boards", "dict", "lists"}
     /\ \E i \in DOMAIN calls : ServeBrowse(i)

-----------------------------------------------------------------------------
(* With nothing under way the head and the list are those of the address and  *)
(* the tag, and the tag is one of that board: three effects and a list that  *)
(* drops what comes while it is locked have to agree.  Links followed and     *)
(* tags chosen while something was under way, a tag carried over to another  *)
(* board, and failures excepted.                                           *)
HeadAndListAgree ==
  (screen = "board" /\ calls = <<>> /\ ~upset) =>
    /\ ui.head = ui.id
    /\ ui.list = {Now}
    /\ ui.tag \in {None, ui.id}

(* The sidebar shows the board of the address: its category is unfolded,      *)
(* whether the address or the categories came first, until the user folds it.*)
SidebarFollows ==
  (screen = "boards" /\ client = "web" /\ ui.loaded /\ ui.at # None /\ ~upset) =>
    CategoryOf[ui.at] \in ui.open

(* Completions are those of the word on the screen once its own call is over, *)
(* in whatever order the answers come.                                     *)
OptionsMatchWord ==
  (screen = "dict" /\ calls = <<>>) => ui.options \in {ui.word, None}

(* With nothing under way a list of the user's own has what he has now: what  *)
(* he did on the screen of a post is seen when he comes back, unless a page   *)
(* was under way as he did.                                                *)
OwnListsAreFresh ==
  (screen = "lists" /\ calls = <<>> /\ ~upset) => ui.list = {db}
=============================================================================
