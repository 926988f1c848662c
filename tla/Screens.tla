-------------------------------- MODULE Screens -------------------------------
(***************************************************************************)
(* The clients: the screens of the other modules, one of which is mounted    *)
(* until it is left for another.                                           *)
(***************************************************************************)
EXTENDS PostScreen, ReplyScreen, ComposeScreen, SearchScreen, InboxScreen,
        PlanScreen, AccountScreen, BrowseScreen

Mounts ==
  UNION {PostMounts, ReplyMounts, ComposeMounts, SearchMounts, HistoryMounts,
         ChatMounts, MailMounts, NoteMounts, PlanMounts, AccountMounts,
         BrowseMounts}

Init == \E m \in Mounts : Starts(m)

OpenScreen == screen = "home" /\ \E m \in Mounts : Opens(m)

Next ==
  \/ PostNext \/ ReplyNext \/ ComposeNext \/ SearchNext
  \/ ChatNext \/ MailNext \/ NotesNext
  \/ PlanNext \/ AccountNext \/ BrowseNext
  \/ OpenScreen

Spec == Init /\ [][Next]_vars

-----------------------------------------------------------------------------
(* Types of the local state of every screen, of the part of the server it     *)
(* shows, and of its calls.                                                *)
TypeOK ==
  /\ client \in Clients /\ upset \in BOOLEAN
  /\ Len(calls) <= 2 * MaxCalls
  /\ PostTypeOK /\ ReplyTypeOK /\ ComposeTypeOK /\ SearchTypeOK
  /\ InboxTypeOK /\ PlanTypeOK /\ AccountTypeOK /\ BrowseTypeOK

(* With nothing under way each screen shows what the server has, put together *)
(* from the answers to calls of several kinds: post, replies, results, badges, *)
(* plans, account, and the lists of boards and users.                       *)
ScreensAgree ==
  /\ ShownIsServers
  /\ RepliesAreShown
  /\ ResultsMatchQuery
  /\ BadgeIsExact /\ MailIsCounted
  /\ PlansAreShown
  /\ AccountIsShown
  /\ HeadAndListAgree /\ SidebarFollows /\ OptionsMatchWord /\ OwnListsAreFresh

(* What the forms send is what their user chose from what he was offered:     *)
(* the post he edits, tags of its board, one post for one visit, a seat of   *)
(* the room and the day, and a code when the server gives one.               *)
SentAsChosen ==
  /\ EditsWhatWasLoaded /\ TagsAreTheBoards /\ PublishedOnce
  /\ SeatIsOffered
  /\ CooldownIsCounted

(* Messages come in the order they were sent and searches in the order they   *)
(* were made, each once, however polls, answers and readings overtake them.  *)
OrdersAreKept == ChatIsInOrder /\ HistoryIsRecent

(* What was typed leaves a form only when the server has stored it. *)
TypedIsStored == DraftIsStored /\ FormIsStored
===============================================================================
