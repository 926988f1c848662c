----------------------------- MODULE SearchScreen -----------------------------
(***************************************************************************)
(* Searching: app/search.tsx and pages/Search.tsx with the hook that keeps   *)
(* the last terms on the device (use-search-history.ts, useSearchHistory.ts).*)
(*                                                                         *)
(* A search starts anew whenever its conditions change, unless the list is   *)
(* locked by a page under way.  The terms are read from the device when the  *)
(* screen is mounted: at once on the web, some time later in the app.        *)
(***************************************************************************)
EXTENDS Screen

CONSTANTS
  Terms,
  MaxHistory,   \* 20 in the code
  MaxSearches   \* bound: searches that are remembered by the model

ASSUME SearchScreenAssumption == MaxHistory \in Nat /\ MaxSearches \in Nat

(* filter stands for the board, the period and the flag for pictures. *)
Query == [q : Terms \cup {None}, filter : BOOLEAN]

Histories == {h \in BoundedSeq(Terms, MaxHistory) : IsInjective(h)}

Blank == [q |-> None, filter |-> FALSE]

HasQuery(x) == x.q # None \/ x.filter

SearchTypeOK ==
  /\ screen = "search" =>
       /\ ui \in [asked : Query, list : SUBSET Query, total : Query \cup {None},
                  lock : BOOLEAN]
  /\ screen = "history" =>
       /\ ui \in [history : Histories, read : BOOLEAN, early : BOOLEAN]
       /\ db.stored \in Histories /\ db.log \in Seq(Terms)

(* goSearch() of the web's header leads to a page that has conditions at      *)
(* once: a word, or a board that is chosen; nothing is asked without both.  *)
Linked(x) == HasQuery(x)

SearchPage(c, x) ==
  Mount(c, "search",
        [asked |-> x, list |-> {}, total |-> None, lock |-> HasQuery(x)],
        IF HasQuery(x) THEN <<Call("page", x)>> ELSE <<>>, None)

SearchMounts ==
  {SearchPage(c, Blank) : c \in Clients}
  \cup {SearchPage("web", x) : x \in {y \in Query : Linked(y)}}

(* sanitize() and read(): what is stored is one of the histories. *)
HistoryMounts ==
  {Mount(c, "history",
         [history |-> IF c = "web" THEN h ELSE <<>>, read |-> c = "web",
          early |-> FALSE],
         IF c = "web" THEN <<>> ELSE <<Call("read", None)>>,
         [stored |-> h, log |-> Reverse(h)]) :
     c \in Clients, h \in Histories}

-----------------------------------------------------------------------------
(* What is stored has a term once at most, so that one place is left out. *)
Without(h, t) ==
  IF \E i \in DOMAIN h : h[i] = t
  THEN RemoveAt(h, CHOOSE i \in DOMAIN h : h[i] = t)
  ELSE h

(* add(): the term comes first, once, and the list is cut. *)
Remembered(h, t) ==
  LET all == <<t>> \o Without(h, t)
  IN SubSeq(all, 1, IF Len(all) < MaxHistory THEN Len(all) ELSE MaxHistory)

(* runSearch(t) in the app, the effect on the keyword on the web *)
Remember(t) ==
  /\ Len(db.log) < MaxSearches
  /\ ui' = [ui EXCEPT !.history = Remembered(@, t), !.early = @ \/ ~ui.read]
  /\ db' = [stored |-> Remembered(ui.history, t), log |-> Append(db.log, t)]
  /\ Stays /\ UNCHANGED <<calls, upset>>

ClearHistory ==
  /\ ui.history # <<>>
  /\ ui' = [ui EXCEPT !.history = <<>>]
  /\ db' = [stored |-> <<>>, log |-> <<>>]
  /\ Stays /\ UNCHANGED <<calls, upset>>

(* Whether a list is emptied at once when the conditions are taken away: the  *)
(* web asks its hook, which does nothing while it is locked.                *)
EmptiedBy(x) == ~HasQuery(x) /\ (client = "app" \/ ~ui.lock)

(* A keyword or a filter is set or taken away.  With a query the list starts  *)
(* anew, if it is not locked; without one it is emptied, and a page under way *)
(* is not waited for.                                                      *)
Search(x) ==
  /\ x # ui.asked
  /\ ui' = [ui EXCEPT !.asked = x,
                      !.lock = @ \/ HasQuery(x),
                      !.list = IF EmptiedBy(x) THEN {} ELSE @,
                      !.total = IF EmptiedBy(x) THEN None ELSE @]
  /\ IF HasQuery(x) /\ ~ui.lock
     THEN Send(Call("page", x)) ELSE UNCHANGED calls
  /\ upset' = (ui.lock \/ (upset /\ HasQuery(x)))
  /\ Stays /\ UNCHANGED db

(* The end of the list is reached, or in the app it is pulled down. *)
ScrollResults ==
  /\ HasQuery(ui.asked) /\ ~ui.lock /\ ui.list # {}
  /\ ui' = [ui EXCEPT !.lock = TRUE]
  /\ Send(Call("more", ui.asked))
  /\ Stays /\ UNCHANGED <<db, upset>>

PullResults ==
  /\ ~ui.lock /\ HasQuery(ui.asked)
  /\ ui' = [ui EXCEPT !.lock = TRUE]
  /\ Send(Call("page", ui.asked))
  /\ Stays /\ UNCHANGED <<db, upset>>

-----------------------------------------------------------------------------
(* The search is answered, or the device reads what is stored. *)
ServeSearch(i) ==
  /\ calls[i].ans = None
  /\ Served(i, IF screen = "search" THEN "page" ELSE db.stored)
  /\ Stays /\ UNCHANGED <<ui, db, upset>>

(* The number of results comes with every page, before the page is shown. *)
Results(k) ==
  [ui EXCEPT !.list = IF k.kind = "more" THEN @ \cup {k.of} ELSE {k.of},
             !.total = k.of,
             !.lock = FALSE]

SearchAnswered(i) ==
  LET k == calls[i]
  IN /\ k.kind \in {"page", "again", "more"} /\ k.ans # None
     /\ ui' = Results(k)
     /\ Ends(i)
     /\ upset' = IF k.kind = "more" THEN upset
                 ELSE k.of # ui.asked \/ ~HasQuery(k.of)
     /\ Stays /\ UNCHANGED db

(* What was stored replaces what has been added meanwhile. *)
HistoryRead(i) ==
  /\ calls[i].kind = "read" /\ calls[i].ans # None
  /\ ui' = [ui EXCEPT !.history = calls[i].ans, !.read = TRUE]
  /\ Ends(i)
  /\ Stays /\ UNCHANGED <<db, upset>>

(* The app's hook tries once more, with the conditions there are by then. *)
SearchAgain(i) ==
  /\ calls[i].kind = "page"
  /\ calls' = [calls EXCEPT ![i] = Call("again", ui.asked)]
  /\ Stays /\ UNCHANGED <<ui, db, upset>>

(* The search failed, or the device cannot be read. *)
SearchMissed(i) ==
  /\ client = "app" => calls[i].kind # "page"
  /\ ui' = IF screen = "search" THEN [ui EXCEPT !.lock = FALSE]
           ELSE [ui EXCEPT !.read = TRUE, !.early = TRUE]
  /\ Ends(i)
  /\ upset' = (upset \/ calls[i].kind \in {"page", "again"})
  /\ Stays /\ UNCHANGED db

(* What the screens let their users do. *)
AppSearch ==
  /\ client = "app"
  /\ (\E x \in Query : Search(x)) \/ ScrollResults \/ PullResults

WebSearch ==
  /\ client = "web"
  /\ (\E x \in Query : Search(x)) \/ ScrollResults

SearchNext ==
  \/ /\ screen = "search"
     /\ \/ AppSearch \/ WebSearch
        \/ \E i \in DOMAIN calls :
             \/ ServeSearch(i) \/ SearchAnswered(i) \/ SearchMissed(i)
             \/ client = "app" /\ SearchAgain(i)
  \/ /\ screen = "history"
     /\ \/ \E t \in Terms : Remember(t)
        \/ ClearHistory
        \/ \E i \in DOMAIN calls :
             ServeSearch(i) \/ HistoryRead(i) \/ SearchMissed(i)

-----------------------------------------------------------------------------
(* With nothing under way the results, all pages of them, and their number    *)
(* are those of the conditions on the screen, and there are none without     *)
(* conditions.  Only conditions that changed while a page was under way, or  *)
(* a page that failed, break that.                                         *)
ResultsMatchQuery ==
  (screen = "search" /\ ~ui.lock /\ ~upset) =>
    /\ ui.list = IF HasQuery(ui.asked) THEN {ui.asked} ELSE {}
    /\ ui.total = IF HasQuery(ui.asked) THEN ui.asked ELSE None

(* The terms searched for since the last clearing, the latest first, each     *)
(* once, at most MaxHistory of them: position by position.                  *)
LastAt(log, t) == CHOOSE n \in DOMAIN log :
                    log[n] = t /\ \A m \in DOMAIN log : log[m] = t => m <= n

IsRecent(h, log) ==
  /\ \A i \in DOMAIN h : h[i] \in Range(log)
  /\ \A i, j \in DOMAIN h : i < j => LastAt(log, h[i]) > LastAt(log, h[j])
  /\ \A t \in Range(log) \ Range(h) :
       /\ Len(h) = MaxHistory
       /\ \A i \in DOMAIN h : LastAt(log, h[i]) > LastAt(log, t)

(* The history on the screen is that, and the device keeps the same, unless   *)
(* the app searched before it had read what the device kept.                *)
HistoryIsRecent ==
  (screen = "history" /\ ui.read /\ ~ui.early) =>
    IsRecent(ui.history, db.log) /\ db.stored = ui.history
=============================================================================
