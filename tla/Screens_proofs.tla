----------------------------- MODULE Screens_proofs ----------------------------
(***************************************************************************)
(* Proofs about the screens of the clients, for every set of posts, floors,  *)
(* tags, terms, chats, plans, boards and users, and any number of calls      *)
(* under way.  First the screens that read, with an invariant for each as in *)
(* ScreenForms_proofs; then all of them, one of which is mounted at a time,  *)
(* and the theorems.                                                       *)
(***************************************************************************)
EXTENDS ScreenForms_proofs

-----------------------------------------------------------------------------
(* Searching.  The lock is the call under way, of which there is one at most, *)
(* and a page more is of the conditions whose first page is shown.          *)
SearchUi == [asked : Query, list : SUBSET Query, total : Query \cup {None}, lock : BOOLEAN]

SearchCall == CallOf({"page", "again", "more"}, Query, {None, "page"})

SearchTyped ==
  /\ ui \in SearchUi
  /\ calls \in Seq(SearchCall)
  /\ ui.lock => Len(calls) = 1
  /\ ~ui.lock => Len(calls) = 0

Gathered ==
  /\ ui.list = IF HasQuery(ui.asked) THEN {ui.asked} ELSE {}
  /\ ui.total = IF HasQuery(ui.asked) THEN ui.asked ELSE None

SearchTidy ==
  ~upset =>
    /\ ~ui.lock => Gathered
    /\ \A i \in DOMAIN calls :
         calls[i].kind = "more" =>
           HasQuery(ui.asked) /\ calls[i].of = ui.asked /\ Gathered

SearchInv == screen = "search" => SearchTyped /\ SearchTidy

LEMMA SearchCallFields ==
  ASSUME SearchTyped
  PROVE  /\ Len(calls) \in Nat /\ DOMAIN calls = 1 .. Len(calls)
         /\ \A i \in DOMAIN calls :
              /\ i = 1 /\ Len(calls) = 1
              /\ calls[i].kind \in {"page", "again", "more"}
              /\ calls[i].of \in Query /\ calls[i].ans \in {None, "page"}
<1>1. \A i \in DOMAIN calls :
        /\ calls[i].kind \in {"page", "again", "more"}
        /\ calls[i].of \in Query /\ calls[i].ans \in {None, "page"}
  BY Fields DEF SearchTyped, SearchCall
<1>2. /\ Len(calls) \in Nat /\ DOMAIN calls = 1 .. Len(calls) /\ Len(calls) \in {0, 1}
  BY DEF SearchTyped
<1>3. \A i \in DOMAIN calls : i = 1 /\ Len(calls) = 1
  BY <1>2
<1>4. QED
  BY <1>1, <1>2, <1>3

LEMMA SearchCallIs ==
  ASSUME NEW k \in {"page", "again", "more"}, NEW o \in Query
  PROVE  Call(k, o) \in SearchCall
BY Fields DEF SearchCall

LEMMA SearchStep ==
  ASSUME SearchTyped, SearchTidy, NEW x \in Query, Search(x)
  PROVE  SearchTyped' /\ SearchTidy'
<1> USE SearchCallFields
<1> DEFINE gone == EmptiedBy(x)
<1>1. /\ ui' \in SearchUi /\ ui'.asked = x
      /\ ui'.lock <=> (ui.lock \/ HasQuery(x))
      /\ ui'.list = IF gone THEN {} ELSE ui.list
      /\ ui'.total = IF gone THEN None ELSE ui.total
  <2>1. HasQuery(x) \in BOOLEAN
    BY DEF HasQuery, Query
  <2>2. QED
    BY <2>1 DEF Search, SearchTyped, SearchUi
<1>2. ~upset' => ~ui.lock /\ (upset => ~HasQuery(x))
  BY DEF Search
<1>3. CASE HasQuery(x) /\ ~ui.lock
  <2>1. Grows(Call("page", x)) /\ calls' \in Seq(SearchCall) /\ Len(calls) = 0
    BY <1>3, Sent, SearchCallIs DEF SearchTyped, Search, Send
  <2>2. Len(calls') = 1 /\ \A i \in DOMAIN calls' : calls'[i].kind = "page"
    BY <2>1 DEF Grows, Call
  <2>3. SearchTyped'
    BY <1>1, <1>3, <2>1, <2>2 DEF SearchTyped
  <2>4. QED
    BY <1>1, <1>3, <2>2, <2>3 DEF SearchTidy
<1>4. CASE ~(HasQuery(x) /\ ~ui.lock)
  <2>1. calls' = calls
    BY <1>4 DEF Search
  <2>2. SearchTyped'
    BY <1>1, <1>4, <2>1 DEF SearchTyped
  <2>3. ASSUME ~upset'
        PROVE  Len(calls) = 0 /\ ~HasQuery(x) /\ gone
    BY <1>2, <1>4, <2>3 DEF EmptiedBy, SearchTyped
  <2>4. ASSUME ~upset'
        PROVE  Gathered' /\ DOMAIN calls' = {}
    BY <1>1, <2>1, <2>3, <2>4 DEF Gathered
  <2>5. QED
    BY <2>2, <2>4 DEF SearchTidy
<1>5. QED
  BY <1>3, <1>4

LEMMA ScrollsInv ==
  ASSUME SearchTyped, SearchTidy, ScrollResults \/ PullResults
  PROVE  SearchTyped' /\ SearchTidy'
<1> USE SearchCallFields
<1> DEFINE k == IF ScrollResults THEN "more" ELSE "page"
<1>1. /\ ui' \in SearchUi /\ ui'.asked = ui.asked /\ ui'.list = ui.list
      /\ ui'.total = ui.total /\ ui'.lock /\ ~ui.lock /\ upset' = upset
      /\ HasQuery(ui.asked) /\ ui.asked \in Query
  BY DEF ScrollResults, PullResults, SearchTyped, SearchUi
<1>2. calls' = Append(calls, Call(k, ui.asked)) /\ Len(calls) = 0
  BY <1>1 DEF ScrollResults, PullResults, Send, SearchTyped
<1>3. Grows(Call(k, ui.asked)) /\ calls' \in Seq(SearchCall)
  BY <1>1, <1>2, Sent, SearchCallIs DEF SearchTyped
<1>4. Len(calls') = 1 /\ \A i \in DOMAIN calls' : calls'[i].of = ui.asked
  BY <1>2, <1>3 DEF Grows, Call
<1>5. SearchTyped'
  BY <1>1, <1>3, <1>4 DEF SearchTyped
<1>6. Gathered => Gathered'
  BY <1>1 DEF Gathered
<1>7. QED
  BY <1>1, <1>2, <1>4, <1>5, <1>6 DEF SearchTidy

LEMMA SearchAnswersInv ==
  ASSUME SearchTyped, SearchTidy, screen = "search", NEW i \in DOMAIN calls,
         ServeSearch(i) \/ SearchAnswered(i) \/ SearchMissed(i) \/ SearchAgain(i)
  PROVE  SearchTyped' /\ SearchTidy'
<1> USE SearchCallFields
<1> DEFINE k == calls[i]
<1>1. ASSUME ServeSearch(i)
      PROVE  SearchTyped' /\ SearchTidy'
  <2>1. ui' = ui /\ upset' = upset
    BY <1>1 DEF ServeSearch
  <2>2. Replies(i, "page") /\ calls' \in Seq(SearchCall)
    BY <1>1, Replied DEF ServeSearch, SearchTyped, SearchCall
  <2>3. QED
    BY <2>1, <2>2 DEF SearchTyped, SearchTidy, Replies, Gathered
<1>2. ASSUME SearchAnswered(i)
      PROVE  SearchTyped' /\ SearchTidy'
  <2>1. /\ ui' \in SearchUi /\ ui'.asked = ui.asked /\ ~ui'.lock
        /\ ui'.list = IF k.kind = "more" THEN ui.list \cup {k.of} ELSE {k.of}
        /\ ui'.total = k.of
    BY <1>2 DEF SearchAnswered, Results, SearchTyped, SearchUi
  <2>2. Shrinks(i) /\ calls' \in Seq(SearchCall)
    BY <1>2, Ended DEF SearchAnswered, SearchTyped
  <2>3. Len(calls') = 0 /\ DOMAIN calls' = {} /\ SearchTyped'
    BY <2>1, <2>2 DEF SearchTyped, Shrinks
  <2>4. ~upset' => Gathered'
    <3>1. CASE k.kind = "more"
      BY <1>2, <2>1, <3>1 DEF SearchAnswered, SearchTidy, Gathered
    <3>2. CASE k.kind # "more"
      BY <1>2, <2>1, <3>2 DEF SearchAnswered, Gathered
    <3>3. QED
      BY <3>1, <3>2
  <2>5. QED
    BY <2>3, <2>4 DEF SearchTidy
<1>3. ASSUME SearchMissed(i)
      PROVE  SearchTyped' /\ SearchTidy'
  <2>1. /\ ui' \in SearchUi /\ ui'.asked = ui.asked /\ ~ui'.lock
        /\ ui'.list = ui.list /\ ui'.total = ui.total
    BY <1>3 DEF SearchMissed, SearchTyped, SearchUi
  <2>2. Shrinks(i) /\ calls' \in Seq(SearchCall)
    BY <1>3, Ended DEF SearchMissed, SearchTyped
  <2>3. Len(calls') = 0 /\ DOMAIN calls' = {} /\ SearchTyped'
    BY <2>1, <2>2 DEF SearchTyped, Shrinks
  <2>4. ~upset' => Gathered
    BY <1>3 DEF SearchMissed, SearchTidy
  <2>5. QED
    BY <2>1, <2>3, <2>4 DEF SearchTidy, Gathered
<1>4. ASSUME SearchAgain(i)
      PROVE  SearchTyped' /\ SearchTidy'
  <2> DEFINE new == Call("again", ui.asked)
  <2>1. new \in SearchCall /\ new.kind = "again"
    BY SearchCallIs DEF SearchTyped, SearchUi, Call
  <2>2. ui' = ui /\ upset' = upset /\ calls' = [calls EXCEPT ![i] = new]
    BY <1>4 DEF SearchAgain
  <2> HIDE DEF new
  <2>3. /\ calls' \in Seq(SearchCall) /\ Len(calls') = 1 /\ DOMAIN calls' = {1}
        /\ calls'[1].kind = "again"
    BY <2>1, <2>2, Replaced DEF SearchTyped
  <2>4. QED
    BY <2>2, <2>3 DEF SearchTyped, SearchTidy
<1>5. QED
  BY <1>1, <1>2, <1>3, <1>4

LEMMA SearchNextInv ==
  ASSUME SearchInv, SearchNext, screen = "search"
  PROVE  SearchInv'
<1>1. SearchTyped /\ SearchTidy
  BY DEF SearchInv
<1>2. ASSUME AppSearch \/ WebSearch
      PROVE  SearchInv'
  BY <1>1, <1>2, SearchStep, ScrollsInv DEF AppSearch, WebSearch, SearchInv
<1>3. ASSUME \E i \in DOMAIN calls :
               ServeSearch(i) \/ SearchAnswered(i) \/ SearchMissed(i) \/ SearchAgain(i)
      PROVE  SearchInv'
  BY <1>1, <1>3, SearchAnswersInv DEF SearchInv
<1>4. QED
  BY <1>2, <1>3 DEF SearchNext

LEMMA SearchMounted ==
  ASSUME NEW m \in SearchMounts
  PROVE  /\ m.screen = "search" /\ m.client \in Clients
         /\ Starts(m) => SearchInv
         /\ Opens(m) => SearchInv'
<1>1. PICK c \in Clients, x \in Query : m = SearchPage(c, x)
  <2>1. Blank \in Query /\ "web" \in Clients
    BY DEF Blank, Query, Clients
  <2>2. QED
    BY <2>1 DEF SearchMounts
<1>2. HasQuery(x) \in BOOLEAN
  BY DEF HasQuery, Query
<1>3. /\ m.client = c /\ m.screen = "search"
      /\ m.ui \in SearchUi /\ (m.ui.lock <=> HasQuery(x)) /\ m.ui.asked = x
      /\ m.ui.list = {} /\ m.ui.total = None
      /\ m.calls = IF HasQuery(x) THEN <<Call("page", x)>> ELSE <<>>
  BY <1>1, <1>2 DEF SearchPage, Mount, SearchUi
<1>4. Call("page", x) \in SearchCall
  BY SearchCallIs
<1>5. /\ m.calls \in Seq(SearchCall) /\ Len(m.calls) = IF HasQuery(x) THEN 1 ELSE 0
      /\ \A i \in DOMAIN m.calls : m.calls[i] = Call("page", x)
  BY <1>3, <1>4
<1>6. \A i \in DOMAIN m.calls : m.calls[i].kind = "page"
  BY <1>5 DEF Call
<1>7. Starts(m) => SearchInv
  BY <1>3, <1>5, <1>6 DEF Starts, SearchInv, SearchTyped, SearchTidy, Gathered
<1>8. Opens(m) => SearchInv'
  BY <1>3, <1>5, <1>6 DEF Opens, SearchInv, SearchTyped, SearchTidy, Gathered
<1>9. QED
  BY <1>3, <1>7, <1>8

LEMMA SearchKept ==
  ASSUME SearchInv, UNCHANGED vars
  PROVE  SearchInv'
<1>1. screen' = screen /\ ui' = ui /\ calls' = calls /\ upset' = upset
  BY DEF vars
<1>2. SearchTyped => SearchTyped'
  BY <1>1 DEF SearchTyped
<1>3. Gathered => Gathered'
  BY <1>1 DEF Gathered
<1>4. SearchTidy => SearchTidy'
  BY <1>1, <1>3 DEF SearchTidy
<1>5. QED
  BY <1>1, <1>2, <1>4 DEF SearchInv

-----------------------------------------------------------------------------
(* The last terms.  Each term searched for has a last place in the log, which *)
(* is said here because only an induction over the log would show it; and    *)
(* what the device keeps is recent from the start, whether it has been read  *)
(* or not, until the app searches before it has been.                      *)
IsLast(log, t, n) ==
  n \in DOMAIN log /\ log[n] = t /\ \A m \in DOMAIN log : log[m] = t => m <= n

Lasts(log) == \A t \in Range(log) : \E n \in DOMAIN log : IsLast(log, t, n)

HistoryUi == [history : Histories, read : BOOLEAN, early : BOOLEAN]

HistoryDb == [stored : Histories, log : Seq(Terms)]

HistoryCall == CallOf({"read"}, {None}, {None} \cup Histories)

HistoryTyped ==
  /\ ui \in HistoryUi /\ db \in HistoryDb
  /\ calls \in Seq(HistoryCall) /\ Len(calls) <= 1

HistoryTidy ==
  /\ Lasts(db.log)
  /\ ~ui.early =>
       /\ IsRecent(db.stored, db.log)
       /\ ui.read => ui.history = db.stored /\ Len(calls) = 0
       /\ ~ui.read =>
            /\ ui.history = <<>>
            /\ \A i \in DOMAIN calls : calls[i].ans \in {None, db.stored}

HistoryInv == screen = "history" => HistoryTyped /\ HistoryTidy

LEMMA HistoryIs ==
  ASSUME NEW h
  PROVE  h \in Histories <=>
           /\ h \in Seq(Terms) /\ Len(h) <= MaxHistory
           /\ \A i, j \in DOMAIN h : h[i] = h[j] => i = j
<1>1. \A m \in Nat : m \in 0 .. MaxHistory <=> m <= MaxHistory
  BY SearchScreenAssumption
<1>2. h \in BoundedSeq(Terms, MaxHistory) <=> h \in Seq(Terms) /\ Len(h) <= MaxHistory
  <2>1. ASSUME h \in Seq(Terms), Len(h) <= MaxHistory
        PROVE  h \in BoundedSeq(Terms, MaxHistory)
    <3>1. Len(h) \in 0 .. MaxHistory /\ h \in [1 .. Len(h) -> Terms]
      BY <2>1, <1>1
    <3>2. QED
      BY <3>1 DEF BoundedSeq, SeqOf
  <2>2. ASSUME NEW n \in 0 .. MaxHistory, h \in [1 .. n -> Terms]
        PROVE  h \in Seq(Terms) /\ Len(h) <= MaxHistory
    <3>1. n \in Nat /\ n <= MaxHistory
      BY SearchScreenAssumption
    <3>2. h \in Seq(Terms) /\ Len(h) = n
      BY <2>2, <3>1
    <3>3. QED
      BY <3>1, <3>2
  <2>3. QED
    BY <2>1, <2>2 DEF BoundedSeq, SeqOf
<1>3. QED
  BY <1>2 DEF Histories, IsInjective

LEMMA LastIs ==
  ASSUME NEW log \in Seq(Terms), Lasts(log), NEW t \in Range(log)
  PROVE  IsLast(log, t, LastAt(log, t))
<1>1. \E n \in DOMAIN log : log[n] = t /\ \A m \in DOMAIN log : log[m] = t => m <= n
  BY DEF Lasts, IsLast
<1>2. QED
  BY <1>1 DEF LastAt, IsLast

LEMMA LastOnly ==
  ASSUME NEW log \in Seq(Terms), NEW t, NEW n, IsLast(log, t, n)
  PROVE  n = LastAt(log, t) /\ t \in Range(log)
<1>1. IsLast(log, t, LastAt(log, t))
  BY DEF LastAt, IsLast
<1>2. n <= LastAt(log, t) /\ LastAt(log, t) <= n /\ n \in Int /\ LastAt(log, t) \in Int
  BY <1>1 DEF IsLast
<1>3. QED
  BY <1>2 DEF IsLast, Range

LEMMA LastMoves ==
  ASSUME NEW log \in Seq(Terms), Lasts(log), NEW t \in Terms
  PROVE  /\ Append(log, t) \in Seq(Terms) /\ Lasts(Append(log, t))
         /\ Range(Append(log, t)) = Range(log) \cup {t}
         /\ LastAt(Append(log, t), t) = Len(log) + 1
         /\ \A x \in Range(log) :
              /\ LastAt(log, x) \in Int /\ LastAt(log, x) < Len(log) + 1
              /\ x # t => LastAt(Append(log, t), x) = LastAt(log, x)
<1> DEFINE new == Append(log, t)
<1>1. /\ new \in Seq(Terms) /\ Len(log) \in Nat
      /\ DOMAIN log = 1 .. Len(log) /\ DOMAIN new = 1 .. Len(log) + 1
      /\ new[Len(log) + 1] = t
      /\ \A n \in DOMAIN log : new[n] = log[n]
  OBVIOUS
<1> HIDE DEF new
<1>2. /\ DOMAIN new = DOMAIN log \cup {Len(log) + 1}
      /\ \A n \in DOMAIN log : n \in Int /\ n < Len(log) + 1
  BY <1>1
<1>3. Range(new) = Range(log) \cup {t}
  BY <1>1, <1>2 DEF Range
<1>4. IsLast(new, t, Len(log) + 1)
  BY <1>1, <1>2 DEF IsLast
<1>5. ASSUME NEW x \in Range(log), x # t
      PROVE  IsLast(new, x, LastAt(log, x))
  BY <1>1, <1>2, <1>5, LastIs DEF IsLast
<1>6. \A x \in Range(log) : LastAt(log, x) \in DOMAIN log
  BY LastIs DEF IsLast
<1>7. Lasts(new)
  BY <1>3, <1>4, <1>5 DEF Lasts, IsLast
<1>8. LastAt(new, t) = Len(log) + 1 /\ \A x \in Range(log) : x # t => LastAt(new, x) = LastAt(log, x)
  BY <1>1, <1>4, <1>5, LastOnly
<1>9. QED
  BY <1>1, <1>2, <1>3, <1>6, <1>7, <1>8 DEF new

(* The terms of a history but t, in their order. *)
LEMMA WithoutIs ==
  ASSUME NEW h \in Histories, NEW t \in Terms
  PROVE  LET w == Without(h, t)
         IN /\ w \in Seq(Terms)
            /\ Len(w) \in {Len(h), Len(h) - 1}
            /\ \A j \in DOMAIN w : w[j] \in Range(h) /\ w[j] # t
            /\ \A x \in Range(h) \ {t} : \E j \in DOMAIN w : w[j] = x
            /\ \A j, k \in DOMAIN w : j < k =>
                 \E a, b \in DOMAIN h : a < b /\ w[j] = h[a] /\ w[k] = h[b]
<1> DEFINE w == Without(h, t)
<1>1. h \in Seq(Terms) /\ \A i, j \in DOMAIN h : h[i] = h[j] => i = j
  BY HistoryIs
<1>2. CASE \E i \in DOMAIN h : h[i] = t
  <2>1. PICK i \in DOMAIN h : h[i] = t /\ w = RemoveAt(h, i)
    BY <1>2 DEF Without
  <2> HIDE DEF w
  <2>2. /\ w \in Seq(Terms) /\ Len(w) = Len(h) - 1
        /\ \A j \in DOMAIN w :
             /\ Before(i, j) \in DOMAIN h /\ Before(i, j) # i
             /\ w[j] = h[Before(i, j)]
        /\ \A l \in DOMAIN h \ {i} : \E j \in DOMAIN w :
             Before(i, j) = l /\ w[j] = h[l]
    BY <1>1, <2>1, Removed
  <2>3. \A j \in DOMAIN w : w[j] \in Range(h) /\ w[j] # t
    BY <1>1, <2>1, <2>2 DEF Range
  <2>4. \A x \in Range(h) \ {t} : \E j \in DOMAIN w : w[j] = x
    BY <2>1, <2>2 DEF Range
  <2>5. \A j, k \in DOMAIN w : j < k => Before(i, j) < Before(i, k)
    BY <1>1, <2>2 DEF Before
  <2>6. QED
    BY <2>2, <2>3, <2>4, <2>5 DEF w
<1>3. CASE ~\E i \in DOMAIN h : h[i] = t
  <2>1. w = h
    BY <1>3 DEF Without
  <2>2. QED
    BY <1>1, <1>3, <2>1 DEF Range
<1>4. QED
  BY <1>2, <1>3

LEMMA RememberedIs ==
  ASSUME NEW h \in Histories, NEW t \in Terms
  PROVE  LET r == Remembered(h, t)
             w == Without(h, t)
         IN /\ r \in Histories
            /\ Len(r) = IF Len(w) + 1 < MaxHistory THEN Len(w) + 1 ELSE MaxHistory
            /\ \A i \in DOMAIN r : r[i] = IF i = 1 THEN t ELSE w[i - 1]
<1> DEFINE r == Remembered(h, t)
           w == Without(h, t)
           all == <<t>> \o w
           n == IF Len(all) < MaxHistory THEN Len(all) ELSE MaxHistory
<1>1. /\ w \in Seq(Terms)
      /\ \A j \in DOMAIN w : w[j] # t
      /\ \A j, k \in DOMAIN w : j < k =>
           \E a, b \in DOMAIN h : a < b /\ w[j] = h[a] /\ w[k] = h[b]
  BY WithoutIs
<1>2. \A j, k \in DOMAIN w : w[j] = w[k] => j = k
  <2>1. \A a, b \in DOMAIN h : h[a] = h[b] => a = b
    BY HistoryIs
  <2>2. \A a \in DOMAIN h : a \in Int
    BY HistoryIs
  <2>3. \A j, k \in DOMAIN w : j < k => w[j] # w[k]
    BY <1>1, <2>1, <2>2
  <2>4. \A j, k \in DOMAIN w : j \in Int /\ k \in Int
    BY <1>1
  <2>5. QED
    BY <2>3, <2>4
<1>3. r = SubSeq(all, 1, n)
  BY DEF Remembered
<1> HIDE DEF w
<1>4. /\ all \in Seq(Terms) /\ Len(all) = Len(w) + 1 /\ Len(w) \in Nat
      /\ \A i \in 1 .. Len(w) + 1 : all[i] = IF i = 1 THEN t ELSE w[i - 1]
  BY <1>1
<1> HIDE DEF all
<1>5. n \in 0 .. Len(all) /\ n <= MaxHistory
  BY <1>4, SearchScreenAssumption
<1>6. /\ SubSeq(all, 1, n) \in Seq(Terms) /\ Len(SubSeq(all, 1, n)) = n
      /\ \A i \in 1 .. n : SubSeq(all, 1, n)[i] = all[i]
  BY <1>4, <1>5
<1> HIDE DEF n
<1>7. /\ r \in Seq(Terms) /\ Len(r) = n /\ DOMAIN r = 1 .. n
      /\ \A i \in 1 .. n : r[i] = IF i = 1 THEN t ELSE w[i - 1]
  BY <1>3, <1>4, <1>5, <1>6
<1> HIDE DEF r
<1>8. \A i \in 1 .. n : i # 1 => i - 1 \in DOMAIN w /\ i \in Int
  BY <1>1, <1>4, <1>5
<1>9. \A i, j \in 1 .. n : r[i] = r[j] => i = j
  <2>1. \A i, j \in 1 .. n : i # 1 /\ j # 1 /\ r[i] = r[j] => i - 1 = j - 1
    BY <1>2, <1>7, <1>8
  <2>2. \A i, j \in 1 .. n : i # 1 /\ j = 1 => r[i] # r[j]
    BY <1>1, <1>7, <1>8
  <2>3. QED
    BY <1>8, <2>1, <2>2
<1>10. r \in Histories
  BY <1>5, <1>7, <1>9, HistoryIs
<1>11. QED
  BY <1>4, <1>7, <1>10 DEF r, w, n

LEMMA StaysRecent ==
  ASSUME NEW h \in Histories, NEW t \in Terms, NEW log \in Seq(Terms),
         Lasts(log), IsRecent(h, log)
  PROVE  IsRecent(Remembered(h, t), Append(log, t))
<1> DEFINE r == Remembered(h, t)
           w == Without(h, t)
           new == Append(log, t)
<1>1. /\ w \in Seq(Terms)
      /\ Len(w) \in {Len(h), Len(h) - 1}
      /\ \A j \in DOMAIN w : w[j] \in Range(h) /\ w[j] # t
      /\ \A x \in Range(h) \ {t} : \E j \in DOMAIN w : w[j] = x
      /\ \A j, k \in DOMAIN w : j < k =>
           \E a, b \in DOMAIN h : a < b /\ w[j] = h[a] /\ w[k] = h[b]
  BY WithoutIs
<1>2. /\ r \in Histories
      /\ Len(r) = IF Len(w) + 1 < MaxHistory THEN Len(w) + 1 ELSE MaxHistory
      /\ \A i \in DOMAIN r : r[i] = IF i = 1 THEN t ELSE w[i - 1]
  BY RememberedIs
<1>3. /\ Range(new) = Range(log) \cup {t}
      /\ LastAt(new, t) = Len(log) + 1
      /\ \A x \in Range(log) :
           /\ LastAt(log, x) \in Int /\ LastAt(log, x) < Len(log) + 1
           /\ x # t => LastAt(new, x) = LastAt(log, x)
  BY LastMoves
<1>4. /\ \A x \in Range(h) : x \in Range(log)
      /\ \A i, j \in DOMAIN h : i < j => LastAt(log, h[i]) > LastAt(log, h[j])
      /\ \A x \in Range(log) \ Range(h) :
           /\ Len(h) = MaxHistory
           /\ \A i \in DOMAIN h : LastAt(log, h[i]) > LastAt(log, x)
  BY DEF IsRecent, Range
<1>5. h \in Seq(Terms) /\ Len(h) <= MaxHistory /\ r \in Seq(Terms)
  BY <1>2, HistoryIs
<1> HIDE DEF r, w, new
<1>6. /\ Len(h) \in Nat /\ Len(w) \in Nat /\ Len(r) \in Nat /\ Len(log) \in Nat
      /\ DOMAIN r = 1 .. Len(r) /\ DOMAIN w = 1 .. Len(w) /\ Len(r) <= Len(w) + 1
  BY <1>1, <1>2, <1>5, SearchScreenAssumption
<1>7. \A i \in DOMAIN r : i # 1 => i - 1 \in DOMAIN w /\ r[i] = w[i - 1]
  BY <1>2, <1>6
<1>8. \A j \in DOMAIN w : /\ w[j] \in Range(log) /\ LastAt(new, w[j]) = LastAt(log, w[j])
                          /\ LastAt(log, w[j]) < Len(log) + 1 /\ LastAt(log, w[j]) \in Int
  BY <1>1, <1>3, <1>4
<1>9. \A j, k \in DOMAIN w : j < k => LastAt(log, w[j]) > LastAt(log, w[k])
  <2> SUFFICES ASSUME NEW j \in DOMAIN w, NEW k \in DOMAIN w, j < k
               PROVE  LastAt(log, w[j]) > LastAt(log, w[k])
    OBVIOUS
  <2>1. PICK a, b \in DOMAIN h : a < b /\ w[j] = h[a] /\ w[k] = h[b]
    BY <1>1
  <2>2. LastAt(log, h[a]) > LastAt(log, h[b])
    BY <1>4, <2>1
  <2>3. QED
    BY <2>1, <2>2
<1>10. \A i \in DOMAIN r : r[i] \in Range(new)
  BY <1>2, <1>3, <1>7, <1>8
<1>11. ASSUME NEW i \in DOMAIN r, NEW j \in DOMAIN r, i < j
       PROVE  LastAt(new, r[i]) > LastAt(new, r[j])
  <2>1. j # 1 /\ i \in Int /\ j \in Int
    BY <1>6, <1>11
  <2>2. j - 1 \in DOMAIN w /\ r[j] = w[j - 1]
    BY <1>7, <2>1
  <2>3. CASE i = 1
    <3>1. r[i] = t
      BY <1>2, <2>3
    <3>2. LastAt(new, r[j]) < Len(log) + 1 /\ LastAt(new, r[j]) \in Int
      BY <1>8, <2>2
    <3>3. QED
      BY <1>3, <1>6, <3>1, <3>2
  <2>4. CASE i # 1
    <3>1. i - 1 \in DOMAIN w /\ r[i] = w[i - 1] /\ i - 1 < j - 1
      BY <1>7, <1>11, <2>1, <2>4
    <3>2. QED
      BY <1>8, <1>9, <2>2, <3>1
  <2>5. QED
    BY <2>3, <2>4
<1>12. ASSUME NEW x \in Range(new) \ Range(r), NEW i \in DOMAIN r
       PROVE  Len(r) = MaxHistory /\ LastAt(new, r[i]) > LastAt(new, x)
  <2>1. x # t
    <3>1. 1 \in DOMAIN r /\ r[1] = t
      BY <1>2, <1>6
    <3>2. QED
      BY <1>12, <3>1 DEF Range
  <2>2. x \in Range(log) /\ LastAt(new, x) = LastAt(log, x) /\ LastAt(log, x) \in Int
        /\ LastAt(log, x) < Len(log) + 1
    BY <1>3, <2>1
  <2>3. CASE x \in Range(h)
    <3>1. PICK j \in DOMAIN w : w[j] = x
      BY <1>1, <2>1, <2>3
    <3>2. Len(r) < j + 1
      <4>1. j + 1 \in DOMAIN r => r[j + 1] = x
        BY <1>2, <1>6, <3>1
      <4>2. j + 1 \notin DOMAIN r
        BY <1>12, <4>1 DEF Range
      <4>3. QED
        BY <1>6, <4>2
    <3>3. Len(r) = MaxHistory
      BY <1>2, <1>6, <3>2
    <3>4. CASE i = 1
      BY <1>2, <1>3, <2>2, <3>3, <3>4
    <3>5. CASE i # 1
      <4>1. i - 1 \in DOMAIN w /\ r[i] = w[i - 1] /\ i - 1 < j
        BY <1>6, <1>7, <3>2, <3>5
      <4>2. QED
        BY <1>8, <1>9, <2>2, <3>1, <3>3, <4>1
    <3>6. QED
      BY <3>4, <3>5
  <2>4. CASE x \notin Range(h)
    <3>1. Len(h) = MaxHistory /\ \A k \in DOMAIN h : LastAt(log, h[k]) > LastAt(log, x)
      BY <1>4, <2>2, <2>4
    <3>2. Len(r) = MaxHistory
      BY <1>1, <1>2, <1>6, <3>1
    <3>3. \A y \in Range(h) : LastAt(log, y) > LastAt(log, x)
      BY <3>1 DEF Range
    <3>4. CASE i = 1
      BY <1>2, <1>3, <2>2, <3>2, <3>4
    <3>5. CASE i # 1
      BY <1>1, <1>7, <1>8, <2>2, <3>2, <3>3, <3>5
    <3>6. QED
      BY <3>4, <3>5
  <2>5. QED
    BY <2>3, <2>4
<1>13. \A x \in Range(new) \ Range(r) : Len(r) = MaxHistory
  <2> SUFFICES ASSUME NEW x \in Range(new) \ Range(r), Len(r) # MaxHistory
               PROVE  FALSE
    OBVIOUS
  <2>1. 1 \in DOMAIN r
    BY <1>2, <1>6, SearchScreenAssumption
  <2>2. QED
    BY <1>12, <2>1
<1>14. QED
  BY <1>10, <1>11, <1>12, <1>13 DEF IsRecent, r, new

LEMMA EmptyIsRecent ==
  /\ <<>> \in Histories /\ <<>> \in Seq(Terms) /\ Lasts(<<>>) /\ IsRecent(<<>>, <<>>)
<1>1. <<>> \in Histories
  <2>1. <<>> \in Seq(Terms) /\ Len(<<>>) = 0 /\ DOMAIN <<>> = {}
    OBVIOUS
  <2>2. Len(<<>>) <= MaxHistory
    BY <2>1, SearchScreenAssumption
  <2>3. QED
    BY <2>1, <2>2, HistoryIs
<1>2. Range(<<>>) = {}
  BY DEF Range
<1>3. QED
  BY <1>1, <1>2 DEF Lasts, IsRecent

(* The log a history starts with: its terms, the latest last. *)
LEMMA MountedIsRecent ==
  ASSUME NEW h \in Histories
  PROVE  Reverse(h) \in Seq(Terms) /\ Lasts(Reverse(h)) /\ IsRecent(h, Reverse(h))
<1> DEFINE log == Reverse(h)
           n == Len(h)
<1>1. /\ h \in Seq(Terms) /\ n \in Nat /\ DOMAIN h = 1 .. n
      /\ \A i, j \in DOMAIN h : h[i] = h[j] => i = j
  BY HistoryIs
<1>2. /\ log \in Seq(Terms) /\ DOMAIN log = 1 .. n
      /\ \A i \in 1 .. n : log[i] = h[(n - i) + 1]
  BY <1>1 DEF Reverse
<1> HIDE DEF log, n
<1>3. \A i \in 1 .. n : (n - i) + 1 \in 1 .. n /\ (n - ((n - i) + 1)) + 1 = i
  BY <1>1
<1>4. \A i, j \in 1 .. n : (n - i) + 1 = (n - j) + 1 => i = j
  BY <1>1
<1>5. \A i, j \in 1 .. n : log[i] = log[j] => i = j
  BY <1>1, <1>2, <1>3, <1>4
<1>6. \A i \in 1 .. n : log[(n - i) + 1] = h[i]
  BY <1>2, <1>3
<1>7. \A i \in 1 .. n : i \in Int /\ i <= i
  BY <1>1
<1>8. \A i \in 1 .. n : IsLast(log, log[i], i)
  BY <1>2, <1>5, <1>7 DEF IsLast
<1>9. Lasts(log)
  BY <1>2, <1>8 DEF Lasts, Range
<1>10. \A i \in 1 .. n : LastAt(log, h[i]) = (n - i) + 1
  BY <1>2, <1>3, <1>6, <1>8, LastOnly
<1>11. Range(log) = Range(h)
  BY <1>1, <1>2, <1>3, <1>6 DEF Range
<1>12. \A i, j \in 1 .. n : i < j => (n - i) + 1 > (n - j) + 1
  BY <1>1
<1>13. \A i, j \in DOMAIN h : i < j => LastAt(log, h[i]) > LastAt(log, h[j])
  BY <1>1, <1>10, <1>12
<1>14. IsRecent(h, log)
  BY <1>11, <1>13 DEF IsRecent, Range
<1>15. QED
  BY <1>2, <1>9, <1>14 DEF log

LEMMA HistoryNextInv ==
  ASSUME HistoryInv, SearchNext, screen = "history"
  PROVE  HistoryInv'
<1>1. /\ ui \in HistoryUi /\ db \in HistoryDb
      /\ calls \in Seq(HistoryCall) /\ Len(calls) <= 1 /\ HistoryTidy
  BY DEF HistoryInv, HistoryTyped
<1>2. /\ Len(calls) \in Nat /\ DOMAIN calls = 1 .. Len(calls)
      /\ \A i \in DOMAIN calls : /\ calls[i].kind = "read"
                                 /\ calls[i].ans \in {None} \cup Histories
  BY <1>1, Fields DEF HistoryCall
<1>3. ASSUME NEW t \in Terms, Remember(t)
      PROVE  HistoryInv'
  <2> DEFINE r == Remembered(ui.history, t)
  <2>1. ui.history \in Histories /\ db.log \in Seq(Terms) /\ db.stored \in Histories
    BY <1>1 DEF HistoryUi, HistoryDb
  <2>2. r \in Histories
    BY <2>1, RememberedIs
  <2>3. Append(db.log, t) \in Seq(Terms) /\ Lasts(Append(db.log, t))
    BY <1>1, <2>1, LastMoves DEF HistoryTidy
  <2>4. IsRecent(ui.history, db.log) => IsRecent(r, Append(db.log, t))
    BY <1>1, <2>1, StaysRecent DEF HistoryTidy
  <2> HIDE DEF r
  <2>5. /\ ui' \in HistoryUi /\ ui'.history = r /\ ui'.read = ui.read
        /\ ~ui'.early => ~ui.early /\ ui.read
    BY <1>1, <1>3, <2>2 DEF Remember, HistoryUi, r
  <2>6. /\ db' \in HistoryDb /\ db'.stored = r /\ db'.log = Append(db.log, t)
        /\ calls' = calls
    BY <1>3, <2>2, <2>3 DEF Remember, HistoryDb, r
  <2>7. HistoryTyped'
    BY <1>1, <2>5, <2>6 DEF HistoryTyped
  <2>8. HistoryTidy'
    BY <1>1, <2>3, <2>4, <2>5, <2>6 DEF HistoryTidy
  <2>9. QED
    BY <2>7, <2>8 DEF HistoryInv
<1>4. ASSUME ClearHistory
      PROVE  HistoryInv'
  <2>1. /\ ui' \in HistoryUi /\ ui'.history = <<>> /\ ui'.read = ui.read
        /\ ui'.early = ui.early /\ ui.history # <<>>
    BY <1>1, <1>4, EmptyIsRecent DEF ClearHistory, HistoryUi
  <2>2. /\ db' \in HistoryDb /\ db'.stored = <<>> /\ db'.log = <<>> /\ calls' = calls
    BY <1>4, EmptyIsRecent DEF ClearHistory, HistoryDb
  <2>3. HistoryTyped'
    BY <1>1, <2>1, <2>2 DEF HistoryTyped
  <2>4. HistoryTidy'
    BY <1>1, <2>1, <2>2, EmptyIsRecent DEF HistoryTidy
  <2>5. QED
    BY <2>3, <2>4 DEF HistoryInv
<1>5. ASSUME NEW i \in DOMAIN calls, ServeSearch(i)
      PROVE  HistoryInv'
  <2>1. db.stored \in Histories
    BY <1>1 DEF HistoryDb
  <2>2. Replies(i, db.stored) /\ calls' \in Seq(HistoryCall)
    BY <1>1, <1>5, <2>1, Replied DEF ServeSearch, HistoryCall
  <2>3. ui' = ui /\ db' = db
    BY <1>5 DEF ServeSearch
  <2>4. HistoryTyped'
    BY <1>1, <2>2, <2>3 DEF HistoryTyped, Replies
  <2>5. HistoryTidy'
    BY <1>1, <2>2, <2>3 DEF HistoryTidy, Replies
  <2>6. QED
    BY <2>4, <2>5 DEF HistoryInv
<1>6. ASSUME NEW i \in DOMAIN calls, HistoryRead(i)
      PROVE  HistoryInv'
  <2>1. /\ ui' \in HistoryUi /\ ui'.history = calls[i].ans /\ ui'.read
        /\ ui'.early = ui.early /\ db' = db /\ calls[i].ans # None
    BY <1>1, <1>2, <1>6 DEF HistoryRead, HistoryUi
  <2>2. Shrinks(i) /\ calls' \in Seq(HistoryCall)
    BY <1>1, <1>6, Ended DEF HistoryRead
  <2>3. Len(calls') = 0 /\ Len(calls) # 0
    BY <1>1, <1>2, <2>2 DEF Shrinks
  <2>4. HistoryTyped'
    BY <1>1, <2>1, <2>2, <2>3 DEF HistoryTyped
  <2>5. HistoryTidy'
    BY <1>1, <2>1, <2>3 DEF HistoryTidy
  <2>6. QED
    BY <2>4, <2>5 DEF HistoryInv
<1>7. ASSUME NEW i \in DOMAIN calls, SearchMissed(i)
      PROVE  HistoryInv'
  <2>1. /\ ui' \in HistoryUi /\ ui'.early /\ db' = db
    BY <1>1, <1>7 DEF SearchMissed, HistoryUi
  <2>2. Shrinks(i) /\ calls' \in Seq(HistoryCall)
    BY <1>1, <1>7, Ended DEF SearchMissed
  <2>3. Len(calls') <= 1
    BY <1>1, <1>2, <2>2 DEF Shrinks
  <2>4. HistoryTyped'
    BY <1>1, <2>1, <2>2, <2>3 DEF HistoryTyped
  <2>5. HistoryTidy'
    BY <1>1, <2>1, <2>3 DEF HistoryTidy
  <2>6. QED
    BY <2>4, <2>5 DEF HistoryInv
<1>8. QED
  BY <1>3, <1>4, <1>5, <1>6, <1>7 DEF SearchNext

LEMMA HistoryMounted ==
  ASSUME NEW m \in HistoryMounts
  PROVE  /\ m.screen = "history" /\ m.client \in Clients
         /\ Starts(m) => HistoryInv
         /\ Opens(m) => HistoryInv'
<1>1. PICK c \in Clients, h \in Histories :
        m = Mount(c, "history",
              [history |-> IF c = "web" THEN h ELSE <<>>, read |-> c = "web",
               early |-> FALSE],
              IF c = "web" THEN <<>> ELSE <<Call("read", None)>>,
              [stored |-> h, log |-> Reverse(h)])
  BY DEF HistoryMounts, Mount, Call
<1>2. m.client = c /\ m.screen = "history"
  BY <1>1 DEF Mount
<1>3. /\ m.ui \in HistoryUi /\ ~m.ui.early
      /\ m.ui.read <=> c = "web"
      /\ m.ui.history = IF c = "web" THEN h ELSE <<>>
  BY <1>1, EmptyIsRecent DEF Mount, HistoryUi
<1>4. m.db \in HistoryDb /\ m.db.stored = h /\ m.db.log = Reverse(h)
  BY <1>1, MountedIsRecent DEF Mount, HistoryDb
<1>5. Call("read", None) \in HistoryCall
  BY Fields DEF HistoryCall
<1>6. /\ m.calls \in Seq(HistoryCall) /\ Len(m.calls) = IF c = "web" THEN 0 ELSE 1
      /\ \A i \in DOMAIN m.calls : m.calls[i] = Call("read", None)
  BY <1>1, <1>5 DEF Mount
<1>7. \A i \in DOMAIN m.calls : m.calls[i].ans = None
  BY <1>6 DEF Call
<1>8. Starts(m) => HistoryInv
  BY <1>2, <1>3, <1>4, <1>6, <1>7, MountedIsRecent
     DEF Starts, HistoryInv, HistoryTyped, HistoryTidy
<1>9. Opens(m) => HistoryInv'
  BY <1>2, <1>3, <1>4, <1>6, <1>7, MountedIsRecent
     DEF Opens, HistoryInv, HistoryTyped, HistoryTidy
<1>10. QED
  BY <1>2, <1>8, <1>9

LEMMA HistoryKept ==
  ASSUME HistoryInv, UNCHANGED vars
  PROVE  HistoryInv'
BY DEF vars, HistoryInv, HistoryTyped, HistoryTidy

-----------------------------------------------------------------------------
(* A conversation.  One message is sent or read back at a time, while the     *)
(* button is locked.  Unless calls cross, they are of the conversation on the *)
(* screen, a message is sent alone, and it comes after all that are shown.   *)
ChatUi == [chat : Chats, messages : Seq(Message), draft : BOOLEAN, sending : BOOLEAN]

ChatDb == [sent : [Chats -> 0 .. MaxMessages]]

ChatCall == CallOf({"poll", "send", "reload"}, Chats, {None} \cup Message \cup Seq(Message))

ChatAnswers ==
  \A i \in DOMAIN calls :
    IF calls[i].kind = "send" THEN calls[i].ans \in {None} \cup Message
    ELSE calls[i].ans \in {None} \cup Seq(Message)

(* One message is on its way, or read back. *)
OneMessage ==
  /\ \A i, j \in DOMAIN calls : calls[i].kind # "poll" /\ calls[j].kind # "poll" => i = j
  /\ \A i \in DOMAIN calls :
       /\ calls[i].kind # "poll" => ui.sending
       /\ calls[i].kind = "send" => Len(calls) <= MaxCalls

ChatTyped ==
  /\ ui \in ChatUi /\ db \in ChatDb
  /\ calls \in Seq(ChatCall) /\ ChatAnswers
  /\ Len(calls) <= MaxCalls + 1
  /\ OneMessage

InOrder(ms, c) ==
  \A i \in DOMAIN ms :
    /\ ms[i].chat = c /\ ms[i].n <= db.sent[c]
    /\ i > 1 => ms[i].n > ms[i - 1].n

SentAlone ==
  \A i \in DOMAIN calls :
    calls[i].kind = "send" =>
      /\ Len(calls) = 1
      /\ calls[i].ans # None =>
           /\ calls[i].ans.chat = ui.chat /\ calls[i].ans.n <= db.sent[ui.chat]
           /\ \A j \in DOMAIN ui.messages : ui.messages[j].n < calls[i].ans.n

ReadInOrder ==
  \A i \in DOMAIN calls :
    calls[i].kind # "send" /\ calls[i].ans # None => InOrder(calls[i].ans, ui.chat)

ShownInOrder ==
  (\A i \in DOMAIN calls : calls[i].kind = "send") => InOrder(ui.messages, ui.chat)

ChatTidy ==
  ~upset =>
    /\ \A i \in DOMAIN calls : calls[i].of = ui.chat
    /\ SentAlone /\ ReadInOrder /\ ShownInOrder

ChatInv == screen = "chat" => ChatTyped /\ ChatTidy

LEMMA ChatCallFields ==
  ASSUME ChatTyped
  PROVE  /\ Len(calls) \in Nat /\ DOMAIN calls = 1 .. Len(calls)
         /\ \A i \in DOMAIN calls :
              calls[i].kind \in {"poll", "send", "reload"} /\ calls[i].of \in Chats
BY Fields DEF ChatTyped, ChatCall

LEMMA ChatCallIs ==
  ASSUME NEW k \in {"poll", "send", "reload"}, NEW c \in Chats
  PROVE  Call(k, c) \in ChatCall
BY Fields DEF ChatCall

LEMMA FirstPageIs ==
  ASSUME db \in ChatDb, NEW c \in Chats
  PROVE  FirstPage(db, c) \in Seq(Message) /\ InOrder(FirstPage(db, c), c)
<1> DEFINE len  == db.sent[c]
           from == IF len > PageSize THEN len - PageSize ELSE 0
           p    == FirstPage(db, c)
<1>1. len \in 0 .. MaxMessages
  BY DEF ChatDb
<1>2. len \in Nat /\ from \in Nat /\ from <= len /\ len <= MaxMessages
  BY <1>1, InboxScreenAssumption
<1>3. p = [i \in 1 .. len - from |-> [chat |-> c, n |-> from + i]]
  BY DEF FirstPage
<1> HIDE DEF len, from, p
<1>4. \A i \in 1 .. len - from : from + i \in 1 .. MaxMessages /\ from + i <= len
  BY <1>2, InboxScreenAssumption
<1>5. /\ DOMAIN p = 1 .. len - from
      /\ \A i \in 1 .. len - from : p[i] = [chat |-> c, n |-> from + i]
  BY <1>3
<1>6. \A i \in 1 .. len - from : p[i] \in Message /\ p[i].chat = c /\ p[i].n = from + i
  BY <1>4, <1>5 DEF Message
<1>7. len - from \in Nat
  BY <1>2
<1>8. p \in Seq(Message)
  <2>1. p \in [1 .. len - from -> Message]
    BY <1>3, <1>5, <1>6
  <2>2. QED
    BY <1>7, <2>1
<1>9. \A i \in 1 .. len - from : i > 1 => i - 1 \in 1 .. len - from /\ from + (i - 1) < from + i
  BY <1>2
<1>10. \A i \in 1 .. len - from : i > 1 => p[i].n > p[i - 1].n
  BY <1>2, <1>6, <1>9
<1>11. InOrder(p, c)
  BY <1>4, <1>5, <1>6, <1>10 DEF InOrder, len
<1>12. QED
  BY <1>8, <1>11 DEF p

(* Messages that were in order stay so, however many are sent. *)
LEMMA OrderKept ==
  ASSUME db \in ChatDb, db' \in ChatDb, NEW c \in Chats, db.sent[c] <= db'.sent[c]
  PROVE  \A ms \in Seq(Message) :
           InOrder(ms, c) =>
             \A i \in DOMAIN ms : /\ ms[i].chat = c /\ ms[i].n <= db'.sent[c]
                                  /\ i > 1 => ms[i].n > ms[i - 1].n
<1>1. db.sent[c] \in Int /\ db'.sent[c] \in Int
  BY InboxScreenAssumption DEF ChatDb
<1>2. \A ms \in Seq(Message) : \A i \in DOMAIN ms : ms[i].n \in Int
  <2>1. \A ms \in Seq(Message) : \A i \in DOMAIN ms : ms[i] \in Message
    OBVIOUS
  <2>2. \A m \in Message : m.n \in Int
    BY InboxScreenAssumption DEF Message
  <2>3. QED
    BY <2>1, <2>2
<1>3. \A ms \in Seq(Message) : \A i \in DOMAIN ms :
        ms[i].n <= db.sent[c] => ms[i].n <= db'.sent[c]
  BY <1>1, <1>2
<1>4. QED
  BY <1>3 DEF InOrder

LEMMA WrittenIs ==
  ASSUME db \in ChatDb, NEW c \in Chats, db.sent[c] < MaxMessages, db' = Written(c)
  PROVE  /\ db' \in ChatDb /\ db'.sent[c] = db.sent[c] + 1
         /\ \A x \in Chats : db.sent[x] <= db'.sent[x] /\ db'.sent[x] \in Nat
<1>1. db.sent \in [Chats -> 0 .. MaxMessages] /\ \A x \in Chats : db.sent[x] \in Nat
  BY InboxScreenAssumption DEF ChatDb
<1>2. /\ db'.sent = [db.sent EXCEPT ![c] = @ + 1]
      /\ db' = [sent |-> db'.sent]
  BY DEF Written, ChatDb
<1>3. db.sent[c] + 1 \in 0 .. MaxMessages
  BY <1>1, InboxScreenAssumption
<1>4. db'.sent \in [Chats -> 0 .. MaxMessages]
  BY <1>1, <1>2, <1>3
<1>5. \A x \in Chats : db'.sent[x] = IF x = c THEN db.sent[c] + 1 ELSE db.sent[x]
  BY <1>1, <1>2
<1>6. QED
  BY <1>1, <1>2, <1>4, <1>5 DEF ChatDb

LEMMA ChatGrows ==
  ASSUME ChatTyped, ChatTidy, screen = "chat",
         Poll \/ SendMessage \/ (client = "web" /\ \E c \in Chats : OpenChat(c))
  PROVE  ChatTyped' /\ ChatTidy'
<1> USE ChatCallFields, ScreenAssumption
<1>1. PICK k \in {"poll", "send"}, c \in Chats :
        /\ calls' = Append(calls, Call(k, c)) /\ Len(calls) < MaxCalls
        /\ ui' \in ChatUi /\ ui'.chat = c /\ ui'.messages = ui.messages /\ db' = db
        /\ k = "poll" => ui'.sending = ui.sending
        /\ k = "send" => ~ui.sending /\ ui'.sending /\ c = ui.chat
        /\ ~upset' => /\ ~upset
                      /\ k = "send" => ~UnderWay("poll")
                      /\ k = "poll" => ~UnderWay("send")
                      /\ c # ui.chat => Len(calls) = 0
  <2>1. ui \in ChatUi /\ ui.chat \in Chats
    BY DEF ChatTyped, ChatUi
  <2>2. CASE Poll
    BY <2>1, <2>2 DEF Poll, Send
  <2>3. CASE SendMessage
    BY <2>1, <2>3 DEF SendMessage, Send, ChatUi
  <2>4. ASSUME NEW c \in Chats, OpenChat(c)
        PROVE  /\ calls' = Append(calls, Call("poll", c)) /\ Len(calls) < MaxCalls
               /\ ui' \in ChatUi /\ ui'.chat = c /\ ui'.messages = ui.messages /\ db' = db
               /\ ui'.sending = ui.sending
               /\ ~upset' => ~upset /\ calls = <<>>
    BY <2>1, <2>4 DEF OpenChat, Switching, Send, ChatUi
  <2>5. calls = <<>> => Len(calls) = 0 /\ ~UnderWay("send")
    BY DEF UnderWay
  <2>6. QED
    BY <2>2, <2>3, <2>4, <2>5
<1>2. calls \in Seq(ChatCall) /\ Call(k, c) \in ChatCall /\ None \in {None} \cup Message
  BY ChatCallIs DEF ChatTyped
<1>3. Grows(Call(k, c)) /\ calls' \in Seq(ChatCall)
  BY <1>1, <1>2, Sent
<1>4. /\ calls'[Len(calls')].kind = k /\ calls'[Len(calls')].of = c
      /\ calls'[Len(calls')].ans = None
  BY <1>3 DEF Grows, Call
<1>5. ChatAnswers'
  BY <1>3, <1>4 DEF ChatTyped, ChatAnswers, Grows
<1>6. k = "send" => \A i \in DOMAIN calls : calls[i].kind = "poll"
  BY <1>1 DEF ChatTyped, OneMessage
<1>7. OneMessage'
  <2>1. \A j \in DOMAIN calls' : j # Len(calls') => j \in DOMAIN calls /\ calls'[j] = calls[j]
    BY <1>3 DEF Grows
  <2>2. \A i, j \in DOMAIN calls' :
          calls'[i].kind # "poll" /\ calls'[j].kind # "poll" => i = j
    BY <1>4, <1>6, <2>1 DEF ChatTyped, OneMessage
  <2>3. \A i \in DOMAIN calls' : calls'[i].kind # "poll" => ui'.sending
    BY <1>1, <1>4, <1>6, <2>1 DEF ChatTyped, OneMessage
  <2>4. Len(calls') <= MaxCalls
    BY <1>1, <1>3 DEF Grows
  <2>5. QED
    BY <2>2, <2>3, <2>4 DEF OneMessage
<1>8. ChatTyped'
  BY <1>1, <1>3, <1>5, <1>7 DEF ChatTyped, Grows
<1>9. ASSUME ~upset'
      PROVE  ChatTidy'
  <2>1. /\ ~upset /\ \A i \in DOMAIN calls : calls[i].of = ui.chat
        /\ SentAlone /\ ReadInOrder /\ ShownInOrder
    BY <1>1, <1>9 DEF ChatTidy
  <2>2. \A j \in DOMAIN calls' : j # Len(calls') => j \in DOMAIN calls /\ calls'[j] = calls[j]
    BY <1>3 DEF Grows
  <2>3. c # ui.chat => DOMAIN calls = {}
    BY <1>1, <1>9
  <2>4. \A i \in DOMAIN calls' : calls'[i].of = ui'.chat
    BY <1>1, <1>4, <2>1, <2>2, <2>3
  <2>5. ReadInOrder'
    BY <1>1, <1>4, <2>1, <2>2, <2>3 DEF ReadInOrder, InOrder
  <2>6. CASE k = "poll"
    <3>1. \A i \in DOMAIN calls' : calls'[i].kind # "send"
      BY <1>1, <1>4, <1>9, <2>2, <2>6 DEF UnderWay
    <3>2. ShownInOrder'
      BY <1>3, <3>1 DEF ShownInOrder, Grows
    <3>3. QED
      BY <2>4, <2>5, <3>1, <3>2 DEF ChatTidy, SentAlone
  <2>7. CASE k = "send"
    <3>1. Len(calls) = 0
      BY <1>1, <1>6, <1>9, <2>7 DEF UnderWay
    <3>2. Len(calls') = 1 /\ DOMAIN calls' = {1} /\ ui'.chat = ui.chat /\ DOMAIN calls = {}
      BY <1>1, <1>3, <2>7, <3>1 DEF Grows
    <3>3. ShownInOrder'
      BY <1>1, <2>1, <3>2 DEF ShownInOrder, InOrder
    <3>4. SentAlone'
      BY <1>4, <3>2 DEF SentAlone
    <3>5. QED
      BY <2>4, <2>5, <3>3, <3>4 DEF ChatTidy
  <2>8. QED
    BY <2>6, <2>7
<1>10. QED
  BY <1>8, <1>9 DEF ChatTidy

LEMMA TypeMessageInv ==
  ASSUME ChatTyped, ChatTidy, TypeMessage
  PROVE  ChatTyped' /\ ChatTidy'
<1>1. /\ ui' \in ChatUi /\ ui'.chat = ui.chat /\ ui'.messages = ui.messages
      /\ ui'.sending = ui.sending /\ db' = db /\ calls' = calls /\ upset' = upset
  BY DEF TypeMessage, ChatTyped, ChatUi
<1>2. ChatTyped'
  BY <1>1 DEF ChatTyped, ChatAnswers, OneMessage
<1>3. ChatTidy'
  BY <1>1 DEF ChatTidy, SentAlone, ReadInOrder, ShownInOrder, InOrder
<1>4. QED
  BY <1>2, <1>3

(* Somebody writes in conversation c. *)
LEMMA MoreSent ==
  ASSUME ChatTyped, ChatTidy, db' \in ChatDb, ui' = ui, calls' = calls, upset' = upset,
         \A x \in Chats : db.sent[x] <= db'.sent[x]
  PROVE  ChatTyped' /\ ChatTidy'
<1> USE ChatCallFields
<1>1. ChatTyped'
  BY DEF ChatTyped, ChatAnswers, OneMessage
<1>2. ASSUME ~upset'
      PROVE  ChatTidy'
  <2>1. /\ \A i \in DOMAIN calls : calls[i].of = ui.chat
        /\ SentAlone /\ ReadInOrder /\ ShownInOrder
    BY <1>2 DEF ChatTidy
  <2>2. ui.chat \in Chats /\ ui.messages \in Seq(Message) /\ db \in ChatDb
    BY DEF ChatTyped, ChatUi
  <2>3. \A ms \in Seq(Message) : InOrder(ms, ui.chat) =>
          \A i \in DOMAIN ms : /\ ms[i].chat = ui.chat /\ ms[i].n <= db'.sent[ui.chat]
                               /\ i > 1 => ms[i].n > ms[i - 1].n
    BY <2>2, OrderKept
  <2>4. ShownInOrder'
    BY <2>1, <2>2, <2>3 DEF ShownInOrder, InOrder
  <2>5. ReadInOrder'
    BY <2>1, <2>3 DEF ChatTyped, ChatAnswers, ReadInOrder, InOrder
  <2>6. \A i \in DOMAIN calls :
          calls[i].kind = "send" /\ calls[i].ans # None =>
            calls[i].ans.n <= db'.sent[ui.chat]
    <3>1. db.sent[ui.chat] \in Int /\ db'.sent[ui.chat] \in Int
      BY <2>2, InboxScreenAssumption DEF ChatDb
    <3>2. \A m \in Message : m.n \in Int
      BY InboxScreenAssumption DEF Message
    <3>3. \A i \in DOMAIN calls :
            calls[i].kind = "send" /\ calls[i].ans # None =>
              calls[i].ans.n <= db.sent[ui.chat] /\ calls[i].ans \in Message
      BY <2>1 DEF SentAlone, ChatTyped, ChatAnswers
    <3>4. db.sent[ui.chat] <= db'.sent[ui.chat]
      BY <2>2
    <3>5. QED
      BY <3>1, <3>2, <3>3, <3>4
  <2>7. SentAlone'
    BY <2>1, <2>6 DEF SentAlone
  <2>8. QED
    BY <2>1, <2>4, <2>5, <2>7 DEF ChatTidy
<1>3. QED
  BY <1>1, <1>2 DEF ChatTidy

LEMMA PeerWritesInv ==
  ASSUME ChatTyped, ChatTidy, NEW c \in Chats, PeerWrites(c)
  PROVE  ChatTyped' /\ ChatTidy'
BY WrittenIs, MoreSent DEF PeerWrites, ChatTyped

LEMMA ServeChatInv ==
  ASSUME ChatTyped, ChatTidy, NEW i \in DOMAIN calls, ServeChat(i)
  PROVE  ChatTyped' /\ ChatTidy'
<1> USE ChatCallFields
<1> DEFINE k == calls[i]
           new == [chat |-> k.of, n |-> db.sent[k.of] + 1]
<1>1. /\ db \in ChatDb /\ ui \in ChatUi /\ k.of \in Chats /\ ui' = ui /\ upset' = upset
      /\ k.ans = None
  BY DEF ChatTyped, ServeChat
<1>2. CASE k.kind = "send"
  <2>1. db' = Written(k.of) /\ db.sent[k.of] < MaxMessages /\ Served(i, new)
    BY <1>2 DEF ServeChat
  <2>2. /\ db' \in ChatDb /\ db'.sent[k.of] = db.sent[k.of] + 1
        /\ \A x \in Chats : db.sent[x] <= db'.sent[x] /\ db'.sent[x] \in Nat
    BY <1>1, <2>1, WrittenIs
  <2>3. new \in Message
    <3>1. db.sent[k.of] \in Nat
      BY <1>1, InboxScreenAssumption DEF ChatDb
    <3>2. db.sent[k.of] + 1 \in 1 .. MaxMessages
      BY <2>1, <3>1, InboxScreenAssumption
    <3>3. QED
      BY <1>1, <3>2 DEF Message
  <2>4. Replies(i, new) /\ calls' \in Seq(ChatCall)
    BY <2>1, <2>3, Replied DEF ChatTyped, ChatCall
  <2>5. new.chat = k.of /\ new.n = db.sent[k.of] + 1
    OBVIOUS
  <2> HIDE DEF new
  <2>6. ChatTyped'
    <3>1. ChatAnswers'
      BY <1>2, <2>3, <2>4 DEF ChatTyped, ChatAnswers, Replies
    <3>2. OneMessage'
      BY <1>1, <2>4 DEF ChatTyped, OneMessage, Replies
    <3>3. QED
      BY <1>1, <2>2, <2>4, <3>1, <3>2 DEF ChatTyped, Replies
  <2>7. ASSUME ~upset
        PROVE  ChatTidy'
    <3>1. /\ k.of = ui.chat /\ Len(calls) = 1 /\ \A j \in DOMAIN calls : j = i
          /\ ShownInOrder
      BY <1>2, <2>7 DEF ChatTidy, SentAlone
    <3>2. InOrder(ui.messages, ui.chat) /\ ui.messages \in Seq(Message) /\ ui.chat \in Chats
      BY <1>1, <1>2, <3>1 DEF ShownInOrder, ChatUi
    <3>3. /\ DOMAIN calls' = DOMAIN calls /\ Len(calls') = 1 /\ calls'[i].kind = "send"
          /\ calls'[i].of = k.of /\ calls'[i].ans = new
      BY <1>2, <2>4, <3>1 DEF Replies
    <3>4. ShownInOrder'
      BY <1>1, <2>2, <3>2, OrderKept DEF ShownInOrder, InOrder
    <3>5. ReadInOrder'
      BY <3>1, <3>3 DEF ReadInOrder
    <3>6. \A j \in DOMAIN ui.messages : ui.messages[j].n < new.n
      <4>1. \A j \in DOMAIN ui.messages : ui.messages[j].n \in Int
        <5>1. \A j \in DOMAIN ui.messages : ui.messages[j] \in Message
          BY <3>2
        <5>2. QED
          BY <5>1, InboxScreenAssumption DEF Message
      <4>2. \A j \in DOMAIN ui.messages : ui.messages[j].n <= db.sent[ui.chat]
        BY <3>2 DEF InOrder
      <4>3. db.sent[ui.chat] \in Int
        BY <1>1, <3>2, InboxScreenAssumption DEF ChatDb
      <4>4. QED
        BY <2>5, <3>1, <4>1, <4>2, <4>3
    <3>7. new.n <= db'.sent[ui.chat]
      BY <2>2, <2>5, <3>1, <3>2
    <3>8. SentAlone'
      BY <1>1, <2>5, <3>1, <3>3, <3>6, <3>7 DEF SentAlone
    <3>9. QED
      BY <1>1, <3>1, <3>3, <3>4, <3>5, <3>8 DEF ChatTidy
  <2>8. QED
    BY <1>1, <2>6, <2>7 DEF ChatTidy
<1>3. CASE k.kind # "send"
  <2> DEFINE p == FirstPage(db, k.of)
  <2>1. db' = db /\ Served(i, p)
    BY <1>3 DEF ServeChat
  <2>2. p \in Seq(Message) /\ InOrder(p, k.of)
    BY <1>1, FirstPageIs
  <2>3. Replies(i, p) /\ calls' \in Seq(ChatCall)
    BY <2>1, <2>2, Replied DEF ChatTyped, ChatCall
  <2> HIDE DEF p
  <2>4. ChatTyped'
    <3>1. ChatAnswers'
      BY <1>3, <2>2, <2>3 DEF ChatTyped, ChatAnswers, Replies
    <3>2. OneMessage'
      BY <1>1, <2>3 DEF ChatTyped, OneMessage, Replies
    <3>3. QED
      BY <1>1, <2>1, <2>3, <3>1, <3>2 DEF ChatTyped, Replies
  <2>5. ASSUME ~upset
        PROVE  ChatTidy'
    <3>1. /\ \A j \in DOMAIN calls : calls[j].of = ui.chat
          /\ SentAlone /\ ReadInOrder /\ ShownInOrder
      BY <2>5 DEF ChatTidy
    <3>2. ShownInOrder'
      BY <1>1, <2>1, <2>3, <3>1 DEF ShownInOrder, Replies, InOrder
    <3>3. SentAlone'
      BY <1>1, <1>3, <2>1, <2>3, <3>1 DEF SentAlone, Replies
    <3>4. \A j \in DOMAIN calls' :
            calls'[j].kind # "send" /\ calls'[j].ans # None => InOrder(calls'[j].ans, ui.chat)
      BY <2>2, <2>3, <3>1 DEF ReadInOrder, Replies
    <3>5. ReadInOrder'
      BY <1>1, <2>1, <3>4 DEF ReadInOrder, InOrder
    <3>6. QED
      BY <1>1, <2>3, <3>1, <3>2, <3>3, <3>5 DEF ChatTidy, Replies
  <2>6. QED
    BY <1>1, <2>4, <2>5 DEF ChatTidy
<1>4. QED
  BY <1>2, <1>3

LEMMA ChatEndsTyped ==
  ASSUME ChatTyped, NEW i \in DOMAIN calls, Ends(i), ui' \in ChatUi, db' = db,
         calls[i].kind # "poll" \/ ui'.sending = ui.sending
  PROVE  ChatTyped' /\ Shrinks(i)
<1> USE ChatCallFields, ScreenAssumption
<1>1. Shrinks(i) /\ calls' \in Seq(ChatCall)
  BY Ended DEF ChatTyped
<1>2. ChatAnswers'
  BY <1>1 DEF ChatTyped, ChatAnswers, Shrinks
<1>3. OneMessage'
  <2>1. \A j \in DOMAIN calls' : /\ Before(i, j) \in DOMAIN calls /\ Before(i, j) # i
                                 /\ calls'[j] = calls[Before(i, j)]
    BY <1>1 DEF Shrinks
  <2>2. \A j, l \in DOMAIN calls' :
          calls'[j].kind # "poll" /\ calls'[l].kind # "poll" => j = l
    BY <1>1, <2>1 DEF ChatTyped, OneMessage, Shrinks
  <2>3. \A j \in DOMAIN calls' : calls'[j].kind # "poll" => ui'.sending
    BY <2>1 DEF ChatTyped, OneMessage
  <2>4. \A j \in DOMAIN calls' : calls'[j].kind = "send" => Len(calls') <= MaxCalls
    BY <1>1, <2>1 DEF ChatTyped, OneMessage, Shrinks
  <2>5. QED
    BY <2>2, <2>3, <2>4 DEF OneMessage
<1>4. QED
  BY <1>1, <1>2, <1>3 DEF ChatTyped, Shrinks

LEMMA ChatPolledInv ==
  ASSUME ChatTyped, ChatTidy, NEW i \in DOMAIN calls, ChatPolled(i)
  PROVE  ChatTyped' /\ ChatTidy'
<1> USE ChatCallFields
<1> DEFINE a == calls[i].ans
<1>1. a \in Seq(Message) /\ calls[i].kind # "send" /\ a # None
  BY DEF ChatTyped, ChatAnswers, ChatPolled
<1>2. /\ ui' \in ChatUi /\ ui'.chat = ui.chat /\ ui'.messages = Polled(a) /\ db' = db
      /\ calls[i].kind = "poll" => ui'.sending = ui.sending
      /\ ui \in ChatUi
  <2>1. Polled(a) \in Seq(Message)
    BY <1>1 DEF Polled, ChatTyped, ChatUi
  <2>2. QED
    BY <2>1 DEF ChatPolled, ChatTyped, ChatUi
<1>3. ChatTyped' /\ Shrinks(i)
  BY <1>2, ChatEndsTyped DEF ChatPolled
<1>4. ASSUME ~upset'
      PROVE  ChatTidy'
  <2>1. CASE Len(calls) = 1 /\ ui'.messages = FirstPage(db, ui.chat)
    <3>1. InOrder(ui'.messages, ui.chat)
      BY <1>2, <2>1, FirstPageIs DEF ChatTyped, ChatUi
    <3>2. Len(calls') = 0 /\ DOMAIN calls' = {}
      BY <1>3, <2>1, ChatCallFields DEF Shrinks, ChatTyped
    <3>3. QED
      BY <1>2, <3>1, <3>2 DEF ChatTidy, SentAlone, ReadInOrder, ShownInOrder, InOrder
  <2>2. CASE ~(Len(calls) = 1 /\ ui'.messages = FirstPage(db, ui.chat))
    <3>1. ~upset /\ (HasNew(a) \/ ui.messages = a)
      BY <1>4, <2>2 DEF ChatPolled
    <3>2. ui'.messages = a
      BY <1>2, <3>1 DEF Polled
    <3>3. /\ \A j \in DOMAIN calls : calls[j].of = ui.chat
          /\ SentAlone /\ ReadInOrder
      BY <3>1 DEF ChatTidy
    <3>4. \A j \in DOMAIN calls' : /\ Before(i, j) \in DOMAIN calls /\ Before(i, j) # i
                                   /\ calls'[j] = calls[Before(i, j)]
      BY <1>3 DEF Shrinks
    <3>5. \A j \in DOMAIN calls : calls[j].kind # "send"
      <4>1. \A j \in DOMAIN calls : Len(calls) = 1 => j = i
        OBVIOUS
      <4>2. QED
        BY <1>1, <3>3, <4>1 DEF SentAlone
    <3>6. InOrder(a, ui.chat)
      BY <1>1, <3>3 DEF ReadInOrder
    <3>7. ReadInOrder'
      BY <1>2, <3>3, <3>4 DEF ReadInOrder, InOrder
    <3>8. ShownInOrder'
      BY <1>2, <3>2, <3>6 DEF ShownInOrder, InOrder
    <3>9. QED
      BY <1>2, <3>3, <3>4, <3>5, <3>7, <3>8 DEF ChatTidy, SentAlone
  <2>3. QED
    BY <2>1, <2>2
<1>5. QED
  BY <1>3, <1>4 DEF ChatTidy

LEMMA ChatMissedInv ==
  ASSUME ChatTyped, NEW i \in DOMAIN calls, ChatMissed(i)
  PROVE  ChatTyped' /\ ChatTidy'
<1>1. /\ ui' \in ChatUi /\ db' = db /\ upset'
      /\ calls[i].kind = "poll" => ui'.sending = ui.sending
  BY DEF ChatMissed, ChatTyped, ChatUi
<1>2. ChatTyped'
  BY <1>1, ChatEndsTyped DEF ChatMissed
<1>3. QED
  BY <1>1, <1>2 DEF ChatTidy

LEMMA AppMessageSentInv ==
  ASSUME ChatTyped, ChatTidy, NEW i \in DOMAIN calls, MessageSent(i), client = "app"
  PROVE  ChatTyped' /\ ChatTidy'
<1> USE ChatCallFields
<1> DEFINE a == calls[i].ans
<1>1. a \in Message /\ calls[i].kind = "send" /\ a # None /\ Ends(i)
  BY DEF ChatTyped, ChatAnswers, MessageSent
<1>2. /\ ui' \in ChatUi /\ ui'.chat = ui.chat /\ ui'.messages = Append(ui.messages, a)
      /\ db' = db /\ upset' = upset /\ ui.messages \in Seq(Message)
  <2>1. ui.messages \in Seq(Message) /\ ui \in ChatUi
    BY DEF ChatTyped, ChatUi
  <2>2. Append(ui.messages, a) \in Seq(Message)
    BY <1>1, <2>1
  <2>3. /\ ui' = [ui EXCEPT !.draft = FALSE, !.sending = FALSE,
                            !.messages = Append(ui.messages, a)]
        /\ db' = db /\ upset' = upset
    BY DEF MessageSent
  <2>4. QED
    BY <2>1, <2>2, <2>3 DEF ChatUi
<1>3. ChatTyped' /\ Shrinks(i)
  BY <1>1, <1>2, ChatEndsTyped
<1>4. ASSUME ~upset
      PROVE  ChatTidy'
  <2>1. /\ Len(calls) = 1 /\ \A j \in DOMAIN calls : j = i
        /\ a.chat = ui.chat /\ a.n <= db.sent[ui.chat]
        /\ \A j \in DOMAIN ui.messages : ui.messages[j].n < a.n
        /\ ShownInOrder
    BY <1>1, <1>4 DEF ChatTidy, SentAlone
  <2>2. InOrder(ui.messages, ui.chat)
    BY <1>1, <2>1 DEF ShownInOrder
  <2>3. Len(calls') = 0 /\ DOMAIN calls' = {}
    BY <1>3, <2>1, ChatCallFields DEF Shrinks, ChatTyped
  <2> DEFINE new == ui'.messages
  <2>4. /\ DOMAIN ui.messages = 1 .. Len(ui.messages) /\ Len(ui.messages) \in Nat
        /\ DOMAIN new = 1 .. Len(ui.messages) + 1
        /\ new[Len(ui.messages) + 1] = a
        /\ \A j \in 1 .. Len(ui.messages) : new[j] = ui.messages[j]
    BY <1>1, <1>2
  <2> HIDE DEF new
  <2>5. ASSUME NEW j \in DOMAIN new
        PROVE  /\ new[j].chat = ui.chat /\ new[j].n <= db.sent[ui.chat]
               /\ j > 1 => new[j].n > new[j - 1].n
    <3>1. CASE j \in 1 .. Len(ui.messages)
      <4>1. j > 1 => j - 1 \in 1 .. Len(ui.messages)
        BY <2>4, <3>1
      <4>2. QED
        BY <2>2, <2>4, <3>1, <4>1 DEF InOrder
    <3>2. CASE j = Len(ui.messages) + 1
      <4>1. j > 1 => j - 1 \in 1 .. Len(ui.messages)
        BY <2>4, <3>2
      <4>2. new[j] = a
        BY <2>4, <3>2
      <4>3. j > 1 => new[j - 1].n < a.n
        BY <2>1, <2>4, <4>1
      <4>4. a.n \in Int /\ (j > 1 => new[j - 1].n \in Int)
        <5>1. \A m \in Message : m.n \in Int
          BY InboxScreenAssumption DEF Message
        <5>2. j > 1 => ui.messages[j - 1] \in Message
          BY <1>2, <4>1
        <5>3. QED
          BY <1>1, <2>4, <4>1, <5>1, <5>2
      <4>5. QED
        BY <2>1, <4>2, <4>3, <4>4
    <3>3. QED
      BY <2>4, <3>1, <3>2
  <2>6. ShownInOrder'
    BY <1>2, <2>5 DEF ShownInOrder, InOrder, new
  <2>7. QED
    BY <2>3, <2>6 DEF ChatTidy, SentAlone, ReadInOrder
<1>5. QED
  BY <1>2, <1>3, <1>4 DEF ChatTidy

LEMMA WebMessageSentInv ==
  ASSUME ChatTyped, ChatTidy, NEW i \in DOMAIN calls, MessageSent(i), client # "app"
  PROVE  ChatTyped' /\ ChatTidy'
<1> USE ChatCallFields
<1> DEFINE c == calls[i].of
           cs == RemoveAt(calls, i)
           again == Call("reload", c)
           more == Call("poll", c)
<1>1. c \in Chats /\ calls[i].kind = "send"
  BY DEF MessageSent
<1>2. /\ ui' \in ChatUi /\ ui'.chat = c /\ ui'.messages = ui.messages
      /\ ui'.sending = ui.sending /\ db' = db /\ upset' = upset /\ ui \in ChatUi
  BY <1>1 DEF MessageSent, ChatTyped, ChatUi
<1>3. /\ cs \in Seq(ChatCall) /\ Len(cs) = Len(calls) - 1
      /\ \A j \in DOMAIN cs : /\ Before(i, j) \in DOMAIN calls /\ Before(i, j) # i
                              /\ cs[j] = calls[Before(i, j)]
  BY Removed DEF ChatTyped
<1>4. again \in ChatCall /\ more \in ChatCall
  BY <1>1, ChatCallIs
<1>5. calls' = cs \o <<again>> \o (IF c = ui.chat THEN <<>> ELSE <<more>>)
  BY DEF MessageSent
<1>6. /\ again.kind = "reload" /\ again.of = c /\ again.ans = None
      /\ more.kind = "poll" /\ more.of = c /\ more.ans = None
  BY DEF Call
<1>7. ui.sending /\ Len(calls) <= MaxCalls
      /\ \A j \in DOMAIN calls : j # i => calls[j].kind = "poll"
  BY <1>1 DEF ChatTyped, OneMessage
<1> HIDE DEF cs, again, more
<1>8. Len(cs) \in Nat /\ DOMAIN cs = 1 .. Len(cs)
  BY <1>3
<1>9. /\ calls' \in Seq(ChatCall)
      /\ Len(calls') = IF c = ui.chat THEN Len(cs) + 1 ELSE Len(cs) + 2
      /\ \A j \in DOMAIN calls' : \/ j \in DOMAIN cs /\ calls'[j] = cs[j]
                                  \/ j = Len(cs) + 1 /\ calls'[j] = again
                                  \/ j = Len(cs) + 2 /\ calls'[j] = more
  <2>1. CASE c = ui.chat
    <3>1. calls' = Append(cs, again)
      BY <1>3, <1>4, <1>5, <2>1, Followed
    <3>2. /\ calls' \in Seq(ChatCall) /\ Len(calls') = Len(cs) + 1
          /\ calls'[Len(cs) + 1] = again
          /\ \A j \in DOMAIN cs : calls'[j] = cs[j]
      <4>1. cs \in Seq(ChatCall) /\ again \in ChatCall
        BY <1>3, <1>4
      <4>2. calls' \in Seq(ChatCall)
        BY <3>1, <4>1, Longer
      <4>3. Len(calls') = Len(cs) + 1
        BY <3>1, <4>1, Longer
      <4>4. (calls')[Len(cs) + 1] = again
        BY <3>1, <4>1, Longer
      <4>5. \A j \in DOMAIN cs : calls'[j] = cs[j]
        BY <3>1, <4>1, Longer
      <4>6. QED
        BY <4>2, <4>3, <4>4, <4>5
    <3>3. \A j \in DOMAIN calls' : j \in DOMAIN cs \/ j = Len(cs) + 1
      BY <1>8, <3>2
    <3>4. QED
      BY <2>1, <3>2, <3>3
  <2>2. CASE c # ui.chat
    <3>1. calls' = Append(Append(cs, again), more)
      <4>1. calls' = cs \o <<again>> \o <<more>>
        BY <1>5, <2>2
      <4>2. cs \in Seq(ChatCall) /\ again \in ChatCall
        BY <1>3, <1>4
      <4>3. cs \o <<again>> = Append(cs, again)
        BY <4>2, Followed
      <4>4. Append(cs, again) \in Seq(ChatCall)
        BY <4>2, Longer
      <4>5. Append(cs, again) \o <<more>> = Append(Append(cs, again), more)
        BY <1>4, <4>4, Followed
      <4>6. QED
        BY <4>1, <4>3, <4>5
    <3>2. /\ calls' \in Seq(ChatCall) /\ Len(calls') = Len(cs) + 2
          /\ calls'[Len(cs) + 1] = again /\ calls'[Len(cs) + 2] = more
          /\ \A j \in DOMAIN cs : calls'[j] = cs[j]
      <4> DEFINE one == Append(cs, again)
      <4>1. /\ one \in Seq(ChatCall) /\ Len(one) = Len(cs) + 1
            /\ one[Len(cs) + 1] = again
            /\ \A j \in DOMAIN cs : j \in DOMAIN one /\ one[j] = cs[j]
            /\ calls' = Append(one, more)
        <5>1. cs \in Seq(ChatCall) /\ again \in ChatCall
          BY <1>3, <1>4
        <5>2. one \in Seq(ChatCall) /\ Len(one) = Len(cs) + 1
          BY <5>1, Longer
        <5>3. one[Len(cs) + 1] = again
          BY <5>1, Longer
        <5>4. \A j \in DOMAIN cs : j \in DOMAIN one /\ one[j] = cs[j]
          BY <5>1, Longer
        <5>5. QED
          BY <3>1, <5>2, <5>3, <5>4
      <4> HIDE DEF one
      <4>2. /\ calls' \in Seq(ChatCall) /\ Len(calls') = Len(one) + 1
            /\ calls'[Len(one) + 1] = more
            /\ \A j \in DOMAIN one : calls'[j] = one[j]
        BY <1>4, <4>1, Longer
      <4>3. Len(cs) + 1 \in DOMAIN one /\ Len(one) + 1 = Len(cs) + 2
        BY <1>8, <4>1
      <4>4. QED
        BY <4>1, <4>2, <4>3
    <3>3. \A j \in DOMAIN calls' : j \in DOMAIN cs \/ j = Len(cs) + 1 \/ j = Len(cs) + 2
      BY <1>8, <3>2
    <3>4. QED
      BY <2>2, <3>2, <3>3
  <2>3. QED
    BY <2>1, <2>2
<1>10. \A j \in DOMAIN calls' :
         \/ j \in DOMAIN cs /\ calls'[j].kind = "poll"
              /\ \E l \in DOMAIN calls : calls'[j] = calls[l]
         \/ j = Len(cs) + 1 /\ calls'[j].kind = "reload" /\ calls'[j].ans = None
         \/ j = Len(cs) + 2 /\ calls'[j].kind = "poll" /\ calls'[j].ans = None
  BY <1>3, <1>6, <1>7, <1>9
<1>11. ChatAnswers'
  BY <1>10 DEF ChatTyped, ChatAnswers
<1>12. OneMessage'
  BY <1>2, <1>7, <1>10 DEF OneMessage
<1>13. Len(calls') <= MaxCalls + 1
  BY <1>3, <1>7, <1>9, ScreenAssumption
<1>14. ChatTyped'
  BY <1>2, <1>9, <1>11, <1>12, <1>13 DEF ChatTyped
<1>15. ASSUME ~upset
       PROVE  ChatTidy'
  <2>1. Len(calls) = 1 /\ c = ui.chat
    BY <1>1, <1>15 DEF ChatTidy, SentAlone
  <2>2. Len(cs) = 0 /\ Len(calls') = 1 /\ DOMAIN calls' = {1}
    BY <1>3, <1>8, <1>9, <2>1
  <2>3. calls'[1] = again
    BY <1>8, <1>9, <2>2
  <2>4. QED
    BY <1>2, <1>6, <2>2, <2>3 DEF ChatTidy, SentAlone, ReadInOrder, ShownInOrder
<1>16. QED
  BY <1>2, <1>14, <1>15 DEF ChatTidy

LEMMA ChatNextInv ==
  ASSUME ChatInv, ChatNext
  PROVE  ChatInv'
<1>1. ChatTyped /\ ChatTidy /\ screen = "chat"
  BY DEF ChatInv, ChatNext
<1>2. ASSUME AppChat \/ WebChat
      PROVE  ChatTyped' /\ ChatTidy'
  BY <1>1, <1>2, ChatGrows, TypeMessageInv DEF AppChat, WebChat
<1>3. ASSUME NEW c \in Chats, PeerWrites(c)
      PROVE  ChatTyped' /\ ChatTidy'
  BY <1>1, <1>3, PeerWritesInv
<1>4. ASSUME NEW i \in DOMAIN calls,
             ServeChat(i) \/ ChatPolled(i) \/ MessageSent(i) \/ ChatMissed(i)
      PROVE  ChatTyped' /\ ChatTidy'
  BY <1>1, <1>4, ServeChatInv, ChatPolledInv, AppMessageSentInv, WebMessageSentInv,
     ChatMissedInv
<1>5. QED
  BY <1>2, <1>3, <1>4 DEF ChatNext, ChatInv

LEMMA ChatMounted ==
  ASSUME NEW m \in ChatMounts
  PROVE  /\ m.screen = "chat" /\ m.client \in Clients
         /\ Starts(m) => ChatInv
         /\ Opens(m) => ChatInv'
<1>1. PICK c \in Clients, ch \in Chats, s \in [Chats -> 0 .. 1] :
        m = Mount(c, "chat",
              [chat |-> ch, messages |-> <<>>, draft |-> FALSE, sending |-> FALSE],
              <<Call("poll", ch)>>,
              [sent |-> s])
  BY DEF ChatMounts, Mount, Call
<1>2. m.client = c /\ m.screen = "chat" /\ m.calls = <<Call("poll", ch)>>
  BY <1>1 DEF Mount
<1>3. m.ui \in ChatUi /\ m.ui.chat = ch
  BY <1>1 DEF Mount, ChatUi
<1>4. m.db \in ChatDb
  <2>1. \A n \in 0 .. 1 : n \in 0 .. MaxMessages
    BY InboxScreenAssumption
  <2>2. QED
    BY <1>1, <2>1 DEF Mount, ChatDb
<1>5. /\ m.calls \in Seq(ChatCall) /\ Len(m.calls) = 1 /\ DOMAIN m.calls = {1}
      /\ m.calls[1].kind = "poll" /\ m.calls[1].of = ch /\ m.calls[1].ans = None
  BY <1>2, ChatCallIs DEF Call
<1>6. Starts(m) => ChatInv
  BY <1>2, <1>3, <1>4, <1>5, ScreenAssumption
     DEF Starts, ChatInv, ChatTyped, ChatTidy, ChatAnswers, OneMessage, SentAlone,
         ReadInOrder, ShownInOrder
<1>7. Opens(m) => ChatInv'
  BY <1>2, <1>3, <1>4, <1>5, ScreenAssumption
     DEF Opens, ChatInv, ChatTyped, ChatTidy, ChatAnswers, OneMessage, SentAlone,
         ReadInOrder, ShownInOrder
<1>8. QED
  BY <1>2, <1>6, <1>7

LEMMA ChatKept ==
  ASSUME ChatInv, UNCHANGED vars
  PROVE  ChatInv'
BY
   DEF vars, ChatInv, ChatTyped, ChatTidy, ChatAnswers, OneMessage, SentAlone,
       ReadInOrder,
       ShownInOrder, InOrder

LEMMA ChatOrdered == ChatInv => ChatIsInOrder
BY DEF ChatInv, ChatIsInOrder, ChatTidy, ShownInOrder, InOrder

-----------------------------------------------------------------------------
(* The list of conversations and its badge.  Unless calls cross, a reading or *)
(* a count is under way, not both: a count alone is told what is unread, and  *)
(* it stays unread until the next reading.                                  *)
MailUi == [list : {None} \cup SUBSET Chats, lock : BOOLEAN, at : Chats \cup {None},
           badge : SUBSET Chats]

MailDb == [unread : SUBSET Chats]

MailCall ==
  CallOf({"page", "count", "load", "read"}, Chats \cup {None}, {None} \cup SUBSET Chats)

MailTyped ==
  /\ ui \in MailUi /\ db \in MailDb
  /\ calls \in Seq(MailCall) /\ Len(calls) <= 2 * MaxCalls

MailTidy ==
  ~upset =>
    /\ \A i \in DOMAIN calls :
         /\ calls[i].kind # "load"
         /\ calls[i].kind = "count" /\ calls[i].ans # None => calls[i].ans \subseteq db.unread
    /\ \A i, j \in DOMAIN calls : calls[i].kind # "page" /\ calls[j].kind # "page" => i = j
    /\ (\A i \in DOMAIN calls : calls[i].kind = "page") => ui.badge \subseteq db.unread

MailInv == screen = "mail" => MailTyped /\ MailTidy

LEMMA MailCallFields ==
  ASSUME MailTyped
  PROVE  /\ Len(calls) \in Nat /\ DOMAIN calls = 1 .. Len(calls)
         /\ \A i \in DOMAIN calls :
              /\ calls[i].kind \in {"page", "count", "load", "read"}
              /\ calls[i].of \in Chats \cup {None}
              /\ calls[i].ans \in {None} \cup SUBSET Chats
BY Fields DEF MailTyped, MailCall

LEMMA MailCallIs ==
  ASSUME NEW k \in {"page", "count", "load", "read"}, NEW c \in Chats \cup {None}
  PROVE  Call(k, c) \in MailCall
BY Fields DEF MailCall

(* One call more, while the user stays where he is or moves. *)
LEMMA MailGrows ==
  ASSUME MailTyped, MailTidy, NEW k \in {"page", "count", "load", "read"},
         NEW c \in Chats \cup {None}, calls' = Append(calls, Call(k, c)),
         Len(calls) < MaxCalls, ui' \in MailUi, ui'.badge = ui.badge, db' = db,
         ~upset' => /\ ~upset /\ k # "load"
                    /\ k # "page" => \A i \in DOMAIN calls : calls[i].kind = "page"
  PROVE  MailTyped' /\ MailTidy'
<1> USE MailCallFields, ScreenAssumption
<1>1. Grows(Call(k, c)) /\ calls' \in Seq(MailCall)
  BY Sent, MailCallIs DEF MailTyped
<1>2. MailTyped'
  BY <1>1 DEF MailTyped, Grows
<1>3. /\ calls'[Len(calls')].kind = k /\ calls'[Len(calls')].ans = None
      /\ \A j \in DOMAIN calls' : j # Len(calls') => j \in DOMAIN calls /\ calls'[j] = calls[j]
      /\ \A j \in DOMAIN calls : j \in DOMAIN calls' /\ calls'[j] = calls[j]
  BY <1>1 DEF Grows, Call
<1>4. ASSUME ~upset'
      PROVE  MailTidy'
  <2>1. /\ \A i \in DOMAIN calls :
             /\ calls[i].kind # "load"
             /\ calls[i].kind = "count" /\ calls[i].ans # None =>
                  calls[i].ans \subseteq db.unread
        /\ \A i, j \in DOMAIN calls :
             calls[i].kind # "page" /\ calls[j].kind # "page" => i = j
        /\ (\A i \in DOMAIN calls : calls[i].kind = "page") => ui.badge \subseteq db.unread
        /\ k # "load"
        /\ k # "page" => \A i \in DOMAIN calls : calls[i].kind = "page"
    BY <1>4 DEF MailTidy
  <2>2. \A i \in DOMAIN calls' :
          /\ calls'[i].kind # "load"
          /\ calls'[i].kind = "count" /\ calls'[i].ans # None =>
               calls'[i].ans \subseteq db.unread
    BY <1>3, <2>1
  <2>3. \A i, j \in DOMAIN calls' :
          calls'[i].kind # "page" /\ calls'[j].kind # "page" => i = j
    BY <1>3, <2>1
  <2>4. (\A i \in DOMAIN calls' : calls'[i].kind = "page") => ui.badge \subseteq db.unread
    BY <1>3, <2>1
  <2>5. QED
    BY <2>2, <2>3, <2>4 DEF MailTidy
<1>5. QED
  BY <1>2, <1>4 DEF MailTidy

LEMMA MailUserInv ==
  ASSUME MailTyped, MailTidy, CountMail \/ PollMail \/ RefreshMail
  PROVE  MailTyped' /\ MailTidy'
<1> USE MailCallFields
<1>1. ui \in MailUi /\ ui.at \in Chats \cup {None}
  BY DEF MailTyped, MailUi
<1>2. CASE CountMail
  <2>1. /\ calls' = Append(calls, Call("count", None)) /\ Len(calls) < MaxCalls
        /\ ui' = ui /\ db' = db
    BY <1>2 DEF CountMail, Recount
  <2>2. ~upset' => /\ ~upset
                   /\ \A i \in DOMAIN calls : calls[i].kind \notin {"read", "load", "count"}
    BY <1>2 DEF CountMail, Uncounts, UnderWay
  <2>3. ~upset' => ~upset /\ \A i \in DOMAIN calls : calls[i].kind = "page"
    BY <2>2
  <2>4. QED
    BY <1>1, <2>1, <2>3, MailGrows
<1>3. CASE PollMail
  <2>1. /\ calls' = Append(calls, Call("read", ui.at)) /\ Len(calls) < MaxCalls
        /\ ui' = ui /\ db' = db
        /\ ~upset' => ~upset /\ calls = <<>>
    BY <1>3 DEF PollMail, Send
  <2>2. calls = <<>> => DOMAIN calls = {}
    OBVIOUS
  <2>3. QED
    BY <1>1, <2>1, <2>2, MailGrows
<1>4. CASE RefreshMail
  <2>1. /\ calls' = Append(calls, Call("page", None)) /\ Len(calls) < MaxCalls
        /\ ui' \in MailUi /\ ui'.badge = ui.badge /\ db' = db /\ upset' = upset
    BY <1>1, <1>4 DEF RefreshMail, Send, MailUi
  <2>2. QED
    BY <2>1, MailGrows
<1>5. QED
  BY <1>2, <1>3, <1>4

LEMMA OpenMailInv ==
  ASSUME MailTyped, MailTidy, NEW c \in Chats, OpenMail(c)
  PROVE  MailTyped' /\ MailTidy'
<1> USE MailCallFields
<1>1. ui \in MailUi /\ ui' \in MailUi /\ ui'.badge = ui.badge /\ db' = db
  BY DEF MailTyped, MailUi, OpenMail
<1>2. CASE client = "app"
  <2>1. /\ calls' = Append(Append(calls, Call("load", c)), Call("count", None))
        /\ Len(calls) + 2 <= MaxCalls /\ upset'
    BY <1>2 DEF OpenMail, Recount
  <2>2. Call("load", c) \in MailCall /\ Call("count", None) \in MailCall
    BY MailCallIs
  <2>3. calls' \in Seq(MailCall) /\ Len(calls') = Len(calls) + 2
    BY <2>1, <2>2, BothSent DEF MailTyped
  <2>4. QED
    BY <1>1, <2>1, <2>3, ScreenAssumption DEF MailTyped, MailTidy
<1>3. CASE client # "app"
  <2>1. /\ calls' = Append(calls, Call("read", c)) /\ Len(calls) < MaxCalls
        /\ ~upset' => ~upset /\ calls = <<>>
    BY <1>3 DEF OpenMail, Send
  <2>2. calls = <<>> => DOMAIN calls = {}
    OBVIOUS
  <2>3. QED
    BY <1>1, <2>1, <2>2, MailGrows
<1>4. QED
  BY <1>2, <1>3

LEMMA CloseMailInv ==
  ASSUME MailTyped, MailTidy, CloseMail
  PROVE  MailTyped' /\ MailTidy'
<1> USE MailCallFields, ScreenAssumption
<1>1. ui \in MailUi /\ ui' \in MailUi /\ ui'.badge = ui.badge /\ db' = db
  BY DEF MailTyped, MailUi, CloseMail
<1>2. CASE client # "app"
  <2>1. calls' = calls /\ upset' = upset
    BY <1>2 DEF CloseMail
  <2>2. QED
    BY <1>1, <2>1 DEF MailTyped, MailTidy
<1>3. CASE client = "app"
  <2>1. ~upset' => /\ ~upset
                   /\ \A i \in DOMAIN calls : calls[i].kind \notin {"read", "load", "count"}
    BY <1>3 DEF CloseMail, Uncounts, UnderWay
  <2>2. ~upset' => ~upset /\ \A i \in DOMAIN calls : calls[i].kind = "page"
    BY <2>1
  <2>3. CASE ui.lock
    <3>1. calls' = Append(calls, Call("count", None)) /\ Len(calls) < MaxCalls
      BY <1>3, <2>3 DEF CloseMail, Recount
    <3>2. QED
      BY <1>1, <2>2, <3>1, MailGrows
  <2>4. CASE ~ui.lock
    <3> DEFINE a == Call("page", None)
               b == Call("count", None)
    <3>1. calls' = Append(Append(calls, a), b) /\ Len(calls) + 2 <= MaxCalls
      BY <1>3, <2>4 DEF CloseMail, Recount
    <3>2. a \in MailCall /\ b \in MailCall
      BY MailCallIs
    <3>3. a.kind = "page" /\ b.kind = "count" /\ b.ans = None
      BY DEF Call
    <3> HIDE DEF a, b
    <3>4. /\ calls' \in Seq(MailCall) /\ Len(calls') = Len(calls) + 2
          /\ \A j \in DOMAIN calls : j \in DOMAIN calls' /\ calls'[j] = calls[j]
          /\ \A j \in DOMAIN calls' : \/ j \in DOMAIN calls /\ calls'[j] = calls[j]
                                      \/ j = Len(calls) + 1 /\ calls'[j] = a
                                      \/ j = Len(calls) + 2 /\ calls'[j] = b
      BY <3>1, <3>2, BothSent DEF MailTyped
    <3>5. MailTyped'
      BY <1>1, <3>1, <3>4 DEF MailTyped
    <3>6. ASSUME ~upset'
          PROVE  MailTidy'
      <4>1. \A i \in DOMAIN calls' :
              \/ calls'[i].kind = "page"
              \/ i = Len(calls) + 2 /\ calls'[i].kind = "count" /\ calls'[i].ans = None
        BY <2>2, <3>3, <3>4, <3>6
      <4>2. (\A i \in DOMAIN calls' : calls'[i].kind = "page") => ui.badge \subseteq db.unread
        BY <2>2, <3>6 DEF MailTidy
      <4>3. QED
        BY <1>1, <4>1, <4>2 DEF MailTidy
    <3>7. QED
      BY <3>5, <3>6 DEF MailTidy
  <2>5. QED
    BY <2>3, <2>4
<1>4. QED
  BY <1>2, <1>3

LEMMA MailComesInv ==
  ASSUME MailTyped, MailTidy, NEW c \in Chats, MailComes(c)
  PROVE  MailTyped' /\ MailTidy'
<1>1. /\ db' \in MailDb /\ db.unread \subseteq db'.unread
      /\ ui' = ui /\ calls' = calls /\ upset' = upset
  BY DEF MailComes, MailTyped, MailDb
<1>2. MailTyped'
  BY <1>1 DEF MailTyped
<1>3. MailTidy'
  BY <1>1 DEF MailTidy
<1>4. QED
  BY <1>2, <1>3

LEMMA ServeMailInv ==
  ASSUME MailTyped, MailTidy, NEW i \in DOMAIN calls, ServeMail(i)
  PROVE  MailTyped' /\ MailTidy'
<1> USE MailCallFields
<1> DEFINE k == calls[i]
           after == IF k.kind \in {"load", "read"} THEN db.unread \ {k.of} ELSE db.unread
<1>1. /\ db' = [unread |-> after] /\ Served(i, after) /\ ui' = ui /\ upset' = upset
  BY DEF ServeMail
<1>2. /\ after \in SUBSET Chats
      /\ k.kind \in {"page", "count"} => after = db.unread
  BY DEF MailTyped, MailDb
<1> HIDE DEF after
<1>3. db' \in MailDb /\ db'.unread = after
  BY <1>1, <1>2 DEF MailDb
<1>4. Replies(i, after) /\ calls' \in Seq(MailCall)
  BY <1>1, <1>2, Replied DEF MailTyped, MailCall
<1>5. MailTyped'
  BY <1>1, <1>3, <1>4 DEF MailTyped, Replies
<1>6. ASSUME ~upset
      PROVE  MailTidy'
  <2>1. /\ \A j \in DOMAIN calls :
             /\ calls[j].kind # "load"
             /\ calls[j].kind = "count" /\ calls[j].ans # None =>
                  calls[j].ans \subseteq db.unread
        /\ \A j, l \in DOMAIN calls :
             calls[j].kind # "page" /\ calls[l].kind # "page" => j = l
        /\ (\A j \in DOMAIN calls : calls[j].kind = "page") => ui.badge \subseteq db.unread
    BY <1>6 DEF MailTidy
  <2>2. \A j \in DOMAIN calls' :
          calls'[j].kind = "count" /\ calls'[j].ans # None => calls'[j].ans \subseteq after
    BY <1>2, <1>4, <2>1 DEF Replies
  <2>3. (\A j \in DOMAIN calls' : calls'[j].kind = "page") => ui.badge \subseteq after
    BY <1>2, <1>4, <2>1 DEF Replies
  <2>4. /\ \A j \in DOMAIN calls' : calls'[j].kind # "load"
        /\ \A j, l \in DOMAIN calls' :
             calls'[j].kind # "page" /\ calls'[l].kind # "page" => j = l
    BY <1>4, <2>1 DEF Replies
  <2>5. QED
    BY <1>1, <1>3, <2>2, <2>3, <2>4 DEF MailTidy
<1>7. QED
  BY <1>1, <1>5, <1>6 DEF MailTidy

LEMMA MailAnsweredInv ==
  ASSUME MailTyped, MailTidy, NEW i \in DOMAIN calls, MailAnswered(i)
  PROVE  MailTyped' /\ MailTidy'
<1> USE MailCallFields, ScreenAssumption
<1> DEFINE k == calls[i]
<1>1. /\ ui' \in MailUi /\ db' = db /\ k.ans \in SUBSET Chats /\ k.ans # None
      /\ k.kind = "count" => ui'.badge = k.ans
      /\ k.kind # "count" => ui'.badge = ui.badge
  <2>1. k.ans \in SUBSET Chats /\ ui \in MailUi /\ k.ans # None /\ db' = db
    BY DEF MailAnswered, MailTyped
  <2>2. CASE k.kind = "page"
    BY <2>1, <2>2 DEF MailAnswered, MailUi
  <2>3. CASE k.kind = "count"
    BY <2>1, <2>3 DEF MailAnswered, MailUi
  <2>4. CASE k.kind \notin {"page", "count"}
    <3>1. ui' = ui
      BY <2>4 DEF MailAnswered
    <3>2. QED
      BY <2>1, <2>4, <3>1
  <2>5. QED
    BY <2>1, <2>2, <2>3, <2>4
<1>2. ASSUME ~upset'
      PROVE  \/ /\ ~upset
                /\ k.kind = "read" => Len(calls) = 1
             \/ /\ k.kind = "count" /\ Len(calls) = 1 /\ k.ans = db.unread
  <2>1. \/ ~upset /\ ~(k.kind = "read" /\ Len(calls) > 1)
        \/ k.kind = "count" /\ Len(calls) = 1 /\ k.ans = db.unread
    BY <1>2 DEF MailAnswered
  <2>2. ~(Len(calls) > 1) => Len(calls) = 1
    OBVIOUS
  <2>3. QED
    BY <2>1, <2>2
<1>3. CASE k.kind = "read"
  <2>1. calls' = Append(RemoveAt(calls, i), Call("count", None))
    <3>1. calls' = RemoveAt(calls, i) \o <<Call("count", None)>>
      BY <1>3 DEF MailAnswered, Recounted, Recount
    <3>2. RemoveAt(calls, i) \in Seq(MailCall)
      BY Removed DEF MailTyped
    <3>3. Call("count", None) \in MailCall
      BY MailCallIs
    <3>4. QED
      BY <3>1, <3>2, <3>3
  <2>2. Swaps(i, Call("count", None)) /\ calls' \in Seq(MailCall)
    BY <2>1, Swapped, MailCallIs DEF MailTyped
  <2>3. MailTyped'
    BY <1>1, <2>2 DEF MailTyped, Swaps
  <2>4. ASSUME ~upset'
        PROVE  MailTidy'
    <3>1. Len(calls) = 1
      BY <1>2, <1>3, <2>4
    <3>2. /\ Len(calls') = 1 /\ DOMAIN calls' = {1}
          /\ calls'[1].kind = "count" /\ calls'[1].ans = None
      BY <2>2, <3>1 DEF Swaps, Call
    <3>3. QED
      BY <3>2 DEF MailTidy
  <2>5. QED
    BY <2>3, <2>4 DEF MailTidy
<1>4. CASE k.kind # "read"
  <2>1. calls' = RemoveAt(calls, i)
    <3>1. calls' = RemoveAt(calls, i) \o <<>>
      BY <1>4 DEF MailAnswered, Recounted
    <3>2. RemoveAt(calls, i) \in Seq(MailCall)
      BY Removed DEF MailTyped
    <3>3. QED
      BY <3>1, <3>2
  <2>2. Shrinks(i) /\ calls' \in Seq(MailCall)
    BY <2>1, Ended DEF Ends, MailTyped
  <2>3. MailTyped'
    BY <1>1, <2>2 DEF MailTyped, Shrinks
  <2>4. ASSUME ~upset'
        PROVE  MailTidy'
    <3>1. CASE k.kind = "count" /\ Len(calls) = 1 /\ k.ans = db.unread
      <4>1. Len(calls') = 0 /\ DOMAIN calls' = {}
        BY <2>2, <3>1 DEF Shrinks
      <4>2. QED
        BY <1>1, <3>1, <4>1 DEF MailTidy
    <3>2. CASE ~upset
      <4>1. /\ \A j \in DOMAIN calls :
                 /\ calls[j].kind # "load"
                 /\ calls[j].kind = "count" /\ calls[j].ans # None =>
                      calls[j].ans \subseteq db.unread
            /\ \A j, l \in DOMAIN calls :
                 calls[j].kind # "page" /\ calls[l].kind # "page" => j = l
            /\ (\A j \in DOMAIN calls : calls[j].kind = "page") =>
                 ui.badge \subseteq db.unread
        BY <3>2 DEF MailTidy
      <4>2. \A j \in DOMAIN calls' :
              /\ calls'[j].kind # "load"
              /\ calls'[j].kind = "count" /\ calls'[j].ans # None =>
                   calls'[j].ans \subseteq db.unread
        BY <2>2, <4>1 DEF Shrinks
      <4>3. \A j, l \in DOMAIN calls' :
              calls'[j].kind # "page" /\ calls'[l].kind # "page" => j = l
        BY <2>2, <4>1 DEF Shrinks
      <4>4. (\A j \in DOMAIN calls' : calls'[j].kind = "page") =>
              ui'.badge \subseteq db.unread
        <5>1. CASE k.kind = "count"
          BY <1>1, <4>1, <5>1
        <5>2. CASE k.kind = "page"
          <6>1. (\A j \in DOMAIN calls' : calls'[j].kind = "page") =>
                  \A j \in DOMAIN calls : calls[j].kind = "page"
            BY <2>2, <5>2 DEF Shrinks
          <6>2. QED
            BY <1>1, <4>1, <5>2, <6>1
        <5>3. QED
          BY <1>4, <4>1, <5>1, <5>2
      <4>5. QED
        BY <1>1, <4>2, <4>3, <4>4 DEF MailTidy
    <3>3. QED
      BY <1>2, <2>4, <3>1, <3>2
  <2>5. QED
    BY <2>3, <2>4 DEF MailTidy
<1>5. QED
  BY <1>3, <1>4

LEMMA MailMissedInv ==
  ASSUME MailTyped, MailTidy, NEW i \in DOMAIN calls, MailMissed(i)
  PROVE  MailTyped' /\ MailTidy'
<1> USE MailCallFields, ScreenAssumption
<1>1. /\ ui' \in MailUi /\ db' = db /\ ui'.badge = ui.badge
      /\ ~upset' => ~upset /\ calls[i].kind = "page"
  BY DEF MailMissed, MailTyped, MailUi
<1>2. Shrinks(i) /\ calls' \in Seq(MailCall)
  BY Ended DEF MailMissed, MailTyped
<1>3. MailTyped'
  BY <1>1, <1>2 DEF MailTyped, Shrinks
<1>4. ASSUME ~upset'
      PROVE  MailTidy'
  <2>1. /\ \A j \in DOMAIN calls :
             /\ calls[j].kind # "load"
             /\ calls[j].kind = "count" /\ calls[j].ans # None =>
                  calls[j].ans \subseteq db.unread
        /\ \A j, l \in DOMAIN calls :
             calls[j].kind # "page" /\ calls[l].kind # "page" => j = l
        /\ (\A j \in DOMAIN calls : calls[j].kind = "page") => ui.badge \subseteq db.unread
    BY <1>1, <1>4 DEF MailTidy
  <2>2. \A j \in DOMAIN calls' :
          /\ calls'[j].kind # "load"
          /\ calls'[j].kind = "count" /\ calls'[j].ans # None =>
               calls'[j].ans \subseteq db.unread
    BY <1>2, <2>1 DEF Shrinks
  <2>3. \A j, l \in DOMAIN calls' :
          calls'[j].kind # "page" /\ calls'[l].kind # "page" => j = l
    BY <1>2, <2>1 DEF Shrinks
  <2>4. (\A j \in DOMAIN calls' : calls'[j].kind = "page") =>
          \A j \in DOMAIN calls : calls[j].kind = "page"
    BY <1>1, <1>2, <1>4 DEF Shrinks
  <2>5. QED
    BY <1>1, <2>1, <2>2, <2>3, <2>4 DEF MailTidy
<1>5. QED
  BY <1>3, <1>4 DEF MailTidy

LEMMA MailNextInv ==
  ASSUME MailInv, MailNext
  PROVE  MailInv'
<1>1. MailTyped /\ MailTidy /\ screen = "mail"
  BY DEF MailInv, MailNext
<1>2. ASSUME AppMail \/ WebMail
      PROVE  MailTyped' /\ MailTidy'
  BY <1>1, <1>2, MailUserInv, OpenMailInv, CloseMailInv
     DEF AppMail, WebMail, MailActions
<1>3. ASSUME NEW c \in Chats, MailComes(c)
      PROVE  MailTyped' /\ MailTidy'
  BY <1>1, <1>3, MailComesInv
<1>4. ASSUME NEW i \in DOMAIN calls, ServeMail(i) \/ MailAnswered(i) \/ MailMissed(i)
      PROVE  MailTyped' /\ MailTidy'
  BY <1>1, <1>4, ServeMailInv, MailAnsweredInv, MailMissedInv
<1>5. QED
  BY <1>2, <1>3, <1>4 DEF MailNext, MailInv

LEMMA MailMounted ==
  ASSUME NEW m \in MailMounts
  PROVE  /\ m.screen = "mail" /\ m.client \in Clients
         /\ Starts(m) => MailInv
         /\ Opens(m) => MailInv'
<1>1. PICK c \in Clients, u \in SUBSET Chats :
        m = Mount(c, "mail",
              [list |-> None, lock |-> TRUE, at |-> None, badge |-> {}],
              <<Call("page", None), Call("count", None)>>,
              [unread |-> u])
  BY DEF MailMounts, Mount, Call
<1>2. /\ m.client = c /\ m.screen = "mail" /\ m.ui \in MailUi /\ m.ui.badge = {}
      /\ m.db \in MailDb /\ m.calls = <<Call("page", None), Call("count", None)>>
  BY <1>1 DEF Mount, MailUi, MailDb
<1>3. /\ m.calls \in Seq(MailCall) /\ Len(m.calls) = 2 /\ DOMAIN m.calls = {1, 2}
      /\ m.calls[1].kind = "page" /\ m.calls[1].ans = None
      /\ m.calls[2].kind = "count" /\ m.calls[2].ans = None
  BY <1>2, MailCallIs DEF Call
<1>4. 2 <= 2 * MaxCalls
  BY ScreenAssumption
<1>5. Starts(m) => MailInv
  BY <1>2, <1>3, <1>4 DEF Starts, MailInv, MailTyped, MailTidy
<1>6. Opens(m) => MailInv'
  BY <1>2, <1>3, <1>4 DEF Opens, MailInv, MailTyped, MailTidy
<1>7. QED
  BY <1>2, <1>5, <1>6

LEMMA MailKept ==
  ASSUME MailInv, UNCHANGED vars
  PROVE  MailInv'
BY DEF vars, MailInv, MailTyped, MailTidy

LEMMA MailCounted == MailInv => MailIsCounted
BY DEF MailInv, MailIsCounted, MailTidy

-----------------------------------------------------------------------------
(* The notifications.  The badge counts what is counted, unread and not       *)
(* clicked.  Unless calls cross, what is clicked is unread only while its     *)
(* reading is under way, and a page or a count is not asked for meanwhile:    *)
(* what they tell of the notifications they know stays true.                *)
NotesUi == [shown : SUBSET Notes, read : SUBSET Notes, badge : Nat, lock : BOOLEAN,
            counted : SUBSET Notes]

NotesDb == [come : SUBSET Notes, unread : SUBSET Notes]

NotesCall == CallOf({"page", "count", "read"}, {None} \cup Notes, {None} \cup NotesDb)

(* Nothing is known that has not come. *)
HaveCome ==
  /\ db.unread \subseteq db.come
  /\ ui.shown \subseteq db.come /\ ui.read \subseteq db.come /\ ui.counted \subseteq db.come
  /\ \A i \in DOMAIN calls :
       calls[i].ans # None =>
         calls[i].ans.unread \subseteq calls[i].ans.come /\ calls[i].ans.come \subseteq db.come

NotesTyped ==
  /\ ui \in NotesUi /\ db \in NotesDb
  /\ calls \in Seq(NotesCall) /\ Len(calls) <= MaxCalls
  /\ HaveCome

Unclicked == (db.unread \cap ui.counted) \ ui.read

Clicks ==
  /\ ui.shown \ ui.read \subseteq db.unread
  /\ \A n \in ui.read \cap db.unread : \E i \in DOMAIN calls :
       calls[i].kind = "read" /\ calls[i].of = n /\ calls[i].ans = None
  /\ \A i \in DOMAIN calls : calls[i].kind = "read" => calls[i].of \in ui.read

Tells ==
  \A i \in DOMAIN calls :
    calls[i].kind # "read" =>
      /\ \A j \in DOMAIN calls : calls[j].kind # "read"
      /\ calls[i].ans # None =>
           calls[i].ans.unread = db.unread \cap calls[i].ans.come

NotesTidy == ~upset => ui.badge = Cardinality(Unclicked) /\ Clicks /\ Tells

NotesInv == screen = "notes" => NotesTyped /\ NotesTidy

LEMMA NotesCallFields ==
  ASSUME NotesTyped
  PROVE  /\ Len(calls) \in Nat /\ DOMAIN calls = 1 .. Len(calls)
         /\ \A i \in DOMAIN calls :
              /\ calls[i].kind \in {"page", "count", "read"}
              /\ calls[i].of \in {None} \cup Notes
              /\ calls[i].ans \in {None} \cup NotesDb
BY Fields DEF NotesTyped, NotesCall

LEMMA NotesCallIs ==
  ASSUME NEW k \in {"page", "count", "read"}, NEW n \in {None} \cup Notes
  PROVE  Call(k, n) \in NotesCall
BY Fields DEF NotesCall

LEMMA NotesCounted ==
  \A s \in SUBSET Notes : IsFiniteSet(s) /\ Cardinality(s) \in Nat
BY InboxScreenAssumption, FS_Subset, FS_CardinalityType

LEMMA ReadNoteInv ==
  ASSUME NotesTyped, NotesTidy, NEW n \in Notes, ReadNote(n)
  PROVE  NotesTyped' /\ NotesTidy'
<1> USE NotesCallFields, ScreenAssumption
<1>1. ui \in NotesUi /\ db \in NotesDb /\ HaveCome
  BY DEF NotesTyped
<1>2. /\ ui' \in NotesUi /\ ui'.shown = ui.shown /\ ui'.read = ui.read \cup {n}
      /\ ui'.badge = Down(ui.badge) /\ ui'.counted = ui.counted /\ db' = db
      /\ n \in ui.shown /\ n \notin ui.read
  <2>1. ui.badge \in Nat => Down(ui.badge) \in Nat
    BY DEF Down
  <2>2. QED
    BY <1>1, <2>1 DEF ReadNote, Marked, NotesUi
<1>3. Grows(Call("read", n)) /\ calls' \in Seq(NotesCall) /\ Len(calls) < MaxCalls
  BY Sent, NotesCallIs DEF NotesTyped, ReadNote, Send
<1>4. /\ calls'[Len(calls')].kind = "read" /\ calls'[Len(calls')].of = n
      /\ calls'[Len(calls')].ans = None /\ Len(calls') \in DOMAIN calls'
      /\ \A j \in DOMAIN calls' : j # Len(calls') => j \in DOMAIN calls /\ calls'[j] = calls[j]
      /\ \A j \in DOMAIN calls : j \in DOMAIN calls' /\ calls'[j] = calls[j]
  BY <1>3 DEF Grows, Call
<1>5. HaveCome'
  BY <1>1, <1>2, <1>4 DEF HaveCome
<1>6. NotesTyped'
  BY <1>1, <1>2, <1>3, <1>5 DEF NotesTyped, Grows
<1>7. ASSUME ~upset'
      PROVE  NotesTidy'
  <2>1. /\ ~upset /\ n \in ui.counted
        /\ \A i \in DOMAIN calls : calls[i].kind \notin {"count", "page"}
    BY <1>7 DEF ReadNote, UnderWay
  <2>2. ui.badge = Cardinality(Unclicked) /\ Clicks
    BY <2>1 DEF NotesTidy
  <2>3. n \in Unclicked /\ Unclicked \in SUBSET Notes
    BY <1>1, <1>2, <2>1, <2>2 DEF Clicks, Unclicked, NotesDb
  <2>4. Unclicked' = Unclicked \ {n}
    BY <1>2 DEF Unclicked
  <2>5. ui'.badge = Cardinality(Unclicked')
    <3>1. IsFiniteSet(Unclicked) /\ Cardinality(Unclicked) \in Nat
          /\ Cardinality(Unclicked \ {n}) \in Nat
      BY <2>3, NotesCounted
    <3>2. Cardinality(Unclicked \ {n}) = Cardinality(Unclicked) - 1
      BY <2>3, <3>1, FS_RemoveElement
    <3>3. Down(Cardinality(Unclicked)) = Cardinality(Unclicked) - 1
      BY <3>1, <3>2 DEF Down
    <3>4. QED
      BY <1>2, <2>2, <2>4, <3>2, <3>3
  <2>6. Clicks'
    BY <1>2, <1>4, <2>2 DEF Clicks
  <2>7. \A i \in DOMAIN calls' : calls'[i].kind = "read"
    BY <1>4, <2>1
  <2>8. QED
    BY <2>5, <2>6, <2>7 DEF NotesTidy, Tells
<1>8. QED
  BY <1>6, <1>7 DEF NotesTidy

LEMMA NotesAskedInv ==
  ASSUME NotesTyped, NotesTidy, CountNotes \/ RefreshNotes
  PROVE  NotesTyped' /\ NotesTidy'
<1> USE NotesCallFields, ScreenAssumption
<1>1. ui \in NotesUi /\ db \in NotesDb /\ HaveCome
  BY DEF NotesTyped
<1>2. PICK k \in {"count", "page"} :
        /\ calls' = Append(calls, Call(k, None)) /\ Len(calls) < MaxCalls
        /\ ~upset' => ~upset /\ ~UnderWay("read")
        /\ ui' \in NotesUi /\ ui'.shown = ui.shown /\ ui'.read = ui.read
        /\ ui'.badge = ui.badge /\ ui'.counted = ui.counted /\ db' = db
  <2>1. CASE CountNotes
    BY <1>1, <2>1 DEF CountNotes, Send
  <2>2. CASE RefreshNotes
    BY <1>1, <2>2 DEF RefreshNotes, Send, NotesUi
  <2>3. QED
    BY <2>1, <2>2
<1>3. Grows(Call(k, None)) /\ calls' \in Seq(NotesCall)
  BY <1>2, Sent, NotesCallIs DEF NotesTyped
<1>4. /\ calls'[Len(calls')].kind = k /\ calls'[Len(calls')].ans = None
      /\ \A j \in DOMAIN calls' : j # Len(calls') => j \in DOMAIN calls /\ calls'[j] = calls[j]
      /\ \A j \in DOMAIN calls : j \in DOMAIN calls' /\ calls'[j] = calls[j]
  BY <1>3 DEF Grows, Call
<1>5. HaveCome'
  BY <1>1, <1>2, <1>4 DEF HaveCome
<1>6. NotesTyped'
  BY <1>2, <1>3, <1>5 DEF NotesTyped, Grows, NotesDb
<1>7. ASSUME ~upset'
      PROVE  NotesTidy'
  <2>1. ui.badge = Cardinality(Unclicked) /\ Clicks /\ Tells
        /\ \A i \in DOMAIN calls : calls[i].kind # "read"
    BY <1>2, <1>7 DEF NotesTidy, UnderWay
  <2>2. Unclicked' = Unclicked
    BY <1>2 DEF Unclicked
  <2>3. Clicks'
    BY <1>2, <1>4, <2>1 DEF Clicks
  <2>4. Tells'
    BY <1>2, <1>4, <2>1 DEF Tells
  <2>5. QED
    BY <1>2, <2>1, <2>2, <2>3, <2>4 DEF NotesTidy
<1>8. QED
  BY <1>6, <1>7 DEF NotesTidy

LEMMA NoteComesInv ==
  ASSUME NotesTyped, NotesTidy, NEW n \in Notes, NoteComes(n)
  PROVE  NotesTyped' /\ NotesTidy'
<1> USE NotesCallFields
<1>1. ui \in NotesUi /\ db \in NotesDb /\ HaveCome
  BY DEF NotesTyped
<1>2. /\ db' \in NotesDb /\ db'.come = db.come \cup {n} /\ db'.unread = db.unread \cup {n}
      /\ n \notin db.come /\ ui' = ui /\ calls' = calls /\ upset' = upset
  BY <1>1 DEF NoteComes, NotesDb
<1>3. HaveCome'
  BY <1>1, <1>2 DEF HaveCome
<1>4. NotesTyped'
  BY <1>2, <1>3 DEF NotesTyped
<1>5. n \notin ui.counted /\ n \notin ui.read
  BY <1>1, <1>2 DEF HaveCome
<1>6. Unclicked' = Unclicked
  BY <1>2, <1>5 DEF Unclicked
<1>7. Clicks => Clicks'
  BY <1>2, <1>5 DEF Clicks
<1>8. \A i \in DOMAIN calls : calls[i].ans # None => n \notin calls[i].ans.come
  BY <1>1, <1>2 DEF HaveCome
<1>9. Tells => Tells'
  BY <1>2, <1>8 DEF Tells
<1>10. QED
  BY <1>2, <1>4, <1>6, <1>7, <1>9 DEF NotesTidy

LEMMA ServeNotesInv ==
  ASSUME NotesTyped, NotesTidy, NEW i \in DOMAIN calls, ServeNotes(i)
  PROVE  NotesTyped' /\ NotesTidy'
<1> USE NotesCallFields
<1> DEFINE k == calls[i]
<1>1. ui \in NotesUi /\ db \in NotesDb /\ HaveCome
  BY DEF NotesTyped
<1>2. Served(i, db) /\ ui' = ui /\ upset' = upset
  BY DEF ServeNotes
<1>3. /\ db' \in NotesDb /\ db'.come = db.come
      /\ k.kind = "read" => db'.unread = db.unread \ {k.of}
      /\ k.kind # "read" => db'.unread = db.unread
  <2>1. CASE k.kind = "read"
    BY <1>1, <2>1 DEF ServeNotes, NotesDb
  <2>2. CASE k.kind # "read"
    BY <1>1, <2>2 DEF ServeNotes
  <2>3. QED
    BY <2>1, <2>2
<1>4. Replies(i, db) /\ calls' \in Seq(NotesCall)
  BY <1>1, <1>2, Replied DEF NotesTyped, NotesCall
<1>5. HaveCome'
  <2>1. db'.unread \subseteq db'.come
    BY <1>1, <1>3 DEF HaveCome
  <2>2. \A j \in DOMAIN calls' :
          calls'[j].ans # None =>
            calls'[j].ans.unread \subseteq calls'[j].ans.come
            /\ calls'[j].ans.come \subseteq db.come
    BY <1>1, <1>4 DEF HaveCome, Replies
  <2>3. QED
    BY <1>1, <1>2, <1>3, <2>1, <2>2 DEF HaveCome
<1>6. NotesTyped'
  BY <1>1, <1>2, <1>3, <1>4, <1>5 DEF NotesTyped, Replies
<1>7. ASSUME ~upset
      PROVE  NotesTidy'
  <2>1. ui.badge = Cardinality(Unclicked) /\ Clicks /\ Tells
    BY <1>7 DEF NotesTidy
  <2>2. Unclicked' = Unclicked
    BY <1>2, <1>3, <2>1 DEF Unclicked, Clicks
  <2>3. CASE k.kind = "read"
    <3>1. k.of \in ui.read /\ \A j \in DOMAIN calls : calls[j].kind = "read"
      BY <2>1, <2>3 DEF Clicks, Tells
    <3>2. /\ DOMAIN calls' = DOMAIN calls
          /\ \A j \in DOMAIN calls : /\ calls'[j].kind = "read" /\ calls'[j].of = calls[j].of
                                     /\ j # i => calls'[j].ans = calls[j].ans
      BY <1>4, <3>1 DEF Replies
    <3>3. ui.shown \ ui.read \subseteq db'.unread
      BY <1>3, <2>1, <2>3, <3>1 DEF Clicks
    <3>4. \A n \in ui.read \cap db'.unread : \E j \in DOMAIN calls' :
            calls'[j].kind = "read" /\ calls'[j].of = n /\ calls'[j].ans = None
      <4> SUFFICES ASSUME NEW n \in ui.read \cap db'.unread
                   PROVE  \E j \in DOMAIN calls' :
                            calls'[j].kind = "read" /\ calls'[j].of = n /\ calls'[j].ans = None
        OBVIOUS
      <4>1. n \in ui.read \cap db.unread /\ n # k.of
        BY <1>3, <2>3
      <4>2. PICK j \in DOMAIN calls : calls[j].of = n /\ calls[j].ans = None
        BY <2>1, <4>1 DEF Clicks
      <4>3. QED
        BY <3>2, <4>1, <4>2
    <3>5. Clicks'
      BY <1>2, <2>1, <3>1, <3>2, <3>3, <3>4 DEF Clicks
    <3>6. Tells'
      BY <3>2 DEF Tells
    <3>7. QED
      BY <1>2, <2>1, <2>2, <3>5, <3>6 DEF NotesTidy
  <2>4. CASE k.kind # "read"
    <3>1. \A j \in DOMAIN calls : calls[j].kind # "read"
      BY <2>1, <2>4 DEF Tells
    <3>2. Clicks'
      BY <1>2, <1>3, <1>4, <2>1, <2>4, <3>1 DEF Clicks, Replies
    <3>3. db.unread = db.unread \cap db.come
      BY <1>1 DEF HaveCome
    <3>4. Tells'
      BY <1>3, <1>4, <2>1, <2>4, <3>1, <3>3 DEF Tells, Replies
    <3>5. QED
      BY <1>2, <2>1, <2>2, <3>2, <3>4 DEF NotesTidy
  <2>5. QED
    BY <2>3, <2>4
<1>8. QED
  BY <1>2, <1>6, <1>7 DEF NotesTidy

LEMMA NotesEnded ==
  ASSUME NotesTyped, NEW i \in DOMAIN calls, Ends(i), db' = db, ui' \in NotesUi,
         ui'.shown \subseteq db.come, ui'.read \subseteq db.come, ui'.counted \subseteq db.come
  PROVE  NotesTyped' /\ Shrinks(i)
<1> USE NotesCallFields, ScreenAssumption
<1>1. Shrinks(i) /\ calls' \in Seq(NotesCall)
  BY Ended DEF NotesTyped
<1>2. HaveCome'
  BY <1>1 DEF NotesTyped, HaveCome, Shrinks
<1>3. QED
  BY <1>1, <1>2 DEF NotesTyped, Shrinks

LEMMA NotesMissedInv ==
  ASSUME NotesTyped, NotesTidy, NEW i \in DOMAIN calls, NotesMissed(i)
  PROVE  NotesTyped' /\ NotesTidy'
<1> USE NotesCallFields
<1>1. /\ ui' \in NotesUi /\ ui'.shown = ui.shown /\ ui'.read = ui.read
      /\ ui'.badge = ui.badge /\ ui'.counted = ui.counted /\ db' = db /\ Ends(i)
      /\ ~upset' => ~upset /\ (calls[i].kind = "read" => calls[i].ans # None)
  BY DEF NotesMissed, NotesTyped, NotesUi
<1>2. NotesTyped' /\ Shrinks(i)
  BY <1>1, NotesEnded DEF NotesTyped, HaveCome
<1>3. ASSUME ~upset'
      PROVE  NotesTidy'
  <2>1. ui.badge = Cardinality(Unclicked) /\ Clicks /\ Tells
    BY <1>1, <1>3 DEF NotesTidy
  <2>2. Unclicked' = Unclicked
    BY <1>1 DEF Unclicked
  <2>3. Clicks'
    BY <1>1, <1>2, <1>3, <2>1 DEF Clicks, Shrinks
  <2>4. Tells'
    BY <1>1, <1>2, <2>1 DEF Tells, Shrinks
  <2>5. QED
    BY <1>1, <2>1, <2>2, <2>3, <2>4 DEF NotesTidy
<1>4. QED
  BY <1>2, <1>3 DEF NotesTidy

LEMMA NotesAnsweredInv ==
  ASSUME NotesTyped, NotesTidy, NEW i \in DOMAIN calls, NotesAnswered(i)
  PROVE  NotesTyped' /\ NotesTidy'
<1> USE NotesCallFields
<1> DEFINE k == calls[i]
<1>1. /\ ui \in NotesUi /\ db \in NotesDb /\ HaveCome
      /\ k.ans # None /\ k.ans \in NotesDb /\ Ends(i) /\ db' = db
  BY DEF NotesTyped, NotesAnswered
<1>2. /\ k.ans.unread \subseteq k.ans.come /\ k.ans.come \subseteq db.come
      /\ k.ans.come \in SUBSET Notes /\ k.ans.unread \in SUBSET Notes
  BY <1>1 DEF HaveCome, NotesDb
<1>3. /\ ui' \in NotesUi
      /\ k.kind = "page" => /\ ui'.shown = k.ans.come
                            /\ ui'.read = k.ans.come \ k.ans.unread
                            /\ ui'.badge = ui.badge /\ ui'.counted = ui.counted
      /\ k.kind = "count" => /\ ui'.shown = ui.shown /\ ui'.read = ui.read
                             /\ ui'.badge = Cardinality(k.ans.unread)
                             /\ ui'.counted = k.ans.come
      /\ k.kind = "read" => ui' = ui
  <2>1. CASE k.kind = "page"
    BY <1>1, <1>2, <2>1 DEF NotesAnswered, NotesUi
  <2>2. CASE k.kind = "count"
    <3>1. Cardinality(k.ans.unread) \in Nat
      BY <1>2, NotesCounted
    <3>2. QED
      BY <1>1, <1>2, <2>2, <3>1 DEF NotesAnswered, NotesUi
  <2>3. CASE k.kind = "read"
    <3>1. ui' = ui
      BY <2>3 DEF NotesAnswered
    <3>2. QED
      BY <1>1, <2>3, <3>1
  <2>4. QED
    BY <2>1, <2>2, <2>3
<1>4. NotesTyped' /\ Shrinks(i)
  <2>1. /\ ui'.shown \subseteq db.come /\ ui'.read \subseteq db.come
        /\ ui'.counted \subseteq db.come
    BY <1>1, <1>2, <1>3 DEF HaveCome
  <2>2. QED
    BY <1>1, <1>3, <2>1, NotesEnded
<1>5. ASSUME ~upset, k.kind = "page"
      PROVE  (ui.badge = Cardinality(Unclicked) /\ Clicks /\ Tells)'
  <2>1. ui.badge = Cardinality(Unclicked) /\ Clicks /\ Tells
    BY <1>5 DEF NotesTidy
  <2>2. /\ k.ans.unread = db.unread \cap k.ans.come
        /\ \A j \in DOMAIN calls : calls[j].kind # "read"
    BY <1>1, <1>5, <2>1 DEF Tells
  <2>3. ui.read \cap db.unread = {} /\ ui'.read \cap db.unread = {}
    BY <1>3, <1>5, <2>1, <2>2 DEF Clicks
  <2>4. Unclicked' = Unclicked
    BY <1>1, <1>3, <1>5, <2>3 DEF Unclicked
  <2>5. Clicks'
    BY <1>1, <1>3, <1>4, <1>5, <2>2, <2>3 DEF Clicks, Shrinks
  <2>6. Tells'
    BY <1>1, <1>4, <2>1 DEF Tells, Shrinks
  <2>7. QED
    BY <1>3, <1>5, <2>1, <2>4, <2>5, <2>6
<1>6. ASSUME ~upset, k.kind = "count"
      PROVE  (ui.badge = Cardinality(Unclicked) /\ Clicks /\ Tells)'
  <2>1. Clicks /\ Tells
    BY <1>6 DEF NotesTidy
  <2>2. /\ k.ans.unread = db.unread \cap k.ans.come
        /\ \A j \in DOMAIN calls : calls[j].kind # "read"
    BY <1>1, <1>6, <2>1 DEF Tells
  <2>3. ui.read \cap db.unread = {}
    BY <2>1, <2>2 DEF Clicks
  <2>4. Unclicked' = k.ans.unread
    BY <1>1, <1>3, <1>6, <2>2, <2>3 DEF Unclicked
  <2>5. Clicks'
    BY <1>1, <1>3, <1>4, <1>6, <2>1, <2>2 DEF Clicks, Shrinks
  <2>6. Tells'
    BY <1>1, <1>4, <2>1 DEF Tells, Shrinks
  <2>7. QED
    BY <1>3, <1>6, <2>4, <2>5, <2>6
<1>7. ASSUME ~upset, k.kind = "read"
      PROVE  (ui.badge = Cardinality(Unclicked) /\ Clicks /\ Tells)'
  <2>1. ui.badge = Cardinality(Unclicked) /\ Clicks /\ Tells
    BY <1>7 DEF NotesTidy
  <2>2. Unclicked' = Unclicked /\ ui' = ui
    BY <1>1, <1>3, <1>7 DEF Unclicked
  <2>3. Clicks'
    BY <1>1, <1>4, <2>1, <2>2 DEF Clicks, Shrinks
  <2>4. Tells'
    BY <1>1, <1>4, <2>1 DEF Tells, Shrinks
  <2>5. QED
    BY <2>1, <2>2, <2>3, <2>4
<1>8. ASSUME k.kind = "count", Len(calls) = 1, k.ans.unread = db.unread,
             ui.read = ui.shown \ db.unread
      PROVE  (ui.badge = Cardinality(Unclicked) /\ Clicks /\ Tells)'
  <2>1. Len(calls') = 0 /\ DOMAIN calls' = {}
    BY <1>4, <1>8, NotesCallFields DEF Shrinks, NotesTyped
  <2>2. Unclicked' = k.ans.unread
    BY <1>1, <1>2, <1>3, <1>8 DEF Unclicked
  <2>3. Clicks'
    BY <1>1, <1>3, <1>8, <2>1 DEF Clicks
  <2>4. QED
    BY <1>3, <1>8, <2>1, <2>2, <2>3 DEF Tells
<1>9. ASSUME ~upset'
      PROVE  ~upset \/ (/\ k.kind = "count" /\ Len(calls) = 1 /\ k.ans.unread = db.unread
                        /\ ui.read = ui.shown \ db.unread)
  BY <1>9 DEF NotesAnswered
<1>10. QED
  BY <1>4, <1>5, <1>6, <1>7, <1>8, <1>9 DEF NotesTidy

LEMMA NotesNextInv ==
  ASSUME NotesInv, NotesNext
  PROVE  NotesInv'
<1>1. NotesTyped /\ NotesTidy /\ screen = "notes"
  BY DEF NotesInv, NotesNext
<1>2. ASSUME AppNotes \/ WebNotes
      PROVE  NotesTyped' /\ NotesTidy'
  BY <1>1, <1>2, NotesAskedInv, ReadNoteInv DEF AppNotes, WebNotes, NoteActions
<1>3. ASSUME NEW n \in Notes, NoteComes(n)
      PROVE  NotesTyped' /\ NotesTidy'
  BY <1>1, <1>3, NoteComesInv
<1>4. ASSUME NEW i \in DOMAIN calls, ServeNotes(i) \/ NotesAnswered(i) \/ NotesMissed(i)
      PROVE  NotesTyped' /\ NotesTidy'
  BY <1>1, <1>4, ServeNotesInv, NotesAnsweredInv, NotesMissedInv
<1>5. QED
  BY <1>2, <1>3, <1>4 DEF NotesNext, NotesInv

LEMMA NotesMounted ==
  ASSUME NEW m \in NoteMounts
  PROVE  /\ m.screen = "notes" /\ m.client \in Clients
         /\ Starts(m) => NotesInv
         /\ Opens(m) => NotesInv'
<1>1. PICK c \in Clients, u \in SUBSET Notes :
        m = Mount(c, "notes",
              [shown |-> {}, read |-> {}, badge |-> Cardinality(u), lock |-> TRUE,
               counted |-> u],
              <<Call("page", None)>>,
              [come |-> u, unread |-> u])
  BY DEF NoteMounts, Mount, Call
<1>2. Cardinality(u) \in Nat
  BY NotesCounted
<1>3. /\ m.client = c /\ m.screen = "notes" /\ m.ui \in NotesUi
      /\ m.ui.shown = {} /\ m.ui.read = {} /\ m.ui.counted = u
      /\ m.ui.badge = Cardinality(u)
      /\ m.db \in NotesDb /\ m.db.come = u /\ m.db.unread = u
      /\ m.calls = <<Call("page", None)>>
  BY <1>1, <1>2 DEF Mount, NotesUi, NotesDb
<1>4. /\ m.calls \in Seq(NotesCall) /\ Len(m.calls) = 1 /\ DOMAIN m.calls = {1}
      /\ m.calls[1].kind = "page" /\ m.calls[1].ans = None
  BY <1>3, NotesCallIs DEF Call
<1>5. (u \cap u) \ {} = u
  OBVIOUS
<1>6. Starts(m) => NotesInv
  <2> SUFFICES ASSUME Starts(m)
               PROVE  NotesTyped /\ NotesTidy
    BY DEF NotesInv
  <2>1. ui = m.ui /\ calls = m.calls /\ db = m.db
    BY DEF Starts
  <2>2. NotesTyped
    BY <1>3, <1>4, <2>1, ScreenAssumption DEF NotesTyped, HaveCome
  <2>3. Unclicked = u
    BY <1>3, <2>1 DEF Unclicked
  <2>4. QED
    BY <1>3, <1>4, <2>1, <2>2, <2>3 DEF NotesTidy, Clicks, Tells
<1>7. Opens(m) => NotesInv'
  <2> SUFFICES ASSUME Opens(m)
               PROVE  NotesTyped' /\ NotesTidy'
    BY DEF NotesInv
  <2>1. ui' = m.ui /\ calls' = m.calls /\ db' = m.db
    BY DEF Opens
  <2>2. NotesTyped'
    BY <1>3, <1>4, <2>1, ScreenAssumption DEF NotesTyped, HaveCome
  <2>3. Unclicked' = u
    BY <1>3, <2>1 DEF Unclicked
  <2>4. QED
    BY <1>3, <1>4, <2>1, <2>2, <2>3 DEF NotesTidy, Clicks, Tells
<1>8. QED
  BY <1>3, <1>6, <1>7

LEMMA NotesKept ==
  ASSUME NotesInv, UNCHANGED vars
  PROVE  NotesInv'
BY DEF vars, NotesInv, NotesTyped, NotesTidy, HaveCome, Unclicked, Clicks, Tells

LEMMA NotesExact == NotesInv => BadgeIsExact
<1> SUFFICES ASSUME NotesInv, screen = "notes", calls = <<>>, ~upset
             PROVE  /\ ui.badge = Cardinality(db.unread \cap ui.counted)
                    /\ ui.read \cap db.unread = {}
  BY DEF BadgeIsExact
<1>1. ui.badge = Cardinality(Unclicked) /\ Clicks
  BY DEF NotesInv, NotesTidy
<1>2. ui.read \cap db.unread = {}
  BY <1>1 DEF Clicks
<1>3. Unclicked = db.unread \cap ui.counted
  BY <1>2 DEF Unclicked
<1>4. QED
  BY <1>1, <1>2, <1>3

-----------------------------------------------------------------------------
(* The page of a board or a user.  The lock is the page of the list that is   *)
(* under way, of which there is one at most.  Unless links and tags cross it, *)
(* what is under way is for the address and the tag on the page, and what is *)
(* not under way has come.                                                 *)
BoardUi == [user : BOOLEAN, id : Ids, tag : Ids \cup {None}, head : Ids \cup {None},
            list : SUBSET PostQuery, lock : BOOLEAN, spins : BOOLEAN]

BoardCall == CallOf({"head", "page", "more"}, Ids \cup PostQuery, {None, "ok"})

BoardAsks ==
  \A i \in DOMAIN calls :
    calls[i].of \in (IF calls[i].kind = "head" THEN Ids ELSE PostQuery)

OneBoardPage ==
  /\ \A i, j \in DOMAIN calls : calls[i].kind # "head" /\ calls[j].kind # "head" => i = j
  /\ \A i \in DOMAIN calls : calls[i].kind # "head" => ui.lock

BoardTyped ==
  /\ ui \in BoardUi
  /\ calls \in Seq(BoardCall) /\ BoardAsks
  /\ Len(calls) <= 2 * MaxCalls
  /\ OneBoardPage

BoardTidy ==
  ~upset =>
    /\ ui.tag \in {None, ui.id}
    /\ \A i \in DOMAIN calls : calls[i].of = IF calls[i].kind = "head" THEN ui.id ELSE Now
    /\ (\A i \in DOMAIN calls : calls[i].kind # "head") => ui.head = ui.id
    /\ (\A i \in DOMAIN calls : calls[i].kind # "page") => ui.list = {Now}

BoardInv == screen = "board" => BoardTyped /\ BoardTidy

LEMMA BoardCallFields ==
  ASSUME BoardTyped
  PROVE  /\ Len(calls) \in Nat /\ DOMAIN calls = 1 .. Len(calls)
         /\ \A i \in DOMAIN calls : /\ calls[i].kind \in {"head", "page", "more"}
                                    /\ calls[i].ans \in {None, "ok"}
BY Fields DEF BoardTyped, BoardCall

LEMMA BoardCallIs ==
  ASSUME NEW k \in {"head", "page", "more"}, NEW o \in Ids \cup PostQuery
  PROVE  /\ Call(k, o) \in BoardCall
         /\ Call(k, o).kind = k /\ Call(k, o).of = o /\ Call(k, o).ans = None
BY Fields DEF BoardCall, Call

(* A page of the list is asked for while none is under way. *)
LEMMA PageAsked ==
  ASSUME BoardTyped, BoardTidy, NEW k \in {"page", "more"}, NEW q \in PostQuery,
         ~ui.lock, calls' = Append(calls, Call(k, q)), Len(calls) < MaxCalls,
         ui' \in BoardUi, ui'.lock, ui'.head = ui.head, ui'.list = ui.list, ui'.id = ui.id,
         ~upset' => ~upset /\ q = Now' /\ ui'.tag \in {None, ui.id},
         k = "more" => ui'.tag = ui.tag
  PROVE  BoardTyped' /\ BoardTidy'
<1> USE BoardCallFields, ScreenAssumption
<1> DEFINE new == Call(k, q)
<1>1. new \in BoardCall /\ new.kind = k /\ new.of = q
  BY BoardCallIs
<1>2. Grows(new) /\ calls' \in Seq(BoardCall)
  BY <1>1, Sent DEF BoardTyped
<1> HIDE DEF new
<1>3. /\ calls'[Len(calls')].kind = k /\ calls'[Len(calls')].of = q
      /\ Len(calls') \in DOMAIN calls'
      /\ \A j \in DOMAIN calls' : j # Len(calls') => j \in DOMAIN calls /\ calls'[j] = calls[j]
      /\ \A j \in DOMAIN calls : j \in DOMAIN calls' /\ calls'[j] = calls[j]
  BY <1>1, <1>2 DEF Grows
<1>4. \A j \in DOMAIN calls : calls[j].kind = "head"
  BY DEF BoardTyped, OneBoardPage
<1>5. BoardAsks'
  BY <1>3 DEF BoardTyped, BoardAsks
<1>6. OneBoardPage'
  BY <1>3, <1>4 DEF OneBoardPage
<1>7. BoardTyped'
  BY <1>2, <1>5, <1>6 DEF BoardTyped, Grows
<1>8. ASSUME ~upset'
      PROVE  BoardTidy'
  <2>1. /\ \A i \in DOMAIN calls : calls[i].of = ui.id
        /\ (\A i \in DOMAIN calls : calls[i].kind # "head") => ui.head = ui.id
        /\ ui.list = {Now}
    BY <1>4, <1>8 DEF BoardTidy
  <2>2. \A i \in DOMAIN calls' :
          calls'[i].of = IF calls'[i].kind = "head" THEN ui.id ELSE Now'
    BY <1>3, <1>4, <1>8, <2>1
  <2>3. (\A i \in DOMAIN calls' : calls'[i].kind # "head") => ui.head = ui.id
    BY <1>3, <2>1
  <2>4. (\A i \in DOMAIN calls' : calls'[i].kind # "page") => ui.list = {Now'}
    <3>1. CASE k = "page"
      BY <1>3, <3>1
    <3>2. CASE k = "more"
      <4>1. Now' = Now
        BY <3>2 DEF Now
      <4>2. QED
        BY <2>1, <4>1
    <3>3. QED
      BY <3>1, <3>2
  <2>5. QED
    BY <1>8, <2>2, <2>3, <2>4 DEF BoardTidy
<1>9. QED
  BY <1>7, <1>8 DEF BoardTidy

LEMMA BoardPagesInv ==
  ASSUME BoardTyped, BoardTidy, MorePosts \/ PullPosts
  PROVE  BoardTyped' /\ BoardTidy'
<1> DEFINE k == IF MorePosts THEN "more" ELSE "page"
<1>1. ui \in BoardUi /\ Now \in PostQuery
  BY DEF BoardTyped, BoardUi, Now, PostQuery
<1>2. /\ ui' \in BoardUi /\ ui'.lock /\ ui'.head = ui.head /\ ui'.list = ui.list
      /\ ui'.id = ui.id /\ ui'.tag = ui.tag /\ ~ui.lock /\ upset' = upset
  BY <1>1 DEF MorePosts, PullPosts, BoardUi
<1>3. calls' = Append(calls, Call(k, Now)) /\ Len(calls) < MaxCalls
  BY DEF MorePosts, PullPosts, Send
<1>4. k \in {"more", "page"}
  OBVIOUS
<1> HIDE DEF k
<1>5. Now' = Now /\ (~upset => ui.tag \in {None, ui.id})
  BY <1>2 DEF Now, BoardTidy
<1>6. QED
  BY <1>1, <1>2, <1>3, <1>4, <1>5, PageAsked

LEMMA ChooseTagInv ==
  ASSUME BoardTyped, BoardTidy, NEW t \in Ids \cup {None}, ChooseTag(t)
  PROVE  BoardTyped' /\ BoardTidy'
<1> DEFINE q == [id |-> ui.id, tag |-> t]
<1>1. ui \in BoardUi
  BY DEF BoardTyped
<1>2. /\ ui' \in BoardUi /\ ui'.lock /\ ui'.head = ui.head /\ ui'.list = ui.list
      /\ ui'.id = ui.id /\ ui'.tag = t
  BY <1>1 DEF ChooseTag, BoardUi
<1>3. q \in PostQuery /\ Now' = q /\ q.tag = t
  BY <1>1, <1>2 DEF PostQuery, BoardUi, Now
<1>4. ~upset' => ~upset /\ ~ui.lock /\ t \in {None, ui.id}
  BY <1>3 DEF ChooseTag, Refresh
<1> HIDE DEF q
<1>5. CASE ui.lock
  <2>1. calls' = calls /\ upset'
    BY <1>4, <1>5 DEF ChooseTag, Refresh
  <2>2. BoardTyped'
    BY <1>2, <2>1 DEF BoardTyped, BoardAsks, OneBoardPage
  <2>3. QED
    BY <2>1, <2>2 DEF BoardTidy
<1>6. CASE ~ui.lock
  <2>1. calls' = Append(calls, Call("page", q)) /\ Len(calls) < MaxCalls
    BY <1>6 DEF ChooseTag, Refresh, q
  <2>2. QED
    BY <1>2, <1>3, <1>4, <1>6, <2>1, PageAsked
<1>7. QED
  BY <1>5, <1>6

LEMMA GoToInv ==
  ASSUME BoardTyped, BoardTidy, NEW b \in Ids, GoTo(b)
  PROVE  BoardTyped' /\ BoardTidy'
<1> USE BoardCallFields, ScreenAssumption
<1> DEFINE q == [Now EXCEPT !.id = b]
           h == Call("head", b)
           p == Call("page", q)
<1>1. ui \in BoardUi /\ calls \in Seq(BoardCall)
  BY DEF BoardTyped
<1>2. /\ ui' \in BoardUi /\ ui'.lock /\ ui'.head = ui.head /\ ui'.list = ui.list
      /\ ui'.id = b /\ ui'.tag = ui.tag
  BY <1>1 DEF GoTo, Following, BoardUi
<1>3. q \in PostQuery /\ Now' = q
  BY <1>1, <1>2 DEF PostQuery, BoardUi, Now
<1>4. h \in BoardCall /\ h.kind = "head" /\ h.of = b
  BY BoardCallIs
<1>5. p \in BoardCall /\ p.kind = "page" /\ p.of = q
  BY <1>3, BoardCallIs
<1>6. calls' = calls \o <<h>> \o (IF ui.lock THEN <<>> ELSE <<p>>)
  BY DEF GoTo
<1>7. ~upset' => Len(calls) = 0 /\ ~ui.lock /\ ui.tag = None
  BY DEF GoTo
<1>8. Len(calls) + (IF ui.lock THEN 1 ELSE 2) <= MaxCalls
  BY DEF GoTo
<1> HIDE DEF q, h, p
<1>9. CASE ui.lock
  <2>1. calls' = Append(calls, h)
    BY <1>1, <1>4, <1>6, <1>9, Followed
  <2>2. Grows(h) /\ calls' \in Seq(BoardCall)
    BY <1>1, <1>4, <2>1, Sent
  <2>3. /\ calls'[Len(calls')] = h
        /\ \A j \in DOMAIN calls' : j # Len(calls') => j \in DOMAIN calls /\ calls'[j] = calls[j]
    BY <2>2 DEF Grows
  <2>4. BoardAsks'
    BY <1>4, <2>3 DEF BoardTyped, BoardAsks
  <2>5. OneBoardPage'
    BY <1>2, <1>4, <2>3 DEF BoardTyped, OneBoardPage
  <2>6. BoardTyped'
    BY <1>2, <1>8, <1>9, <2>2, <2>4, <2>5 DEF BoardTyped, Grows
  <2>7. upset'
    BY <1>7, <1>9
  <2>8. QED
    BY <2>6, <2>7 DEF BoardTidy
<1>10. CASE ~ui.lock
  <2>1. calls' = Append(Append(calls, h), p)
    <3>1. calls' = calls \o <<h>> \o <<p>>
      BY <1>6, <1>10
    <3>2. calls \o <<h>> = Append(calls, h)
      BY <1>1, <1>4, Followed
    <3>3. Append(calls, h) \in Seq(BoardCall)
      BY <1>1, <1>4, Longer
    <3>4. Append(calls, h) \o <<p>> = Append(Append(calls, h), p)
      BY <1>5, <3>3, Followed
    <3>5. QED
      BY <3>1, <3>2, <3>4
  <2>2. /\ calls' \in Seq(BoardCall) /\ Len(calls') = Len(calls) + 2
        /\ Len(calls) + 1 \in DOMAIN calls' /\ calls'[Len(calls) + 1] = h
        /\ Len(calls) + 2 \in DOMAIN calls' /\ calls'[Len(calls) + 2] = p
        /\ \A j \in DOMAIN calls' : \/ j \in DOMAIN calls /\ calls'[j] = calls[j]
                                    \/ j = Len(calls) + 1 /\ calls'[j] = h
                                    \/ j = Len(calls) + 2 /\ calls'[j] = p
    BY <1>1, <1>4, <1>5, <2>1, BothSent
  <2>3. \A j \in DOMAIN calls : calls[j].kind = "head"
    BY <1>10 DEF BoardTyped, OneBoardPage
  <2>4. BoardAsks'
    BY <1>3, <1>4, <1>5, <2>2 DEF BoardTyped, BoardAsks
  <2>5. OneBoardPage'
    BY <1>2, <1>4, <2>2, <2>3 DEF OneBoardPage
  <2>6. BoardTyped'
    BY <1>2, <1>8, <1>10, <2>2, <2>4, <2>5 DEF BoardTyped
  <2>7. ASSUME ~upset'
        PROVE  BoardTidy'
    <3>1. \A j \in DOMAIN calls' : calls'[j] = h \/ calls'[j] = p
      BY <1>7, <2>2, <2>7
    <3>2. \A j \in DOMAIN calls' :
            calls'[j].of = IF calls'[j].kind = "head" THEN ui'.id ELSE Now'
      BY <1>2, <1>3, <1>4, <1>5, <3>1
    <3>3. /\ ~(\A j \in DOMAIN calls' : calls'[j].kind # "head")
          /\ ~(\A j \in DOMAIN calls' : calls'[j].kind # "page")
      BY <1>4, <1>5, <2>2
    <3>4. ui'.tag \in {None, ui'.id}
      BY <1>2, <1>7, <2>7
    <3>5. QED
      BY <3>2, <3>3, <3>4 DEF BoardTidy
  <2>8. QED
    BY <2>6, <2>7 DEF BoardTidy
<1>11. QED
  BY <1>9, <1>10

LEMMA ServeBoardInv ==
  ASSUME BoardTyped, BoardTidy, screen = "board", NEW i \in DOMAIN calls, ServeBrowse(i)
  PROVE  BoardTyped' /\ BoardTidy'
<1> USE BoardCallFields
<1>1. ui' = ui /\ upset' = upset /\ Served(i, "ok")
  BY DEF ServeBrowse
<1>2. Replies(i, "ok") /\ calls' \in Seq(BoardCall)
  BY <1>1, Replied DEF BoardTyped, BoardCall
<1>3. Now' = Now
  BY <1>1 DEF Now
<1>4. BoardAsks'
  BY <1>2 DEF BoardTyped, BoardAsks, Replies
<1>5. OneBoardPage'
  BY <1>1, <1>2 DEF BoardTyped, OneBoardPage, Replies
<1>6. BoardTyped'
  BY <1>1, <1>2, <1>4, <1>5 DEF BoardTyped, Replies
<1>7. BoardTidy'
  BY <1>1, <1>2, <1>3 DEF BoardTidy, Replies
<1>8. QED
  BY <1>6, <1>7

LEMMA BoardEnded ==
  ASSUME BoardTyped, NEW i \in DOMAIN calls, Ends(i), ui' \in BoardUi,
         calls[i].kind = "head" => ui'.lock = ui.lock
  PROVE  BoardTyped' /\ Shrinks(i)
<1> USE BoardCallFields, ScreenAssumption
<1>1. Shrinks(i) /\ calls' \in Seq(BoardCall)
  BY Ended DEF BoardTyped
<1>2. BoardAsks'
  BY <1>1 DEF BoardTyped, BoardAsks, Shrinks
<1>3. OneBoardPage'
  <2>1. \A j \in DOMAIN calls' : /\ Before(i, j) \in DOMAIN calls /\ Before(i, j) # i
                                 /\ calls'[j] = calls[Before(i, j)]
    BY <1>1 DEF Shrinks
  <2>2. \A j, l \in DOMAIN calls' : calls'[j].kind # "head" /\ calls'[l].kind # "head" => j = l
    BY <1>1, <2>1 DEF BoardTyped, OneBoardPage, Shrinks
  <2>3. \A j \in DOMAIN calls' : calls'[j].kind # "head" => ui'.lock
    BY <2>1 DEF BoardTyped, OneBoardPage
  <2>4. QED
    BY <2>2, <2>3 DEF OneBoardPage
<1>4. QED
  BY <1>1, <1>2, <1>3 DEF BoardTyped, Shrinks

LEMMA BoardAnsweredInv ==
  ASSUME BoardTyped, BoardTidy, NEW i \in DOMAIN calls, BrowseAnswered(i)
  PROVE  BoardTyped' /\ BoardTidy'
<1> USE BoardCallFields
<1> DEFINE k == calls[i]
<1>1. /\ ui \in BoardUi /\ Ends(i) /\ upset' = upset
      /\ k.of \in (IF k.kind = "head" THEN Ids ELSE PostQuery)
  BY DEF BoardTyped, BoardAsks, BrowseAnswered
<1>2. /\ ui' \in BoardUi /\ ui'.id = ui.id /\ ui'.tag = ui.tag
      /\ k.kind = "head" => ui'.head = k.of /\ ui'.list = ui.list /\ ui'.lock = ui.lock
      /\ k.kind = "page" => ui'.head = ui.head /\ ui'.list = {k.of}
      /\ k.kind = "more" => ui'.head = ui.head /\ ui'.list = ui.list \cup {k.of}
  <2>1. CASE k.kind = "head"
    BY <1>1, <2>1 DEF BrowseAnswered, Browsed, BoardUi
  <2>2. CASE k.kind = "page"
    BY <1>1, <2>2 DEF BrowseAnswered, Browsed, BoardUi
  <2>3. CASE k.kind = "more"
    BY <1>1, <2>3 DEF BrowseAnswered, Browsed, BoardUi
  <2>4. QED
    BY <2>1, <2>2, <2>3
<1>3. BoardTyped' /\ Shrinks(i)
  BY <1>1, <1>2, BoardEnded
<1>4. Now' = Now
  BY <1>2 DEF Now
<1>5. ASSUME ~upset
      PROVE  BoardTidy'
  <2>1. /\ ui.tag \in {None, ui.id}
        /\ \A j \in DOMAIN calls :
             calls[j].of = IF calls[j].kind = "head" THEN ui.id ELSE Now
        /\ (\A j \in DOMAIN calls : calls[j].kind # "head") => ui.head = ui.id
        /\ (\A j \in DOMAIN calls : calls[j].kind # "page") => ui.list = {Now}
    BY <1>5 DEF BoardTidy
  <2>2. \A j \in DOMAIN calls' :
          calls'[j].of = IF calls'[j].kind = "head" THEN ui.id ELSE Now
    BY <1>3, <2>1 DEF Shrinks
  <2>3. (\A j \in DOMAIN calls' : calls'[j].kind # "head") => ui'.head = ui.id
    <3>1. CASE k.kind = "head"
      BY <1>2, <2>1, <3>1
    <3>2. CASE k.kind # "head"
      BY <1>2, <1>3, <2>1, <3>2 DEF Shrinks
    <3>3. QED
      BY <3>1, <3>2
  <2>4. (\A j \in DOMAIN calls' : calls'[j].kind # "page") => ui'.list = {Now}
    <3>1. CASE k.kind = "page"
      BY <1>2, <2>1, <3>1
    <3>2. CASE k.kind # "page"
      <4>1. (\A j \in DOMAIN calls' : calls'[j].kind # "page") => ui.list = {Now}
        BY <1>3, <2>1, <3>2 DEF Shrinks
      <4>2. k.kind = "more" => k.of = Now
        BY <2>1
      <4>3. QED
        BY <1>2, <3>2, <4>1, <4>2
    <3>3. QED
      BY <3>1, <3>2
  <2>5. QED
    BY <1>2, <1>4, <2>1, <2>2, <2>3, <2>4 DEF BoardTidy
<1>6. QED
  BY <1>1, <1>3, <1>5 DEF BoardTidy

LEMMA BoardMissedInv ==
  ASSUME BoardTyped, NEW i \in DOMAIN calls, BrowseMissed(i)
  PROVE  BoardTyped' /\ BoardTidy'
<1>1. /\ ui' \in BoardUi /\ Ends(i) /\ upset'
      /\ calls[i].kind = "head" => ui'.lock = ui.lock
  BY DEF BrowseMissed, BoardTyped, BoardUi
<1>2. QED
  BY <1>1, BoardEnded DEF BoardTidy

LEMMA BoardNextInv ==
  ASSUME BoardInv, BrowseNext, screen = "board"
  PROVE  BoardInv'
<1>1. BoardTyped /\ BoardTidy
  BY DEF BoardInv
<1>2. ASSUME AppBoard \/ WebBoard \/ AppUser \/ WebUser
      PROVE  BoardTyped' /\ BoardTidy'
  BY <1>1, <1>2, BoardPagesInv, ChooseTagInv, GoToInv
     DEF AppBoard, WebBoard, AppUser, WebUser
<1>3. ASSUME NEW i \in DOMAIN calls, ServeBrowse(i) \/ BrowseAnswered(i) \/ BrowseMissed(i)
      PROVE  BoardTyped' /\ BoardTidy'
  BY <1>1, <1>3, ServeBoardInv, BoardAnsweredInv, BoardMissedInv
<1>4. QED
  BY <1>2, <1>3 DEF BrowseNext, BoardNext, BoardsNext, DictNext, ListsNext, BoardInv

(* What is mounted to find one's way. *)
BoardsPage(c, b, v) ==
  Mount(c, "boards",
        [loaded |-> FALSE, at |-> b, open |-> {}, menu |-> FALSE,
         active |-> None, value |-> v],
        <<Call("categories", None)>>, None)

LEMMA BrowseMountsAre ==
  ASSUME NEW m \in BrowseMounts
  PROVE  \/ \E c \in Clients, u \in BOOLEAN, b \in Ids :
              m = BoardPage(c, u, b) /\ m.screen = "board"
         \/ \E c \in Clients, b \in Ids \cup {None}, v \in Ids \cup {None} :
              m = BoardsPage(c, b, v) /\ m.screen = "boards"
         \/ \E w \in Words : m = DictPage(w) /\ m.screen = "dict"
         \/ \E c \in Clients, t \in Lists :
              m = ListPage(c, t, "old") /\ m.screen = "lists"
<1>1. \/ \E c \in Clients, u \in BOOLEAN, b \in Ids : m = BoardPage(c, u, b)
      \/ \E c \in Clients, b \in Ids \cup {None}, v \in Ids \cup {None} : m = BoardsPage(c, b, v)
      \/ \E w \in Words : m = DictPage(w)
      \/ \E c \in Clients, t \in Lists : m = ListPage(c, t, "old")
  <2> DEFINE A == {BoardPage(c, u, b) : c \in Clients, u \in BOOLEAN, b \in Ids}
             B == {BoardsPage(c, b, v) : c \in Clients, b \in Ids \cup {None},
                                         v \in Ids \cup {None}}
             D == {DictPage(w) : w \in Words}
             L == {ListPage(c, t, "old") : c \in Clients, t \in Lists}
  <2>1. BrowseMounts = A \cup B \cup D \cup L
    BY DEF BrowseMounts, BoardsPage
  <2>2. m \in A => \E c \in Clients, u \in BOOLEAN, b \in Ids : m = BoardPage(c, u, b)
    OBVIOUS
  <2>3. m \in B => \E c \in Clients, b \in Ids \cup {None}, v \in Ids \cup {None} :
                     m = BoardsPage(c, b, v)
    OBVIOUS
  <2>4. m \in D => \E w \in Words : m = DictPage(w)
    OBVIOUS
  <2>5. m \in L => \E c \in Clients, t \in Lists : m = ListPage(c, t, "old")
    OBVIOUS
  <2>6. m \in A \/ m \in B \/ m \in D \/ m \in L
    BY <2>1
  <2> HIDE DEF A, B, D, L
  <2>7. QED
    BY <2>2, <2>3, <2>4, <2>5, <2>6
<1>2. \A c, u, b : BoardPage(c, u, b).screen = "board"
  BY DEF BoardPage, Mount
<1>3. \A c, b, v : BoardsPage(c, b, v).screen = "boards"
  BY DEF BoardsPage, Mount
<1>4. \A w : DictPage(w).screen = "dict"
  BY DEF DictPage, Mount
<1>5. \A c, t : ListPage(c, t, "old").screen = "lists"
  BY DEF ListPage, Mount
<1>6. QED
  BY <1>1, <1>2, <1>3, <1>4, <1>5

LEMMA BoardMounted ==
  ASSUME NEW m \in BrowseMounts, m.screen = "board"
  PROVE  /\ m.client \in Clients
         /\ Starts(m) => BoardInv
         /\ Opens(m) => BoardInv'
<1>1. PICK c \in Clients, u \in BOOLEAN, b \in Ids : m = BoardPage(c, u, b)
  BY BrowseMountsAre
<1> DEFINE q == [id |-> b, tag |-> None]
           h == Call("head", b)
           p == Call("page", q)
<1>2. q \in PostQuery
  BY DEF PostQuery
<1>3. /\ h \in BoardCall /\ h.kind = "head" /\ h.of = b
      /\ p \in BoardCall /\ p.kind = "page" /\ p.of = q
  BY <1>2, BoardCallIs
<1>4. /\ m.client = c /\ m.ui \in BoardUi /\ m.ui.id = b /\ m.ui.tag = None /\ m.ui.lock
      /\ m.calls = <<h, p>>
  BY <1>1 DEF BoardPage, Mount, BoardUi
<1>5. [id |-> m.ui.id, tag |-> m.ui.tag] = q
  BY <1>4
<1> HIDE DEF q, h, p
<1>6. /\ m.calls \in Seq(BoardCall) /\ Len(m.calls) = 2 /\ DOMAIN m.calls = {1, 2}
      /\ m.calls[1] = h /\ m.calls[2] = p
  BY <1>3, <1>4
<1>7. 2 <= 2 * MaxCalls
  BY ScreenAssumption
<1>8. Starts(m) => BoardInv
  BY <1>2, <1>3, <1>4, <1>5, <1>6, <1>7
     DEF Starts, BoardInv, BoardTyped, BoardTidy, BoardAsks, OneBoardPage, Now
<1>9. Opens(m) => BoardInv'
  BY <1>2, <1>3, <1>4, <1>5, <1>6, <1>7
     DEF Opens, BoardInv, BoardTyped, BoardTidy, BoardAsks, OneBoardPage, Now
<1>10. QED
  BY <1>4, <1>8, <1>9

LEMMA BoardKept ==
  ASSUME BoardInv, UNCHANGED vars
  PROVE  BoardInv'
BY DEF vars, BoardInv, BoardTyped, BoardTidy, BoardAsks, OneBoardPage, Now

LEMMA BoardAgrees == BoardInv => HeadAndListAgree
BY DEF BoardInv, BoardTidy, HeadAndListAgree

-----------------------------------------------------------------------------
(* The categories: the sidebar unfolds that of the address whenever the       *)
(* address or the categories change.                                       *)
BoardsUi == [loaded : BOOLEAN, at : Ids \cup {None}, open : SUBSET Categories,
             menu : BOOLEAN, active : Categories \cup {None}, value : Ids \cup {None}]

BoardsCall == CallOf({"categories"}, {None}, {None, "ok"})

BoardsTyped ==
  /\ ui \in BoardsUi
  /\ calls \in Seq(BoardsCall) /\ Len(calls) <= MaxCalls

HereIsOpen ==
  client = "web" /\ ui.loaded /\ ui.at # None /\ ~upset => CategoryOf[ui.at] \in ui.open

BoardsInv == screen = "boards" => BoardsTyped /\ HereIsOpen

LEMMA BoardsEnded ==
  ASSUME BoardsTyped, NEW i \in DOMAIN calls, Ends(i)
  PROVE  calls' \in Seq(BoardsCall) /\ Len(calls') <= MaxCalls
<1>1. Shrinks(i) /\ calls' \in Seq(BoardsCall) /\ Len(calls) \in Nat
  BY Ended DEF BoardsTyped
<1>2. QED
  BY <1>1, ScreenAssumption DEF BoardsTyped, Shrinks

LEMMA UnfoldIs ==
  ASSUME NEW u \in BoardsUi
  PROVE  /\ Unfold(u) \in BoardsUi
         /\ Unfold(u).at = u.at
         /\ u.loaded /\ u.at # None => CategoryOf[u.at] \in Unfold(u).open
<1>1. CASE u.loaded /\ u.at # None
  <2>1. u.at \in Ids /\ CategoryOf[u.at] \in Categories
    BY <1>1, BrowseScreenAssumption DEF BoardsUi
  <2>2. Unfold(u) = [u EXCEPT !.open = @ \cup {CategoryOf[u.at]}]
    BY <1>1 DEF Unfold
  <2>3. QED
    BY <2>1, <2>2 DEF BoardsUi
<1>2. CASE ~(u.loaded /\ u.at # None)
  BY <1>2 DEF Unfold
<1>3. QED
  BY <1>1, <1>2

LEMMA SidebarInv ==
  ASSUME BoardsTyped, HereIsOpen, Sidebar
  PROVE  BoardsTyped' /\ HereIsOpen'
<1>1. ui \in BoardsUi
  BY DEF BoardsTyped
<1>2. ASSUME NEW c \in Categories, ToggleCategory(c)
      PROVE  BoardsTyped' /\ HereIsOpen'
  <2>1. /\ ui' \in BoardsUi /\ ui'.loaded = ui.loaded /\ ui'.at = ui.at
        /\ ui'.open = IF c \in ui.open THEN ui.open \ {c} ELSE ui.open \cup {c}
        /\ calls' = calls /\ client' = client
        /\ ~upset' => ~upset /\ c \notin ui.open
    BY <1>1, <1>2 DEF ToggleCategory, BoardsUi, Stays
  <2>2. BoardsTyped'
    BY <2>1 DEF BoardsTyped
  <2>3. HereIsOpen'
    BY <2>1 DEF HereIsOpen
  <2>4. QED
    BY <2>2, <2>3
<1>3. ASSUME NEW b \in Ids \cup {None}, GoBoard(b)
      PROVE  BoardsTyped' /\ HereIsOpen'
  <2> DEFINE u == [ui EXCEPT !.at = b]
  <2>1. u \in BoardsUi /\ u.at = b /\ u.loaded = ui.loaded
    BY <1>1 DEF BoardsUi
  <2>2. ui' = Unfold(u) /\ calls' = calls
    BY <1>3 DEF GoBoard
  <2> HIDE DEF u
  <2>3. /\ ui' \in BoardsUi /\ ui'.at = u.at
        /\ u.loaded /\ u.at # None => CategoryOf[u.at] \in ui'.open
    BY <2>1, <2>2, UnfoldIs
  <2>4. ui'.loaded = u.loaded
    BY <2>1, <2>2 DEF Unfold, BoardsUi
  <2>5. BoardsTyped'
    BY <2>2, <2>3 DEF BoardsTyped
  <2>6. HereIsOpen'
    BY <2>3, <2>4 DEF HereIsOpen
  <2>7. QED
    BY <2>5, <2>6
<1>4. QED
  BY <1>2, <1>3 DEF Sidebar

LEMMA MenuInv ==
  ASSUME BoardsTyped, HereIsOpen, MenuActions \/ ClearBoard
  PROVE  BoardsTyped' /\ HereIsOpen'
<1>1. ui \in BoardsUi
  BY DEF BoardsTyped
<1>2. First \in Categories
  BY BrowseScreenAssumption DEF First
<1>3. Located \in Categories \cup {None}
  <2>1. ui.value # None => CategoryOf[ui.value] \in Categories
    BY <1>1, BrowseScreenAssumption DEF BoardsUi
  <2>2. QED
    BY <1>2, <2>1 DEF Located
<1> DEFINE Same == /\ ui' \in BoardsUi /\ ui'.loaded = ui.loaded /\ ui'.at = ui.at
                   /\ ui'.open = ui.open /\ calls' = calls
                   /\ client' = client /\ upset' = upset
<1>4. Same
  <2>1. CASE ToggleMenu
    <3>1. CASE ui.menu
      BY <1>1, <2>1, <3>1 DEF ToggleMenu, BoardsUi, Stays
    <3>2. CASE ~ui.menu
      BY <1>1, <1>3, <2>1, <3>2 DEF ToggleMenu, BoardsUi, Stays
    <3>3. QED
      BY <3>1, <3>2
  <2>2. ASSUME NEW c \in Categories, PointAt(c)
        PROVE  Same
    BY <1>1, <2>2 DEF PointAt, BoardsUi, Stays
  <2>3. ASSUME NEW b \in Ids \cup {None}, PickBoard(b)
        PROVE  Same
    BY <1>1, <2>3 DEF PickBoard, BoardsUi, Stays
  <2>4. CASE ClearBoard
    BY <1>1, <2>4 DEF ClearBoard, BoardsUi, Stays
  <2>5. QED
    BY <2>1, <2>2, <2>3, <2>4 DEF MenuActions
<1>5. QED
  BY <1>4 DEF BoardsTyped, HereIsOpen

LEMMA BoardsNextInv ==
  ASSUME BoardsInv, BrowseNext, screen = "boards"
  PROVE  BoardsInv'
<1>1. BoardsTyped /\ HereIsOpen /\ ui \in BoardsUi
  BY DEF BoardsInv, BoardsTyped
<1>2. ASSUME LoadCategories
      PROVE  BoardsTyped' /\ HereIsOpen'
  <2>1. Call("categories", None) \in BoardsCall
    BY Fields DEF BoardsCall
  <2>2. Grows(Call("categories", None)) /\ calls' \in Seq(BoardsCall) /\ Len(calls) < MaxCalls
    BY <1>1, <1>2, <2>1, Sent DEF LoadCategories, Send, BoardsTyped
  <2>3. Len(calls) \in Nat
    BY <1>1 DEF BoardsTyped
  <2>4. ui' = ui /\ client' = client /\ upset' = upset
    BY <1>2 DEF LoadCategories, Stays
  <2>5. BoardsTyped'
    BY <1>1, <2>2, <2>3, <2>4, ScreenAssumption DEF BoardsTyped, Grows
  <2>6. QED
    BY <1>1, <2>4, <2>5 DEF HereIsOpen
<1>3. ASSUME Sidebar \/ AppMenu \/ WebMenu
      PROVE  BoardsTyped' /\ HereIsOpen'
  BY <1>1, <1>3, SidebarInv, MenuInv DEF AppMenu, WebMenu
<1>4. ASSUME NEW i \in DOMAIN calls, ServeBrowse(i)
      PROVE  BoardsTyped' /\ HereIsOpen'
  <2>1. Served(i, "ok") /\ ui' = ui /\ client' = client /\ upset' = upset
    BY <1>4 DEF ServeBrowse, Stays, BoardsInv
  <2>2. Replies(i, "ok") /\ calls' \in Seq(BoardsCall)
    BY <1>1, <2>1, Replied DEF BoardsTyped, BoardsCall
  <2>3. BoardsTyped'
    BY <1>1, <2>1, <2>2 DEF BoardsTyped, Replies
  <2>4. QED
    BY <1>1, <2>1, <2>3 DEF HereIsOpen
<1>5. ASSUME NEW i \in DOMAIN calls, CategoriesCame(i)
      PROVE  BoardsTyped' /\ HereIsOpen'
  <2> DEFINE u == [ui EXCEPT !.loaded = TRUE]
  <2>1. u \in BoardsUi /\ u.loaded
    BY <1>1 DEF BoardsUi
  <2>2. /\ ui' = IF client = "web" THEN Unfold(u) ELSE u
        /\ client' = client
    BY <1>5 DEF CategoriesCame, Stays
  <2> HIDE DEF u
  <2>3. /\ Unfold(u) \in BoardsUi /\ Unfold(u).at = u.at
        /\ u.at # None => CategoryOf[u.at] \in Unfold(u).open
    BY <2>1, UnfoldIs
  <2>4. BoardsTyped'
    BY <1>1, <1>5, <2>1, <2>2, <2>3, BoardsEnded DEF BoardsTyped, CategoriesCame
  <2>5. HereIsOpen'
    BY <2>2, <2>3 DEF HereIsOpen
  <2>6. QED
    BY <2>4, <2>5
<1>6. ASSUME NEW i \in DOMAIN calls, CategoriesMissed(i)
      PROVE  BoardsTyped' /\ HereIsOpen'
  <2>1. ui' = ui /\ client' = client /\ upset' = upset
    BY <1>6 DEF CategoriesMissed, Stays
  <2>2. BoardsTyped'
    BY <1>1, <1>6, <2>1, BoardsEnded DEF BoardsTyped, CategoriesMissed
  <2>3. QED
    BY <1>1, <2>1, <2>2 DEF HereIsOpen
<1>7. QED
  BY <1>2, <1>3, <1>4, <1>5, <1>6
     DEF BrowseNext, BoardNext, BoardsNext, DictNext, ListsNext, BoardsInv

LEMMA BoardsMounted ==
  ASSUME NEW m \in BrowseMounts, m.screen = "boards"
  PROVE  /\ m.client \in Clients
         /\ Starts(m) => BoardsInv
         /\ Opens(m) => BoardsInv'
<1>1. PICK c \in Clients, b \in Ids \cup {None}, v \in Ids \cup {None} : m = BoardsPage(c, b, v)
  BY BrowseMountsAre
<1>2. /\ m.client = c /\ m.ui \in BoardsUi /\ ~m.ui.loaded
      /\ m.calls = <<Call("categories", None)>>
  BY <1>1 DEF BoardsPage, Mount, BoardsUi
<1>3. Call("categories", None) \in BoardsCall
  BY Fields DEF BoardsCall
<1>4. m.calls \in Seq(BoardsCall) /\ Len(m.calls) = 1
  BY <1>2, <1>3
<1>5. Starts(m) => BoardsInv
  BY <1>2, <1>4, ScreenAssumption DEF Starts, BoardsInv, BoardsTyped, HereIsOpen
<1>6. Opens(m) => BoardsInv'
  BY <1>2, <1>4, ScreenAssumption DEF Opens, BoardsInv, BoardsTyped, HereIsOpen
<1>7. QED
  BY <1>2, <1>5, <1>6

LEMMA BoardsKept ==
  ASSUME BoardsInv, UNCHANGED vars
  PROVE  BoardsInv'
BY DEF vars, BoardsInv, BoardsTyped, HereIsOpen

LEMMA BoardsFollow == BoardsInv => SidebarFollows
BY DEF BoardsInv, HereIsOpen, SidebarFollows

-----------------------------------------------------------------------------
(* What completes a word: the call that is not cancelled is that of the word  *)
(* on the screen, and until it is over nothing is said of the options.       *)
DictUi == [word : Words, options : Words \cup {None}, mark : BOOLEAN, drop : BOOLEAN]

DictAsk == [word : Words, live : BOOLEAN]

DictCall == CallOf({"options"}, DictAsk, {None, "ok"})

DictTyped ==
  /\ ui \in DictUi
  /\ calls \in Seq(DictCall) /\ Len(calls) <= MaxCalls

Completed ==
  /\ \A i \in DOMAIN calls : calls[i].of.live => calls[i].of.word = ui.word
  /\ (\A i \in DOMAIN calls : ~calls[i].of.live) => ui.options \in {ui.word, None}

DictInv == screen = "dict" => DictTyped /\ Completed

LEMMA DictCallFields ==
  ASSUME DictTyped
  PROVE  /\ Len(calls) \in Nat /\ DOMAIN calls = 1 .. Len(calls)
         /\ \A i \in DOMAIN calls : calls[i] \in DictCall /\ calls[i].of \in DictAsk
BY Fields DEF DictTyped, DictCall

(* A new word: all calls are cancelled, and one is sent. *)
LEMMA NewWord ==
  ASSUME DictTyped, NEW w \in Words, Len(calls) < MaxCalls,
         calls' = Append(Cancelling, Call("options", [word |-> w, live |-> TRUE])),
         ui' \in DictUi, ui'.word = w
  PROVE  DictTyped' /\ Completed'
<1> USE DictCallFields, ScreenAssumption
<1> DEFINE q == [word |-> w, live |-> TRUE]
           new == Call("options", q)
<1>1. q \in DictAsk /\ q.live /\ q.word = w
  BY DEF DictAsk
<1> HIDE DEF q
<1>2. new \in DictCall /\ new.of = q
  <2>1. new \in DictCall
    BY <1>1, Fields DEF DictCall
  <2>2. QED
    BY <2>1 DEF Call
<1>3. \A c \in DictCall : /\ [c EXCEPT !.of.live = FALSE] \in DictCall
                          /\ ~[c EXCEPT !.of.live = FALSE].of.live
  <2> SUFFICES ASSUME NEW c \in DictCall
               PROVE  /\ [c EXCEPT !.of.live = FALSE] \in DictCall
                      /\ ~[c EXCEPT !.of.live = FALSE].of.live
    OBVIOUS
  <2> DEFINE o == [c.of EXCEPT !.live = FALSE]
  <2>1. c.of \in DictAsk
    BY DEF DictCall, CallOf
  <2>2. o \in DictAsk /\ ~o.live
    BY <2>1 DEF DictAsk
  <2>3. [c EXCEPT !.of.live = FALSE] = [c EXCEPT !.of = o]
    OBVIOUS
  <2> HIDE DEF o
  <2>4. [c EXCEPT !.of = o] \in DictCall /\ [c EXCEPT !.of = o].of = o
    BY <2>2 DEF DictCall, CallOf
  <2>5. QED
    BY <2>2, <2>3, <2>4
<1>4. /\ Cancelling \in Seq(DictCall) /\ Len(Cancelling) = Len(calls)
      /\ \A i \in DOMAIN Cancelling : ~Cancelling[i].of.live
  <2> DEFINE cut(i) == [calls[i] EXCEPT !.of.live = FALSE]
  <2>1. Cancelling = [i \in DOMAIN calls |-> cut(i)]
    BY DEF Cancelling
  <2>2. \A i \in DOMAIN calls : cut(i) \in DictCall /\ ~cut(i).of.live
    BY <1>3
  <2> HIDE DEF cut
  <2>3. Cancelling \in [1 .. Len(calls) -> DictCall]
    BY <2>1, <2>2
  <2>4. Cancelling \in Seq(DictCall) /\ Len(Cancelling) = Len(calls)
    BY <2>3
  <2>5. QED
    BY <2>1, <2>2, <2>4
<1>5. calls' = Append(Cancelling, new)
  BY DEF q
<1> HIDE DEF new
<1>6. /\ calls' \in Seq(DictCall) /\ Len(calls') = Len(calls) + 1
      /\ DOMAIN calls' = 1 .. Len(calls) + 1
      /\ calls'[Len(calls) + 1] = new
      /\ \A i \in 1 .. Len(calls) : calls'[i] = Cancelling[i]
  <2>1. DOMAIN Cancelling = 1 .. Len(calls)
    BY DEF Cancelling
  <2>2. QED
    BY <1>2, <1>4, <1>5, <2>1
<1>7. \A i \in DOMAIN calls' : i \in 1 .. Len(calls) \/ i = Len(calls) + 1
  BY <1>6
<1>8. \A i \in DOMAIN calls' : calls'[i].of.live => calls'[i].of.word = w
  <2>1. \A i \in 1 .. Len(calls) : ~calls'[i].of.live
    BY <1>4, <1>6 DEF Cancelling
  <2>2. QED
    BY <1>1, <1>2, <1>6, <1>7, <2>1
<1>9. Len(calls) + 1 \in DOMAIN calls' /\ calls'[Len(calls) + 1].of.live
  BY <1>1, <1>2, <1>6
<1>10. DictTyped'
  BY <1>6, Len(calls) < MaxCalls DEF DictTyped
<1>11. ~(\A i \in DOMAIN calls' : ~calls'[i].of.live)
  BY <1>9
<1>12. Completed'
  BY <1>8, <1>11 DEF Completed
<1>13. QED
  BY <1>10, <1>12

LEMMA DictEnded ==
  ASSUME DictTyped, Completed, NEW i \in DOMAIN calls, Ends(i), ui' \in DictUi,
         ui'.word = ui.word,
         IF calls[i].of.live THEN ui'.options \in {ui.word, None} ELSE ui' = ui
  PROVE  DictTyped' /\ Completed'
<1> USE DictCallFields, ScreenAssumption
<1>1. Shrinks(i) /\ calls' \in Seq(DictCall)
  BY Ended DEF DictTyped
<1>2. DictTyped'
  BY <1>1 DEF DictTyped, Shrinks
<1>3. \A j \in DOMAIN calls' : calls'[j].of.live => calls'[j].of.word = ui'.word
  BY <1>1 DEF Completed, Shrinks
<1>4. (\A j \in DOMAIN calls' : ~calls'[j].of.live) => ui'.options \in {ui'.word, None}
  <2>1. CASE calls[i].of.live
    BY <2>1
  <2>2. CASE ~calls[i].of.live
    BY <1>1, <2>2 DEF Completed, Shrinks
  <2>3. QED
    BY <2>1, <2>2
<1>5. QED
  BY <1>2, <1>3, <1>4 DEF Completed

LEMMA DictNextInv ==
  ASSUME DictInv, BrowseNext, screen = "dict"
  PROVE  DictInv'
<1> USE DictCallFields
<1>1. DictTyped /\ Completed /\ ui \in DictUi
  BY DEF DictInv, DictTyped
<1>2. ASSUME NEW w \in Words, TypeWord(w) \/ PickOption(w)
      PROVE  DictTyped' /\ Completed'
  <2>1. ui' \in DictUi /\ ui'.word = w
    BY <1>1, <1>2 DEF TypeWord, PickOption, DictUi
  <2>2. /\ calls' = Append(Cancelling, Call("options", [word |-> w, live |-> TRUE]))
        /\ Len(calls) < MaxCalls
    BY <1>2 DEF TypeWord, PickOption
  <2>3. QED
    BY <1>1, <2>1, <2>2, NewWord
<1>3. ASSUME MarkOption \/ CloseOptions
      PROVE  DictTyped' /\ Completed'
  <2>1. ui' \in DictUi /\ ui'.word = ui.word /\ ui'.options = ui.options /\ calls' = calls
    BY <1>1, <1>3 DEF MarkOption, CloseOptions, DictUi
  <2>2. QED
    BY <1>1, <2>1 DEF DictTyped, Completed
<1>4. ASSUME NEW i \in DOMAIN calls, ServeBrowse(i)
      PROVE  DictTyped' /\ Completed'
  <2>1. Served(i, "ok") /\ ui' = ui
    BY <1>4 DEF ServeBrowse, DictInv
  <2>2. Replies(i, "ok") /\ calls' \in Seq(DictCall)
    BY <1>1, <2>1, Replied DEF DictTyped, DictCall
  <2>3. QED
    BY <1>1, <2>1, <2>2 DEF DictTyped, Completed, Replies
<1>5. ASSUME NEW i \in DOMAIN calls, OptionsCame(i) \/ OptionsMissed(i)
      PROVE  DictTyped' /\ Completed'
  <2>1. calls[i].of.live => calls[i].of.word = ui.word
    BY <1>1 DEF Completed
  <2>2. calls[i].of.word \in Words
    BY <1>1 DEF DictAsk
  <2>3. /\ ui' \in DictUi /\ ui'.word = ui.word /\ Ends(i)
        /\ IF calls[i].of.live THEN ui'.options \in {ui.word, None} ELSE ui' = ui
    BY <1>1, <1>5, <2>1, <2>2 DEF OptionsCame, OptionsMissed, DictUi
  <2>4. QED
    BY <1>1, <2>3, DictEnded
<1>6. QED
  BY <1>2, <1>3, <1>4, <1>5
     DEF BrowseNext, BoardNext, BoardsNext, DictNext, ListsNext, Completes, DictInv

LEMMA DictMounted ==
  ASSUME NEW m \in BrowseMounts, m.screen = "dict"
  PROVE  /\ m.client \in Clients
         /\ Starts(m) => DictInv
         /\ Opens(m) => DictInv'
<1>1. PICK w \in Words : m = DictPage(w)
  BY BrowseMountsAre
<1> DEFINE q == [word |-> w, live |-> TRUE]
           k == Call("options", q)
<1>2. q \in DictAsk /\ q.live /\ q.word = w
  BY DEF DictAsk
<1>3. k \in DictCall /\ k.of = q
  BY <1>2, Fields DEF DictCall, Call
<1>4. m.client \in Clients /\ m.ui \in DictUi /\ m.ui.word = w /\ m.calls = <<k>>
  BY <1>1 DEF DictPage, Mount, DictUi, Clients
<1> HIDE DEF q, k
<1>5. m.calls \in Seq(DictCall) /\ Len(m.calls) = 1 /\ DOMAIN m.calls = {1} /\ m.calls[1].of = q
  BY <1>3, <1>4
<1>6. Starts(m) => DictInv
  BY <1>2, <1>4, <1>5, ScreenAssumption DEF Starts, DictInv, DictTyped, Completed
<1>7. Opens(m) => DictInv'
  BY <1>2, <1>4, <1>5, ScreenAssumption DEF Opens, DictInv, DictTyped, Completed
<1>8. QED
  BY <1>4, <1>6, <1>7

LEMMA DictKept ==
  ASSUME DictInv, UNCHANGED vars
  PROVE  DictInv'
BY DEF vars, DictInv, DictTyped, Completed

LEMMA DictMatches == DictInv => OptionsMatchWord
BY DEF DictInv, Completed, OptionsMatchWord

-----------------------------------------------------------------------------
(* The lists.  The lock is the page under way, of which there is one at most; *)
(* unless the user changes what he has meanwhile, the list and what the       *)
(* server answers are what he has, but for a first page still to come.       *)
ListsUi == [of : Lists, list : SUBSET {"old", "new"}, lock : BOOLEAN]

ListsCall == CallOf({"page", "more"}, Lists, {None, "old", "new"})

ListsTyped ==
  /\ ui \in ListsUi /\ db \in {"old", "new"}
  /\ calls \in Seq(ListsCall)
  /\ ui.lock => Len(calls) = 1
  /\ ~ui.lock => Len(calls) = 0

ListsTidy ==
  ~upset =>
    /\ (\A i \in DOMAIN calls : calls[i].kind = "more") => ui.list = {db}
    /\ \A i \in DOMAIN calls : calls[i].ans # None => calls[i].ans = db

ListsInv == screen = "lists" => ListsTyped /\ ListsTidy

LEMMA ListsCallFields ==
  ASSUME ListsTyped
  PROVE  /\ Len(calls) \in {0, 1} /\ DOMAIN calls = 1 .. Len(calls)
         /\ Len(calls) = 0 => DOMAIN calls = {}
         /\ \A i \in DOMAIN calls :
              /\ i = 1 /\ Len(calls) = 1
              /\ calls[i].kind \in {"page", "more"} /\ calls[i].ans \in {None, "old", "new"}
<1>1. \A i \in DOMAIN calls :
        calls[i].kind \in {"page", "more"} /\ calls[i].ans \in {None, "old", "new"}
  BY Fields DEF ListsTyped, ListsCall
<1>2. Len(calls) \in {0, 1} /\ DOMAIN calls = 1 .. Len(calls)
  BY DEF ListsTyped
<1>3. \A i \in DOMAIN calls : i = 1 /\ Len(calls) = 1
  BY <1>2
<1>4. QED
  BY <1>1, <1>2, <1>3

LEMMA ListsCallIs ==
  ASSUME NEW k \in {"page", "more"}, NEW t \in Lists
  PROVE  Call(k, t) \in ListsCall
BY Fields DEF ListsCall

(* A list asks for a page, the first one or one more. *)
LEMMA ItemsAsked ==
  ASSUME ListsTyped, ListsTidy, NEW k \in {"page", "more"}, ~ui.lock,
         calls' = Append(calls, Call(k, ui.of)), ui' \in ListsUi, ui'.lock,
         ui'.list = ui.list, db' \in {"old", "new"},
         upset' = upset, k = "more" => db' = db
  PROVE  ListsTyped' /\ ListsTidy'
<1> USE ListsCallFields
<1>1. Grows(Call(k, ui.of)) /\ calls' \in Seq(ListsCall) /\ Len(calls) = 0
  BY Sent, ListsCallIs DEF ListsTyped, ListsUi
<1>2. Len(calls') = 1 /\ DOMAIN calls' = {1} /\ calls'[1].kind = k /\ calls'[1].ans = None
  BY <1>1 DEF Grows, Call
<1>3. ListsTyped'
  BY <1>1, <1>2 DEF ListsTyped
<1>4. ~upset /\ k = "more" => ui'.list = {db'}
  BY <1>1 DEF ListsTidy
<1>5. QED
  BY <1>2, <1>3, <1>4 DEF ListsTidy

LEMMA ListsUserInv ==
  ASSUME ListsTyped, ListsTidy, Revisit \/ MoreItems \/ PullItems
  PROVE  ListsTyped' /\ ListsTidy'
<1> USE ListsCallFields
<1>1. ui \in ListsUi
  BY DEF ListsTyped
<1>2. CASE MoreItems \/ PullItems
  <2> DEFINE k == IF MoreItems THEN "more" ELSE "page"
  <2>1. /\ ui' \in ListsUi /\ ui'.lock /\ ui'.list = ui.list /\ ~ui.lock
        /\ db' = db /\ upset' = upset
    BY <1>1, <1>2 DEF MoreItems, PullItems, ListsUi
  <2>2. calls' = Append(calls, Call(k, ui.of)) /\ k \in {"page", "more"}
    BY <1>2 DEF MoreItems, PullItems, Send
  <2> HIDE DEF k
  <2>3. QED
    BY <2>1, <2>2, ItemsAsked DEF ListsTyped
<1>3. CASE Revisit
  <2>1. ui' \in ListsUi /\ ui'.lock /\ ui'.list = ui.list /\ db' = "new"
    BY <1>1, <1>3 DEF Revisit, ListsUi
  <2>2. CASE ui.lock
    <3>1. calls' = calls /\ upset'
      BY <1>3, <2>2 DEF Revisit
    <3>2. QED
      BY <2>1, <2>2, <3>1 DEF ListsTyped, ListsTidy
  <2>3. CASE ~ui.lock
    <3>1. calls' = Append(calls, Call("page", ui.of)) /\ (upset' <=> upset)
      BY <1>3, <2>3 DEF Revisit, Send
    <3>2. Grows(Call("page", ui.of)) /\ calls' \in Seq(ListsCall) /\ Len(calls) = 0
      BY <1>1, <2>3, <3>1, Sent, ListsCallIs DEF ListsTyped, ListsUi
    <3>3. /\ Len(calls') = 1 /\ DOMAIN calls' = {1}
          /\ calls'[1].kind = "page" /\ calls'[1].ans = None
      BY <3>2 DEF Grows, Call
    <3>4. QED
      BY <2>1, <3>2, <3>3 DEF ListsTyped, ListsTidy
  <2>4. QED
    BY <2>2, <2>3
<1>4. QED
  BY <1>2, <1>3

(* A list as it is mounted. *)
LEMMA ListPageIs ==
  ASSUME NEW c, NEW t \in Lists, NEW d \in {"old", "new"}
  PROVE  LET m == ListPage(c, t, d)
         IN /\ m.client = c /\ m.ui \in ListsUi /\ m.ui.lock /\ m.db = d
            /\ m.calls \in Seq(ListsCall) /\ Len(m.calls) = 1 /\ DOMAIN m.calls = {1}
            /\ m.calls[1].kind = "page" /\ m.calls[1].ans = None
<1> DEFINE m == ListPage(c, t, d)
           k == Call("page", t)
<1>1. k \in ListsCall /\ k.kind = "page" /\ k.ans = None
  BY ListsCallIs DEF Call
<1>2. m.client = c /\ m.ui \in ListsUi /\ m.ui.lock /\ m.db = d /\ m.calls = <<k>>
  BY DEF ListPage, Mount, ListsUi
<1> HIDE DEF k, m
<1>3. QED
  BY <1>1, <1>2 DEF m

LEMMA SwitchTabInv ==
  ASSUME ListsTyped, NEW t \in Lists, SwitchTab(t)
  PROVE  ListsTyped' /\ ListsTidy'
<1> DEFINE m == ListPage("web", t, db)
<1>1. ui' = m.ui /\ calls' = m.calls /\ db' = db
  BY DEF SwitchTab, Tabbed
<1>2. /\ m.ui \in ListsUi /\ m.ui.lock
      /\ m.calls \in Seq(ListsCall) /\ Len(m.calls) = 1 /\ DOMAIN m.calls = {1}
      /\ m.calls[1].kind = "page" /\ m.calls[1].ans = None
  BY ListPageIs DEF ListsTyped
<1> HIDE DEF m
<1>3. QED
  BY <1>1, <1>2 DEF ListsTyped, ListsTidy

LEMMA ListsAnswersInv ==
  ASSUME ListsTyped, ListsTidy, screen = "lists", NEW i \in DOMAIN calls,
         ServeBrowse(i) \/ ListCame(i) \/ ListMissed(i)
  PROVE  ListsTyped' /\ ListsTidy'
<1> USE ListsCallFields
<1> DEFINE k == calls[i]
<1>1. ui \in ListsUi /\ db \in {"old", "new"} /\ ui.lock
  BY DEF ListsTyped
<1>2. CASE ServeBrowse(i)
  <2>1. Served(i, db) /\ ui' = ui /\ db' = db /\ upset' = upset
    BY <1>2 DEF ServeBrowse
  <2>2. Replies(i, db) /\ calls' \in Seq(ListsCall)
    BY <1>1, <2>1, Replied DEF ListsTyped, ListsCall
  <2>3. ListsTyped'
    BY <1>1, <2>1, <2>2 DEF ListsTyped, Replies
  <2>4. ListsTidy'
    BY <2>1, <2>2 DEF ListsTidy, Replies
  <2>5. QED
    BY <2>3, <2>4
<1>3. CASE ListCame(i)
  <2>1. /\ ui' \in ListsUi /\ ~ui'.lock /\ db' = db /\ k.ans # None /\ Ends(i)
        /\ ui'.list = IF k.kind = "page" THEN {k.ans} ELSE ui.list \cup {k.ans}
    BY <1>1, <1>3 DEF ListCame, ListsUi
  <2>2. Shrinks(i) /\ calls' \in Seq(ListsCall)
    BY <2>1, Ended DEF ListsTyped
  <2>3. Len(calls') = 0 /\ DOMAIN calls' = {}
    BY <2>2 DEF Shrinks
  <2>4. ListsTyped'
    BY <1>1, <2>1, <2>2, <2>3 DEF ListsTyped
  <2>5. ASSUME ~upset'
        PROVE  ui'.list = {db}
    <3>1. CASE upset
      BY <1>3, <2>1, <2>5, <3>1 DEF ListCame
    <3>2. CASE ~upset
      <4>1. k.ans = db /\ (k.kind = "more" => ui.list = {db})
        BY <2>1, <3>2 DEF ListsTidy
      <4>2. QED
        BY <2>1, <4>1
    <3>3. QED
      BY <3>1, <3>2
  <2>6. QED
    BY <2>1, <2>3, <2>4, <2>5 DEF ListsTidy
<1>4. CASE ListMissed(i)
  <2>1. ui' \in ListsUi /\ ~ui'.lock /\ db' = db /\ Ends(i) /\ upset'
    BY <1>1, <1>4 DEF ListMissed, ListsUi
  <2>2. Shrinks(i) /\ calls' \in Seq(ListsCall)
    BY <2>1, Ended DEF ListsTyped
  <2>3. Len(calls') = 0
    BY <2>2 DEF Shrinks
  <2>4. QED
    BY <1>1, <2>1, <2>2, <2>3 DEF ListsTyped, ListsTidy
<1>5. QED
  BY <1>2, <1>3, <1>4

LEMMA ListsNextInv ==
  ASSUME ListsInv, BrowseNext, screen = "lists"
  PROVE  ListsInv'
<1>1. ListsTyped /\ ListsTidy
  BY DEF ListsInv
<1>2. ASSUME AppLists \/ WebLists
      PROVE  ListsTyped' /\ ListsTidy'
  BY <1>1, <1>2, ListsUserInv, SwitchTabInv DEF AppLists, WebLists
<1>3. ASSUME NEW i \in DOMAIN calls, ServeBrowse(i) \/ ListCame(i) \/ ListMissed(i)
      PROVE  ListsTyped' /\ ListsTidy'
  BY <1>1, <1>3, ListsAnswersInv
<1>4. QED
  BY <1>2, <1>3 DEF BrowseNext, BoardNext, BoardsNext, DictNext, ListsNext, ListsInv

LEMMA ListsMounted ==
  ASSUME NEW m \in BrowseMounts, m.screen = "lists"
  PROVE  /\ m.client \in Clients
         /\ Starts(m) => ListsInv
         /\ Opens(m) => ListsInv'
<1>1. PICK c \in Clients, t \in Lists : m = ListPage(c, t, "old")
  BY BrowseMountsAre
<1>2. /\ m.client = c /\ m.ui \in ListsUi /\ m.ui.lock /\ m.db = "old"
      /\ m.calls \in Seq(ListsCall) /\ Len(m.calls) = 1 /\ DOMAIN m.calls = {1}
      /\ m.calls[1].kind = "page" /\ m.calls[1].ans = None
  BY <1>1, ListPageIs
<1>3. Starts(m) => ListsInv
  BY <1>2 DEF Starts, ListsInv, ListsTyped, ListsTidy
<1>4. Opens(m) => ListsInv'
  BY <1>2 DEF Opens, ListsInv, ListsTyped, ListsTidy
<1>5. QED
  BY <1>2, <1>3, <1>4

LEMMA ListsKept ==
  ASSUME ListsInv, UNCHANGED vars
  PROVE  ListsInv'
BY DEF vars, ListsInv, ListsTyped, ListsTidy

LEMMA ListsFresh == ListsInv => OwnListsAreFresh
BY DEF ListsInv, ListsTidy, OwnListsAreFresh

-----------------------------------------------------------------------------
(* All screens.  Each invariant speaks of its own screen only, so that a step *)
(* within a screen has to keep that one; and every screen is entered by the  *)
(* mounting of it, from the home page, where no call is under way.           *)
Parts == {"home", "post", "replies", "compose", "search", "history", "chat", "mail",
          "notes", "seats", "plans", "code", "profile", "campus", "board", "boards",
          "dict", "lists"}

Framed ==
  /\ client \in Clients /\ upset \in BOOLEAN
  /\ screen \in Parts
  /\ screen = "home" => calls = <<>>

FormsInv ==
  /\ PostInv /\ ReplyInv /\ ComposeInv
  /\ SeatsInv /\ PlanInv /\ PlansInv
  /\ CodeInv /\ ProfileInv /\ CampusInv

PagesInv ==
  /\ SearchInv /\ HistoryInv
  /\ ChatInv /\ MailInv /\ NotesInv
  /\ BoardInv /\ BoardsInv /\ DictInv /\ ListsInv

Inv == Framed /\ FormsInv /\ PagesInv

LEMMA PlanScreens ==
  ASSUME Inv, PlanNext
  PROVE  SeatsInv' /\ PlanInv' /\ PlansInv'
<1>1. screen \in {"seats", "plans"} /\ screen' \in {screen, "home"}
  BY PlanWithin DEF Inv, Framed, Within
<1>2. PlanInv'
  BY PlanNextInv DEF Inv, FormsInv
<1>3. SeatsInv'
  <2>1. CASE screen = "seats"
    BY <2>1, SeatsNextInv DEF Inv, FormsInv
  <2>2. CASE screen = "plans"
    BY <1>1, <2>2 DEF SeatsInv
  <2>3. QED
    BY <1>1, <2>1, <2>2
<1>4. PlansInv'
  <2>1. CASE screen' = "plans"
    BY <1>1, <1>2, <2>1, PlansNextInv DEF Inv, FormsInv, PlanInv
  <2>2. CASE screen' # "plans"
    BY <2>2 DEF PlansInv
  <2>3. QED
    BY <2>1, <2>2
<1>5. QED
  BY <1>2, <1>3, <1>4

LEMMA AccountScreens ==
  ASSUME Inv, AccountNext
  PROVE  CodeInv' /\ ProfileInv' /\ CampusInv'
<1>1. screen' \in {screen, "home"}
  BY AccountWithin DEF Inv, Framed, Within
<1>2. CASE ProfileNext
  BY <1>1, <1>2, ProfileNextInv DEF Inv, FormsInv, ProfileNext, CodeInv, CampusInv
<1>3. CASE CampusNext
  BY <1>1, <1>3, CampusNextInv DEF Inv, FormsInv, CampusNext, CodeInv, ProfileInv
<1>4. CASE CodeNext
  BY <1>1, <1>4, CodeNextInv DEF Inv, FormsInv, CodeNext, CampusInv, ProfileInv
<1>5. QED
  BY <1>2, <1>3, <1>4 DEF AccountNext

LEMMA SearchScreens ==
  ASSUME Inv, SearchNext
  PROVE  SearchInv' /\ HistoryInv'
<1>1. screen \in {"search", "history"} /\ screen' \in {screen, "home"}
  BY SearchWithin DEF Inv, Framed, Within
<1>2. CASE screen = "search"
  BY <1>1, <1>2, SearchNextInv DEF Inv, PagesInv, HistoryInv
<1>3. CASE screen = "history"
  BY <1>1, <1>3, HistoryNextInv DEF Inv, PagesInv, SearchInv
<1>4. QED
  BY <1>1, <1>2, <1>3

LEMMA BrowseScreens ==
  ASSUME Inv, BrowseNext
  PROVE  BoardInv' /\ BoardsInv' /\ DictInv' /\ ListsInv'
<1>1. screen \in {"board", "boards", "dict", "lists"} /\ screen' \in {screen, "home"}
  BY BrowseWithin DEF Inv, Framed, Within
<1>2. CASE screen = "board"
  BY <1>1, <1>2, BoardNextInv DEF Inv, PagesInv, BoardsInv, DictInv, ListsInv
<1>3. CASE screen = "boards"
  BY <1>1, <1>3, BoardsNextInv DEF Inv, PagesInv, BoardInv, DictInv, ListsInv
<1>4. CASE screen = "dict"
  BY <1>1, <1>4, DictNextInv DEF Inv, PagesInv, BoardInv, BoardsInv, ListsInv
<1>5. CASE screen = "lists"
  BY <1>1, <1>5, ListsNextInv DEF Inv, PagesInv, BoardInv, BoardsInv, DictInv
<1>6. QED
  BY <1>1, <1>2, <1>3, <1>4, <1>5

(* Leaving a screen, or staying on it, disturbs no other one. *)
LEMMA StaysFramed ==
  ASSUME Framed, NEW S \in SUBSET (Parts \ {"home"}), Within(S)
  PROVE  Framed'
BY DEF Framed, Within, Parts

LEMMA FormsStay ==
  ASSUME screen' \in {"home", "search", "history", "chat", "mail", "notes", "board",
                      "boards", "dict", "lists"}
  PROVE  FormsInv'
BY DEF FormsInv, PostInv, ReplyInv, ComposeInv, SeatsInv, PlanInv, PlansInv, CodeInv,
       ProfileInv, CampusInv

LEMMA PagesStay ==
  ASSUME screen' \in {"home", "post", "replies", "compose", "seats", "plans", "code",
                      "profile", "campus"}
  PROVE  PagesInv'
BY DEF PagesInv, SearchInv, HistoryInv, ChatInv, MailInv, NotesInv, BoardInv,
       BoardsInv, DictInv, ListsInv

LEMMA FormsStep ==
  ASSUME Inv, PostNext \/ ReplyNext \/ ComposeNext \/ PlanNext \/ AccountNext
  PROVE  Inv'
<1> USE DEF Inv
<1>1. CASE PostNext
  <2>1. Within({"post"})
    BY <1>1, PostWithin DEF Framed
  <2>2. FormsInv'
    BY <1>1, <2>1, PostNextInv
       DEF FormsInv, Within, ReplyInv, ComposeInv, SeatsInv, PlanInv, PlansInv,
           CodeInv, ProfileInv, CampusInv
  <2>3. QED
    BY <2>1, <2>2, StaysFramed, PagesStay DEF Within, Parts
<1>2. CASE ReplyNext
  <2>1. Within({"replies"})
    BY <1>2, ReplyWithin DEF Framed
  <2>2. FormsInv'
    BY <1>2, <2>1, ReplyNextInv
       DEF FormsInv, Within, PostInv, ComposeInv, SeatsInv, PlanInv, PlansInv,
           CodeInv, ProfileInv, CampusInv
  <2>3. QED
    BY <2>1, <2>2, StaysFramed, PagesStay DEF Within, Parts
<1>3. CASE ComposeNext
  <2>1. Within({"compose"})
    BY <1>3, ComposeWithin DEF Framed
  <2>2. FormsInv'
    BY <1>3, <2>1, ComposeNextInv
       DEF FormsInv, Within, PostInv, ReplyInv, SeatsInv, PlanInv, PlansInv, CodeInv,
           ProfileInv, CampusInv
  <2>3. QED
    BY <2>1, <2>2, StaysFramed, PagesStay DEF Within, Parts
<1>4. CASE PlanNext
  <2>1. Within({"seats", "plans"})
    BY <1>4, PlanWithin DEF Framed
  <2>2. FormsInv'
    BY <1>4, <2>1, PlanScreens
       DEF FormsInv, Within, PostInv, ReplyInv, ComposeInv, CodeInv, ProfileInv,
           CampusInv
  <2>3. QED
    BY <2>1, <2>2, StaysFramed, PagesStay DEF Within, Parts
<1>5. CASE AccountNext
  <2>1. Within({"profile", "campus", "code"})
    BY <1>5, AccountWithin DEF Framed
  <2>2. FormsInv'
    BY <1>5, <2>1, AccountScreens
       DEF FormsInv, Within, PostInv, ReplyInv, ComposeInv, SeatsInv, PlanInv,
           PlansInv
  <2>3. QED
    BY <2>1, <2>2, StaysFramed, PagesStay DEF Within, Parts
<1>6. QED
  BY <1>1, <1>2, <1>3, <1>4, <1>5

LEMMA PagesStep ==
  ASSUME Inv, SearchNext \/ ChatNext \/ MailNext \/ NotesNext \/ BrowseNext
  PROVE  Inv'
<1> USE DEF Inv
<1>1. CASE SearchNext
  <2>1. Within({"search", "history"})
    BY <1>1, SearchWithin DEF Framed
  <2>2. PagesInv'
    BY <1>1, <2>1, SearchScreens
       DEF PagesInv, Within, ChatInv, MailInv, NotesInv, BoardInv, BoardsInv,
           DictInv, ListsInv
  <2>3. QED
    BY <2>1, <2>2, StaysFramed, FormsStay DEF Within, Parts
<1>2. CASE ChatNext
  <2>1. Within({"chat"})
    BY <1>2, ChatWithin DEF Framed
  <2>2. PagesInv'
    BY <1>2, <2>1, ChatNextInv
       DEF PagesInv, Within, SearchInv, HistoryInv, MailInv, NotesInv, BoardInv,
           BoardsInv, DictInv, ListsInv
  <2>3. QED
    BY <2>1, <2>2, StaysFramed, FormsStay DEF Within, Parts
<1>3. CASE MailNext
  <2>1. Within({"mail"})
    BY <1>3, MailWithin DEF Framed
  <2>2. PagesInv'
    BY <1>3, <2>1, MailNextInv
       DEF PagesInv, Within, SearchInv, HistoryInv, ChatInv, NotesInv, BoardInv,
           BoardsInv, DictInv, ListsInv
  <2>3. QED
    BY <2>1, <2>2, StaysFramed, FormsStay DEF Within, Parts
<1>4. CASE NotesNext
  <2>1. Within({"notes"})
    BY <1>4, NotesWithin DEF Framed
  <2>2. PagesInv'
    BY <1>4, <2>1, NotesNextInv
       DEF PagesInv, Within, SearchInv, HistoryInv, ChatInv, MailInv, BoardInv,
           BoardsInv, DictInv, ListsInv
  <2>3. QED
    BY <2>1, <2>2, StaysFramed, FormsStay DEF Within, Parts
<1>5. CASE BrowseNext
  <2>1. Within({"board", "boards", "dict", "lists"})
    BY <1>5, BrowseWithin DEF Framed
  <2>2. PagesInv'
    BY <1>5, <2>1, BrowseScreens
       DEF PagesInv, Within, SearchInv, HistoryInv, ChatInv, MailInv, NotesInv
  <2>3. QED
    BY <2>1, <2>2, StaysFramed, FormsStay DEF Within, Parts
<1>6. QED
  BY <1>1, <1>2, <1>3, <1>4, <1>5

(* What is mounted: the invariant of its own screen. *)
LEMMA MountsOfForms ==
  ASSUME NEW m \in PostMounts \cup ReplyMounts \cup ComposeMounts \cup PlanMounts
                     \cup AccountMounts
  PROVE  /\ m.client \in Clients
         /\ m.screen \in {"post", "replies", "compose", "seats", "plans", "code", "profile",
                          "campus"}
         /\ Starts(m) => FormsInv
         /\ Opens(m) => FormsInv'
<1> DEFINE Mounted ==
      /\ m.client \in Clients
      /\ m.screen \in {"post", "replies", "compose", "seats", "plans", "code", "profile",
                       "campus"}
      /\ Starts(m) => FormsInv
      /\ Opens(m) => FormsInv'
<1>1. m \in Mounts
  BY DEF Mounts
<1>2. (Starts(m) => screen = m.screen) /\ (Opens(m) => screen' = m.screen)
  BY DEF Starts, Opens
<1> USE DEF FormsInv, PostInv, ReplyInv, ComposeInv, SeatsInv, PlanInv, PlansInv, CodeInv,
            ProfileInv, CampusInv
<1>3. CASE m \in PostMounts
  BY <1>2, <1>3, PostMounted
<1>4. CASE m \in ReplyMounts
  BY <1>2, <1>4, ReplyMounted
<1>5. CASE m \in ComposeMounts
  BY <1>2, <1>5, ComposeMounted
<1>6. CASE m \in PlanMounts /\ m.screen = "seats"
  BY <1>2, <1>6, SeatsMounted
<1>7. CASE m \in PlanMounts /\ m.screen = "plans"
  <2>1. m.db \in PlanDb
    BY <1>1, <1>7, PlanMountsHonest
  <2>2. (Starts(m) => PlanInv) /\ (Opens(m) => PlanInv')
    BY <1>1, <1>7, PlanMounted
  <2>3. QED
    BY <1>2, <1>7, <2>1, <2>2, PlansMounted
<1>8. m \in PlanMounts => m.screen \in {"seats", "plans"}
  BY DEF PlanMounts, Mount
<1>9. CASE m \in CodeMounts
  BY <1>2, <1>9, CodeMounted
<1>10. CASE m \in ProfileMounts
  BY <1>2, <1>10, ProfileMounted
<1>11. CASE m \in CampusMounts
  BY <1>2, <1>11, CampusMounted
<1>12. QED
  BY <1>3, <1>4, <1>5, <1>6, <1>7, <1>8, <1>9, <1>10, <1>11 DEF AccountMounts

LEMMA MountsOfPages ==
  ASSUME NEW m \in SearchMounts \cup HistoryMounts \cup ChatMounts \cup MailMounts
                     \cup NoteMounts \cup BrowseMounts
  PROVE  /\ m.client \in Clients
         /\ m.screen \in {"search", "history", "chat", "mail", "notes", "board", "boards",
                          "dict", "lists"}
         /\ Starts(m) => PagesInv
         /\ Opens(m) => PagesInv'
<1>1. (Starts(m) => screen = m.screen) /\ (Opens(m) => screen' = m.screen)
  BY DEF Starts, Opens
<1> USE DEF PagesInv, SearchInv, HistoryInv, ChatInv, MailInv, NotesInv, BoardInv,
            BoardsInv, DictInv, ListsInv
<1>2. CASE m \in SearchMounts
  BY <1>1, <1>2, SearchMounted
<1>3. CASE m \in HistoryMounts
  BY <1>1, <1>3, HistoryMounted
<1>4. CASE m \in ChatMounts
  BY <1>1, <1>4, ChatMounted
<1>5. CASE m \in MailMounts
  BY <1>1, <1>5, MailMounted
<1>6. CASE m \in NoteMounts
  BY <1>1, <1>6, NotesMounted
<1>7. CASE m \in BrowseMounts
  <2>1. m.screen \in {"board", "boards", "dict", "lists"}
    BY <1>7, BrowseMountsAre
  <2>2. CASE m.screen = "board"
    BY <1>1, <1>7, <2>2, BoardMounted
  <2>3. CASE m.screen = "boards"
    BY <1>1, <1>7, <2>3, BoardsMounted
  <2>4. CASE m.screen = "dict"
    BY <1>1, <1>7, <2>4, DictMounted
  <2>5. CASE m.screen = "lists"
    BY <1>1, <1>7, <2>5, ListsMounted
  <2>6. QED
    BY <2>1, <2>2, <2>3, <2>4, <2>5
<1>8. QED
  BY <1>2, <1>3, <1>4, <1>5, <1>6, <1>7

LEMMA MountedInv ==
  ASSUME NEW m \in Mounts
  PROVE  (Starts(m) => Inv) /\ (Opens(m) => Inv')
<1>1. (Starts(m) => client = m.client /\ screen = m.screen /\ upset = FALSE)
  BY DEF Starts
<1>2. (Opens(m) => client' = m.client /\ screen' = m.screen /\ upset' = FALSE)
  BY DEF Opens
<1>3. CASE m \in PostMounts \cup ReplyMounts \cup ComposeMounts \cup PlanMounts
                 \cup AccountMounts
  <2>1. Starts(m) => PagesInv
    BY <1>1, <1>3, MountsOfForms
       DEF PagesInv, SearchInv, HistoryInv, ChatInv, MailInv, NotesInv, BoardInv,
           BoardsInv, DictInv, ListsInv
  <2>2. Opens(m) => PagesInv'
    BY <1>2, <1>3, MountsOfForms, PagesStay
  <2>3. QED
    BY <1>1, <1>2, <1>3, <2>1, <2>2, MountsOfForms DEF Inv, Framed, Parts
<1>4. CASE m \in SearchMounts \cup HistoryMounts \cup ChatMounts \cup MailMounts
                 \cup NoteMounts \cup BrowseMounts
  <2>1. Starts(m) => FormsInv
    BY <1>1, <1>4, MountsOfPages
       DEF FormsInv, PostInv, ReplyInv, ComposeInv, SeatsInv, PlanInv, PlansInv,
           CodeInv, ProfileInv, CampusInv
  <2>2. Opens(m) => FormsInv'
    BY <1>2, <1>4, MountsOfPages, FormsStay
  <2>3. QED
    BY <1>1, <1>2, <1>4, <2>1, <2>2, MountsOfPages DEF Inv, Framed, Parts
<1>5. QED
  BY <1>3, <1>4 DEF Mounts

LEMMA NothingHappens ==
  ASSUME Inv, UNCHANGED vars
  PROVE  Inv'
<1> USE DEF Inv
<1>1. Framed'
  BY DEF vars, Framed
<1>2. FormsInv'
  BY PostKept, ReplyKept, ComposeKept, SeatsKept, PlanKept, PlansKept, CodeKept,
     ProfileKept, CampusKept
     DEF FormsInv
<1>3. PagesInv'
  BY SearchKept, HistoryKept, ChatKept, MailKept, NotesKept, BoardKept, BoardsKept,
     DictKept, ListsKept
     DEF PagesInv
<1>4. QED
  BY <1>1, <1>2, <1>3

LEMMA InitInv == Init => Inv
BY MountedInv DEF Init

LEMMA NextInv == Inv /\ [Next]_vars => Inv'
<1> SUFFICES ASSUME Inv, [Next]_vars PROVE Inv'
  OBVIOUS
<1>1. CASE OpenScreen
  BY <1>1, MountedInv DEF OpenScreen
<1>2. CASE UNCHANGED vars
  BY <1>2, NothingHappens
<1>3. QED
  BY <1>1, <1>2, FormsStep, PagesStep DEF Next

LEMMA Invariance == Spec => []Inv
BY InitInv, NextInv, PTL DEF Spec

-----------------------------------------------------------------------------
(* What the invariants say of the types. *)
LEMMA PostTypes == PostInv => PostTypeOK
<1> SUFFICES ASSUME PostTyped PROVE PostTypeOK
  BY DEF PostInv, PostTypeOK
<1>1. ui \in PostUi /\ db \in PostDb /\ calls \in Seq(PostCall)
  BY DEF PostTyped
<1>2. \A i \in DOMAIN calls : calls[i] \in PostCall
  BY <1>1
<1>3. QED
  BY <1>1, <1>2 DEF PostTypeOK, PostUi, PostDb, PostCall, CallOf

LEMMA ReplyTypes == ReplyInv => ReplyTypeOK
BY DEF ReplyInv, ReplyTyped, ReplyTypeOK, ReplyUi, ReplyDb

LEMMA ComposeTypes == ComposeInv => ComposeTypeOK
BY DEF ComposeInv, ComposeTyped, ComposeTypeOK, ComposeUi, ComposeDb

LEMMA SearchTypes == SearchInv /\ HistoryInv => SearchTypeOK
BY DEF SearchInv, SearchTyped, SearchUi, HistoryInv, HistoryTyped, HistoryUi,
       HistoryDb, SearchTypeOK

LEMMA InboxTypes == ChatInv /\ MailInv /\ NotesInv => InboxTypeOK
BY DEF ChatInv, ChatTyped, ChatUi, ChatDb, MailInv, MailTyped, MailUi, MailDb,
       NotesInv, NotesTyped, NotesUi, NotesDb, InboxTypeOK

LEMMA PlanTypes == SeatsInv /\ PlansInv => PlanTypeOK
<1> SUFFICES ASSUME SeatsInv, PlansInv, screen \in {"seats", "plans"} PROVE PlanTypeOK
  BY DEF PlanTypeOK
<1>1. db \in PlanDb
  BY DEF SeatsInv, SeatsTyped, PlansInv, PlansTyped
<1>2. screen = "seats" => ui \in SeatsUi
  BY DEF SeatsInv, SeatsTyped
<1>3. screen = "plans" => ui.deleting \subseteq Plans
  BY DEF PlansInv, PlansTyped, PlansUi
<1>4. PlanLists \subseteq {None, PlansOf(db)} \cup UNION {[S -> Statuses] : S \in SUBSET Plans}
  BY DEF PlanLists
<1>5. screen = "seats" =>
        ui \in [building : Buildings \cup {None}, rooms : Buildings \cup {None},
                room : Rooms \cup {None}, seats : SeatList \cup {None},
                seat : SeatList \cup {None}, date : Dates, turning : BOOLEAN,
                sending : BOOLEAN, loaded : BOOLEAN, plans : {None, PlansOf(db)}
                \cup UNION {[S -> Statuses] : S \in SUBSET Plans}]
  BY <1>2, <1>4 DEF SeatsUi
<1>6. QED
  BY <1>1, <1>3, <1>5 DEF PlanTypeOK, PlanDb, Run

LEMMA AccountTypes == ProfileInv /\ CampusInv /\ CodeInv => AccountTypeOK
BY DEF ProfileInv, ProfileTyped, ProfileUi, CampusInv, CampusTyped, CampusUi,
       CodeInv, CodeTyped, CodeUi, CodeDb, AccountTypeOK

LEMMA BrowseTypes == BoardInv /\ BoardsInv /\ DictInv /\ ListsInv => BrowseTypeOK
BY
   DEF BoardInv, BoardTyped, BoardUi, BoardsInv, BoardsTyped, BoardsUi, DictInv,
       DictTyped,
       DictUi, ListsInv, ListsTyped, ListsUi, BrowseTypeOK

LEMMA CallsBounded == Inv => Len(calls) <= 2 * MaxCalls
<1> SUFFICES ASSUME Inv PROVE Len(calls) <= 2 * MaxCalls
  OBVIOUS
<1>0. 0 <= 2 * MaxCalls /\ 1 <= 2 * MaxCalls
  BY ScreenAssumption
<1> USE ScreenAssumption DEF Inv, FormsInv, PagesInv
<1>1. screen \in Parts
  BY DEF Framed
<1>2. CASE screen \in {"post", "replies", "compose", "seats"}
  BY <1>2
     DEF PostInv, PostTyped, ReplyInv, ReplyTyped, ComposeInv, ComposeTyped,
         SeatsInv, SeatsTyped
<1>3. CASE screen \in {"plans", "code", "profile", "campus"}
  BY <1>3
     DEF PlansInv, PlansTyped, CodeInv, CodeTyped, ProfileInv, ProfileTyped,
         CampusInv, CampusTyped
<1>4. CASE screen \in {"search", "lists"}
  <2>1. Len(calls) = 1 \/ Len(calls) = 0
    BY <1>4 DEF SearchInv, SearchTyped, ListsInv, ListsTyped
  <2>2. QED
    BY <1>0, <2>1, Zenon
<1>5. CASE screen \in {"history", "chat", "mail", "notes"}
  BY <1>5
     DEF HistoryInv, HistoryTyped, ChatInv, ChatTyped, MailInv, MailTyped, NotesInv,
         NotesTyped
<1>6. CASE screen \in {"board", "boards", "dict"}
  BY <1>6 DEF BoardInv, BoardTyped, BoardsInv, BoardsTyped, DictInv, DictTyped
<1>7. CASE screen = "home"
  BY <1>7 DEF Framed
<1>8. QED
  BY <1>1, <1>2, <1>3, <1>4, <1>5, <1>6, <1>7 DEF Parts

(* The local state of every screen, what it shows of the server, and its calls *)
(* keep their types.                                                       *)
THEOREM ScreenTypes == Spec => []TypeOK
<1>1. Inv => TypeOK
  BY CallsBounded, PostTypes, ReplyTypes, ComposeTypes, SearchTypes, InboxTypes,
     PlanTypes, AccountTypes, BrowseTypes
     DEF Inv, Framed, FormsInv, PagesInv, TypeOK
<1>2. QED
  BY <1>1, Invariance, PTL

-----------------------------------------------------------------------------
(* With nothing under way the invariants say what the screens promise. *)
LEMMA PostAgrees == PostInv => ShownIsServers
<1> SUFFICES ASSUME PostInv, screen = "post", calls = <<>>, ~upset, ui.post # None
             PROVE  ui.post = Current(db, ui.id) /\ ui.id \notin db.gone
  BY DEF ShownIsServers
<1>1. /\ ui \in PostUi /\ db \in PostDb /\ ShowsIt
      /\ ~UnderWay("get") /\ ~Answered("like") /\ ~Answered("fav") /\ ~Answered("delete")
  BY DEF PostInv, PostTyped, PostTidy, UnderWay, Answered
<1>2. /\ ui.post \in Post /\ ui.post.of = ui.id /\ ui.id \in Posts
      /\ ui.post.count = OtherLikes + (IF ui.post.like THEN 1 ELSE 0)
      /\ ui.post.like <=> ui.id \in db.like
      /\ ui.post.fav <=> ui.id \in db.fav
      /\ ui.id \notin db.gone
  BY <1>1 DEF ShowsIt, LikeFollows, FavFollows, PostUi
<1>3. /\ Current(db, ui.id) \in Post
      /\ Current(db, ui.id).like <=> ui.id \in db.like
      /\ Current(db, ui.id).fav <=> ui.id \in db.fav
      /\ Current(db, ui.id).of = ui.id
      /\ Current(db, ui.id).count =
           OtherLikes + (IF Current(db, ui.id).like THEN 1 ELSE 0)
  BY <1>1, <1>2, CurrentTyped
<1>4. \A p, q \in Post :
        (/\ p.of = q.of /\ p.count = q.count
         /\ (p.like <=> q.like) /\ (p.fav <=> q.fav)) => p = q
  BY DEF Post
<1>5. QED
  BY <1>2, <1>3, <1>4

LEMMA RepliesAgree == ReplyInv => RepliesAreShown
<1> SUFFICES ASSUME ReplyInv, screen = "replies", calls = <<>>, ~upset
             PROVE  /\ ui.list = db.floors
                    /\ ui.open \subseteq ui.kids
                    /\ ui.count = Cardinality(db.floors)
  BY DEF RepliesAreShown
<1>1. ReplyTyped /\ CountKept /\ ListKept /\ ui.open \subseteq ui.kids
  BY DEF ReplyInv, ReplyTidy
<1>2. ~News /\ ~UnderWay("page")
  BY DEF News, UnderWay
<1>3. ui.count \in Nat
  BY <1>1 DEF ReplyTyped, ReplyUi
<1>4. QED
  BY <1>1, <1>2, <1>3 DEF CountKept, ListKept

LEMMA ResultsAgree == SearchInv => ResultsMatchQuery
BY DEF SearchInv, SearchTidy, Gathered, ResultsMatchQuery

LEMMA PlansAgree == PlansInv => PlansAreShown
BY DEF PlansInv, PlansTidy, CardsKept, PlansAreShown

LEMMA AccountAgrees == ProfileInv /\ CampusInv => AccountIsShown
BY
   DEF ProfileInv, ProfileTidy, ShownOrComing, CampusInv, CampusTidy, BarKept,
       AccountIsShown

(* With nothing under way each screen shows what the server has, put together *)
(* from the answers to calls of several kinds, which came in any order: for  *)
(* any number of posts, floors, plans, notifications, boards and calls.      *)
THEOREM ShowsWhatThereIs == Spec => []ScreensAgree
<1>1. Inv => ScreensAgree
  BY PostAgrees, RepliesAgree, ResultsAgree, NotesExact, MailCounted, PlansAgree,
     AccountAgrees, BoardAgrees, BoardsFollow, DictMatches, ListsFresh
     DEF Inv, FormsInv, PagesInv, ScreensAgree
<1>2. QED
  BY <1>1, Invariance, PTL

LEMMA ComposeSends == ComposeInv => EditsWhatWasLoaded /\ TagsAreTheBoards /\ PublishedOnce
BY DEF ComposeInv, ComposeTidy, FilledFirst, TagsFit, SentOnce, EditsWhatWasLoaded,
       TagsAreTheBoards, PublishedOnce

LEMMA SeatsSend == SeatsInv => SeatIsOffered
BY DEF SeatsInv, SeatsTidy, Offered, Here, SeatIsOffered

LEMMA CodesSend == CodeInv => CooldownIsCounted
BY DEF CodeInv, CodeTidy, Cooling, CooldownIsCounted

(* The forms send what their user chose from what he was offered, in whatever *)
(* order tags, rooms, seats and the post come: an edit has been filled with  *)
(* its post, tags are those of the board, one visit publishes one post, a    *)
(* seat is of the room and the day, and a code is asked for when it is given. *)
THEOREM SendsWhatWasChosen == Spec => []SentAsChosen
<1>1. Inv => SentAsChosen
  BY ComposeSends, SeatsSend, CodesSend DEF Inv, FormsInv, SentAsChosen
<1>2. QED
  BY <1>1, Invariance, PTL

LEMMA HistoryOrdered == HistoryInv => HistoryIsRecent
BY DEF HistoryInv, HistoryTidy, HistoryIsRecent

(* A conversation shows its messages in the order they were sent, each once,  *)
(* and a history the terms in the order they were last searched for, however *)
(* polls, answers and the reading of what is stored overtake each other.     *)
THEOREM OrdersStay == Spec => []OrdersAreKept
<1>1. Inv => OrdersAreKept
  BY ChatOrdered, HistoryOrdered DEF Inv, PagesInv, OrdersAreKept
<1>2. QED
  BY <1>1, Invariance, PTL

(* A plan that was carried out says whether its seat is booked, unless it    *)
(* was run twice: for any number of plans and of runs of RunDueBookings that *)
(* are under way at once, and plans deleted under them.                     *)
THEOREM BookingsTold == Spec => []BookingsAreRecorded
<1>1. Inv => BookingsAreRecorded
  BY DEF Inv, FormsInv, PlanInv, Honest, Told, BookingsAreRecorded
<1>2. QED
  BY <1>1, Invariance, PTL

-----------------------------------------------------------------------------
(* The buttons of the page send calls about the post that is shown: there are *)
(* none while another one is loaded.                                       *)
LEMMA ButtonStep ==
  ASSUME PostInv, PostNext, screen' = "post", Len(calls') > Len(calls),
         Last(calls').kind # "get", ~upset
  PROVE  Last(calls').of = ui.post.of
<1> USE PostCallFields, ScreenAssumption
<1>1. screen = "post" /\ PostTyped /\ PostTidy
  BY DEF PostInv, PostNext
<1>2. ui.id \in Posts /\ calls \in Seq(PostCall)
  BY <1>1 DEF PostTyped, PostUi
<1>3. ASSUME NEW k, k \in Buttons, Send(Call(k, ui.id))
      PROVE  Last(calls').of = ui.post.of
  <2>1. Last(calls') = Call(k, ui.id)
    BY <1>2, <1>3 DEF Send, Last
  <2>2. ui.post.of = ui.id
    BY <1>1, <1>3, ButtonsOfThePost
  <2>3. QED
    BY <2>1, <2>2 DEF Call
<1>4. CASE (\E kind \in Toggles : Toggle(kind)) \/ Report \/ Delete
  BY <1>3, <1>4 DEF Toggle, Report, Delete
<1>5. ASSUME NEW p \in Posts, OpenPost(p)
      PROVE  FALSE
  <2>1. Last(calls') = Call("get", p)
    BY <1>2, <1>5 DEF OpenPost, Send, Last
  <2>2. QED
    BY <2>1 DEF Call
<1>6. ASSUME NEW i \in DOMAIN calls, Serve(i)
      PROVE  FALSE
  BY <1>2, <1>6 DEF Serve, Served
<1>7. ASSUME NEW i \in DOMAIN calls, Answer(i) \/ Miss(i)
      PROVE  FALSE
  <2>1. Shrinks(i)
    BY <1>2, <1>7, Ended DEF Answer, Miss
  <2>2. QED
    BY <1>1, <2>1 DEF Shrinks
<1>8. ASSUME NEW i \in DOMAIN calls, Deleted(i)
      PROVE  FALSE
  BY <1>8 DEF Deleted, Opens, Home, Mount
<1>9. QED
  BY <1>4, <1>5, <1>6, <1>7, <1>8 DEF PostNext, AppPost, WebPost, PostAnswers

(* A step of the screen a property is about is a step of its own actions. *)
LEMMA StepsAreOwn ==
  ASSUME Inv, Next, screen # "home"
  PROVE  /\ screen = "post" => PostNext
         /\ screen = "replies" => ReplyNext
         /\ screen = "profile" => ProfileNext
<1>1. upset \in BOOLEAN
  BY DEF Inv, Framed
<1>2. screen \in {"post", "replies", "profile"} =>
        ~(ComposeNext \/ SearchNext \/ ChatNext \/ MailNext \/ NotesNext \/ PlanNext
          \/ BrowseNext \/ OpenScreen)
  BY <1>1, ComposeWithin, SearchWithin, ChatWithin, MailWithin, NotesWithin,
     PlanWithin, BrowseWithin
     DEF Within, OpenScreen
<1>3. QED
  BY <1>2 DEF Next, PostNext, ReplyNext, AccountNext, ProfileNext, CampusNext, CodeNext

(* A click likes, reports or deletes the post it is made on, though the calls *)
(* name the id of the address, which runs ahead of the post that is shown.   *)
THEOREM ClicksHitThePost == Spec => ActsOnWhatIsShown
<1> DEFINE Step ==
      (screen = "post" /\ screen' = "post" /\ Len(calls') > Len(calls)
       /\ Last(calls').kind # "get" /\ ~upset)
      => Last(calls').of = ui.post.of
<1>1. Inv /\ [Next]_vars => [Step]_vars
  <2> SUFFICES ASSUME Inv, Next PROVE Step
    OBVIOUS
  <2>1. QED
    BY StepsAreOwn, ButtonStep DEF Inv, FormsInv
<1>2. QED
  BY <1>1, InitInv, NextInv, PTL DEF Spec, ActsOnWhatIsShown

(* What was typed leaves a reply's box, or the form of the profile, only when *)
(* the server has stored it.                                               *)
THEOREM NothingTypedIsLost == Spec => TypedIsStored
<1> DEFINE Draft ==
      (screen = "replies" /\ screen' = "replies" /\ ui.draft # None
       /\ ui'.draft = None /\ ~upset)
      => ui.draft \in db.stored
    Form ==
      (screen = "profile" /\ screen' = "profile" /\ ui.dialog = "edit"
       /\ ui'.dialog # "edit" /\ Len(calls') < Len(calls) /\ ~upset' /\ ui.form # None)
      => ui.form = db.bio
<1>1. Inv /\ [Next]_vars => [Draft]_vars
  <2> SUFFICES ASSUME Inv, Next PROVE Draft
    OBVIOUS
  <2>1. QED
    BY StepsAreOwn, DraftStep DEF Inv, FormsInv
<1>2. Inv /\ [Next]_vars => [Form]_vars
  <2> SUFFICES ASSUME Inv, Next PROVE Form
    OBVIOUS
  <2>1. QED
    BY StepsAreOwn, FormStep DEF Inv, FormsInv
<1>3. QED
  BY <1>1, <1>2, InitInv, NextInv, PTL
     DEF Spec, TypedIsStored, DraftIsStored, FormIsStored
===============================================================================
