-------------------------- MODULE ScreenForms_proofs --------------------------
(***************************************************************************)
(* Proofs about the screens that send what their user typed or chose: the    *)
(* page of a post, its replies, the forms of posts and plans, codes, the     *)
(* profile, the university account, and the job that books plans.           *)
(*                                                                         *)
(* What the screens promise holds when nothing is under way, which is not    *)
(* inductive: for each screen an invariant XInv says what its local state,   *)
(* the server and the calls under way have to do with each other meanwhile. *)
(* It has a part XTyped that always holds, and a part XTidy that holds until *)
(* calls cross.  A lemma XNextInv says that the steps of the screen keep it, *)
(* XMounted that it holds as the screen is mounted, and XKept that it holds *)
(* if nothing happens.  Screens_proofs puts them together.                  *)
(***************************************************************************)
EXTENDS Screens, FiniteSetTheorems, TLAPS

-----------------------------------------------------------------------------
(* What becomes of the calls of a screen.  A call that ends closes the gap:   *)
(* place j of the calls left was place Before(i, j).                        *)
Before(i, j) == IF j < i THEN j ELSE j + 1

LEMMA Removed ==
  ASSUME NEW S, NEW cs \in Seq(S), NEW i \in DOMAIN cs
  PROVE  /\ RemoveAt(cs, i) \in Seq(S)
         /\ Len(RemoveAt(cs, i)) = Len(cs) - 1
         /\ \A j \in DOMAIN RemoveAt(cs, i) :
              /\ Before(i, j) \in DOMAIN cs /\ Before(i, j) # i
              /\ RemoveAt(cs, i)[j] = cs[Before(i, j)]
         /\ \A j, k \in DOMAIN RemoveAt(cs, i) :
              Before(i, j) = Before(i, k) => j = k
         /\ \A l \in DOMAIN cs \ {i} : \E j \in DOMAIN RemoveAt(cs, i) :
              Before(i, j) = l /\ RemoveAt(cs, i)[j] = cs[l]
<1> DEFINE low == SubSeq(cs, 1, i - 1)
           high == SubSeq(cs, i + 1, Len(cs))
<1>1. Len(cs) \in Nat /\ i \in 1 .. Len(cs)
  OBVIOUS
<1>2. /\ low \in Seq(S) /\ Len(low) = i - 1
      /\ \A j \in 1 .. i - 1 : low[j] = cs[j]
  BY <1>1
<1>3. /\ high \in Seq(S) /\ Len(high) = Len(cs) - i
      /\ \A j \in 1 .. Len(cs) - i : high[j] = cs[i + j]
  BY <1>1
<1>4. RemoveAt(cs, i) = low \o high
  BY DEF RemoveAt
<1> HIDE DEF low, high
<1>5. /\ low \o high \in Seq(S) /\ Len(low \o high) = Len(cs) - 1
      /\ \A j \in 1 .. Len(cs) - 1 :
           (low \o high)[j] = IF j < i THEN cs[j] ELSE cs[j + 1]
  BY <1>1, <1>2, <1>3
<1>6. DOMAIN RemoveAt(cs, i) = 1 .. Len(cs) - 1
  BY <1>4, <1>5
<1>7. \A j \in 1 .. Len(cs) - 1 :
        /\ Before(i, j) \in DOMAIN cs /\ Before(i, j) # i
        /\ (low \o high)[j] = cs[Before(i, j)]
  BY <1>1, <1>5 DEF Before
<1>8. \A j, k \in 1 .. Len(cs) - 1 : Before(i, j) = Before(i, k) => j = k
  BY <1>1 DEF Before
<1>9. \A l \in DOMAIN cs \ {i} : \E j \in 1 .. Len(cs) - 1 : Before(i, j) = l
  <2> SUFFICES ASSUME NEW l \in 1 .. Len(cs), l # i
               PROVE  \E j \in 1 .. Len(cs) - 1 : Before(i, j) = l
    BY <1>1
  <2>1. CASE l < i
    BY <1>1, <2>1 DEF Before
  <2>2. CASE l > i
    <3>1. l - 1 \in 1 .. Len(cs) - 1 /\ Before(i, l - 1) = l
      BY <1>1, <2>2 DEF Before
    <3>2. QED
      BY <3>1
  <2>3. QED
    BY <1>1, <2>1, <2>2
<1>10. QED
  BY <1>4, <1>5, <1>6, <1>7, <1>8, <1>9

(* A call more, call k; a call less, call i; and call i answered with a. *)
Grows(k) ==
  /\ Len(calls') = Len(calls) + 1 /\ Len(calls') \in DOMAIN calls'
  /\ calls'[Len(calls')] = k
  /\ \A j \in DOMAIN calls : j \in DOMAIN calls' /\ calls'[j] = calls[j]
  /\ \A j \in DOMAIN calls' : j # Len(calls') => j \in DOMAIN calls /\ calls'[j] = calls[j]

Shrinks(i) ==
  /\ Len(calls') = Len(calls) - 1
  /\ \A j \in DOMAIN calls' :
       /\ Before(i, j) \in DOMAIN calls /\ Before(i, j) # i
       /\ calls'[j] = calls[Before(i, j)]
  /\ \A j, k \in DOMAIN calls' : Before(i, j) = Before(i, k) => j = k
  /\ \A l \in DOMAIN calls \ {i} : \E j \in DOMAIN calls' :
       Before(i, j) = l /\ calls'[j] = calls[l]

Replies(i, a) ==
  /\ Len(calls') = Len(calls) /\ DOMAIN calls' = DOMAIN calls
  /\ \A j \in DOMAIN calls :
       /\ calls'[j].kind = calls[j].kind
       /\ calls'[j].of = calls[j].of
       /\ calls'[j].ans = IF j = i THEN a ELSE calls[j].ans

(* Call i is over, and k is sent for it. *)
Swaps(i, k) ==
  /\ Len(calls') = Len(calls) /\ Len(calls') \in DOMAIN calls'
  /\ calls'[Len(calls')] = k
  /\ \A j \in DOMAIN calls' : j # Len(calls') =>
       /\ Before(i, j) \in DOMAIN calls /\ Before(i, j) # i
       /\ calls'[j] = calls[Before(i, j)]
  /\ \A j, l \in DOMAIN calls' :
       (Before(i, j) = Before(i, l) /\ j # Len(calls') /\ l # Len(calls')) => j = l
  /\ \A l \in DOMAIN calls \ {i} : \E j \in DOMAIN calls' :
       j # Len(calls') /\ Before(i, j) = l /\ calls'[j] = calls[l]

LEMMA Ended ==
  ASSUME NEW S, calls \in Seq(S), NEW i \in DOMAIN calls, Ends(i)
  PROVE  calls' \in Seq(S) /\ Shrinks(i)
BY Removed DEF Ends, Shrinks

LEMMA Sent ==
  ASSUME NEW S, calls \in Seq(S), NEW k \in S, calls' = Append(calls, k)
  PROVE  calls' \in Seq(S) /\ Grows(k)
BY DEF Grows

LEMMA Swapped ==
  ASSUME NEW S, calls \in Seq(S), NEW i \in DOMAIN calls, NEW k \in S,
         calls' = Append(RemoveAt(calls, i), k)
  PROVE  calls' \in Seq(S) /\ Swaps(i, k)
<1> DEFINE cs == RemoveAt(calls, i)
<1>1. /\ cs \in Seq(S) /\ Len(cs) = Len(calls) - 1
      /\ \A j \in DOMAIN cs :
           /\ Before(i, j) \in DOMAIN calls /\ Before(i, j) # i
           /\ cs[j] = calls[Before(i, j)]
      /\ \A j, l \in DOMAIN cs : Before(i, j) = Before(i, l) => j = l
      /\ \A l \in DOMAIN calls \ {i} : \E j \in DOMAIN cs :
           Before(i, j) = l /\ cs[j] = calls[l]
  BY Removed
<1> HIDE DEF cs
<1>2. /\ calls' \in Seq(S) /\ Len(calls') = Len(cs) + 1
      /\ calls'[Len(calls')] = k /\ DOMAIN calls' = 1 .. Len(cs) + 1
      /\ DOMAIN cs = 1 .. Len(cs)
      /\ \A j \in DOMAIN cs : calls'[j] = cs[j]
  BY <1>1 DEF cs
<1>3. Len(cs) \in Nat
  BY <1>1
<1>4. Len(calls') = Len(calls) /\ Len(calls') \in DOMAIN calls'
  BY <1>1, <1>2, <1>3
<1>5. \A j \in DOMAIN calls' : j # Len(calls') => j \in DOMAIN cs
  BY <1>2, <1>3
<1>6. \A j \in DOMAIN cs : j \in DOMAIN calls' /\ j # Len(calls')
  BY <1>2, <1>3
<1>7. QED
  BY <1>1, <1>2, <1>4, <1>5, <1>6 DEF Swaps

LEMMA Replaced ==
  ASSUME NEW S, NEW cs \in Seq(S), NEW i \in DOMAIN cs, NEW e \in S
  PROVE  /\ [cs EXCEPT ![i] = e] \in Seq(S)
         /\ Len([cs EXCEPT ![i] = e]) = Len(cs)
         /\ DOMAIN [cs EXCEPT ![i] = e] = DOMAIN cs
         /\ \A j \in DOMAIN cs :
              [cs EXCEPT ![i] = e][j] = IF j = i THEN e ELSE cs[j]
OBVIOUS

(* The calls of a screen: their kinds, what they are about, their answers.    *)
CallOf(K, O, A) == [kind : K, of : O, ans : A]

LEMMA Replied ==
  ASSUME NEW K, NEW O, NEW A, calls \in Seq(CallOf(K, O, A)),
         NEW i \in DOMAIN calls, NEW a \in A, Served(i, a)
  PROVE  calls' \in Seq(CallOf(K, O, A)) /\ Replies(i, a)
<1> DEFINE new == [calls[i] EXCEPT !.ans = a]
<1>1. calls[i] \in CallOf(K, O, A)
  OBVIOUS
<1>2. /\ new \in CallOf(K, O, A)
      /\ new.kind = calls[i].kind /\ new.of = calls[i].of /\ new.ans = a
  BY <1>1 DEF CallOf
<1>3. calls' = [calls EXCEPT ![i] = new]
  BY DEF Served
<1> HIDE DEF new
<1>4. /\ calls' \in Seq(CallOf(K, O, A))
      /\ Len(calls') = Len(calls) /\ DOMAIN calls' = DOMAIN calls
      /\ \A j \in DOMAIN calls : calls'[j] = IF j = i THEN new ELSE calls[j]
  BY <1>2, <1>3, Replaced
<1>5. QED
  BY <1>2, <1>4 DEF Replies

LEMMA Fields ==
  ASSUME NEW K, NEW O, NEW A
  PROVE  /\ \A cs \in Seq(CallOf(K, O, A)) : \A i \in DOMAIN cs :
              cs[i].kind \in K /\ cs[i].of \in O /\ cs[i].ans \in A
         /\ \A k \in K, o \in O : None \in A => Call(k, o) \in CallOf(K, O, A)
         /\ <<>> \in Seq(CallOf(K, O, A))
<1>1. \A cs \in Seq(CallOf(K, O, A)) : \A i \in DOMAIN cs : cs[i] \in CallOf(K, O, A)
  OBVIOUS
<1>2. \A c \in CallOf(K, O, A) : c.kind \in K /\ c.of \in O /\ c.ans \in A
  BY DEF CallOf
<1>3. \A cs \in Seq(CallOf(K, O, A)) : \A i \in DOMAIN cs :
         cs[i].kind \in K /\ cs[i].of \in O /\ cs[i].ans \in A
  BY <1>1, <1>2
<1>4. \A k \in K, o \in O : None \in A => Call(k, o) \in CallOf(K, O, A)
  BY DEF CallOf, Call
<1>5. <<>> \in Seq(CallOf(K, O, A))
  OBVIOUS
<1>6. QED
  BY <1>3, <1>4, <1>5

-----------------------------------------------------------------------------

LEMMA Followed ==
  ASSUME NEW S, NEW s \in Seq(S), NEW x \in S
  PROVE  /\ s \o <<x>> = Append(s, x)
         /\ s \o <<x>> \o <<>> = Append(s, x)
OBVIOUS

LEMMA Longer ==
  ASSUME NEW S, NEW s \in Seq(S), NEW x \in S
  PROVE  /\ Append(s, x) \in Seq(S) /\ Len(Append(s, x)) = Len(s) + 1
         /\ Append(s, x)[Len(s) + 1] = x
         /\ \A j \in DOMAIN s : j \in DOMAIN Append(s, x) /\ Append(s, x)[j] = s[j]
OBVIOUS

(* Two calls more, a and then b. *)
LEMMA BothSent ==
  ASSUME NEW S, calls \in Seq(S), NEW a \in S, NEW b \in S,
         calls' = Append(Append(calls, a), b)
  PROVE  /\ calls' \in Seq(S) /\ Len(calls') = Len(calls) + 2
         /\ Len(calls) + 1 \in DOMAIN calls' /\ calls'[Len(calls) + 1] = a
         /\ Len(calls) + 2 \in DOMAIN calls' /\ calls'[Len(calls) + 2] = b
         /\ \A j \in DOMAIN calls : j \in DOMAIN calls' /\ calls'[j] = calls[j]
         /\ \A j \in DOMAIN calls' : \/ j \in DOMAIN calls /\ calls'[j] = calls[j]
                                     \/ j = Len(calls) + 1 /\ calls'[j] = a
                                     \/ j = Len(calls) + 2 /\ calls'[j] = b
<1>1. Len(calls) \in Nat /\ DOMAIN calls = 1 .. Len(calls)
  OBVIOUS
<1> DEFINE one == Append(calls, a)
<1>2. /\ one \in Seq(S) /\ Len(one) = Len(calls) + 1 /\ one[Len(calls) + 1] = a
      /\ DOMAIN one = 1 .. Len(calls) + 1
      /\ \A j \in DOMAIN calls : one[j] = calls[j]
  BY <1>1
<1> HIDE DEF one
<1>3. calls' = Append(one, b)
  BY DEF one
<1>4. calls' \in Seq(S) /\ Len(calls') = Len(one) + 1
  BY <1>2, <1>3
<1>5. calls'[Len(one) + 1] = b /\ DOMAIN calls' = 1 .. Len(one) + 1
  BY <1>2, <1>3
<1>6. \A j \in DOMAIN one : calls'[j] = one[j]
  BY <1>2, <1>3
<1>7. /\ Len(calls') = Len(calls) + 2
      /\ Len(calls) + 1 \in DOMAIN calls' /\ calls'[Len(calls) + 1] = a
      /\ Len(calls) + 2 \in DOMAIN calls' /\ calls'[Len(calls) + 2] = b
  BY <1>1, <1>2, <1>4, <1>5, <1>6
<1>8. \A j \in DOMAIN calls : j \in DOMAIN calls' /\ calls'[j] = calls[j]
  BY <1>1, <1>2, <1>5, <1>6
<1>9. \A j \in DOMAIN calls' : j \in DOMAIN calls \/ j = Len(calls) + 1 \/ j = Len(calls) + 2
  BY <1>1, <1>2, <1>5
<1>10. QED
  BY <1>4, <1>7, <1>8, <1>9

-----------------------------------------------------------------------------
(* A screen stays the one that is mounted until it is left for the home page. *)
Within(S) ==
  /\ screen \in S /\ screen' \in {screen, "home"}
  /\ screen' = "home" => calls' = <<>>
  /\ client' = client /\ upset' \in BOOLEAN

LEMMA PostWithin == ASSUME PostNext, upset \in BOOLEAN PROVE Within({"post"})
BY DEF Within, Stays, Home, Mount, Answer, AppPost, Delete, Deleted, Miss, OpenPost,
       Opens, PostAnswers, PostNext, Report, Serve, Toggle, WebPost

LEMMA ReplyWithin == ASSUME ReplyNext, upset \in BOOLEAN PROVE Within({"replies"})
BY DEF Within, Stays, Home, Mount, AppReplies, ListAnswered, LoadFloors, PickTarget,
       PullDown, ReplyActions, ReplyAnswers, ReplyMissed, ReplyNext, ReplySent,
       ServeReply, SubmitReply, ToggleFloor, Type, WebReplies

LEMMA ComposeWithin == ASSUME ComposeNext, upset \in BOOLEAN PROVE Within({"compose"})
BY DEF Within, Stays, Home, Mount, AddCustom, AppCompose, ChangeAddress, ChooseBoard,
       ComposeAnswers, ComposeMissed, ComposeNext, Filling, ImageCame, Opens,
       PickImages, Published, RemoveCustom, RemoveImage, ServeCompose, Submit,
       TagsCame, ToggleTag, WebCompose, Write

LEMMA SearchWithin ==
  ASSUME SearchNext, upset \in BOOLEAN
  PROVE  Within({"search", "history"})
BY DEF Within, Stays, Home, Mount, AppSearch, ClearHistory, HistoryRead, PullResults,
       Remember, ScrollResults, Search, SearchAgain, SearchAnswered, SearchMissed,
       SearchNext, ServeSearch, WebSearch

LEMMA ChatWithin == ASSUME ChatNext, upset \in BOOLEAN PROVE Within({"chat"})
BY DEF Within, Stays, Home, Mount, AppChat, ChatMissed, ChatNext, ChatPolled,
       MessageSent, OpenChat, PeerWrites, Poll, SendMessage, ServeChat, TypeMessage,
       WebChat

LEMMA MailWithin == ASSUME MailNext, upset \in BOOLEAN PROVE Within({"mail"})
BY DEF Within, Stays, Home, Mount, AppMail, CloseMail, CountMail, MailActions,
       MailAnswered, MailComes, MailMissed, MailNext, OpenMail, PollMail,
       RefreshMail, ServeMail, WebMail

LEMMA NotesWithin == ASSUME NotesNext, upset \in BOOLEAN PROVE Within({"notes"})
BY DEF Within, Stays, Home, Mount, AppNotes, CountNotes, NoteActions, NoteComes,
       NotesAnswered, NotesMissed, NotesNext, ReadNote, RefreshNotes, ServeNotes,
       WebNotes

LEMMA AccountWithin ==
  ASSUME AccountNext, upset \in BOOLEAN
  PROVE  Within({"profile", "campus", "code"})
BY DEF Within, Stays, Home, Mount, AccountMissed, AccountNext, AppCampus, AppLogin,
       AppProfile, AskAccount, AskCode, AvatarPut, AvatarSet, CampusNext, CasActions,
       CasChanged, CasExpires, CasMissed, CasRead, ChangePassword, CloseCas,
       CloseDialog, CodeMissed, CodeNext, CodeSent, EditDialog, EditForm, Enter,
       Entered, MeRead, OpenCas, OpenDialog, Opens, PasswordChanged, PasswordDialog,
       PickAvatar, ProfileNext, ProfileSaved, SaveProfile, ServeAccount, ServeCas,
       ServeCode, Submits, SwitchMode, Tick, TypeCas, TypeCode, WebCampus, WebForgot,
       WebLogin, WebProfile, WebRegister

LEMMA BrowseWithin ==
  ASSUME BrowseNext, upset \in BOOLEAN
  PROVE  Within({"board", "boards", "dict", "lists"})
<1>1. CASE BoardNext
  BY <1>1
     DEF Within, Stays, AppBoard, AppUser, BoardNext, BrowseAnswered, BrowseMissed,
         ChooseTag, GoTo, MorePosts, PullPosts, Refresh, WebBoard, WebUser
<1>2. CASE BoardsNext
  BY <1>2
     DEF Within, Stays, AppMenu, BoardsNext, CategoriesCame, CategoriesMissed,
         ClearBoard, GoBoard, LoadCategories, MenuActions, PickBoard, PointAt,
         Sidebar, ToggleCategory, ToggleMenu, WebMenu
<1>3. CASE DictNext
  BY <1>3
     DEF Within, Stays, CloseOptions, Completes, DictNext, MarkOption, OptionsCame,
         OptionsMissed, PickOption, TypeWord
<1>4. CASE ListsNext
  BY <1>4
     DEF Within, Stays, AppLists, ListCame, ListMissed, ListsNext, MoreItems,
         PullItems, Revisit, SwitchTab, WebLists
<1>5. QED
  BY <1>1, <1>2, <1>3, <1>4 DEF BrowseNext, ServeBrowse, Within, Stays

LEMMA PlanWithin == ASSUME PlanNext, upset \in BOOLEAN PROVE Within({"seats", "plans"})
BY DEF Within, Stays, Home, Mount, AppPlans, AppSeats, AskSeats, Book,
       ChooseBuilding, ChooseDate, ChooseNoSeat, ChooseRoom, ChooseSeat, DeletePlan,
       FormActions, JobNext, Opens, PlanAnswered, PlanMissed, PlanNext, Record,
       RestartJob, ServePlan, StartRun, SubmitPlan, WebPlans, WebSeats

-----------------------------------------------------------------------------
(* The page of a post.  A load has the page for itself; without one the page  *)
(* shows the post of its address, and differs from the server just in what    *)
(* an answered like or favourite is about to change.                        *)
PostUi ==
  [id : Posts, post : Post \cup {None}, loading : BOOLEAN, deleting : BOOLEAN]

PostDb == [like : SUBSET Posts, fav : SUBSET Posts, gone : SUBSET Posts]

PostCall == CallOf(Toggles \cup {"get", "delete", "report"}, Posts, Post \cup {None})

Answered(kind) == \E i \in DOMAIN calls : calls[i].kind = kind /\ calls[i].ans # None

OneOfAKind ==
  \A i, j \in DOMAIN calls :
    calls[i].kind = calls[j].kind /\ calls[i].kind \in Toggles => i = j

Alone ==
  \A i \in DOMAIN calls : calls[i].kind = "get" =>
    /\ ui.loading /\ Len(calls) = 1
    /\ calls[i].ans # None => calls[i].ans = Current(db, ui.id) /\ ui.id \notin db.gone

LikeFollows ==
  /\ ui.post.count = OtherLikes + (IF ui.post.like THEN 1 ELSE 0)
  /\ ~Answered("like") => (ui.post.like <=> ui.id \in db.like)
  /\ \A i \in DOMAIN calls : calls[i].kind = "like" /\ calls[i].ans # None =>
       /\ calls[i].ans.like <=> ui.id \in db.like
       /\ ui.post.like <=> ui.id \notin db.like

FavFollows ==
  /\ ~Answered("fav") => (ui.post.fav <=> ui.id \in db.fav)
  /\ \A i \in DOMAIN calls : calls[i].kind = "fav" /\ calls[i].ans # None =>
       (calls[i].ans.fav <=> ui.id \in db.fav)

ShowsIt ==
  ~UnderWay("get") =>
    /\ ui.post = None => calls = <<>>
    /\ ui.post # None =>
         /\ ui.post.of = ui.id /\ LikeFollows /\ FavFollows
         /\ ui.id \in db.gone => Answered("delete")

PostTyped ==
  /\ ui \in PostUi /\ db \in PostDb
  /\ calls \in Seq(PostCall) /\ Len(calls) <= MaxCalls

PostTidy ==
  ~upset =>
    /\ \A i \in DOMAIN calls : calls[i].of = ui.id
    /\ OneOfAKind /\ Alone /\ ShowsIt

PostInv == screen = "post" => PostTyped /\ PostTidy

LEMMA PostCallFields ==
  ASSUME PostTyped
  PROVE  /\ Len(calls) \in Nat
         /\ \A i \in DOMAIN calls :
              /\ calls[i].kind \in Toggles \cup {"get", "delete", "report"}
              /\ calls[i].of \in Posts /\ calls[i].ans \in Post \cup {None}
BY Fields DEF PostTyped, PostCall

LEMMA PostCallIs ==
  ASSUME NEW k \in Toggles \cup {"get", "delete", "report"}, NEW o \in Posts
  PROVE  Call(k, o) \in PostCall
BY Fields DEF PostCall

(* Without a spinner there are buttons only for the post of the address. *)
LEMMA ButtonsOfThePost ==
  ASSUME PostTyped, PostTidy, Buttons # {}
  PROVE  /\ ~ui.loading /\ ui.post # None /\ ui.post \in Post
         /\ ~upset => ~UnderWay("get") /\ ui.post.of = ui.id
<1>1. ~ui.loading /\ ui.post # None
  BY DEF Buttons, Buttons_Web, Buttons_App
<1>2. ASSUME ~upset PROVE ~UnderWay("get")
  BY <1>1, <1>2 DEF PostTidy, Alone, UnderWay
<1>3. QED
  BY <1>1, <1>2 DEF PostTyped, PostUi, PostTidy, ShowsIt

LEMMA CurrentTyped ==
  ASSUME NEW d \in PostDb, NEW p \in Posts
  PROVE  /\ Current(d, p) \in Post
         /\ Current(d, p).like <=> p \in d.like
         /\ Current(d, p).fav <=> p \in d.fav
         /\ Current(d, p).of = p
         /\ Current(d, p).count = OtherLikes + (IF Current(d, p).like THEN 1 ELSE 0)
<1>1. OtherLikes + (IF p \in d.like THEN 1 ELSE 0) \in Nat
  BY PostScreenAssumption
<1>2. /\ Current(d, p).like = (p \in d.like) /\ Current(d, p).fav = (p \in d.fav)
      /\ Current(d, p).of = p
      /\ Current(d, p).count = OtherLikes + (IF p \in d.like THEN 1 ELSE 0)
  BY DEF Current
<1>3. Current(d, p) \in Post
  BY <1>1 DEF Current, Post
<1>4. QED
  BY <1>2, <1>3

LEMMA PostSendsInv ==
  ASSUME PostTyped, PostTidy,
         (\E kind \in Toggles : Toggle(kind)) \/ Report \/ Delete
  PROVE  PostTyped' /\ PostTidy'
<1> USE PostCallFields, ScreenAssumption
<1>1. PICK k \in Toggles \cup {"delete", "report"} :
        /\ k \in Buttons /\ Send(Call(k, ui.id))
        /\ k \in Toggles => upset' = (upset \/ Crosses(k))
        /\ k \notin Toggles => upset' = upset
  <2>1. ASSUME NEW kind \in Toggles, Toggle(kind)
        PROVE  /\ kind \in Buttons /\ Send(Call(kind, ui.id))
               /\ upset' = (upset \/ Crosses(kind))
    BY <2>1 DEF Toggle
  <2>2. CASE Report
    BY <2>2 DEF Report, Toggles
  <2>3. CASE Delete
    BY <2>3 DEF Delete, Toggles
  <2>4. QED
    BY <2>1, <2>2, <2>3
<1>2. /\ ui' \in PostUi /\ db' = db
      /\ ui'.id = ui.id /\ ui'.post = ui.post /\ ui'.loading = ui.loading
  BY DEF PostTyped, PostUi, Toggle, Report, Delete
<1>3. /\ Grows(Call(k, ui.id)) /\ calls' \in Seq(PostCall) /\ Len(calls) < MaxCalls
  <2>1. ui.id \in Posts
    BY DEF PostTyped, PostUi
  <2>2. QED
    BY <1>1, <2>1, Sent, PostCallIs DEF PostTyped, Send
<1>4. PostTyped'
  BY <1>2, <1>3 DEF PostTyped, Grows
<1>5. ASSUME ~upset'
      PROVE  /\ \A i \in DOMAIN calls' : calls'[i].of = ui'.id
             /\ (OneOfAKind /\ Alone /\ ShowsIt)'
  <2>1. /\ ~upset /\ ~UnderWay("get")
        /\ k \in Toggles => ~UnderWay(k)
    <3>1. Buttons # {} /\ (k \in Toggles => ~Crosses(k)) /\ ~upset
      <4>1. CASE k \in Toggles
        <5>1. upset' = (upset \/ Crosses(k))
          BY <1>1, <4>1
        <5>2. ~upset /\ ~Crosses(k)
          BY <1>5, <5>1
        <5>3. QED
          BY <1>1, <5>2
      <4>2. CASE k \notin Toggles
        <5>1. upset' = upset
          BY <1>1, <4>2
        <5>2. ~upset
          BY <1>5, <5>1
        <5>3. QED
          BY <1>1, <4>2, <5>2
      <4>3. QED
        BY <4>1, <4>2
    <3>2. ~UnderWay("get")
      BY <3>1, ButtonsOfThePost
    <3>3. QED
      BY <3>1, <3>2 DEF Crosses
  <2>2. /\ \A i \in DOMAIN calls : calls[i].of = ui.id /\ calls[i].kind # "get"
        /\ OneOfAKind /\ ShowsIt /\ ui.post # None
    BY <1>1, <2>1, ButtonsOfThePost DEF PostTidy, UnderWay
  <2>3. /\ \A i \in DOMAIN calls' : calls'[i].of = ui'.id /\ calls'[i].kind # "get"
        /\ OneOfAKind'
    BY <1>2, <1>3, <2>1, <2>2 DEF Grows, Call, OneOfAKind, UnderWay, Toggles
  <2>4. \A i \in DOMAIN calls' : calls'[i].ans # None => i \in DOMAIN calls /\ calls'[i] = calls[i]
    BY <1>3 DEF Grows, Call
  <2>5. \A i \in DOMAIN calls : i \in DOMAIN calls' /\ calls'[i] = calls[i]
    BY <1>3 DEF Grows
  <2>6. (LikeFollows /\ FavFollows /\ (ui.id \in db.gone => Answered("delete")))'
    BY <1>2, <2>1, <2>2, <2>4, <2>5 DEF ShowsIt, LikeFollows, FavFollows, Answered
  <2>7. QED
    BY <1>2, <2>1, <2>2, <2>3, <2>6 DEF Alone, ShowsIt
<1>6. QED
  BY <1>4, <1>5 DEF PostTidy

LEMMA OpenPostInv ==
  ASSUME PostTyped, PostTidy, NEW p \in Posts, OpenPost(p)
  PROVE  PostTyped' /\ PostTidy'
<1> USE PostCallFields, ScreenAssumption
<1>1. /\ ui' \in PostUi /\ db' = db /\ ui'.id = p /\ ui'.loading
  BY DEF PostTyped, PostUi, OpenPost, Reloading
<1>2. Grows(Call("get", p)) /\ calls' \in Seq(PostCall) /\ Len(calls) < MaxCalls
  BY Sent, PostCallIs DEF PostTyped, OpenPost, Send
<1>3. PostTyped'
  BY <1>1, <1>2 DEF PostTyped, Grows
<1>4. ASSUME ~upset'
      PROVE  /\ \A i \in DOMAIN calls' : calls'[i].of = ui'.id
             /\ (OneOfAKind /\ Alone /\ ShowsIt)'
  <2>1. calls = <<>>
    BY <1>4 DEF OpenPost
  <2>2. /\ Len(calls') = 1 /\ DOMAIN calls' = {1} /\ calls'[1] = Call("get", p)
    BY <1>2, <2>1 DEF Grows
  <2>3. QED
    BY <1>1, <2>2 DEF OneOfAKind, Alone, ShowsIt, UnderWay, Call
<1>5. QED
  BY <1>3, <1>4 DEF PostTidy

LEMMA ServePostInv ==
  ASSUME PostTyped, PostTidy, NEW i \in DOMAIN calls, Serve(i)
  PROVE  PostTyped' /\ PostTidy'
<1> USE PostCallFields, ScreenAssumption, PostsAreThere
<1> DEFINE k == calls[i]
           a == Current(db', k.of)
<1>1. /\ db' \in PostDb /\ ui' = ui /\ upset' = upset
      /\ db'.like = IF k.kind = "like" THEN Flip(db.like, k.of) ELSE db.like
      /\ db'.fav = IF k.kind = "fav" THEN Flip(db.fav, k.of) ELSE db.fav
      /\ db'.gone = IF k.kind = "delete" THEN db.gone \cup {k.of} ELSE db.gone
      /\ k.ans = None /\ k.of \notin db.gone /\ k.of \in Posts
  BY DEF PostTyped, PostDb, Serve, After, Flip
<1>2. /\ a \in Post /\ a # None
      /\ a.like <=> k.of \in db'.like
      /\ a.fav <=> k.of \in db'.fav
  BY <1>1, CurrentTyped
<1>3. Replies(i, a) /\ calls' \in Seq(PostCall)
  <2>1. Served(i, a)
    BY DEF Serve
  <2>2. QED
    BY <1>2, <2>1, Replied DEF PostTyped, PostCall
<1>4. PostTyped'
  BY <1>1, <1>3 DEF PostTyped, Replies
<1>5. ASSUME ~upset
      PROVE  /\ \A j \in DOMAIN calls' : calls'[j].of = ui'.id
             /\ (OneOfAKind /\ Alone /\ ShowsIt)'
  <2>1. /\ \A j \in DOMAIN calls : calls[j].of = ui.id
        /\ OneOfAKind /\ Alone /\ ShowsIt
    BY <1>5 DEF PostTidy
  <2>2. /\ \A j \in DOMAIN calls' : calls'[j].of = ui'.id
        /\ OneOfAKind'
    BY <1>1, <1>3, <2>1 DEF OneOfAKind, Replies
  <2>3. Alone'
    <3> SUFFICES ASSUME NEW j \in DOMAIN calls', calls'[j].kind = "get"
                 PROVE  /\ ui.loading /\ Len(calls') = 1
                        /\ calls'[j].ans # None =>
                             calls'[j].ans = Current(db', ui.id) /\ ui.id \notin db'.gone
      BY <1>1 DEF Alone
    <3>1. ui.loading /\ Len(calls) = 1 /\ j \in DOMAIN calls /\ calls[j].kind = "get"
      BY <1>3, <2>1 DEF Alone, Replies
    <3>2. j = i
      BY <3>1
    <3>3. QED
      BY <1>1, <1>3, <2>1, <3>1, <3>2 DEF Replies
  <2>4. ShowsIt'
    <3> SUFFICES ASSUME ~UnderWay("get")', ui.post # None
                 PROVE  /\ ui.post.of = ui.id
                        /\ (LikeFollows /\ FavFollows)'
                        /\ ui.id \in db'.gone => Answered("delete")'
      <4>1. ~UnderWay("get")' => ~UnderWay("get")
        BY <1>3 DEF UnderWay, Replies
      <4>2. calls = <<>> => FALSE
        OBVIOUS
      <4>3. QED
        BY <1>1, <2>1, <4>1, <4>2 DEF ShowsIt
    <3>1. /\ ui.post.of = ui.id /\ LikeFollows /\ FavFollows
          /\ ui.id \in db.gone => Answered("delete")
      BY <1>3, <2>1 DEF UnderWay, Replies, ShowsIt
    <3>2. k.of = ui.id
      BY <2>1
    <3>3. LikeFollows'
      <4>1. CASE k.kind = "like"
        <5>1. \A j \in DOMAIN calls : calls[j].kind = "like" => j = i
          BY <2>1, <4>1 DEF OneOfAKind, Toggles
        <5>2. ~Answered("like") /\ Answered("like")'
          BY <1>1, <1>2, <1>3, <4>1, <5>1 DEF Answered, Replies
        <5>3. ui.id \in db'.like <=> ui.id \notin db.like
          BY <1>1, <3>2, <4>1 DEF Flip
        <5>4. \A j \in DOMAIN calls' : calls'[j].kind = "like" => calls'[j].ans = a
          BY <1>3, <5>1 DEF Replies
        <5>5. QED
          BY <1>1, <1>2, <3>1, <3>2, <5>2, <5>3, <5>4 DEF LikeFollows
      <4>2. CASE k.kind # "like"
        BY <1>1, <1>3, <3>1, <4>2 DEF LikeFollows, Answered, Replies
      <4>3. QED
        BY <4>1, <4>2
    <3>4. FavFollows'
      <4>1. CASE k.kind = "fav"
        <5>1. \A j \in DOMAIN calls : calls[j].kind = "fav" => j = i
          BY <2>1, <4>1 DEF OneOfAKind, Toggles
        <5>2. Answered("fav")'
          BY <1>2, <1>3, <4>1 DEF Answered, Replies
        <5>3. \A j \in DOMAIN calls' : calls'[j].kind = "fav" => calls'[j].ans = a
          BY <1>3, <5>1 DEF Replies
        <5>4. QED
          BY <1>1, <1>2, <3>2, <5>2, <5>3 DEF FavFollows
      <4>2. CASE k.kind # "fav"
        BY <1>1, <1>3, <3>1, <4>2 DEF FavFollows, Answered, Replies
      <4>3. QED
        BY <4>1, <4>2
    <3>5. ui.id \in db'.gone => Answered("delete")'
      BY <1>1, <1>2, <1>3, <3>1 DEF Answered, Replies
    <3>6. QED
      BY <3>1, <3>3, <3>4, <3>5
  <2>5. QED
    BY <2>2, <2>3, <2>4
<1>6. QED
  BY <1>1, <1>4, <1>5 DEF PostTidy

LEMMA AnswerPostInv ==
  ASSUME PostTyped, PostTidy, NEW i \in DOMAIN calls, Answer(i)
  PROVE  PostTyped' /\ PostTidy'
<1> USE PostCallFields, ScreenAssumption
<1> DEFINE k == calls[i]
<1>1. k.ans \in Post /\ k.ans # None /\ k.kind \in Toggles \cup {"get", "report"}
  BY DEF Answer
<1>2. ui' = Shown(k) /\ db' = db /\ upset' = (upset /\ ~Settles(k))
  BY DEF Answer
<1>3. calls' \in Seq(PostCall) /\ Shrinks(i)
  BY Ended DEF PostTyped, Answer
<1> DEFINE liked == [ui.post EXCEPT !.like = k.ans.like,
                                    !.count = Counted(ui.post.count, k.ans.like)]
           faved == [ui.post EXCEPT !.fav = k.ans.fav]
<1>4. ASSUME k.kind = "like", ui.post # None
      PROVE  /\ ui' = [ui EXCEPT !.post = liked] /\ liked \in Post
             /\ liked.like = k.ans.like /\ liked.of = ui.post.of /\ liked.fav = ui.post.fav
             /\ liked.count = Counted(ui.post.count, k.ans.like)
  <2>1. ui.post \in Post
    BY <1>4 DEF PostTyped, PostUi
  <2>2. Counted(ui.post.count, k.ans.like) \in Nat /\ k.ans.like \in BOOLEAN
    BY <1>1, <2>1 DEF Counted, Post
  <2>3. ui' = [ui EXCEPT !.post = liked]
    BY <1>2, <1>4 DEF Shown
  <2>4. QED
    BY <2>1, <2>2, <2>3 DEF Post
<1>5. ASSUME k.kind = "fav", ui.post # None
      PROVE  /\ ui' = [ui EXCEPT !.post = faved] /\ faved \in Post
             /\ faved.fav = k.ans.fav /\ faved.of = ui.post.of /\ faved.like = ui.post.like
             /\ faved.count = ui.post.count
  <2>1. ui.post \in Post
    BY <1>5 DEF PostTyped, PostUi
  <2>2. k.ans.fav \in BOOLEAN
    BY <1>1 DEF Post
  <2>3. ui' = [ui EXCEPT !.post = faved]
    BY <1>2, <1>5 DEF Shown
  <2>4. QED
    BY <2>1, <2>2, <2>3 DEF Post
<1> HIDE DEF liked, faved
<1>6. CASE k.kind = "get"
  <2>1. ui' = [ui EXCEPT !.post = k.ans, !.loading = FALSE]
    BY <1>2, <1>6 DEF Shown
  <2>2. ui' \in PostUi /\ ui'.id = ui.id /\ ui'.post = k.ans
    BY <1>1, <2>1 DEF PostTyped, PostUi
  <2>3. PostTyped'
    BY <1>2, <1>3, <2>2 DEF PostTyped, Shrinks
  <2>4. ASSUME ~upset'
        PROVE  /\ \A j \in DOMAIN calls' : calls'[j].of = ui'.id
               /\ (OneOfAKind /\ Alone /\ ShowsIt)'
    <3>1. k.ans = Current(db, ui.id) /\ ui.id \notin db.gone /\ Len(calls) = 1
      BY <1>1, <1>2, <1>6, <2>4 DEF PostTidy, Alone, Settles
    <3>2. Len(calls') = 0 /\ DOMAIN calls' = {}
      BY <1>3, <3>1 DEF Shrinks
    <3>3. db \in PostDb /\ ui.id \in Posts
      BY DEF PostTyped, PostUi
    <3>4. (LikeFollows /\ FavFollows)'
      BY <1>2, <2>2, <3>1, <3>2, <3>3, CurrentTyped
         DEF LikeFollows, FavFollows, Answered
    <3>5. ui'.post.of = ui'.id /\ ui'.id \notin db'.gone /\ ui'.post # None
      BY <1>1, <1>2, <2>2, <3>1, <3>3, CurrentTyped
    <3>6. QED
      BY <3>2, <3>4, <3>5 DEF OneOfAKind, Alone, ShowsIt
  <2>5. QED
    BY <2>3, <2>4 DEF PostTidy
<1>7. CASE k.kind # "get"
  <2>1. ~upset' => ~upset
    <3>1. ~Settles(k)
      BY <1>7 DEF Settles
    <3>2. upset' = (upset /\ ~Settles(k))
      BY <1>2
    <3>3. QED
      BY <3>1, <3>2
  <2>2. /\ ui' \in PostUi /\ ui'.id = ui.id /\ ui'.loading = ui.loading
        /\ ui.post = None => ui'.post = None
    <3>1. CASE k.kind = "like" /\ ui.post # None
      BY <1>4, <3>1 DEF PostTyped, PostUi
    <3>2. CASE k.kind = "fav" /\ ui.post # None
      BY <1>5, <3>2 DEF PostTyped, PostUi
    <3>3. CASE ui.post = None \/ k.kind = "report"
      BY <1>1, <1>2, <1>7, <3>3 DEF Shown, PostTyped, Toggles
    <3>4. QED
      BY <1>1, <1>7, <3>1, <3>2, <3>3 DEF Toggles
  <2>3. PostTyped'
    BY <1>2, <1>3, <2>2 DEF PostTyped, Shrinks
  <2>4. ASSUME ~upset
        PROVE  /\ \A j \in DOMAIN calls' : calls'[j].of = ui'.id
               /\ (OneOfAKind /\ Alone /\ ShowsIt)'
    <3>1. /\ \A j \in DOMAIN calls : calls[j].of = ui.id /\ calls[j].kind # "get"
          /\ OneOfAKind /\ ShowsIt
      BY <1>7, <2>4 DEF PostTidy, Alone
    <3>2. /\ ui.post # None /\ ui.post.of = ui.id /\ LikeFollows /\ FavFollows
          /\ ui.id \in db.gone => Answered("delete")
          /\ ui.post \in Post
      <4>1. calls # <<>> /\ ~UnderWay("get")
        BY <3>1 DEF UnderWay
      <4>2. QED
        BY <3>1, <4>1 DEF ShowsIt, PostTyped, PostUi
    <3>3. /\ \A j \in DOMAIN calls' : calls'[j].of = ui'.id /\ calls'[j].kind # "get"
          /\ OneOfAKind'
      BY <1>3, <2>2, <3>1 DEF OneOfAKind, Shrinks
    <3>4. /\ \A kind : kind # k.kind => Answered(kind)' = Answered(kind)
          /\ \A j \in DOMAIN calls' : \E l \in DOMAIN calls \ {i} : calls'[j] = calls[l]
      BY <1>3 DEF Answered, Shrinks
    <3>5. ui'.post # None /\ ui'.post.of = ui'.id
      <4>1. CASE k.kind = "like"
        <5>1. ui'.post = liked
          BY <1>4, <3>2, <4>1 DEF PostTyped, PostUi
        <5>2. QED
          BY <1>4, <2>2, <3>2, <4>1, <5>1, PostsAreThere
      <4>2. CASE k.kind = "fav"
        <5>1. ui'.post = faved
          BY <1>5, <3>2, <4>2 DEF PostTyped, PostUi
        <5>2. QED
          BY <1>5, <2>2, <3>2, <4>2, <5>1, PostsAreThere
      <4>3. CASE k.kind = "report"
        BY <1>2, <2>2, <3>2, <4>3 DEF Shown
      <4>4. QED
        BY <1>1, <1>7, <4>1, <4>2, <4>3 DEF Toggles
    <3>6. LikeFollows'
      <4>1. CASE k.kind = "like"
        <5>1. ui'.post.like = k.ans.like /\ ui'.post.count = Counted(ui.post.count, k.ans.like)
          BY <1>4, <3>2, <4>1 DEF PostTyped, PostUi
        <5>2. /\ k.ans.like <=> ui.id \in db.like
              /\ ui.post.like <=> ui.id \notin db.like
              /\ ui.post.count = OtherLikes + (IF ui.post.like THEN 1 ELSE 0)
          BY <1>1, <3>2, <4>1 DEF LikeFollows
        <5>3. Counted(ui.post.count, k.ans.like) = OtherLikes + (IF k.ans.like THEN 1 ELSE 0)
          BY <5>2, PostScreenAssumption DEF Counted
        <5>4. \A j \in DOMAIN calls' : calls'[j].kind # "like"
          BY <3>1, <3>4, <4>1 DEF OneOfAKind, Toggles
        <5>5. QED
          BY <1>2, <2>2, <5>1, <5>2, <5>3, <5>4 DEF LikeFollows, Answered
      <4>2. CASE k.kind # "like"
        <5>1. ui'.post.like = ui.post.like /\ ui'.post.count = ui.post.count
          BY <1>1, <1>2, <1>5, <1>7, <3>2, <4>2 DEF Shown, Toggles, PostTyped, PostUi
        <5>2. Answered("like")' = Answered("like")
          BY <3>4, <4>2
        <5>3. QED
          BY <1>2, <2>2, <3>2, <3>4, <5>1, <5>2 DEF LikeFollows
      <4>3. QED
        BY <4>1, <4>2
    <3>7. FavFollows'
      <4>1. CASE k.kind = "fav"
        <5>1. ui'.post.fav = k.ans.fav
          BY <1>5, <3>2, <4>1 DEF PostTyped, PostUi
        <5>2. k.ans.fav <=> ui.id \in db.fav
          BY <1>1, <3>2, <4>1 DEF FavFollows
        <5>3. \A j \in DOMAIN calls' : calls'[j].kind # "fav"
          BY <3>1, <3>4, <4>1 DEF OneOfAKind, Toggles
        <5>4. QED
          BY <1>2, <2>2, <5>1, <5>2, <5>3 DEF FavFollows, Answered
      <4>2. CASE k.kind # "fav"
        <5>1. ui'.post.fav = ui.post.fav
          BY <1>1, <1>2, <1>4, <1>7, <3>2, <4>2 DEF Shown, Toggles, PostTyped, PostUi
        <5>2. Answered("fav")' = Answered("fav")
          BY <3>4, <4>2
        <5>3. QED
          BY <1>2, <2>2, <3>2, <3>4, <5>1, <5>2 DEF FavFollows
      <4>3. QED
        BY <4>1, <4>2
    <3>8. ui'.id \in db'.gone => Answered("delete")'
      BY <1>1, <1>2, <2>2, <3>2, <3>4 DEF Toggles
    <3>9. QED
      BY <3>3, <3>5, <3>6, <3>7, <3>8 DEF Alone, ShowsIt
  <2>5. QED
    BY <2>1, <2>3, <2>4 DEF PostTidy
<1>8. QED
  BY <1>6, <1>7

LEMMA MissPostInv ==
  ASSUME PostTyped, PostTidy, NEW i \in DOMAIN calls, Miss(i)
  PROVE  PostTyped' /\ PostTidy'
<1> USE PostCallFields, ScreenAssumption
<1> DEFINE k == calls[i]
<1>1. /\ ui' \in PostUi /\ db' = db /\ ui'.id = ui.id
      /\ k.kind # "get" => ui'.post = ui.post
      /\ k.kind = "get" => ui'.post = None
      /\ ~upset' => ~upset /\ (k.kind \in {"get", "report"} \/ k.ans = None)
  BY DEF PostTyped, PostUi, Miss, Complained
<1>2. calls' \in Seq(PostCall) /\ Shrinks(i)
  BY Ended DEF PostTyped, Miss
<1>3. PostTyped'
  BY <1>1, <1>2 DEF PostTyped, Shrinks
<1>4. ASSUME ~upset'
      PROVE  /\ \A j \in DOMAIN calls' : calls'[j].of = ui'.id
             /\ (OneOfAKind /\ Alone /\ ShowsIt)'
  <2>1. /\ \A j \in DOMAIN calls : calls[j].of = ui.id
        /\ OneOfAKind /\ Alone /\ ShowsIt
    BY <1>1, <1>4 DEF PostTidy
  <2>2. CASE k.kind = "get"
    <3>1. Len(calls') = 0 /\ DOMAIN calls' = {} /\ calls' = <<>>
      BY <1>2, <2>1, <2>2 DEF Alone, Shrinks
    <3>2. QED
      BY <1>1, <2>2, <3>1 DEF OneOfAKind, Alone, ShowsIt
  <2>3. CASE k.kind # "get"
    <3>1. \A j \in DOMAIN calls : calls[j].kind # "get"
      BY <2>1, <2>3 DEF Alone
    <3>2. /\ ui.post # None /\ ui.post.of = ui.id /\ LikeFollows /\ FavFollows
          /\ ui.id \in db.gone => Answered("delete")
      <4>1. calls # <<>> /\ ~UnderWay("get")
        BY <3>1 DEF UnderWay
      <4>2. QED
        BY <2>1, <4>1 DEF ShowsIt
    <3>3. /\ \A j \in DOMAIN calls' : calls'[j].of = ui'.id /\ calls'[j].kind # "get"
          /\ OneOfAKind'
      BY <1>1, <1>2, <2>1, <3>1 DEF OneOfAKind, Shrinks
    <3>4. /\ \A kind \in {"like", "fav", "delete"} : Answered(kind)' = Answered(kind)
          /\ \A j \in DOMAIN calls' : \E l \in DOMAIN calls \ {i} : calls'[j] = calls[l]
      BY <1>1, <1>2, <1>4, <2>3 DEF Answered, Shrinks
    <3>5. (LikeFollows /\ FavFollows)'
      BY <1>1, <2>3, <3>2, <3>4 DEF LikeFollows, FavFollows
    <3>6. QED
      BY <1>1, <2>3, <3>2, <3>3, <3>4, <3>5 DEF Alone, ShowsIt
  <2>4. QED
    BY <2>2, <2>3
<1>5. QED
  BY <1>3, <1>4 DEF PostTidy

LEMMA PostNextInv ==
  ASSUME PostInv, PostNext
  PROVE  PostInv'
<1>1. screen = "post" /\ PostTyped /\ PostTidy
  BY DEF PostInv, PostNext
<1>2. CASE \E i \in DOMAIN calls : Deleted(i)
  BY <1>2 DEF Deleted, Opens, Home, Mount, PostInv
<1>3. CASE \E i \in DOMAIN calls : Serve(i) \/ Answer(i) \/ Miss(i)
  BY <1>1, <1>3, ServePostInv, AnswerPostInv, MissPostInv DEF PostInv
<1>4. CASE AppPost \/ WebPost
  BY <1>1, <1>4, PostSendsInv, OpenPostInv DEF PostInv, AppPost, WebPost
<1>5. QED
  BY <1>2, <1>3, <1>4 DEF PostNext, PostAnswers

LEMMA PostMounted ==
  ASSUME NEW m \in PostMounts
  PROVE  /\ m.screen = "post" /\ m.client \in Clients
         /\ Starts(m) => PostInv
         /\ Opens(m) => PostInv'
<1>1. PICK c \in Clients, p \in Posts, l \in SUBSET Posts :
        m = Mount(c, "post",
                  [id |-> p, post |-> None, loading |-> TRUE, deleting |-> FALSE],
                  <<Call("get", p)>>, [like |-> l, fav |-> {}, gone |-> {}])
  BY DEF PostMounts, Mount, Call
<1>2. /\ m.client = c /\ m.screen = "post"
      /\ m.ui \in PostUi /\ m.db \in PostDb /\ m.ui.id = p /\ m.ui.loading
      /\ m.calls = <<Call("get", p)>>
  BY <1>1 DEF Mount, PostUi, PostDb
<1>3. /\ m.calls \in Seq(PostCall) /\ Len(m.calls) = 1 /\ DOMAIN m.calls = {1}
      /\ m.calls[1].kind = "get" /\ m.calls[1].of = p /\ m.calls[1].ans = None
  BY <1>2, PostCallIs DEF Call
<1>4. Starts(m) => PostInv
  BY <1>2, <1>3, ScreenAssumption
     DEF Starts, PostInv, PostTyped, PostTidy, OneOfAKind, Alone, ShowsIt, UnderWay
<1>5. Opens(m) => PostInv'
  BY <1>2, <1>3, ScreenAssumption
     DEF Opens, PostInv, PostTyped, PostTidy, OneOfAKind, Alone, ShowsIt, UnderWay
<1>6. QED
  BY <1>2, <1>4, <1>5

LEMMA PostKept == PostInv /\ UNCHANGED vars => PostInv'
BY DEF vars, PostInv, PostTyped, PostTidy, OneOfAKind, Alone, ShowsIt, UnderWay,
       LikeFollows, FavFollows, Answered, Current

-----------------------------------------------------------------------------
(* The replies.  The box is locked by the one reply under way and the list by *)
(* the one page; until the answer to a reply that was stored has come, or    *)
(* that of a page, the list may lack a floor, and the number above it one.   *)
ReplyUi ==
  [list : SUBSET Floors, kids : SUBSET Floors, open : SUBSET Floors,
   opening : SUBSET Floors, lock : BOOLEAN, draft : Drafts \cup {None},
   nested : BOOLEAN, sending : BOOLEAN, count : Nat]

ReplyDb == [floors : SUBSET Floors, stored : SUBSET Drafts]

Posting == [text : Drafts, nested : BOOLEAN]

ReplyCall ==
  CallOf({"page", "more", "kids", "reply"}, {None} \cup Floors \cup Posting,
         {None} \cup SUBSET Floors)

ReplyAsks ==
  \A i \in DOMAIN calls :
    /\ calls[i].kind = "kids" => calls[i].of \in Floors
    /\ calls[i].kind = "reply" => calls[i].of \in Posting

OneReply ==
  /\ \A i, j \in DOMAIN calls :
       calls[i].kind = "reply" /\ calls[j].kind = "reply" => i = j
  /\ \A i \in DOMAIN calls : calls[i].kind = "reply" => ui.sending

OnePage ==
  /\ \A i, j \in DOMAIN calls :
       calls[i].kind \in {"page", "more"} /\ calls[j].kind \in {"page", "more"} => i = j
  /\ \A i \in DOMAIN calls : calls[i].kind \in {"page", "more"} => ui.lock

(* A floor is stored and the screen does not know it yet. *)
NewsOf(k) == k.kind = "reply" /\ k.ans # None /\ ~k.of.nested

News == \E i \in DOMAIN calls : NewsOf(calls[i])

BoxKept ==
  \A i \in DOMAIN calls : calls[i].kind = "reply" =>
    /\ calls[i].of.text = ui.draft
    /\ calls[i].ans # None => calls[i].of.text \in db.stored

CountKept == Cardinality(db.floors) = ui.count + (IF News THEN 1 ELSE 0)

ListKept ==
  ~News =>
    /\ ~UnderWay("page") => ui.list = db.floors
    /\ \A i \in DOMAIN calls : calls[i].kind = "page" /\ calls[i].ans # None =>
         calls[i].ans = db.floors

MoreKept ==
  \A i \in DOMAIN calls : calls[i].kind = "more" /\ calls[i].ans # None =>
    calls[i].ans \subseteq db.floors

ReplyTyped ==
  /\ ui \in ReplyUi /\ db \in ReplyDb
  /\ calls \in Seq(ReplyCall) /\ ReplyAsks
  /\ OneReply /\ OnePage
  /\ Len(calls) <= MaxCalls

ReplyTidy ==
  ~upset => BoxKept /\ CountKept /\ ListKept /\ MoreKept /\ ui.open \subseteq ui.kids

ReplyInv == screen = "replies" => ReplyTyped /\ ReplyTidy

LEMMA NothingAside == IsFiniteSet(Floors) /\ None \notin Drafts \cup SUBSET Floors
BY ReplyScreenAssumption

LEMMA ReplyCallFields ==
  ASSUME ReplyTyped
  PROVE  /\ Len(calls) \in Nat
         /\ \A i \in DOMAIN calls :
              /\ calls[i].kind \in {"page", "more", "kids", "reply"}
              /\ calls[i].ans \in {None} \cup SUBSET Floors
BY Fields DEF ReplyTyped, ReplyCall

LEMMA ReplyCallIs ==
  ASSUME NEW k \in {"page", "more", "kids", "reply"},
         NEW o \in {None} \cup Floors \cup Posting
  PROVE  Call(k, o) \in ReplyCall
BY Fields DEF ReplyCall

(* What is typed, and what is folded or unfolded without a call. *)
LEMMA ReplyFieldsInv ==
  ASSUME ReplyTyped, ReplyTidy,
         \/ \E text \in Drafts : Type(text)
         \/ PickTarget
         \/ \E f \in Floors : ToggleFloor(f) /\ f \in ui.open \cup ui.kids
  PROVE  ReplyTyped' /\ ReplyTidy'
<1>1. /\ ui' \in ReplyUi /\ db' = db /\ calls' = calls
      /\ ui'.list = ui.list /\ ui'.count = ui.count
      /\ ui'.sending = ui.sending /\ ui'.lock = ui.lock
      /\ ui.open \subseteq ui.kids => ui'.open \subseteq ui'.kids
      /\ ~upset' => ~upset /\ (ui.sending => ui'.draft = ui.draft)
  <2>1. ASSUME NEW text \in Drafts, Type(text)
        PROVE  /\ ui' \in ReplyUi /\ db' = db /\ calls' = calls
               /\ ui'.list = ui.list /\ ui'.count = ui.count
               /\ ui'.sending = ui.sending /\ ui'.lock = ui.lock
               /\ ui.open \subseteq ui.kids => ui'.open \subseteq ui'.kids
               /\ ~upset' => ~upset /\ (ui.sending => ui'.draft = ui.draft)
    BY <2>1 DEF ReplyTyped, ReplyUi, Type
  <2>2. CASE PickTarget
    BY <2>2 DEF ReplyTyped, ReplyUi, PickTarget
  <2>3. ASSUME NEW f \in Floors, ToggleFloor(f), f \in ui.open \cup ui.kids
        PROVE  /\ ui' \in ReplyUi /\ db' = db /\ calls' = calls
               /\ ui'.list = ui.list /\ ui'.count = ui.count
               /\ ui'.sending = ui.sending /\ ui'.lock = ui.lock
               /\ ui.open \subseteq ui.kids => ui'.open \subseteq ui'.kids
               /\ ~upset' => ~upset /\ (ui.sending => ui'.draft = ui.draft)
    BY <2>3 DEF ReplyTyped, ReplyUi, ToggleFloor
  <2>4. QED
    BY <2>1, <2>2, <2>3
<1>2. ReplyTyped'
  BY <1>1 DEF ReplyTyped, ReplyAsks, OneReply, OnePage
<1>3. ASSUME ~upset'
      PROVE  (BoxKept /\ CountKept /\ ListKept /\ MoreKept)' /\ ui'.open \subseteq ui'.kids
  <2>1. BoxKept /\ CountKept /\ ListKept /\ MoreKept /\ ui.open \subseteq ui.kids
    BY <1>1, <1>3 DEF ReplyTidy
  <2>2. BoxKept'
    BY <1>1, <1>3, <2>1 DEF BoxKept, ReplyTyped, OneReply
  <2>3. (CountKept /\ ListKept /\ MoreKept)'
    BY <1>1, <2>1 DEF CountKept, ListKept, MoreKept, News, NewsOf, UnderWay
  <2>4. QED
    BY <1>1, <2>1, <2>2, <2>3
<1>4. QED
  BY <1>2, <1>3 DEF ReplyTidy

LEMMA ReplySendsInv ==
  ASSUME ReplyTyped, ReplyTidy,
         \/ SubmitReply \/ LoadFloors \/ PullDown
         \/ \E f \in Floors : ToggleFloor(f) /\ f \notin ui.open \cup ui.kids
  PROVE  ReplyTyped' /\ ReplyTidy'
<1> USE ReplyCallFields, ScreenAssumption
<1>1. PICK k \in {"page", "more", "kids", "reply"}, o \in {None} \cup Floors \cup Posting :
        /\ Send(Call(k, o)) /\ db' = db /\ upset' = upset
        /\ ui' \in ReplyUi
        /\ ui'.list = ui.list /\ ui'.count = ui.count /\ ui'.draft = ui.draft
        /\ ui'.open = ui.open /\ ui'.kids = ui.kids
        /\ k = "kids" => o \in Floors
        /\ k = "reply" => o \in Posting /\ o.text = ui.draft
        /\ IF k = "reply" THEN ~ui.sending /\ ui'.sending ELSE ui'.sending = ui.sending
        /\ IF k \in {"page", "more"} THEN ~ui.lock /\ ui'.lock ELSE ui'.lock = ui.lock
  <2>1. CASE SubmitReply
    <3> DEFINE o == [text |-> ui.draft, nested |-> ui.nested]
    <3>1. o \in Posting /\ o.text = ui.draft
      BY <2>1 DEF SubmitReply, ReplyTyped, ReplyUi, Posting
    <3>2. Send(Call("reply", o)) /\ db' = db /\ upset' = upset
      BY <2>1 DEF SubmitReply
    <3> HIDE DEF o
    <3>3. /\ ui' \in ReplyUi
          /\ ui'.list = ui.list /\ ui'.count = ui.count /\ ui'.draft = ui.draft
          /\ ui'.open = ui.open /\ ui'.kids = ui.kids
          /\ ~ui.sending /\ ui'.sending /\ ui'.lock = ui.lock
      BY <2>1 DEF SubmitReply, Submitting, ReplyTyped, ReplyUi
    <3>4. QED
      BY <3>1, <3>2, <3>3
  <2>2. CASE LoadFloors
    BY <2>2 DEF LoadFloors, ReplyTyped, ReplyUi
  <2>3. CASE PullDown
    BY <2>3 DEF PullDown, ReplyTyped, ReplyUi
  <2>4. ASSUME NEW f \in Floors, ToggleFloor(f), f \notin ui.open \cup ui.kids
        PROVE  /\ Send(Call("kids", f)) /\ db' = db /\ upset' = upset
               /\ ui' \in ReplyUi
               /\ ui'.list = ui.list /\ ui'.count = ui.count /\ ui'.draft = ui.draft
               /\ ui'.open = ui.open /\ ui'.kids = ui.kids
               /\ ui'.sending = ui.sending /\ ui'.lock = ui.lock
    BY <2>4 DEF ToggleFloor, ReplyTyped, ReplyUi
  <2>5. QED
    BY <2>1, <2>2, <2>3, <2>4
<1>2. Grows(Call(k, o)) /\ calls' \in Seq(ReplyCall) /\ Len(calls) < MaxCalls
  BY <1>1, Sent, ReplyCallIs DEF ReplyTyped, Send
<1>3. /\ calls'[Len(calls')].kind = k /\ calls'[Len(calls')].of = o
      /\ calls'[Len(calls')].ans = None
  BY <1>2 DEF Grows, Call
<1>4. ReplyTyped'
  <2>1. ReplyAsks'
    BY <1>1, <1>2, <1>3 DEF ReplyTyped, ReplyAsks, Grows
  <2>2. OneReply'
    BY <1>1, <1>2, <1>3 DEF ReplyTyped, OneReply, Grows
  <2>3. OnePage'
    BY <1>1, <1>2, <1>3 DEF ReplyTyped, OnePage, Grows
  <2>4. Len(calls') <= MaxCalls
    BY <1>2 DEF Grows
  <2>5. QED
    BY <1>1, <1>2, <2>1, <2>2, <2>3, <2>4 DEF ReplyTyped
<1>5. ASSUME ~upset'
      PROVE  (BoxKept /\ CountKept /\ ListKept /\ MoreKept)' /\ ui'.open \subseteq ui'.kids
  <2>1. BoxKept /\ CountKept /\ ListKept /\ MoreKept /\ ui.open \subseteq ui.kids
    BY <1>1, <1>5 DEF ReplyTidy
  <2>2. BoxKept'
    BY <1>1, <1>2, <1>3, <2>1 DEF BoxKept, Grows
  <2>3. /\ News' <=> News
        /\ UnderWay("page") => UnderWay("page")'
    BY <1>2, <1>3 DEF News, NewsOf, UnderWay, Grows
  <2>4. CountKept'
    BY <1>1, <2>1, <2>3 DEF CountKept
  <2>5. ListKept' /\ MoreKept'
    BY <1>1, <1>2, <1>3, <2>1, <2>3 DEF ListKept, MoreKept, Grows
  <2>6. QED
    BY <1>1, <2>1, <2>2, <2>4, <2>5
<1>6. QED
  BY <1>4, <1>5 DEF ReplyTidy

LEMMA ServeReplyInv ==
  ASSUME ReplyTyped, ReplyTidy, NEW i \in DOMAIN calls, ServeReply(i)
  PROVE  ReplyTyped' /\ ReplyTidy'
<1> USE ReplyCallFields, NothingAside
<1> DEFINE k == calls[i]
<1>1. k.ans = None /\ ui' = ui /\ (upset' <=> upset)
  BY DEF ServeReply
<1>2. Replies(i, db.floors) /\ calls' \in Seq(ReplyCall) /\ db.floors # None
  <2>1. Served(i, db.floors) /\ db.floors \in SUBSET Floors
    BY DEF ServeReply, ReplyTyped, ReplyDb
  <2>2. QED
    BY <2>1, Replied DEF ReplyTyped, ReplyCall
<1>3. CASE k.kind = "reply"
  <2> DEFINE f == CHOOSE f \in NewFloor(db) : TRUE
  <2>1. k.of \in Posting /\ k.of.text \in Drafts /\ k.of.nested \in BOOLEAN
    BY <1>3 DEF ReplyTyped, ReplyAsks, Posting
  <2>2. ~k.of.nested => f \in Floors /\ f \notin db.floors
    BY <1>3 DEF ServeReply, NewFloor
  <2>3. /\ db'.stored = db.stored \cup {k.of.text}
        /\ db'.floors = IF k.of.nested THEN db.floors ELSE db.floors \cup {f}
        /\ db' = [db EXCEPT !.stored = db'.stored, !.floors = db'.floors]
    BY <1>3 DEF ServeReply, Stored, ReplyTyped, ReplyDb
  <2> HIDE DEF f
  <2>4. db' \in ReplyDb
    BY <2>1, <2>2, <2>3 DEF ReplyTyped, ReplyDb
  <2>5. ReplyTyped'
    BY <1>1, <1>2, <2>4 DEF ReplyTyped, ReplyAsks, OneReply, OnePage, Replies
  <2>6. ASSUME ~upset
        PROVE  (BoxKept /\ CountKept /\ ListKept /\ MoreKept)' /\ ui'.open \subseteq ui'.kids
    <3>1. BoxKept /\ CountKept /\ ListKept /\ MoreKept /\ ui.open \subseteq ui.kids
      BY <2>6 DEF ReplyTidy
    <3>2. \A j \in DOMAIN calls : calls[j].kind = "reply" => j = i
      BY <1>3 DEF ReplyTyped, OneReply
    <3>3. ~News /\ (News' <=> ~k.of.nested)
      BY <1>1, <1>2, <1>3, <3>2 DEF News, NewsOf, Replies
    <3>4. BoxKept'
      BY <1>1, <1>2, <2>3, <3>1, <3>2 DEF BoxKept, Replies
    <3>5. Cardinality(db'.floors) = Cardinality(db.floors) + (IF k.of.nested THEN 0 ELSE 1)
      <4>1. IsFiniteSet(db.floors)
        BY FS_Subset DEF ReplyTyped, ReplyDb
      <4>2. Cardinality(db.floors) \in Nat
        BY <4>1, FS_CardinalityType
      <4>3. CASE k.of.nested
        BY <2>3, <4>2, <4>3
      <4>4. CASE ~k.of.nested
        <5>1. Cardinality(db.floors \cup {f}) = Cardinality(db.floors) + 1
          BY <2>2, <4>1, <4>4, FS_AddElement
        <5>2. QED
          BY <2>3, <4>4, <5>1
      <4>5. QED
        BY <4>3, <4>4
    <3>6. CountKept'
      BY <1>1, <3>1, <3>3, <3>5 DEF CountKept, ReplyTyped, ReplyUi
    <3>7. UnderWay("page")' <=> UnderWay("page")
      BY <1>2 DEF UnderWay, Replies
    <3>8. ListKept'
      BY <1>1, <1>2, <1>3, <2>3, <3>1, <3>3, <3>7 DEF ListKept, Replies
    <3>9. MoreKept'
      BY <1>2, <1>3, <2>3, <3>1 DEF MoreKept, Replies
    <3>10. QED
      BY <1>1, <3>1, <3>4, <3>6, <3>8, <3>9
  <2>7. QED
    BY <1>1, <2>5, <2>6 DEF ReplyTidy
<1>4. CASE k.kind # "reply"
  <2>1. db' = db
    BY <1>4 DEF ServeReply
  <2>2. ReplyTyped'
    BY <1>1, <1>2, <2>1 DEF ReplyTyped, ReplyAsks, OneReply, OnePage, Replies
  <2>3. ASSUME ~upset
        PROVE  (BoxKept /\ CountKept /\ ListKept /\ MoreKept)' /\ ui'.open \subseteq ui'.kids
    <3>1. BoxKept /\ CountKept /\ ListKept /\ MoreKept /\ ui.open \subseteq ui.kids
      BY <2>3 DEF ReplyTidy
    <3>2. (News' <=> News) /\ (UnderWay("page")' <=> UnderWay("page"))
      BY <1>2, <1>4 DEF News, NewsOf, UnderWay, Replies
    <3>3. BoxKept' /\ CountKept'
      BY <1>1, <1>2, <1>4, <2>1, <3>1, <3>2 DEF BoxKept, CountKept, Replies
    <3>4. ListKept' /\ MoreKept'
      BY <1>1, <1>2, <2>1, <3>1, <3>2 DEF ListKept, MoreKept, Replies
    <3>5. QED
      BY <1>1, <3>1, <3>3, <3>4
  <2>4. QED
    BY <1>1, <2>2, <2>3 DEF ReplyTidy
<1>5. QED
  BY <1>3, <1>4

(* The answer to a list, to the replies below a floor, and any failure. *)
LEMMA ReplyEndsInv ==
  ASSUME ReplyTyped, ReplyTidy, NEW i \in DOMAIN calls, ListAnswered(i) \/ ReplyMissed(i)
  PROVE  ReplyTyped' /\ ReplyTidy'
<1> USE ReplyCallFields, NothingAside
<1> DEFINE k == calls[i]
<1>1. calls' \in Seq(ReplyCall) /\ Shrinks(i) /\ db' = db
  BY Ended DEF ReplyTyped, ListAnswered, ReplyMissed
<1>2. /\ ui' \in ReplyUi /\ ui'.count = ui.count /\ ui'.draft = ui.draft
      /\ k.kind # "reply" => ui'.sending = ui.sending
      /\ k.kind \notin {"page", "more"} => ui'.lock = ui.lock /\ ui'.list = ui.list
  <2>1. CASE ReplyMissed(i)
    BY <2>1 DEF ReplyTyped, ReplyUi, ReplyAsks, ReplyMissed
  <2>2. CASE ListAnswered(i) /\ k.kind = "kids"
    <3>1. k.of \in Floors
      BY <2>2 DEF ReplyTyped, ReplyAsks
    <3>2. ui' = Unfolded(k)
      BY <2>2 DEF ListAnswered
    <3>3. QED
      BY <2>2, <3>1, <3>2 DEF ReplyTyped, ReplyUi, Unfolded
  <2>3. CASE ListAnswered(i) /\ k.kind # "kids"
    <3>1. k.ans \in SUBSET Floors /\ ui' = Listed(k) /\ k.kind \in {"page", "more"}
      BY <2>3 DEF ListAnswered
    <3>2. QED
      BY <3>1 DEF ReplyTyped, ReplyUi, Listed
  <2>4. QED
    BY <2>1, <2>2, <2>3
<1>3. ReplyTyped'
  <2>1. ReplyAsks'
    BY <1>1 DEF ReplyTyped, ReplyAsks, Shrinks
  <2>2. OneReply'
    BY <1>1, <1>2 DEF ReplyTyped, OneReply, Shrinks
  <2>3. OnePage'
    BY <1>1, <1>2 DEF ReplyTyped, OnePage, Shrinks
  <2>4. Len(calls') <= MaxCalls
    BY <1>1, ScreenAssumption DEF ReplyTyped, Shrinks
  <2>5. QED
    BY <1>1, <1>2, <2>1, <2>2, <2>3, <2>4 DEF ReplyTyped
<1>4. ASSUME ~upset'
      PROVE  (BoxKept /\ CountKept /\ ListKept /\ MoreKept)' /\ ui'.open \subseteq ui'.kids
  <2>1. ~upset /\ (k.kind = "reply" => k.ans = None)
    BY <1>4 DEF ListAnswered, ReplyMissed
  <2>2. BoxKept /\ CountKept /\ ListKept /\ MoreKept /\ ui.open \subseteq ui.kids
    BY <2>1 DEF ReplyTidy
  <2>3. BoxKept'
    BY <1>1, <1>2, <2>2 DEF BoxKept, Shrinks
  <2>4. ~NewsOf(k)
    BY <2>1 DEF NewsOf
  <2>5. News' <=> News
    BY <1>1, <2>4 DEF News, Shrinks
  <2>6. CountKept'
    BY <1>1, <1>2, <2>2, <2>5 DEF CountKept
  <2>7. MoreKept'
    BY <1>1, <2>2 DEF MoreKept, Shrinks
  <2>8. ListKept'
    <3>1. CASE k.kind = "page"
      <4>1. k.ans # None /\ ui'.list = k.ans
        BY <1>4, <3>1 DEF ListAnswered, ReplyMissed, Listed, ReplyTyped, ReplyUi
      <4>2. QED
        BY <1>1, <2>2, <2>5, <3>1, <4>1 DEF ListKept, Shrinks, ReplyTyped, OnePage
    <3>2. CASE k.kind # "page"
      <4>1. UnderWay("page")' <=> UnderWay("page")
        BY <1>1, <3>2 DEF UnderWay, Shrinks
      <4>2. k.kind = "more" =>
              \/ ui'.list = ui.list
              \/ k.ans # None /\ ui'.list = ui.list \cup k.ans
        BY DEF ListAnswered, ReplyMissed, Listed, ReplyTyped, ReplyUi
      <4>3. ui.list = db.floors => ui'.list = ui.list
        BY <1>2, <2>2, <3>2, <4>2 DEF MoreKept
      <4>4. QED
        BY <1>1, <2>2, <2>5, <4>1, <4>3 DEF ListKept, Shrinks
    <3>3. QED
      BY <3>1, <3>2
  <2>9. ui'.open \subseteq ui'.kids
    <3>1. CASE ReplyMissed(i)
      BY <2>2, <3>1 DEF ReplyMissed, ReplyTyped, ReplyUi
    <3>2. CASE ListAnswered(i) /\ k.kind = "kids"
      BY <1>4, <2>2, <3>2 DEF ListAnswered, Unfolded, ReplyTyped, ReplyUi
    <3>3. CASE ListAnswered(i) /\ k.kind # "kids"
      BY <1>4, <2>2, <3>3 DEF ListAnswered, Listed, ReplyTyped, ReplyUi
    <3>4. QED
      BY <3>1, <3>2, <3>3
  <2>10. QED
    BY <2>3, <2>6, <2>7, <2>8, <2>9
<1>5. QED
  BY <1>3, <1>4 DEF ReplyTidy

(* The reply was stored: the list starts anew, if nothing locks it. *)
LEMMA ReplySentInv ==
  ASSUME ReplyTyped, ReplyTidy, NEW i \in DOMAIN calls, ReplySent(i)
  PROVE  ReplyTyped' /\ ReplyTidy'
<1> USE ReplyCallFields, NothingAside
<1> DEFINE k == calls[i]
<1>1. /\ k.kind = "reply" /\ k.ans # None /\ k.of.nested \in BOOLEAN /\ db' = db
      /\ \A j \in DOMAIN calls : calls[j].kind = "reply" => j = i
  BY DEF ReplySent, ReplyTyped, ReplyAsks, Posting, OneReply
<1>2. /\ ui' \in ReplyUi /\ ui'.open = {} /\ ui'.lock
      /\ ui'.count = ui.count + (IF k.of.nested THEN 0 ELSE 1)
  <2> DEFINE n == IF k.of.nested THEN ui.count ELSE ui.count + 1
  <2>1. n \in Nat /\ n = ui.count + (IF k.of.nested THEN 0 ELSE 1)
    BY <1>1 DEF ReplyTyped, ReplyUi
  <2>2. ui' = [ui EXCEPT !.draft = None, !.nested = FALSE, !.open = {}, !.opening = {},
                         !.sending = FALSE, !.lock = TRUE, !.count = n]
    BY DEF ReplySent, Refreshed
  <2> HIDE DEF n
  <2>3. ui' \in ReplyUi /\ ui'.open = {} /\ ui'.lock /\ ui'.count = n
    BY <2>1, <2>2 DEF ReplyTyped, ReplyUi
  <2>4. QED
    BY <2>1, <2>3
<1>3. ASSUME ui.lock
      PROVE  ReplyTyped' /\ ReplyTidy'
  <2>1. calls' \in Seq(ReplyCall) /\ Shrinks(i)
    BY <1>3, Ended DEF ReplyTyped, ReplySent, Ends
  <2>2. upset'
    BY <1>3 DEF ReplySent
  <2>3. ReplyAsks' /\ Len(calls') <= MaxCalls
    BY <2>1, ScreenAssumption DEF ReplyTyped, ReplyAsks, Shrinks
  <2>4. OneReply' /\ OnePage'
    BY <1>1, <1>2, <2>1 DEF ReplyTyped, OneReply, OnePage, Shrinks
  <2>5. QED
    BY <1>1, <1>2, <2>1, <2>2, <2>3, <2>4 DEF ReplyTyped, ReplyTidy
<1>4. ASSUME ~ui.lock
      PROVE  ReplyTyped' /\ ReplyTidy'
  <2>1. calls' \in Seq(ReplyCall) /\ Swaps(i, Call("page", None))
    BY <1>4, Swapped, ReplyCallIs DEF ReplyTyped, ReplySent
  <2>2. \A j \in DOMAIN calls : calls[j].kind \notin {"page", "more"}
    BY <1>4 DEF ReplyTyped, OnePage
  <2>3. /\ \A j \in DOMAIN calls' :
             IF j = Len(calls') THEN calls'[j].kind = "page" /\ calls'[j].ans = None
             ELSE calls'[j].kind = "kids" /\ calls'[j].of \in Floors
    BY <1>1, <2>1, <2>2 DEF Swaps, Call, ReplyTyped, ReplyAsks
  <2>4. ReplyTyped'
    <3>1. Len(calls') <= MaxCalls
      BY <2>1 DEF ReplyTyped, Swaps
    <3>2. ReplyAsks' /\ OneReply' /\ OnePage'
      BY <1>2, <2>3 DEF ReplyAsks, OneReply, OnePage
    <3>3. QED
      BY <1>1, <1>2, <2>1, <3>1, <3>2 DEF ReplyTyped
  <2>5. ASSUME ~upset'
        PROVE  (BoxKept /\ CountKept /\ ListKept /\ MoreKept)' /\ ui'.open \subseteq ui'.kids
    <3>1. CountKept
      BY <2>5 DEF ReplySent, ReplyTidy
    <3>2. ~News' /\ (News <=> ~k.of.nested)
      BY <1>1, <2>3 DEF News, NewsOf
    <3>3. CountKept'
      BY <1>1, <1>2, <3>1, <3>2 DEF CountKept, ReplyTyped, ReplyUi
    <3>4. UnderWay("page")'
      BY <2>1, <2>3 DEF UnderWay, Swaps
    <3>5. BoxKept' /\ ListKept' /\ MoreKept'
      BY <2>3, <3>4 DEF BoxKept, ListKept, MoreKept
    <3>6. QED
      BY <1>2, <3>3, <3>5
  <2>6. QED
    BY <2>4, <2>5 DEF ReplyTidy
<1>5. QED
  BY <1>3, <1>4

LEMMA ReplyNextInv ==
  ASSUME ReplyInv, ReplyNext
  PROVE  ReplyInv'
<1>1. ReplyTyped /\ ReplyTidy
  BY DEF ReplyInv, ReplyNext
<1>2. CASE \E i \in DOMAIN calls : ServeReply(i) \/ ReplySent(i) \/ ListAnswered(i) \/ ReplyMissed(i)
  BY <1>1, <1>2, ServeReplyInv, ReplySentInv, ReplyEndsInv DEF ReplyInv
<1>3. CASE ReplyActions \/ PullDown
  BY <1>1, <1>3, ReplyFieldsInv, ReplySendsInv DEF ReplyInv, ReplyActions
<1>4. QED
  BY <1>2, <1>3 DEF ReplyNext, AppReplies, WebReplies, ReplyAnswers

LEMMA ReplyMounted ==
  ASSUME NEW m \in ReplyMounts
  PROVE  /\ m.screen = "replies" /\ m.client \in Clients
         /\ Starts(m) => ReplyInv
         /\ Opens(m) => ReplyInv'
<1>1. PICK c \in Clients, fs \in (SUBSET Floors) \ {Floors} :
        m = Mount(c, "replies",
              [list |-> {}, kids |-> {}, open |-> {}, opening |-> {}, lock |-> TRUE,
               draft |-> None, nested |-> FALSE, sending |-> FALSE,
               count |-> Cardinality(fs)],
              <<Call("page", None)>>, [floors |-> fs, stored |-> {}])
  BY DEF ReplyMounts, Mount, Call
<1>2. Cardinality(fs) \in Nat
  BY FS_Subset, FS_CardinalityType, NothingAside
<1>3. /\ m.client = c /\ m.screen = "replies"
      /\ m.ui \in ReplyUi /\ m.db \in ReplyDb
      /\ m.ui.lock /\ m.ui.open = {} /\ m.ui.count = Cardinality(fs) /\ m.db.floors = fs
      /\ m.calls = <<Call("page", None)>>
  BY <1>1, <1>2 DEF Mount, ReplyUi, ReplyDb
<1>4. /\ m.calls \in Seq(ReplyCall) /\ Len(m.calls) = 1 /\ DOMAIN m.calls = {1}
      /\ m.calls[1].kind = "page" /\ m.calls[1].ans = None
  BY <1>3, ReplyCallIs DEF Call
<1>5. Starts(m) => ReplyInv
  BY <1>2, <1>3, <1>4, ScreenAssumption
     DEF Starts, ReplyInv, ReplyTyped, ReplyTidy, ReplyAsks, OneReply, OnePage,
         BoxKept, CountKept, ListKept, MoreKept, News, NewsOf, UnderWay
<1>6. Opens(m) => ReplyInv'
  BY <1>2, <1>3, <1>4, ScreenAssumption
     DEF Opens, ReplyInv, ReplyTyped, ReplyTidy, ReplyAsks, OneReply, OnePage,
         BoxKept, CountKept, ListKept, MoreKept, News, NewsOf, UnderWay
<1>7. QED
  BY <1>3, <1>5, <1>6

LEMMA ReplyKept == ReplyInv /\ UNCHANGED vars => ReplyInv'
BY DEF vars, ReplyInv, ReplyTyped, ReplyTidy, ReplyAsks, OneReply, OnePage, BoxKept,
       CountKept, ListKept, MoreKept, News, NewsOf, UnderWay

(* What empties the box is the answer to the reply, which has its text. *)
LEMMA DraftStep ==
  ASSUME ReplyInv, ReplyNext, screen' = "replies", ui.draft # None, ui'.draft = None, ~upset
  PROVE  ui.draft \in db.stored
<1> USE NothingAside
<1>1. ReplyTyped /\ BoxKept
  BY DEF ReplyInv, ReplyNext, ReplyTidy
<1>2. PICK i \in DOMAIN calls : ReplySent(i)
  <2>1. ASSUME NEW text \in Drafts, Type(text) PROVE FALSE
    BY <1>1, <2>1 DEF Type, ReplyTyped, ReplyUi
  <2>2. ASSUME PickTarget \/ SubmitReply \/ LoadFloors \/ PullDown
        PROVE  FALSE
    BY <1>1, <2>2
       DEF PickTarget, SubmitReply, Submitting, LoadFloors, PullDown, ReplyTyped,
           ReplyUi
  <2>3. ASSUME NEW f \in Floors, ToggleFloor(f) PROVE FALSE
    BY <1>1, <2>3 DEF ToggleFloor, ReplyTyped, ReplyUi
  <2>4. ASSUME NEW i \in DOMAIN calls, ServeReply(i) \/ ListAnswered(i) \/ ReplyMissed(i)
        PROVE  FALSE
    BY <1>1, <2>4
       DEF ServeReply, ListAnswered, ReplyMissed, Listed, Unfolded, ReplyTyped,
           ReplyUi
  <2>5. QED
    BY <2>1, <2>2, <2>3, <2>4
       DEF ReplyNext, AppReplies, WebReplies, ReplyActions, ReplyAnswers
<1>3. QED
  BY <1>1, <1>2 DEF ReplySent, BoxKept

-----------------------------------------------------------------------------
(* The form of a post.  One call that sends it is under way at most, and the  *)
(* form waits for it; what was created is what that call has created, or a   *)
(* lost answer is to blame.                                                *)
ComposeUi ==
  [edit : BOOLEAN, board : Boards \cup {None}, tags : SUBSET Tags,
   avail : Boards \cup {None}, custom : 0 .. MaxTags,
   images : 0 .. MaxImages + 2 * MaxPick, text : Texts,
   filled : BOOLEAN, uploading : BOOLEAN, sending : BOOLEAN]

ComposeDb == [created : Nat, saved : BOOLEAN]

ComposeCall ==
  CallOf({"get", "tags", "upload", "create", "save"},
         Boards \cup {None} \cup Nat, {None, "ok"})

ComposeAsks ==
  \A i \in DOMAIN calls :
    /\ calls[i].kind = "tags" => calls[i].of \in Boards
    /\ calls[i].kind = "upload" => calls[i].of \in 1 .. MaxPick

Publishes(i) == calls[i].kind \in {"create", "save"}

SentOnce ==
  /\ \A i, j \in DOMAIN calls : Publishes(i) /\ Publishes(j) => i = j
  /\ \A i \in DOMAIN calls : Publishes(i) => ui.sending
  /\ db.created <= 1
  /\ db.created = 1 =>
       \E i \in DOMAIN calls : calls[i].kind = "create" /\ calls[i].ans # None

FilledFirst ==
  ui.edit /\ (ui.board # None \/ UnderWay("save")) => ui.filled

TagsFit == ui.board # None => ui.tags \subseteq TagsOf[ui.board]

ComposeTyped ==
  /\ ui \in ComposeUi /\ db \in ComposeDb
  /\ calls \in Seq(ComposeCall) /\ ComposeAsks
  /\ Len(calls) <= 2 * MaxCalls

ComposeTidy == ~upset => SentOnce /\ FilledFirst /\ TagsFit

ComposeInv == screen = "compose" => ComposeTyped /\ ComposeTidy

LEMMA ComposeCallFields ==
  ASSUME ComposeTyped
  PROVE  /\ Len(calls) \in Nat
         /\ \A i \in DOMAIN calls :
              /\ calls[i].kind \in {"get", "tags", "upload", "create", "save"}
              /\ calls[i].ans \in {None, "ok"}
BY Fields DEF ComposeTyped, ComposeCall

LEMMA ComposeCallIs ==
  ASSUME NEW k \in {"get", "tags", "upload", "create", "save"},
         NEW o \in Boards \cup {None} \cup Nat
  PROVE  Call(k, o) \in ComposeCall
BY Fields DEF ComposeCall

LEMMA ComposeFieldsInv ==
  ASSUME ComposeTyped, ComposeTidy,
         \/ \E t \in Texts : Write(t)
         \/ \E t \in Tags : ToggleTag(t)
         \/ AddCustom \/ RemoveCustom \/ RemoveImage
  PROVE  ComposeTyped' /\ ComposeTidy'
<1> DEFINE Same == /\ ui'.board = ui.board /\ ui'.edit = ui.edit
                   /\ ui'.filled = ui.filled /\ ui'.sending = ui.sending
           Fit == ~upset' /\ ui.board # None => ui'.tags \subseteq TagsOf[ui.board]
           Goal == ui' \in ComposeUi /\ Same /\ (~upset' => ~upset) /\ Fit
<1> USE DEF ComposeTyped, ComposeUi
<1>1. Cardinality(ui.tags) \in Nat
  BY TagsAreFinite, FS_Subset, FS_CardinalityType
<1>2. ~upset /\ ui.board # None => ui.tags \subseteq TagsOf[ui.board]
  BY DEF ComposeTidy, TagsFit
<1>3. ASSUME NEW t \in Texts, Write(t) PROVE Goal
  BY <1>2, <1>3 DEF Write, Texts
<1>4. ASSUME NEW t \in Tags, ToggleTag(t) PROVE Goal
  BY <1>2, <1>4 DEF ToggleTag
<1>5. ASSUME AddCustom PROVE Goal
  <2>1. ui.custom \in Nat /\ ui.custom < MaxTags
    BY <1>1, <1>5, ComposeScreenAssumption DEF AddCustom
  <2>2. ui.custom + 1 \in 0 .. MaxTags
    BY <2>1, ComposeScreenAssumption
  <2>3. QED
    BY <1>2, <1>5, <2>2 DEF AddCustom
<1>6. ASSUME RemoveCustom PROVE Goal
  BY <1>2, <1>6, ComposeScreenAssumption DEF RemoveCustom
<1>7. ASSUME RemoveImage PROVE Goal
  BY <1>2, <1>7, ComposeScreenAssumption DEF RemoveImage
<1>8. calls' = calls /\ db' = db
  BY DEF Write, ToggleTag, AddCustom, RemoveCustom, RemoveImage
<1>9. Goal
  BY <1>3, <1>4, <1>5, <1>6, <1>7
<1>10. ComposeTyped'
  BY <1>8, <1>9 DEF ComposeAsks
<1>11. QED
  BY <1>8, <1>9, <1>10
     DEF ComposeTidy, SentOnce, FilledFirst, TagsFit, UnderWay, Publishes

LEMMA ComposeSendsInv ==
  ASSUME ComposeTyped, ComposeTidy,
         \/ \E b \in Boards : ChooseBoard(b)
         \/ \E n \in 1 .. MaxPick : PickImages(n)
         \/ Submit \/ ChangeAddress
  PROVE ComposeTyped' /\ ComposeTidy'
<1> USE ComposeCallFields, ScreenAssumption
<1>1. ASSUME NEW b \in Boards, ChooseBoard(b)
      PROVE ComposeTyped' /\ ComposeTidy'
  <2>1. ui' \in ComposeUi /\ db' \in ComposeDb /\ db' = db
    BY <1>1 DEF ComposeTyped, ComposeUi, ChooseBoard, Chosen
  <2>9. /\ ~ui.edit /\ ui'.edit = ui.edit /\ ui'.board = b /\ ui'.tags = {}
        /\ ui'.filled = ui.filled /\ ui'.sending = ui.sending
    BY <1>1 DEF ComposeTyped, ComposeUi, ChooseBoard, Chosen
  <2>2. \/ calls' = calls
        \/ Grows(Call("tags", b)) /\ calls' \in Seq(ComposeCall) /\ Len(calls) < MaxCalls
    BY <1>1, Sent, ComposeCallIs DEF ComposeTyped, ChooseBoard, AskTags
  <2>3. ComposeTyped'
    BY <1>1, <2>1, <2>2 DEF ComposeTyped, ComposeAsks, Grows, Call
  <2>4. ComposeTidy'
    <3>1. ~upset' => ~upset
      BY <1>1, <2>1, <2>2 DEF ChooseBoard
    <3>2. ASSUME ~upset' PROVE SentOnce'
      BY <1>1, <2>1, <2>9, <2>2, <3>1, <3>2
         DEF Grows, ComposeTidy, SentOnce, Publishes, Call
    <3>3. ASSUME ~upset' PROVE FilledFirst'
      BY <1>1, <2>1, <2>9, <2>2, <3>1, <3>3
         DEF Grows, ComposeTidy, FilledFirst, UnderWay, Call
    <3>4. ASSUME ~upset' PROVE TagsFit'
      BY <1>1, <2>1, <2>9, <2>2, <3>1, <3>4 DEF ComposeTidy, TagsFit
    <3>5. QED
      BY <3>2, <3>3, <3>4 DEF ComposeTidy
  <2>5. QED
    BY <2>3, <2>4
<1>2. ASSUME NEW n \in 1 .. MaxPick, PickImages(n)
      PROVE ComposeTyped' /\ ComposeTidy'
  <2>1. ui' \in ComposeUi /\ db' \in ComposeDb /\ db' = db
    BY <1>2 DEF ComposeTyped, ComposeUi, PickImages
  <2>9. /\ ui'.edit = ui.edit /\ ui'.board = ui.board /\ ui'.tags = ui.tags
        /\ ui'.filled = ui.filled /\ ui'.sending = ui.sending
    BY <1>2 DEF ComposeTyped, ComposeUi, PickImages
  <2>2. Grows(Call("upload", n)) /\ calls' \in Seq(ComposeCall) /\ Len(calls) < MaxCalls
    BY <1>2, Sent, ComposeCallIs DEF ComposeTyped, PickImages, Send
  <2>3. ComposeTyped'
    BY <2>1, <2>2 DEF ComposeTyped, ComposeAsks, Grows, Call
  <2>4. ComposeTidy'
    <3>1. ~upset' => ~upset
      BY <1>2, <2>1, <2>2 DEF PickImages
    <3>2. ASSUME ~upset' PROVE SentOnce'
      BY <1>2, <2>1, <2>9, <2>2, <3>1, <3>2
         DEF Grows, ComposeTidy, SentOnce, Publishes, Call
    <3>3. ASSUME ~upset' PROVE FilledFirst'
      BY <1>2, <2>1, <2>9, <2>2, <3>1, <3>3
         DEF Grows, ComposeTidy, FilledFirst, UnderWay, Call
    <3>4. ASSUME ~upset' PROVE TagsFit'
      BY <1>2, <2>1, <2>9, <2>2, <3>1, <3>4 DEF ComposeTidy, TagsFit
    <3>5. QED
      BY <3>2, <3>3, <3>4 DEF ComposeTidy
  <2>5. QED
    BY <2>3, <2>4
<1>3. ASSUME Submit
      PROVE ComposeTyped' /\ ComposeTidy'
  <2> DEFINE k == IF ui.edit THEN "save" ELSE "create"
  <2>1. ui' \in ComposeUi /\ db' \in ComposeDb /\ db' = db
    BY <1>3 DEF ComposeTyped, ComposeUi, Submit
  <2>9. /\ ui'.edit = ui.edit /\ ui'.board = ui.board /\ ui'.tags = ui.tags
        /\ ui'.filled = ui.filled /\ ui'.sending = TRUE
        /\ ui.board # None /\ ~ui.sending /\ k = IF ui.edit THEN "save" ELSE "create"
    BY <1>3 DEF ComposeTyped, ComposeUi, Submit, Free, Complete
  <2>2. Grows(Call(k, None)) /\ calls' \in Seq(ComposeCall) /\ Len(calls) < MaxCalls
    BY <1>3, Sent, ComposeCallIs DEF ComposeTyped, Submit, Send
  <2>3. ComposeTyped'
    BY <2>1, <2>2 DEF ComposeTyped, ComposeAsks, Grows, Call
  <2>4. ComposeTidy'
    <3>1. ~upset' => ~upset
      BY <1>3, <2>1, <2>2 DEF Submit
    <3>2. ASSUME ~upset' PROVE SentOnce'
      BY <1>3, <2>1, <2>9, <2>2, <3>1, <3>2
         DEF Grows, ComposeTidy, SentOnce, Publishes, Call
    <3>3. ASSUME ~upset' PROVE FilledFirst'
      BY <1>3, <2>1, <2>9, <2>2, <3>1, <3>3
         DEF Grows, ComposeTidy, FilledFirst, UnderWay, Call
    <3>4. ASSUME ~upset' PROVE TagsFit'
      BY <1>3, <2>1, <2>9, <2>2, <3>1, <3>4 DEF ComposeTidy, TagsFit
    <3>5. QED
      BY <3>2, <3>3, <3>4 DEF ComposeTidy
  <2>5. QED
    BY <2>3, <2>4
<1>4. ASSUME ChangeAddress
      PROVE ComposeTyped' /\ ComposeTidy'
  <2>1. ui' \in ComposeUi /\ db' \in ComposeDb
    BY <1>4 DEF ComposeTyped, ComposeUi, ChangeAddress
  <2>2. \/ calls' = calls
        \/ Grows(Call("get", None)) /\ calls' \in Seq(ComposeCall) /\ Len(calls) < MaxCalls
    BY <1>4, Sent, ComposeCallIs DEF ComposeTyped, ChangeAddress
  <2>3. ComposeTyped'
    BY <1>4, <2>1, <2>2 DEF ComposeTyped, ComposeAsks, Grows, Call
  <2>4. QED
    BY <1>4, <2>3 DEF ComposeTidy, ChangeAddress
<1>5. QED
  BY <1>1, <1>2, <1>3, <1>4

(* A call that ends leaves one that sends the form alone, if it is not it.    *)
LEMMA SentOnceLess ==
  ASSUME ComposeTyped, SentOnce, NEW i \in DOMAIN calls, db' = db,
         \/ Shrinks(i)
         \/ \E k : k.kind \notin {"create", "save"} /\ Swaps(i, k),
         ui'.sending = ui.sending \/ Publishes(i),
         calls[i].kind = "create" => calls[i].ans = None
  PROVE  SentOnce'
<1>1. \A j \in DOMAIN calls' : Publishes(j)' =>
        /\ Before(i, j) \in DOMAIN calls /\ Before(i, j) # i
        /\ calls'[j] = calls[Before(i, j)] /\ Publishes(Before(i, j))
  BY DEF Shrinks, Swaps, Publishes
<1>2. \A j, l \in DOMAIN calls' : Publishes(j)' /\ Publishes(l)' /\ Before(i, j) = Before(i, l) => j = l
  BY DEF Shrinks, Swaps, Publishes
<1>3. \A l \in DOMAIN calls \ {i} : \E j \in DOMAIN calls' : calls'[j] = calls[l]
  BY DEF Shrinks, Swaps
<1>4. \A j, l \in DOMAIN calls' : Publishes(j)' /\ Publishes(l)' => j = l
  BY <1>1, <1>2 DEF SentOnce
<1>5. \A j \in DOMAIN calls' : Publishes(j)' => ui'.sending
  BY <1>1 DEF SentOnce
<1>6. db'.created = 1 => \E j \in DOMAIN calls' : calls'[j].kind = "create" /\ calls'[j].ans # None
  BY <1>3 DEF SentOnce
<1>7. QED
  BY <1>4, <1>5, <1>6 DEF SentOnce

LEMMA ComposeAnswersInv ==
  ASSUME ComposeTyped, ComposeTidy, NEW i \in DOMAIN calls,
         ServeCompose(i) \/ Filling(i) \/ TagsCame(i) \/ ImageCame(i) \/ ComposeMissed(i)
  PROVE ComposeTyped' /\ ComposeTidy'
<1> USE ComposeCallFields, ScreenAssumption, ComposeScreenAssumption
<1>1. ASSUME ServeCompose(i)
      PROVE ComposeTyped' /\ ComposeTidy'
  <2>1. ui' \in ComposeUi /\ db' \in ComposeDb /\ ui' = ui
    <3>1. CASE calls[i].kind = "create"
      BY <1>1, <3>1 DEF ComposeTyped, ComposeDb, ServeCompose
    <3>2. CASE calls[i].kind # "create"
      BY <1>1, <3>2 DEF ComposeTyped, ComposeDb, ServeCompose
    <3>3. QED
      BY <3>1, <3>2
  <2>2. Replies(i, "ok") /\ calls' \in Seq(ComposeCall)
    BY <1>1, Replied DEF ComposeTyped, ServeCompose, ComposeCall
  <2>3. ComposeTyped'
    BY <2>1, <2>2 DEF ComposeTyped, ComposeAsks, Replies
  <2>4. /\ db'.created = db.created + (IF calls[i].kind = "create" THEN 1 ELSE 0)
        /\ db.created \in Nat
    BY <1>1 DEF ComposeTyped, ComposeDb, ServeCompose
  <2>5. ComposeTidy'
    <3>1. ~upset' => ~upset
      BY <1>1, <2>1, <2>2, <2>4 DEF ServeCompose
    <3>2. ASSUME ~upset' PROVE SentOnce'
      <4>1. SentOnce /\ calls[i].ans = None
        BY <1>1, <3>1, <3>2 DEF ComposeTidy, ServeCompose
      <4>2. /\ \A j, l \in DOMAIN calls' : Publishes(j)' /\ Publishes(l)' => j = l
            /\ \A j \in DOMAIN calls' : Publishes(j)' => ui'.sending
        BY <2>1, <2>2, <4>1 DEF Replies, SentOnce, Publishes
      <4>3. CASE calls[i].kind = "create"
        <5>1. db.created # 1
          BY <4>1, <4>3 DEF SentOnce, Publishes
        <5>2. db'.created = 1
          BY <2>4, <4>1, <4>3, <5>1 DEF SentOnce
        <5>3. QED
          BY <2>2, <4>2, <4>3, <5>2, ScreenAssumption DEF Replies, SentOnce
      <4>4. CASE calls[i].kind # "create"
        BY <2>2, <2>4, <4>1, <4>2, <4>4 DEF Replies, SentOnce
      <4>5. QED
        BY <4>3, <4>4
    <3>3. ASSUME ~upset' PROVE FilledFirst'
      BY <1>1, <2>1, <2>2, <2>4, <3>1, <3>3
         DEF Replies, ComposeTidy, FilledFirst, UnderWay, Call
    <3>4. ASSUME ~upset' PROVE TagsFit'
      BY <1>1, <2>1, <2>2, <2>4, <3>1, <3>4 DEF ComposeTidy, TagsFit
    <3>5. QED
      BY <3>2, <3>3, <3>4 DEF ComposeTidy
  <2>6. QED
    BY <2>3, <2>5
<1>2. ASSUME Filling(i)
      PROVE ComposeTyped' /\ ComposeTidy'
  <2>1. ui' \in ComposeUi /\ db' \in ComposeDb /\ db' = db
    <3>1. TagsOf[EditBoard] \subseteq Tags /\ 1 \in 0 .. MaxImages + 2 * MaxPick
      BY DEF Tags
    <3>2. QED
      BY <1>2, <3>1 DEF ComposeTyped, ComposeUi, Filling, Filled, Texts
  <2>2. /\ calls' \in Seq(ComposeCall)
        /\ Swaps(i, Call("tags", EditBoard)) \/ Shrinks(i)
    BY <1>2, Swapped, Ended, ComposeCallIs DEF ComposeTyped, Filling, AskTags, Ends
  <2>3. ComposeTyped'
    BY <2>1, <2>2 DEF ComposeTyped, ComposeAsks, Swaps, Shrinks, Call
  <2>4. /\ ui'.board = EditBoard /\ ui'.tags = TagsOf[EditBoard] /\ ui'.filled = TRUE
        /\ ui'.sending = ui.sending
    BY <1>2 DEF ComposeTyped, ComposeUi, Filling, Filled
  <2>5. ComposeTidy'
    <3>1. ~upset' => ~upset
      BY <1>2, <2>1, <2>2, <2>4 DEF Filling
    <3>2. ASSUME ~upset' PROVE SentOnce'
      BY <1>2, <2>1, <2>2, <2>4, <3>1, <3>2, SentOnceLess
         DEF ComposeTidy, Publishes, Call, Filling, TagsCame, ImageCame, ComposeMissed
    <3>3. ASSUME ~upset' PROVE FilledFirst'
      BY <1>2, <2>1, <2>2, <2>4, <3>1, <3>3
         DEF Swaps, Shrinks, ComposeTidy, FilledFirst, UnderWay, Call
    <3>4. ASSUME ~upset' PROVE TagsFit'
      BY <1>2, <2>1, <2>2, <2>4, <3>1, <3>4 DEF ComposeTidy, TagsFit
    <3>5. QED
      BY <3>2, <3>3, <3>4 DEF ComposeTidy
  <2>6. QED
    BY <2>3, <2>5
<1>3. ASSUME TagsCame(i)
      PROVE ComposeTyped' /\ ComposeTidy'
  <2>1. ui' \in ComposeUi /\ db' \in ComposeDb /\ db' = db
    BY <1>3 DEF ComposeTyped, ComposeUi, TagsCame, ComposeAsks
  <2>9. /\ ui'.edit = ui.edit /\ ui'.board = ui.board /\ ui'.tags = ui.tags
        /\ ui'.filled = ui.filled /\ ui'.sending = ui.sending
    BY <1>3 DEF ComposeTyped, ComposeUi, TagsCame
  <2>2. calls' \in Seq(ComposeCall) /\ Shrinks(i)
    BY <1>3, Ended, ComposeCallIs DEF ComposeTyped, TagsCame
  <2>3. ComposeTyped'
    BY <2>1, <2>2 DEF ComposeTyped, ComposeAsks, Shrinks
  <2>4. ComposeTidy'
    <3>1. ~upset' => ~upset
      BY <1>3, <2>1, <2>2 DEF TagsCame
    <3>2. ASSUME ~upset' PROVE SentOnce'
      BY <1>3, <2>1, <2>9, <2>2, <3>1, <3>2, SentOnceLess
         DEF ComposeTidy, Publishes, Call, Filling, TagsCame, ImageCame, ComposeMissed
    <3>3. ASSUME ~upset' PROVE FilledFirst'
      BY <1>3, <2>1, <2>9, <2>2, <3>1, <3>3
         DEF Shrinks, ComposeTidy, FilledFirst, UnderWay, Call
    <3>4. ASSUME ~upset' PROVE TagsFit'
      BY <1>3, <2>1, <2>9, <2>2, <3>1, <3>4 DEF ComposeTidy, TagsFit
    <3>5. QED
      BY <3>2, <3>3, <3>4 DEF ComposeTidy
  <2>5. QED
    BY <2>3, <2>4
<1>4. ASSUME ImageCame(i)
      PROVE ComposeTyped' /\ ComposeTidy'
  <2> DEFINE n == calls[i].of
  <2>0. n \in 1 .. MaxPick
    BY <1>4 DEF ComposeTyped, ComposeAsks, ImageCame
  <2>1. ui' \in ComposeUi /\ db' \in ComposeDb /\ db' = db
    <3>1. /\ ui.images \in Nat /\ ui.images < MaxImages + MaxPick
          /\ ui.images + 1 \in 0 .. MaxImages + 2 * MaxPick
      BY <1>4 DEF ComposeTyped, ComposeUi, ImageCame
    <3>2. Room(ui.images + n) \in 0 .. MaxImages + 2 * MaxPick
      BY <2>0, <3>1 DEF Room
    <3>3. Uploaded(n) \in ComposeUi
      <4>1. CASE client = "web"
        <5>1. Uploaded(n) = [ui EXCEPT !.images = ui.images + 1, !.uploading = n > 1]
          BY <4>1 DEF Uploaded
        <5>2. (n > 1) \in BOOLEAN
          OBVIOUS
        <5> DEFINE more == ui.images + 1
                   turns == n > 1
        <5> HIDE DEF n
        <5>3. more \in 0 .. MaxImages + 2 * MaxPick /\ turns \in BOOLEAN
          BY <3>1, <5>2
        <5> HIDE DEF more, turns
        <5>4. [ui EXCEPT !.images = more, !.uploading = turns] \in ComposeUi
          BY <5>3 DEF ComposeTyped, ComposeUi
        <5>5. QED
          BY <5>1, <5>4 DEF more, turns
      <4>2. CASE client # "web"
        BY <2>0, <3>2, <4>2 DEF ComposeTyped, ComposeUi, Uploaded
      <4>3. QED
        BY <4>1, <4>2
    <3>4. QED
      BY <1>4, <3>3 DEF ComposeTyped, ImageCame
  <2>2. /\ calls' \in Seq(ComposeCall)
        /\ (n > 1 /\ Swaps(i, Call("upload", n - 1))) \/ Shrinks(i)
    BY <1>4, <2>0, Swapped, Ended, ComposeCallIs DEF ComposeTyped, ImageCame, Ends
  <2>3. ComposeTyped'
    BY <2>0, <2>1, <2>2 DEF ComposeTyped, ComposeAsks, Swaps, Shrinks, Call
  <2>4. /\ ui'.board = ui.board /\ ui'.tags = ui.tags /\ ui'.filled = ui.filled
        /\ ui'.sending = ui.sending
        /\ ui'.edit = ui.edit
    BY <1>4 DEF ComposeTyped, ComposeUi, ImageCame, Uploaded
  <2>5. ComposeTidy'
    <3>1. ~upset' => ~upset
      BY <1>4, <2>1, <2>2, <2>4 DEF ImageCame
    <3>2. ASSUME ~upset' PROVE SentOnce'
      BY <1>4, <2>1, <2>2, <2>4, <3>1, <3>2, SentOnceLess
         DEF ComposeTidy, Publishes, Call, Filling, TagsCame, ImageCame, ComposeMissed
    <3>3. ASSUME ~upset' PROVE FilledFirst'
      BY <1>4, <2>1, <2>2, <2>4, <3>1, <3>3
         DEF Swaps, Shrinks, ComposeTidy, FilledFirst, UnderWay, Call
    <3>4. ASSUME ~upset' PROVE TagsFit'
      BY <1>4, <2>1, <2>2, <2>4, <3>1, <3>4 DEF ComposeTidy, TagsFit
    <3>5. QED
      BY <3>2, <3>3, <3>4 DEF ComposeTidy
  <2>6. QED
    BY <2>3, <2>5
<1>5. ASSUME ComposeMissed(i)
      PROVE ComposeTyped' /\ ComposeTidy'
  <2>1. ui' \in ComposeUi /\ db' \in ComposeDb /\ db' = db
    BY <1>5 DEF ComposeTyped, ComposeUi, ComposeMissed
  <2>2. calls' \in Seq(ComposeCall) /\ Shrinks(i)
    BY <1>5, Ended DEF ComposeTyped, ComposeMissed
  <2>3. ComposeTyped'
    BY <2>1, <2>2 DEF ComposeTyped, ComposeAsks, Shrinks
  <2>4. /\ ui'.board = ui.board /\ ui'.tags = ui.tags /\ ui'.filled = ui.filled
        /\ ui'.edit = ui.edit /\ (~Publishes(i) => ui'.sending = ui.sending)
    BY <1>5 DEF ComposeTyped, ComposeUi, ComposeMissed, Publishes
  <2>5. ComposeTidy'
    <3>1. ~upset' => ~upset
      BY <1>5, <2>1, <2>2, <2>4 DEF ComposeMissed
    <3>2. ASSUME ~upset' PROVE SentOnce'
      BY <1>5, <2>1, <2>2, <2>4, <3>1, <3>2, SentOnceLess
         DEF ComposeTidy, Publishes, Call, Filling, TagsCame, ImageCame, ComposeMissed
    <3>3. ASSUME ~upset' PROVE FilledFirst'
      BY <1>5, <2>1, <2>2, <2>4, <3>1, <3>3
         DEF Shrinks, ComposeTidy, FilledFirst, UnderWay, Call
    <3>4. ASSUME ~upset' PROVE TagsFit'
      BY <1>5, <2>1, <2>2, <2>4, <3>1, <3>4 DEF ComposeTidy, TagsFit
    <3>5. QED
      BY <3>2, <3>3, <3>4 DEF ComposeTidy
  <2>6. QED
    BY <2>3, <2>5
<1>6. QED
  BY <1>1, <1>2, <1>3, <1>4, <1>5

LEMMA ComposeNextInv ==
  ASSUME ComposeInv, ComposeNext
  PROVE  ComposeInv'
<1>1. screen = "compose" /\ ComposeTyped /\ ComposeTidy
  BY DEF ComposeInv, ComposeNext
<1>2. CASE \E i \in DOMAIN calls : Published(i)
  BY <1>2 DEF Published, Opens, Home, Mount, ComposeInv
<1>3. CASE \E i \in DOMAIN calls :
             \/ ServeCompose(i) \/ Filling(i) \/ TagsCame(i)
             \/ ImageCame(i) \/ ComposeMissed(i)
  BY <1>1, <1>3, ComposeAnswersInv DEF ComposeInv
<1>4. CASE AppCompose \/ WebCompose
  BY <1>1, <1>4, ComposeFieldsInv, ComposeSendsInv
     DEF ComposeInv, AppCompose, WebCompose
<1>5. QED
  BY <1>2, <1>3, <1>4 DEF ComposeNext, ComposeAnswers

LEMMA ComposeMounted ==
  ASSUME NEW m \in ComposeMounts
  PROVE  /\ m.screen = "compose" /\ m.client \in Clients
         /\ Starts(m) => ComposeInv
         /\ Opens(m) => ComposeInv'
<1>1. PICK c \in Clients, e \in BOOLEAN :
        m = Mount(c, "compose",
              [edit |-> e, board |-> None, tags |-> {}, avail |-> None, custom |-> 0,
               images |-> 0, text |-> "none", filled |-> FALSE, uploading |-> FALSE,
               sending |-> FALSE],
              IF e THEN <<Call("get", None)>> ELSE <<>>,
              [created |-> 0, saved |-> FALSE])
  BY DEF ComposeMounts, Mount, Call
<1>2. /\ m.client = c /\ m.screen = "compose"
      /\ m.ui \in ComposeUi /\ m.db \in ComposeDb /\ m.ui.board = None
      /\ m.db.created = 0
      /\ m.calls = IF e THEN <<Call("get", None)>> ELSE <<>>
  BY <1>1, ComposeScreenAssumption DEF Mount, ComposeUi, ComposeDb, Texts
<1>3. /\ m.calls \in Seq(ComposeCall) /\ Len(m.calls) \in {0, 1}
      /\ \A i \in DOMAIN m.calls : m.calls[i].kind = "get"
  BY <1>2, ComposeCallIs DEF Call
<1>4. Starts(m) => ComposeInv
  BY <1>2, <1>3, ScreenAssumption
     DEF Starts, ComposeInv, ComposeTyped, ComposeTidy, ComposeAsks, SentOnce,
         Publishes, FilledFirst, TagsFit, UnderWay
<1>5. Opens(m) => ComposeInv'
  BY <1>2, <1>3, ScreenAssumption
     DEF Opens, ComposeInv, ComposeTyped, ComposeTidy, ComposeAsks, SentOnce,
         Publishes, FilledFirst, TagsFit, UnderWay
<1>6. QED
  BY <1>2, <1>4, <1>5

LEMMA ComposeKept == ComposeInv /\ UNCHANGED vars => ComposeInv'
BY DEF vars, ComposeInv, ComposeTyped, ComposeTidy, ComposeAsks, SentOnce, Publishes,
       FilledFirst, TagsFit, UnderWay

-----------------------------------------------------------------------------
(* The booking job.  Whether a seat is booked and what its plan says come     *)
(* apart between Book and Record: meanwhile a plan is held by one run only,  *)
(* is pending or deleted, and its seat is booked just if that run has won it. *)
Run == [todo : SUBSET Plans, at : Plans \cup {None}, won : BOOLEAN]

PlanDb == [st : [Plans -> Statuses], booked : SUBSET Plans, again : BOOLEAN,
           runs : [1 .. MaxRuns -> Run]]

(* No plan is worked on by two runs, and a run is at a plan it holds. *)
HeldByOne ==
  \A r, s \in 1 .. MaxRuns :
    /\ r # s => Held(r) \cap Held(s) = {}
    /\ db.runs[r].at # None => db.runs[r].at \in Held(r)

(* What is held waits for Record, and is booked just if its run has won it. *)
HeldIsOpen ==
  \A r \in 1 .. MaxRuns : \A p \in Held(r) :
    /\ db.st[p] \in {"pending", "gone"}
    /\ (p \in db.booked) = (db.runs[r].at = p /\ db.runs[r].won)

(* What no run holds and none has carried out is not booked. *)
UnheldIsUnbooked ==
  \A p \in Plans :
    (db.st[p] \in {"none", "pending"} /\ \A r \in 1 .. MaxRuns : p \notin Held(r)) =>
      p \notin db.booked

Told ==
  \A p \in Plans :
    (db.st[p] \in {"done", "failed"}) => (db.st[p] = "done") = (p \in db.booked)

Honest == ~db.again => HeldByOne /\ HeldIsOpen /\ UnheldIsUnbooked /\ Told

PlanInv == screen = "plans" => db \in PlanDb /\ Honest

(* What is mounted as the list of plans, and that it satisfies the invariant. *)
LEMMA PlanMountsHonest ==
  ASSUME NEW m \in Mounts, m.screen = "plans"
  PROVE  /\ m.db \in PlanDb
         /\ ~m.db.again
         /\ m.db.booked = {}
         /\ \A r \in 1 .. MaxRuns : m.db.runs[r] = NoRun
         /\ \A p \in Plans : m.db.st[p] \in {"none", "pending"}
<1> USE DEF Mount
<1>1. \A x \in PostMounts : x.screen # "plans"
  BY DEF PostMounts
<1>2. \A x \in ReplyMounts : x.screen # "plans"
  BY DEF ReplyMounts
<1>3. \A x \in ComposeMounts : x.screen # "plans"
  BY DEF ComposeMounts
<1>4. \A x \in SearchMounts : x.screen # "plans"
  BY DEF SearchMounts, SearchPage
<1>5. \A x \in HistoryMounts : x.screen # "plans"
  BY DEF HistoryMounts
<1>6. \A x \in ChatMounts \cup MailMounts \cup NoteMounts : x.screen # "plans"
  BY DEF ChatMounts, MailMounts, NoteMounts
<1>7. \A x \in AccountMounts : x.screen # "plans"
  BY DEF AccountMounts, ProfileMounts, CampusMounts, CodeMounts
<1>8. \A x \in BrowseMounts : x.screen # "plans"
  <2>1. /\ \A c, u, b : BoardPage(c, u, b).screen # "plans"
        /\ \A w : DictPage(w).screen # "plans"
        /\ \A c, t, d : ListPage(c, t, d).screen # "plans"
    BY DEF BoardPage, DictPage, ListPage
  <2>2. QED
    BY <2>1 DEF BrowseMounts
<1>9. m \in PlanMounts
  BY <1>1, <1>2, <1>3, <1>4, <1>5, <1>6, <1>7, <1>8 DEF Mounts
<1>10. PICK c \in Clients, s \in [Plans -> {"none", "pending"}] :
        m = Mount(c, "plans", [plans |-> None, deleting |-> {}],
                  <<Call("plans", None)>>,
                  [st |-> s, booked |-> {}, again |-> FALSE,
                   runs |-> [r \in 1 .. MaxRuns |-> NoRun]])
  BY <1>9 DEF PlanMounts
<1>11. s \in [Plans -> Statuses]
  BY DEF Statuses
<1>12. NoRun \in Run
  BY DEF NoRun, Run
<1>13. m.db \in PlanDb
  BY <1>10, <1>11, <1>12 DEF PlanDb
<1>14. QED
  BY <1>10, <1>13

LEMMA PlanMounted ==
  ASSUME NEW m \in Mounts
  PROVE  /\ Starts(m) => PlanInv
         /\ Opens(m) => PlanInv'
<1>1. CASE m.screen = "plans"
  <2> USE PlanMountsHonest, <1>1, PlanScreenAssumption
        DEF PlanInv, Honest, HeldByOne, HeldIsOpen, UnheldIsUnbooked, Told, Held, NoRun
  <2>1. Starts(m) => PlanInv
    BY DEF Starts
  <2>2. Opens(m) => PlanInv'
    BY DEF Opens
  <2>3. QED
    BY <2>1, <2>2
<1>2. CASE m.screen # "plans"
  BY <1>2 DEF Starts, Opens, PlanInv
<1>3. QED
  BY <1>1, <1>2

(* What ServePlan makes of the plans: a plan is made or deleted, or nothing. *)
LEMMA ServePlanInv ==
  ASSUME PlanInv, screen = "plans", NEW i \in DOMAIN calls, ServePlan(i)
  PROVE  PlanInv'
<1> USE PlanScreenAssumption
<1>1. db \in PlanDb /\ Honest
  BY DEF PlanInv
<1>2. \/ db' = db
      \/ \E p \in Plans : db.st[p] = "none" /\ db' = [db EXCEPT !.st[p] = "pending"]
      \/ \E p : db' = [db EXCEPT !.st[p] = "gone"]
  BY DEF ServePlan, AfterPlan
<1>3. CASE db' = db
  BY <1>1, <1>3 DEF PlanInv, Honest, HeldByOne, HeldIsOpen, UnheldIsUnbooked, Told, Held
<1>4. ASSUME NEW p \in Plans, db.st[p] = "none", db' = [db EXCEPT !.st[p] = "pending"]
      PROVE  PlanInv'
  <2>1. db' \in PlanDb
    BY <1>1, <1>4 DEF PlanDb, Statuses
  <2>2. /\ db'.st = [db.st EXCEPT ![p] = "pending"]
        /\ db'.booked = db.booked /\ db'.again = db.again /\ db'.runs = db.runs
    BY <1>1, <1>4 DEF PlanDb
  <2>3. Honest'
    BY <1>1, <1>4, <2>2
       DEF PlanDb, Honest, HeldByOne, HeldIsOpen, UnheldIsUnbooked, Told, Held, Run
  <2>4. QED
    BY <2>1, <2>3 DEF PlanInv
<1>5. ASSUME NEW p, db' = [db EXCEPT !.st[p] = "gone"]
      PROVE  PlanInv'
  <2>1. db' \in PlanDb
    BY <1>1, <1>5 DEF PlanDb, Statuses
  <2>2. /\ db'.st = [db.st EXCEPT ![p] = "gone"]
        /\ db'.booked = db.booked /\ db'.again = db.again /\ db'.runs = db.runs
    BY <1>1, <1>5 DEF PlanDb
  <2>3. Honest'
    BY <1>1, <2>2
       DEF PlanDb, Honest, HeldByOne, HeldIsOpen, UnheldIsUnbooked, Told, Held, Run
  <2>4. QED
    BY <2>1, <2>3 DEF PlanInv
<1>6. QED
  BY <1>2, <1>3, <1>4, <1>5

(* A run that starts holds what was pending; if another one holds any of it, *)
(* the plan is run again.                                                  *)
LEMMA StartRunInv ==
  ASSUME PlanInv, screen = "plans", NEW r \in DOMAIN db.runs, StartRun(r)
  PROVE  PlanInv'
<1> DEFINE due == {p \in Plans : db.st[p] = "pending"}
<1>1. db \in PlanDb /\ Honest
  BY DEF PlanInv
<1>2. r \in 1 .. MaxRuns /\ DOMAIN db.runs = 1 .. MaxRuns
  BY <1>1 DEF PlanDb
<1>3. /\ db'.st = db.st /\ db'.booked = db.booked
      /\ db'.again = (db.again \/ \E s \in DOMAIN db.runs : Held(s) \cap due # {})
      /\ db'.runs = [db.runs EXCEPT ![r].todo = due]
  BY <1>1, <1>2 DEF StartRun, PlanDb
<1> DEFINE new == [db.runs[r] EXCEPT !.todo = due]
<1>4. new \in Run /\ new.todo = due /\ new.at = db.runs[r].at
  <2>1. db.runs[r] \in Run
    BY <1>1, <1>2 DEF PlanDb
  <2>2. QED
    BY <2>1 DEF Run
<1>5. db'.runs = [db.runs EXCEPT ![r] = new]
  BY <1>3
<1> HIDE DEF new
<1>6. db' \in PlanDb
  <2>1. db'.runs \in [1 .. MaxRuns -> Run]
    BY <1>1, <1>2, <1>4, <1>5 DEF PlanDb
  <2>2. db' = [st |-> db'.st, booked |-> db'.booked, again |-> db'.again,
               runs |-> db'.runs]
    BY <1>1 DEF StartRun, PlanDb
  <2>3. db'.again \in BOOLEAN
    BY <1>1, <1>3 DEF PlanDb
  <2>4. QED
    BY <1>1, <1>3, <2>1, <2>2, <2>3 DEF PlanDb
<1>7. ASSUME ~db'.again
      PROVE  (HeldByOne /\ HeldIsOpen /\ UnheldIsUnbooked /\ Told)'
  <2>1. ~db.again /\ \A s \in 1 .. MaxRuns : Held(s) \cap due = {}
    BY <1>2, <1>3, <1>7
  <2>2. HeldByOne /\ HeldIsOpen /\ UnheldIsUnbooked /\ Told
    BY <1>1, <2>1 DEF Honest
  <2>3. Held(r) = {} /\ db.runs[r].at = None
    BY <1>2, <2>2 DEF HeldByOne, StartRun
  <2>4. /\ db'.runs[r].at = None /\ Held(r)' = due
        /\ \A s \in 1 .. MaxRuns : s # r => db'.runs[s] = db.runs[s]
    BY <1>1, <1>2, <1>4, <1>5, <2>3 DEF PlanDb, Held
  <2>5. HeldByOne'
    BY <2>1, <2>2, <2>4 DEF HeldByOne, Held
  <2>6. \A p \in due : p \notin db.booked
    BY <2>1, <2>2 DEF UnheldIsUnbooked
  <2>7. HeldIsOpen'
    BY <1>3, <2>2, <2>4, <2>6, PlanScreenAssumption DEF HeldIsOpen, Held
  <2>8. UnheldIsUnbooked'
    BY <1>3, <2>2, <2>3, <2>4, <2>6 DEF UnheldIsUnbooked, Held
  <2>9. Told'
    BY <1>3, <2>2 DEF Told
  <2>10. QED
    BY <2>5, <2>7, <2>8, <2>9
<1>8. QED
  BY <1>6, <1>7 DEF PlanInv, Honest

(* The library is asked for the seat of a plan the run holds. *)
LEMMA BookInv ==
  ASSUME PlanInv, screen = "plans", NEW r \in DOMAIN db.runs, NEW p \in Plans,
         NEW won \in BOOLEAN, Book(r, p, won)
  PROVE  PlanInv'
<1>1. db \in PlanDb /\ Honest
  BY DEF PlanInv
<1>2. r \in 1 .. MaxRuns
  BY <1>1 DEF PlanDb
<1>3. /\ db'.st = db.st /\ db'.again = db.again
      /\ db'.booked = IF won THEN db.booked \cup {p} ELSE db.booked
      /\ db'.runs = [db.runs EXCEPT ![r].at = p, ![r].won = won]
  BY <1>1, <1>2 DEF Book, PlanDb
<1> DEFINE new == [db.runs[r] EXCEPT !.at = p, !.won = won]
<1>4. /\ new \in Run /\ new.at = p /\ new.won = won
      /\ new.todo = db.runs[r].todo
  <2>1. db.runs[r] \in Run
    BY <1>1, <1>2 DEF PlanDb
  <2>2. QED
    BY <2>1 DEF Run
<1>5. db'.runs = [db.runs EXCEPT ![r] = new]
  BY <1>1, <1>2, <1>3 DEF PlanDb
<1> HIDE DEF new
<1>6. db' \in PlanDb
  <2>1. db'.runs \in [1 .. MaxRuns -> Run]
    BY <1>1, <1>2, <1>4, <1>5 DEF PlanDb
  <2>2. db' = [st |-> db'.st, booked |-> db'.booked, again |-> db'.again,
               runs |-> db'.runs]
    BY <1>1 DEF Book, PlanDb
  <2>3. QED
    BY <1>1, <1>3, <2>1, <2>2 DEF PlanDb
<1>7. ASSUME ~db.again
      PROVE  (HeldByOne /\ HeldIsOpen /\ UnheldIsUnbooked /\ Told)'
  <2>1. HeldByOne /\ HeldIsOpen /\ UnheldIsUnbooked /\ Told
    BY <1>1, <1>7 DEF Honest
  <2>2. /\ p \in Held(r) /\ db.runs[r].at = None /\ (won => p \notin db.booked)
    BY DEF Book
  <2>3. /\ db'.runs[r].at = p /\ db'.runs[r].won = won /\ Held(r)' = Held(r)
        /\ \A s \in 1 .. MaxRuns : s # r => db'.runs[s] = db.runs[s]
    BY <1>1, <1>2, <1>4, <1>5 DEF PlanDb, Held
  <2>4. \A s \in 1 .. MaxRuns : Held(s)' = Held(s)
    BY <2>3 DEF Held
  <2>5. p \notin db.booked
    BY <1>2, <2>1, <2>2, PlanScreenAssumption DEF HeldIsOpen
  <2>6. HeldByOne'
    BY <1>2, <2>1, <2>2, <2>3, <2>4 DEF HeldByOne
  <2>7. HeldIsOpen'
    <3> SUFFICES ASSUME NEW s \in 1 .. MaxRuns, NEW q \in Held(s)
                 PROVE  /\ db'.st[q] \in {"pending", "gone"}
                        /\ (q \in db'.booked) = (db'.runs[s].at = q /\ db'.runs[s].won)
      BY <2>4 DEF HeldIsOpen
    <3>1. /\ db.st[q] \in {"pending", "gone"} /\ q \in Plans
          /\ (q \in db.booked) = (db.runs[s].at = q /\ db.runs[s].won)
      BY <1>1, <2>1 DEF HeldIsOpen, PlanDb, Run, Held
    <3>2. CASE s # r
      <4>1. q # p
        BY <1>2, <2>1, <2>2, <3>2 DEF HeldByOne
      <4>2. (q \in db'.booked) = (q \in db.booked)
        BY <1>3, <4>1
      <4>3. QED
        BY <1>3, <2>3, <3>1, <3>2, <4>2
    <3>3. CASE s = r /\ q = p
      BY <1>3, <2>3, <2>5, <3>1, <3>3
    <3>4. CASE s = r /\ q # p
      BY <1>3, <2>2, <2>3, <3>1, <3>4, PlanScreenAssumption
    <3>5. QED
      BY <3>2, <3>3, <3>4
  <2>8. UnheldIsUnbooked'
    BY <1>2, <1>3, <2>1, <2>2, <2>4 DEF UnheldIsUnbooked
  <2>9. Told'
    BY <1>2, <1>3, <2>1, <2>2 DEF Told, HeldIsOpen
  <2>10. QED
    BY <2>6, <2>7, <2>8, <2>9
<1>8. QED
  BY <1>3, <1>6, <1>7 DEF PlanInv, Honest, Book, Stays

(* What was booked is written down, unless the plan was deleted meanwhile. *)
LEMMA RecordInv ==
  ASSUME PlanInv, screen = "plans", NEW r \in DOMAIN db.runs, Record(r)
  PROVE  PlanInv'
<1> DEFINE p == db.runs[r].at
<1>1. db \in PlanDb /\ Honest
  BY DEF PlanInv
<1>2. r \in 1 .. MaxRuns /\ p \in Plans
  BY <1>1 DEF PlanDb, Run, Record
<1> DEFINE free == [db.runs[r] EXCEPT !.todo = Held(r) \ {p}, !.at = None, !.won = FALSE]
<1>3. /\ free \in Run /\ free.todo = Held(r) \ {p}
      /\ free.at = None /\ free.won = FALSE
  <2>1. db.runs[r] \in Run
    BY <1>1, <1>2 DEF PlanDb
  <2>2. QED
    BY <2>1 DEF Run, Held
<1> DEFINE new == IF db.st[p] = "gone" THEN "gone" ELSE Outcome(r)
<1>4. /\ db'.st = [db.st EXCEPT ![p] = new]
      /\ db'.again = db.again /\ db'.booked = db.booked
      /\ db'.runs = [db.runs EXCEPT ![r] = free]
  BY <1>1, <1>2 DEF Record, PlanDb, Held
<1> HIDE DEF free
<1>5. db' \in PlanDb
  <2>1. db'.runs \in [1 .. MaxRuns -> Run]
    BY <1>1, <1>2, <1>3, <1>4 DEF PlanDb
  <2>2. db'.st \in [Plans -> Statuses]
    BY <1>1, <1>3, <1>4 DEF PlanDb, Statuses, Outcome
  <2>3. db' = [st |-> db'.st, booked |-> db'.booked, again |-> db'.again,
               runs |-> db'.runs]
    BY <1>1 DEF Record, PlanDb
  <2>4. QED
    BY <1>1, <1>3, <1>4, <2>1, <2>2, <2>3 DEF PlanDb
<1>6. ASSUME ~db.again
      PROVE  (HeldByOne /\ HeldIsOpen /\ UnheldIsUnbooked /\ Told)'
  <2>1. HeldByOne /\ HeldIsOpen /\ UnheldIsUnbooked /\ Told
    BY <1>1, <1>6 DEF Honest
  <2>2. p \in Held(r) /\ p # None
    BY <1>2, <2>1 DEF Record, HeldByOne
  <2>3. /\ db'.runs[r].at = None /\ Held(r)' = Held(r) \ {p}
        /\ \A s \in 1 .. MaxRuns : s # r => db'.runs[s] = db.runs[s]
    BY <1>1, <1>2, <1>3, <1>4 DEF PlanDb, Run, Held
  <2>4. \A s \in 1 .. MaxRuns : s # r => Held(s)' = Held(s) /\ p \notin Held(s)
    BY <1>2, <2>1, <2>2, <2>3 DEF HeldByOne, Held
  <2>5. \A q \in Plans : q # p => db'.st[q] = db.st[q]
    BY <1>1, <1>3, <1>4 DEF PlanDb
  <2>6. db'.st[p] = new /\ (p \in db.booked) = db.runs[r].won
    BY <1>1, <1>2, <1>3, <1>4, <2>1, <2>2 DEF PlanDb, HeldIsOpen, Run
  <2>7. HeldByOne'
    BY <1>2, <2>1, <2>3, <2>4 DEF HeldByOne, Held
  <2>8. HeldIsOpen'
    <3> SUFFICES ASSUME NEW s \in 1 .. MaxRuns, NEW q \in Held(s)'
                 PROVE  /\ db'.st[q] \in {"pending", "gone"}
                        /\ (q \in db'.booked) = (db'.runs[s].at = q /\ db'.runs[s].won)
      BY DEF HeldIsOpen
    <3>1. q \in Held(s) /\ q # p /\ q \in Plans
      BY <1>1, <2>3, <2>4 DEF PlanDb, Run, Held
    <3>2. db'.st[q] \in {"pending", "gone"}
      BY <2>1, <2>5, <3>1 DEF HeldIsOpen
    <3>3. (q \in db.booked) = (db.runs[s].at = q /\ db.runs[s].won)
      BY <2>1, <3>1 DEF HeldIsOpen
    <3>4. CASE s = r
      BY <1>3, <1>4, <2>3, <3>1, <3>2, <3>3, <3>4, PlanScreenAssumption
    <3>5. CASE s # r
      BY <1>3, <1>4, <2>3, <3>2, <3>3, <3>5
    <3>6. QED
      BY <3>4, <3>5
  <2>9. UnheldIsUnbooked'
    <3> SUFFICES ASSUME NEW q \in Plans, db'.st[q] \in {"none", "pending"},
                        \A s \in 1 .. MaxRuns : q \notin Held(s)'
                 PROVE  q \notin db'.booked
      BY DEF UnheldIsUnbooked
    <3>1. q # p
      BY <2>6 DEF Outcome
    <3>2. \A s \in 1 .. MaxRuns : q \notin Held(s)
      BY <2>3, <2>4, <3>1
    <3>3. QED
      BY <1>3, <1>4, <2>1, <2>5, <3>1, <3>2 DEF UnheldIsUnbooked
  <2>10. Told'
    <3> SUFFICES ASSUME NEW q \in Plans, db'.st[q] \in {"done", "failed"}
                 PROVE  (db'.st[q] = "done") = (q \in db'.booked)
      BY DEF Told
    <3>1. CASE q = p
      BY <1>1, <1>2, <1>3, <1>4, <2>6, <3>1 DEF Outcome, PlanDb, Run
    <3>2. CASE q # p
      BY <1>3, <1>4, <2>1, <2>5, <3>2 DEF Told
    <3>3. QED
      BY <3>1, <3>2
  <2>11. QED
    BY <2>7, <2>8, <2>9, <2>10
<1>7. QED
  BY <1>3, <1>4, <1>5, <1>6 DEF PlanInv, Honest, Record, Stays

(* A restart forgets what the runs hold; only a run between Book and Record  *)
(* leaves a booked plan that is due again.                                 *)
LEMMA RestartJobInv ==
  ASSUME PlanInv, screen = "plans", RestartJob
  PROVE  PlanInv'
<1>1. db \in PlanDb /\ Honest
  BY DEF PlanInv
<1>2. /\ db'.st = db.st /\ db'.booked = db.booked
      /\ db'.again = (db.again \/ \E r \in 1 .. MaxRuns : db.runs[r].at # None)
      /\ db'.runs = [r \in 1 .. MaxRuns |-> NoRun]
  BY <1>1 DEF RestartJob, PlanDb
<1>3. db' \in PlanDb
  <2>1. NoRun \in Run
    BY DEF NoRun, Run
  <2>2. QED
    BY <1>1, <2>1 DEF RestartJob, PlanDb
<1>4. ASSUME ~db'.again
      PROVE  (HeldByOne /\ HeldIsOpen /\ UnheldIsUnbooked /\ Told)'
  <2>1. ~db.again /\ \A r \in 1 .. MaxRuns : db.runs[r].at = None
    BY <1>2, <1>4
  <2>2. HeldIsOpen /\ UnheldIsUnbooked /\ Told
    BY <1>1, <2>1 DEF Honest
  <2>3. \A r \in 1 .. MaxRuns : Held(r)' = {} /\ db'.runs[r].at = None
    BY <1>2 DEF Held, NoRun
  <2>4. \A r \in 1 .. MaxRuns : \A q \in Plans : q \in Held(r) => q \notin db.booked
    BY <2>1, <2>2, PlanScreenAssumption DEF HeldIsOpen
  <2>5. HeldByOne' /\ HeldIsOpen'
    BY <2>3 DEF HeldByOne, HeldIsOpen
  <2>6. UnheldIsUnbooked'
    BY <1>2, <2>2, <2>4 DEF UnheldIsUnbooked
  <2>7. Told'
    BY <1>2, <2>2 DEF Told
  <2>8. QED
    BY <2>5, <2>6, <2>7
<1>5. QED
  BY <1>3, <1>4 DEF PlanInv, Honest

LEMMA PlanNextInv ==
  ASSUME PlanInv, PlanNext
  PROVE  PlanInv'
<1>1. CASE screen # "plans"
  <2>1. screen' # "plans"
    BY <1>1
       DEF PlanNext, AppSeats, WebSeats, FormActions, ChooseBuilding, ChooseRoom,
           ChooseDate, AskSeats, ChooseSeat, ChooseNoSeat, SubmitPlan, ServePlan,
           PlanAnswered, PlanMissed, Stays
  <2>2. QED
    BY <2>1 DEF PlanInv
<1>2. CASE screen = "plans"
  <2>1. CASE UNCHANGED db
    BY <1>2, <2>1
       DEF PlanInv, Honest, HeldByOne, HeldIsOpen, UnheldIsUnbooked, Told, Held
  <2>2. CASE JobNext
    BY <1>2, <2>2, StartRunInv, BookInv, RecordInv, RestartJobInv DEF JobNext
  <2>3. CASE \E i \in DOMAIN calls : ServePlan(i)
    BY <1>2, <2>3, ServePlanInv
  <2>4. QED
    BY <1>2, <2>1, <2>2, <2>3
       DEF PlanNext, AppPlans, WebPlans, DeletePlan, PlanAnswered, PlanMissed
<1>3. QED
  BY <1>1, <1>2

LEMMA PlanKept == PlanInv /\ UNCHANGED vars => PlanInv'
BY DEF vars, PlanInv, Honest, HeldByOne, HeldIsOpen, UnheldIsUnbooked, Told, Held

-----------------------------------------------------------------------------
(* The form of a plan.  Until a spinner turns, the seats on the screen are    *)
(* those of the room and the day on it, and so will be those that are asked  *)
(* for, unless a list was asked for while another one was under way.         *)
PlanLists == {None} \cup UNION {[S -> Statuses] : S \in SUBSET Plans}

SeatsUi ==
  [building : Buildings \cup {None}, rooms : Buildings \cup {None},
   room : Rooms \cup {None}, seats : SeatList \cup {None},
   seat : SeatList \cup {None}, date : Dates, turning : BOOLEAN,
   sending : BOOLEAN, loaded : BOOLEAN, plans : PlanLists]

SeatsCall ==
  CallOf({"plans", "buildings", "rooms", "seats", "create"},
         {None} \cup Buildings \cup SeatList
           \cup [seat : SeatList, room : Rooms, date : Dates],
         {"ok"} \cup PlanLists)

SeatsAsks ==
  \A i \in DOMAIN calls :
    /\ calls[i].kind = "rooms" => calls[i].of \in Buildings
    /\ calls[i].kind = "seats" => calls[i].of \in SeatList
    /\ calls[i].kind = "plans" => calls[i].ans \in PlanLists

Here == [room |-> ui.room, date |-> ui.date]

Offered ==
  /\ ui.seat # None => ui.seat = Here /\ ui.room # None
  /\ ui.room # None =>
       /\ \A i \in DOMAIN calls : calls[i].kind = "seats" => calls[i].of = Here
       /\ ~ui.turning => ui.seats \in {None, Here}

SeatsTyped ==
  /\ ui \in SeatsUi /\ db \in PlanDb
  /\ calls \in Seq(SeatsCall) /\ SeatsAsks
  /\ Len(calls) <= 2 * MaxCalls

SeatsTidy == ~upset => Offered

SeatsInv == screen = "seats" => SeatsTyped /\ SeatsTidy

LEMMA SeatsCallFields ==
  ASSUME SeatsTyped
  PROVE  /\ Len(calls) \in Nat
         /\ \A i \in DOMAIN calls :
              calls[i].kind \in {"plans", "buildings", "rooms", "seats", "create"}
BY Fields DEF SeatsTyped, SeatsCall

LEMMA SeatsCallIs ==
  ASSUME NEW k \in {"plans", "buildings", "rooms", "seats", "create"},
         NEW o \in {None} \cup Buildings \cup SeatList
                     \cup [seat : SeatList, room : Rooms, date : Dates]
  PROVE  Call(k, o) \in SeatsCall
BY Fields DEF SeatsCall, PlanLists

LEMMA PlansListed ==
  ASSUME db \in PlanDb
  PROVE  PlansOf(db) \in PlanLists
<1> DEFINE S == {q \in Plans : db.st[q] \notin {"none", "gone"}}
<1>1. S \in SUBSET Plans
  OBVIOUS
<1>2. PlansOf(db) \in [S -> Statuses]
  BY DEF PlansOf, PlanDb
<1>3. QED
  BY <1>1, <1>2 DEF PlanLists

LEMMA AfterPlanTyped ==
  ASSUME db \in PlanDb, NEW k, NEW d \in AfterPlan(k)
  PROVE  d \in PlanDb
<1>1. \/ d = db
      \/ \E p, s : s \in {"pending", "gone"} /\ d = [db EXCEPT !.st[p] = s]
  BY DEF AfterPlan
<1>2. ASSUME NEW p, NEW s \in {"pending", "gone"}, d = [db EXCEPT !.st[p] = s]
      PROVE  d \in PlanDb
  <2> DEFINE new == [db.st EXCEPT ![p] = s]
  <2>1. new \in [Plans -> Statuses]
    BY DEF PlanDb, Statuses
  <2>2. d = [db EXCEPT !.st = new]
    BY <1>2
  <2> HIDE DEF new
  <2>3. QED
    BY <2>1, <2>2 DEF PlanDb
<1>3. QED
  BY <1>1, <1>2

LEMMA SeatsActionsInv ==
  ASSUME SeatsTyped, SeatsTidy, FormActions \/ ChooseNoSeat
  PROVE  SeatsTyped' /\ SeatsTidy'
<1> USE SeatsCallFields, ScreenAssumption, PlanScreenAssumption
<1>1. ASSUME NEW b \in Buildings \cup {None}, ChooseBuilding(b)
      PROVE  SeatsTyped' /\ SeatsTidy'
  <2>1. /\ ui' \in SeatsUi /\ db' = db /\ upset' = upset
        /\ ui'.room = None /\ ui'.seat = None
    BY <1>1 DEF SeatsTyped, SeatsUi, ChooseBuilding
  <2>2. \/ calls' = calls
        \/ /\ Grows(Call("rooms", b)) /\ calls' \in Seq(SeatsCall)
           /\ Len(calls) < MaxCalls /\ b \in Buildings
    BY <1>1, Sent, SeatsCallIs DEF SeatsTyped, ChooseBuilding, Send
  <2>3. SeatsTyped'
    BY <2>1, <2>2 DEF SeatsTyped, SeatsAsks, Grows, Call
  <2>4. SeatsTidy'
    BY <2>1 DEF SeatsTidy, Offered
  <2>5. QED
    BY <2>3, <2>4
<1>2. ASSUME NEW r \in Rooms \cup {None}, NEW d \in Dates, AskSeats(r, d)
      PROVE  SeatsTyped' /\ SeatsTidy'
  <2> DEFINE o == [room |-> r, date |-> d]
  <2>1. /\ ui' \in SeatsUi /\ db' = db
        /\ ui'.room = r /\ ui'.date = d /\ ui'.seat = None
        /\ r # None => ui'.turning
    BY <1>2 DEF SeatsTyped, SeatsUi, AskSeats, Asked
  <2>2. \/ r = None /\ calls' = calls
        \/ /\ r # None /\ Grows(Call("seats", o)) /\ calls' \in Seq(SeatsCall)
           /\ Len(calls) < MaxCalls /\ o \in SeatList
    <3>1. r # None => o \in SeatList
      BY DEF SeatList
    <3>2. QED
      BY <1>2, <3>1, Sent, SeatsCallIs DEF SeatsTyped, AskSeats, Send
  <2>3. SeatsTyped'
    BY <2>1, <2>2 DEF SeatsTyped, SeatsAsks, Grows, Call
  <2>4. SeatsTidy'
    <3>1. CASE r = None
      BY <2>1, <3>1 DEF SeatsTidy, Offered
    <3>2. CASE r # None
      <4>1. Here' = o /\ Grows(Call("seats", o))
        BY <2>1, <2>2, <3>2 DEF Here
      <4>2. ~upset' => ~UnderWay("seats")
        BY <1>2, <3>2 DEF AskSeats
      <4>3. ~upset' => \A i \in DOMAIN calls' : calls'[i].kind = "seats" => calls'[i].of = o
        BY <4>1, <4>2 DEF UnderWay, Grows, Call
      <4>4. QED
        BY <2>1, <3>2, <4>1, <4>3 DEF SeatsTidy, Offered
    <3>3. QED
      BY <3>1, <3>2
  <2>5. QED
    BY <2>3, <2>4
<1>3. ASSUME ChooseSeat
      PROVE  SeatsTyped' /\ SeatsTidy'
  <2>1. /\ ui' \in SeatsUi /\ db' = db /\ calls' = calls
        /\ ui'.room = ui.room /\ ui'.date = ui.date /\ ui'.seat = ui.seats
        /\ ui'.turning = ui.turning /\ ui'.seats = ui.seats
    BY <1>3 DEF SeatsTyped, SeatsUi, ChooseSeat
  <2>2. SeatsTyped'
    BY <2>1 DEF SeatsTyped, SeatsAsks
  <2>3. SeatsTidy'
    BY <1>3, <2>1 DEF SeatsTidy, Offered, ChooseSeat, Here
  <2>4. QED
    BY <2>2, <2>3
<1>4. ASSUME ChooseNoSeat
      PROVE  SeatsTyped' /\ SeatsTidy'
  <2>1. /\ ui' \in SeatsUi /\ db' = db /\ calls' = calls /\ upset' = upset
        /\ ui'.room = ui.room /\ ui'.date = ui.date /\ ui'.seat = None
        /\ ui'.turning = ui.turning /\ ui'.seats = ui.seats
    BY <1>4 DEF SeatsTyped, SeatsUi, ChooseNoSeat
  <2>2. SeatsTyped'
    BY <2>1 DEF SeatsTyped, SeatsAsks
  <2>3. SeatsTidy'
    BY <2>1 DEF SeatsTidy, Offered, Here
  <2>4. QED
    BY <2>2, <2>3
<1>5. ASSUME SubmitPlan
      PROVE  SeatsTyped' /\ SeatsTidy'
  <2> DEFINE o == [seat |-> ui.seat, room |-> ui.room, date |-> ui.date]
  <2>1. /\ ui' \in SeatsUi /\ db' = db /\ upset' = upset
        /\ ui'.room = ui.room /\ ui'.date = ui.date /\ ui'.seat = ui.seat
        /\ ui'.turning = ui.turning /\ ui'.seats = ui.seats
        /\ o \in [seat : SeatList, room : Rooms, date : Dates]
    BY <1>5 DEF SeatsTyped, SeatsUi, SubmitPlan
  <2>2. /\ Grows(Call("create", o)) /\ calls' \in Seq(SeatsCall)
        /\ Len(calls) < MaxCalls
    BY <1>5, <2>1, Sent, SeatsCallIs DEF SeatsTyped, SubmitPlan, Send
  <2>3. SeatsTyped'
    BY <2>1, <2>2 DEF SeatsTyped, SeatsAsks, Grows, Call
  <2>4. SeatsTidy'
    BY <2>1, <2>2 DEF SeatsTidy, Offered, Here, Grows, Call
  <2>5. QED
    BY <2>3, <2>4
<1>6. QED
  <2>1. ui.room \in Rooms \cup {None} /\ ui.date \in Dates
    BY DEF SeatsTyped, SeatsUi
  <2>2. QED
    BY <1>1, <1>2, <1>3, <1>4, <1>5, <2>1 DEF FormActions, ChooseRoom, ChooseDate

LEMMA SeatsAnswersInv ==
  ASSUME SeatsTyped, SeatsTidy, screen = "seats", NEW i \in DOMAIN calls,
         ServePlan(i) \/ PlanAnswered(i) \/ PlanMissed(i)
  PROVE  SeatsTyped' /\ SeatsTidy'
<1> USE SeatsCallFields, ScreenAssumption
<1> DEFINE k == calls[i]
<1>1. ASSUME ServePlan(i)
      PROVE  SeatsTyped' /\ SeatsTidy'
  <2>1. ui' = ui /\ upset' = upset /\ db' \in PlanDb
    BY <1>1, AfterPlanTyped DEF SeatsTyped, ServePlan
  <2> DEFINE a == IF k.kind = "plans" THEN PlansOf(db) ELSE "ok"
  <2>2. Replies(i, a) /\ calls' \in Seq(SeatsCall)
    BY <1>1, Replied, PlansListed DEF SeatsTyped, ServePlan, SeatsCall
  <2>3. SeatsTyped'
    BY <2>1, <2>2, PlansListed DEF SeatsTyped, SeatsAsks, Replies
  <2>4. SeatsTidy'
    BY <2>1, <2>2 DEF SeatsTidy, Offered, Replies, Here
  <2>5. QED
    BY <2>3, <2>4
<1>2. ASSUME PlanAnswered(i)
      PROVE  SeatsTyped' /\ SeatsTidy'
  <2>1. /\ ui' \in SeatsUi /\ db' = db
        /\ ui'.room = ui.room /\ ui'.date = ui.date /\ ui'.seat = ui.seat
        /\ k.kind # "seats" => ui'.turning = ui.turning /\ ui'.seats = ui.seats
        /\ k.kind = "seats" => ui'.seats = k.of
    <3> USE <1>2 DEF SeatsTyped, SeatsUi, PlanAnswered, Arrived
    <3>1. CASE k.kind = "plans"
      <4>1. k.ans \in PlanLists
        BY <3>1 DEF SeatsAsks
      <4>2. QED
        BY <3>1, <4>1
    <3>2. CASE k.kind = "rooms"
      <4>1. k.of \in Buildings
        BY <3>2 DEF SeatsAsks
      <4>2. QED
        BY <3>2, <4>1
    <3>3. CASE k.kind = "seats"
      <4>1. k.of \in SeatList
        BY <3>3 DEF SeatsAsks
      <4>2. QED
        BY <3>3, <4>1
    <3>4. CASE k.kind = "buildings"
      BY <3>4
    <3>5. CASE k.kind = "create"
      BY <3>5
    <3>6. QED
      BY <3>1, <3>2, <3>3, <3>4, <3>5
  <2>2. /\ calls' \in Seq(SeatsCall)
        /\ Shrinks(i) \/ Swaps(i, Call("plans", None))
    <3>1. RemoveAt(calls, i) \in Seq(SeatsCall)
      BY Removed DEF SeatsTyped
    <3>2. CASE Refetched(k) = <<>>
      BY <1>2, <3>1, <3>2, Ended DEF SeatsTyped, PlanAnswered, Ends
    <3>3. CASE Refetched(k) = <<Call("plans", None)>>
      <4>1. calls' = Append(RemoveAt(calls, i), Call("plans", None))
        BY <1>2, <3>1, <3>3 DEF PlanAnswered
      <4>2. QED
        BY <4>1, Swapped, SeatsCallIs DEF SeatsTyped
    <3>4. QED
      BY <3>2, <3>3 DEF Refetched
  <2>3. SeatsTyped'
    BY <2>1, <2>2 DEF SeatsTyped, SeatsAsks, Shrinks, Swaps, Call, PlanLists
  <2>4. ~upset' => ~upset
    BY <1>2 DEF PlanAnswered, PlansSettle
  <2>5. SeatsTidy'
    BY <2>1, <2>2, <2>4 DEF SeatsTidy, Offered, Here, Shrinks, Swaps, Call
  <2>6. QED
    BY <2>3, <2>5
<1>3. ASSUME PlanMissed(i)
      PROVE  SeatsTyped' /\ SeatsTidy'
  <2>1. /\ ui' \in SeatsUi /\ db' = db /\ (~upset' => ~upset)
        /\ ui'.room = ui.room /\ ui'.date = ui.date /\ ui'.seat = ui.seat
        /\ k.kind # "seats" => ui'.turning = ui.turning /\ ui'.seats = ui.seats
        /\ k.kind = "seats" => ui'.seats = None
    BY <1>3 DEF SeatsTyped, SeatsUi, PlanMissed, Unarrived
  <2>2. calls' \in Seq(SeatsCall) /\ Shrinks(i)
    BY <1>3, Ended DEF SeatsTyped, PlanMissed
  <2>3. SeatsTyped'
    BY <2>1, <2>2 DEF SeatsTyped, SeatsAsks, Shrinks
  <2>4. SeatsTidy'
    BY <2>1, <2>2 DEF SeatsTidy, Offered, Here, Shrinks
  <2>5. QED
    BY <2>3, <2>4
<1>4. QED
  BY <1>1, <1>2, <1>3

LEMMA SeatsNextInv ==
  ASSUME SeatsInv, PlanNext, screen = "seats"
  PROVE  SeatsInv'
<1>1. SeatsTyped /\ SeatsTidy
  BY DEF SeatsInv
<1>2. CASE AppSeats \/ WebSeats
  BY <1>1, <1>2, SeatsActionsInv DEF AppSeats, WebSeats, SeatsInv
<1>3. CASE \E i \in DOMAIN calls : ServePlan(i) \/ PlanAnswered(i) \/ PlanMissed(i)
  BY <1>1, <1>3, SeatsAnswersInv DEF SeatsInv
<1>4. QED
  BY <1>2, <1>3 DEF PlanNext

LEMMA SeatsMounted ==
  ASSUME NEW m \in PlanMounts, m.screen = "seats"
  PROVE  /\ m.client \in Clients
         /\ Starts(m) => SeatsInv
         /\ Opens(m) => SeatsInv'
<1>1. PICK c \in Clients, d \in Dates :
        m = Mount(c, "seats",
              [building |-> None, rooms |-> None, room |-> None, seats |-> None,
               seat |-> None, date |-> d, turning |-> FALSE, sending |-> FALSE,
               loaded |-> FALSE, plans |-> None],
              <<Call("plans", None), Call("buildings", None)>>,
              [st |-> [p \in Plans |-> "none"], booked |-> {}, again |-> FALSE,
               runs |-> [r \in 1 .. MaxRuns |-> NoRun]])
  BY DEF PlanMounts, Mount
<1>2. /\ m.client = c /\ m.screen = "seats"
      /\ m.ui \in SeatsUi /\ m.ui.room = None /\ m.ui.seat = None
      /\ m.calls = <<Call("plans", None), Call("buildings", None)>>
  BY <1>1 DEF Mount, SeatsUi, PlanLists
<1>3. m.db \in PlanDb
  <2>1. NoRun \in Run
    BY DEF NoRun, Run
  <2>2. m.db = [st |-> [p \in Plans |-> "none"], booked |-> {}, again |-> FALSE,
                runs |-> [r \in 1 .. MaxRuns |-> NoRun]]
    BY <1>1 DEF Mount
  <2>3. QED
    BY <2>1, <2>2 DEF PlanDb, Statuses
<1>4. /\ m.calls \in Seq(SeatsCall) /\ Len(m.calls) = 2
      /\ \A i \in DOMAIN m.calls : /\ m.calls[i].kind \in {"plans", "buildings"}
                                   /\ m.calls[i].ans = None
  BY <1>2, SeatsCallIs DEF Call
<1>5. Starts(m) => SeatsInv
  BY <1>2, <1>3, <1>4, ScreenAssumption
     DEF Starts, SeatsInv, SeatsTyped, SeatsTidy, SeatsAsks, Offered, PlanLists
<1>6. Opens(m) => SeatsInv'
  BY <1>2, <1>3, <1>4, ScreenAssumption
     DEF Opens, SeatsInv, SeatsTyped, SeatsTidy, SeatsAsks, Offered, PlanLists
<1>7. QED
  BY <1>2, <1>5, <1>6

LEMMA SeatsKept == SeatsInv /\ UNCHANGED vars => SeatsInv'
BY DEF vars, SeatsInv, SeatsTyped, SeatsTidy, SeatsAsks, Offered, Here

-----------------------------------------------------------------------------
(* The pages that ask for codes.  Until the answer to the one call for a code *)
(* has come, the page is sending and counts nothing; a minute that the       *)
(* server counts by then is counted by the page when the answer comes.       *)
CodeUi ==
  [page : Pages, mode : {"code", "password", "sso"}, code : Nat,
   countdown : 0 .. Minute, sending : BOOLEAN, busy : BOOLEAN]

CodeDb == [code : Nat, sent : Nat, cool : 0 .. Minute]

CodeCall == CallOf({"code", "enter"}, Nat, {None, "ok"})

Asks(i) == calls[i].kind = "code"

Cooling ==
  /\ \A i, j \in DOMAIN calls : Asks(i) /\ Asks(j) => i = j
  /\ \A i \in DOMAIN calls : Asks(i) => ui.sending
  /\ (\A i \in DOMAIN calls : Asks(i) => calls[i].ans = None) =>
       db.cool <= ui.countdown

CodeTyped ==
  /\ ui \in CodeUi /\ db \in CodeDb
  /\ calls \in Seq(CodeCall) /\ Len(calls) <= MaxCalls

CodeTidy == client = "web" /\ ~upset => Cooling

CodeInv == screen = "code" => CodeTyped /\ CodeTidy

LEMMA CodeCallFields ==
  ASSUME CodeTyped
  PROVE  /\ Len(calls) \in Nat
         /\ \A i \in DOMAIN calls :
              calls[i].kind \in {"code", "enter"} /\ calls[i].of \in Nat
BY Fields DEF CodeTyped, CodeCall

LEMMA CodeCallIs ==
  ASSUME NEW k \in {"code", "enter"}, NEW o \in Nat
  PROVE  Call(k, o) \in CodeCall
BY Fields DEF CodeCall

LEMMA CodeActionsInv ==
  ASSUME CodeTyped, CodeTidy,
         \/ AskCode \/ TypeCode \/ Enter
         \/ \E m \in {"code", "password", "sso"} : SwitchMode(m)
         \/ \E late \in BOOLEAN : Tick(late)
  PROVE  CodeTyped' /\ CodeTidy'
<1> USE CodeCallFields, ScreenAssumption, AccountScreenAssumption
<1>1. ASSUME AskCode
      PROVE  CodeTyped' /\ CodeTidy'
  <2>1. /\ ui' \in CodeUi /\ db' = db /\ upset' = upset /\ client' = client
        /\ ~ui.sending /\ ui'.sending /\ ui'.countdown = ui.countdown
        /\ client = "web" => ui.countdown = 0
    BY <1>1 DEF CodeTyped, CodeUi, AskCode, Stays
  <2>2. /\ Grows(Call("code", 0)) /\ calls' \in Seq(CodeCall)
        /\ Len(calls) < MaxCalls
    BY <1>1, Sent, CodeCallIs DEF CodeTyped, AskCode, Send
  <2>3. CodeTyped'
    BY <2>1, <2>2 DEF CodeTyped, Grows
  <2>4. CodeTidy'
    BY <2>1, <2>2 DEF CodeTidy, Cooling, Grows, Call, Asks
  <2>5. QED
    BY <2>3, <2>4
<1>2. ASSUME TypeCode \/ \E m \in {"code", "password", "sso"} : SwitchMode(m)
      PROVE  CodeTyped' /\ CodeTidy'
  <2>1. /\ ui' \in CodeUi /\ db' = db /\ upset' = upset /\ client' = client
        /\ ui'.sending = ui.sending /\ ui'.countdown = ui.countdown
        /\ calls' = calls
    BY <1>2 DEF CodeTyped, CodeUi, CodeDb, TypeCode, SwitchMode, Stays
  <2>2. QED
    BY <2>1 DEF CodeTyped, CodeTidy, Cooling, Asks
<1>3. ASSUME Enter
      PROVE  CodeTyped' /\ CodeTidy'
  <2> DEFINE o == IF ui.mode = "code" THEN ui.code ELSE 0
  <2>1. /\ ui' \in CodeUi /\ db' = db /\ upset' = upset /\ client' = client
        /\ ui'.sending = ui.sending /\ ui'.countdown = ui.countdown
        /\ o \in Nat
    BY <1>3 DEF CodeTyped, CodeUi, Enter, Stays
  <2>2. /\ Grows(Call("enter", o)) /\ calls' \in Seq(CodeCall)
        /\ Len(calls) < MaxCalls
    BY <1>3, <2>1, Sent, CodeCallIs DEF CodeTyped, Enter, Send
  <2>3. CodeTyped'
    BY <2>1, <2>2 DEF CodeTyped, Grows
  <2>4. CodeTidy'
    BY <2>1, <2>2 DEF CodeTidy, Cooling, Grows, Call, Asks
  <2>5. QED
    BY <2>3, <2>4
<1>4. ASSUME NEW late \in BOOLEAN, Tick(late)
      PROVE  CodeTyped' /\ CodeTidy'
  <2>1. /\ ui.countdown \in 0 .. Minute /\ db.cool \in 0 .. Minute
        /\ OneLess(ui.countdown) \in 0 .. Minute /\ OneLess(db.cool) \in 0 .. Minute
        /\ OneLess(db.cool) <= db.cool
        /\ db.cool <= ui.countdown => OneLess(db.cool) <= OneLess(ui.countdown)
    BY DEF CodeTyped, CodeUi, CodeDb, OneLess
  <2>2. /\ ui' \in CodeUi /\ db' \in CodeDb /\ upset' = upset /\ client' = client
        /\ ui'.sending = ui.sending /\ calls' = calls
        /\ db'.cool = OneLess(db.cool)
        /\ ui'.countdown \in {ui.countdown, OneLess(ui.countdown)}
    BY <1>4, <2>1 DEF CodeTyped, CodeUi, CodeDb, Tick, Stays
  <2>3. db.cool <= ui.countdown => db'.cool <= ui'.countdown
    BY <2>1, <2>2
  <2>4. QED
    BY <2>2, <2>3 DEF CodeTyped, CodeTidy, Cooling, Asks
<1>5. QED
  BY <1>1, <1>2, <1>3, <1>4

LEMMA CodeAnswersInv ==
  ASSUME CodeTyped, CodeTidy, NEW i \in DOMAIN calls,
         ServeCode(i) \/ CodeSent(i) \/ CodeMissed(i)
  PROVE  CodeTyped' /\ CodeTidy'
<1> USE CodeCallFields, ScreenAssumption, AccountScreenAssumption
<1>1. ASSUME ServeCode(i)
      PROVE  CodeTyped' /\ CodeTidy'
  <2>1. /\ ui' = ui /\ upset' = upset /\ client' = client /\ db' \in CodeDb
        /\ ~Asks(i) => db'.cool = db.cool
    BY <1>1 DEF CodeTyped, CodeDb, ServeCode, Stays, Asks
  <2>2. Replies(i, "ok") /\ calls' \in Seq(CodeCall)
    BY <1>1, Replied DEF CodeTyped, ServeCode, CodeCall
  <2>3. CodeTyped'
    BY <2>1, <2>2 DEF CodeTyped, Replies
  <2>4. calls[i].ans = None
    BY <1>1 DEF ServeCode
  <2>5. CodeTidy'
    BY <2>1, <2>2, <2>4 DEF CodeTidy, Cooling, Replies, Asks
  <2>6. QED
    BY <2>3, <2>5
<1>2. ASSUME CodeSent(i)
      PROVE  CodeTyped' /\ CodeTidy'
  <2>1. /\ ui' \in CodeUi /\ db' = db /\ upset' = upset /\ client' = client
        /\ client = "web" => ui'.countdown = Minute
        /\ db.cool <= Minute
    <3>1. db.cool \in 0 .. Minute /\ Minute \in 0 .. Minute
      BY DEF CodeTyped, CodeDb
    <3>2. Counting \in CodeUi /\ (client = "web" => Counting.countdown = Minute)
      BY <3>1 DEF CodeTyped, CodeUi, Counting
    <3>3. QED
      BY <1>2, <3>1, <3>2 DEF CodeSent, Stays
  <2>2. calls' \in Seq(CodeCall) /\ Shrinks(i)
    BY <1>2, Ended DEF CodeTyped, CodeSent
  <2>3. CodeTyped'
    BY <2>1, <2>2 DEF CodeTyped, Shrinks
  <2>4. Asks(i)
    BY <1>2 DEF CodeSent, Asks
  <2>5. CodeTidy'
    BY <2>1, <2>2, <2>4 DEF CodeTidy, Cooling, Shrinks, Asks
  <2>6. QED
    BY <2>3, <2>5
<1>3. ASSUME CodeMissed(i)
      PROVE  CodeTyped' /\ CodeTidy'
  <2>1. /\ ui' \in CodeUi /\ db' = db /\ client' = client
        /\ ~upset' => ~upset /\ calls[i].ans = None
        /\ ui'.countdown = ui.countdown
        /\ ~Asks(i) => ui'.sending = ui.sending
    BY <1>3 DEF CodeTyped, CodeUi, CodeMissed, Stays, Asks
  <2>2. calls' \in Seq(CodeCall) /\ Shrinks(i)
    BY <1>3, Ended DEF CodeTyped, CodeMissed
  <2>3. CodeTyped'
    BY <2>1, <2>2 DEF CodeTyped, Shrinks
  <2>4. CodeTidy'
    <3> SUFFICES ASSUME client = "web", ~upset'
                 PROVE  Cooling'
      BY <2>1 DEF CodeTidy
    <3>1. Cooling /\ calls[i].ans = None
      BY <2>1 DEF CodeTidy
    <3>2. (\A j \in DOMAIN calls' : Asks(j)' => calls'[j].ans = None) =>
            \A j \in DOMAIN calls : Asks(j) => calls[j].ans = None
      BY <2>2, <3>1 DEF Shrinks, Asks
    <3>3. QED
      BY <2>1, <2>2, <3>1, <3>2 DEF Cooling, Shrinks, Asks
  <2>5. QED
    BY <2>3, <2>4
<1>4. QED
  BY <1>1, <1>2, <1>3

LEMMA CodeNextInv ==
  ASSUME CodeInv, CodeNext
  PROVE  CodeInv'
<1>1. screen = "code" /\ CodeTyped /\ CodeTidy
  BY DEF CodeInv, CodeNext
<1>2. CASE \E i \in DOMAIN calls : Entered(i)
  BY <1>2 DEF Entered, Opens, Home, Mount, CodeInv
<1>3. CASE \E i \in DOMAIN calls : ServeCode(i) \/ CodeSent(i) \/ CodeMissed(i)
  BY <1>1, <1>3, CodeAnswersInv DEF CodeInv
<1>4. CASE AppLogin \/ WebLogin \/ WebRegister \/ WebForgot
           \/ \E late \in BOOLEAN : Tick(late)
  BY <1>1, <1>4, CodeActionsInv
     DEF CodeInv, AppLogin, WebLogin, WebRegister, WebForgot
<1>5. QED
  BY <1>2, <1>3, <1>4 DEF CodeNext

LEMMA CodeMounted ==
  ASSUME NEW m \in CodeMounts
  PROVE  /\ m.screen = "code" /\ m.client \in Clients
         /\ Starts(m) => CodeInv
         /\ Opens(m) => CodeInv'
<1>1. PICK p \in Pages :
        m = Mount(IF p = "login" THEN "app" ELSE "web", "code",
              [page |-> p, mode |-> IF p = "signin" THEN "password" ELSE "code",
               code |-> 0, countdown |-> 0, sending |-> FALSE, busy |-> FALSE],
              <<>>, [code |-> 0, sent |-> 0, cool |-> 0])
  BY DEF CodeMounts
<1>2. /\ m.client \in Clients /\ m.screen = "code"
      /\ m.ui \in CodeUi /\ m.db \in CodeDb /\ m.calls = <<>>
      /\ m.ui.countdown = 0 /\ m.db.cool = 0
  BY <1>1, AccountScreenAssumption DEF Mount, CodeUi, CodeDb, Clients
<1>3. m.calls \in Seq(CodeCall) /\ Len(m.calls) = 0 /\ DOMAIN m.calls = {}
  BY <1>2
<1>4. Starts(m) => CodeInv
  BY <1>2, <1>3, ScreenAssumption DEF Starts, CodeInv, CodeTyped, CodeTidy, Cooling
<1>5. Opens(m) => CodeInv'
  BY <1>2, <1>3, ScreenAssumption DEF Opens, CodeInv, CodeTyped, CodeTidy, Cooling
<1>6. QED
  BY <1>2, <1>4, <1>5

LEMMA CodeKept == CodeInv /\ UNCHANGED vars => CodeInv'
BY DEF vars, CodeInv, CodeTyped, CodeTidy, Cooling, Asks

-----------------------------------------------------------------------------
(* The list of plans.  Unless calls cross or the job records something there  *)
(* is one call at a time, and the list is as the server has it until a plan  *)
(* is deleted and the list is asked for again.                             *)
PlansUi == [plans : PlanLists, deleting : SUBSET Plans]

PlansCall == CallOf({"plans", "delete"}, {None} \cup Plans, {"ok"} \cup PlanLists)

PlansAsks ==
  \A i \in DOMAIN calls :
    /\ calls[i].kind = "delete" => calls[i].of \in Plans
    /\ calls[i].kind = "plans" => calls[i].ans \in PlanLists

CardsKept ==
  /\ (\A i \in DOMAIN calls : calls[i].kind = "delete" /\ calls[i].ans = None) =>
       ui.plans = PlansOf(db)
  /\ \A i \in DOMAIN calls :
       calls[i].kind = "plans" /\ calls[i].ans # None => calls[i].ans = PlansOf(db)

PlansTyped ==
  /\ ui \in PlansUi /\ db \in PlanDb
  /\ calls \in Seq(PlansCall) /\ PlansAsks
  /\ Len(calls) <= MaxCalls

PlansTidy == ~upset => Len(calls) <= 1 /\ CardsKept

PlansInv == screen = "plans" => PlansTyped /\ PlansTidy

LEMMA PlansCallFields ==
  ASSUME PlansTyped
  PROVE  /\ Len(calls) \in Nat /\ DOMAIN calls = 1 .. Len(calls)
         /\ \A i \in DOMAIN calls :
              /\ calls[i].kind \in {"plans", "delete"}
              /\ calls[i].of \in {None} \cup Plans
              /\ calls[i].ans \in {"ok"} \cup PlanLists
BY Fields DEF PlansTyped, PlansCall

LEMMA PlansCallIs ==
  ASSUME NEW k \in {"plans", "delete"}, NEW o \in {None} \cup Plans
  PROVE  Call(k, o) \in PlansCall
<1>1. None \in {"ok"} \cup PlanLists
  BY DEF PlanLists
<1>2. QED
  BY <1>1, Fields DEF PlansCall

(* A run of the job changes the list only when it records what it did. *)
LEMMA JobKeepsPlans ==
  ASSUME PlansTyped, JobNext
  PROVE  /\ ui' = ui /\ calls' = calls
         /\ ~upset' => ~upset /\ PlansOf(db') = PlansOf(db)
<1>1. db \in PlanDb
  BY DEF PlansTyped
<1>2. ASSUME NEW r \in DOMAIN db.runs, StartRun(r)
      PROVE  ui' = ui /\ calls' = calls /\ upset' = upset /\ db'.st = db.st
  BY <1>1, <1>2 DEF StartRun, PlanDb
<1>3. ASSUME NEW r \in DOMAIN db.runs, NEW p \in Plans, NEW won \in BOOLEAN, Book(r, p, won)
      PROVE  ui' = ui /\ calls' = calls /\ upset' = upset /\ db'.st = db.st
  BY <1>1, <1>3 DEF Book, PlanDb
<1>4. ASSUME NEW r \in DOMAIN db.runs, Record(r)
      PROVE  ui' = ui /\ calls' = calls /\ upset'
  BY <1>4 DEF Record
<1>5. ASSUME RestartJob
      PROVE  ui' = ui /\ calls' = calls /\ upset' = upset /\ db'.st = db.st
  BY <1>1, <1>5 DEF RestartJob, PlanDb
<1>6. db'.st = db.st => PlansOf(db') = PlansOf(db)
  BY DEF PlansOf
<1>7. QED
  BY <1>2, <1>3, <1>4, <1>5, <1>6 DEF JobNext

LEMMA DeletePlanInv ==
  ASSUME PlansTyped, PlansTidy, NEW p \in Plans, DeletePlan(p)
  PROVE  PlansTyped' /\ PlansTidy'
<1> USE PlansCallFields, ScreenAssumption
<1>1. /\ ui' \in PlansUi /\ ui'.plans = ui.plans /\ db' = db
      /\ ~upset' => ~upset /\ calls = <<>>
  BY DEF DeletePlan, PlansTyped, PlansUi
<1>2. Grows(Call("delete", p)) /\ calls' \in Seq(PlansCall) /\ Len(calls) < MaxCalls
  BY Sent, PlansCallIs DEF PlansTyped, DeletePlan, Send
<1>3. PlansTyped'
  BY <1>1, <1>2 DEF PlansTyped, PlansAsks, Grows, Call
<1>4. ASSUME ~upset'
      PROVE  (Len(calls) <= 1 /\ CardsKept)'
  <2>1. ui.plans = PlansOf(db)
    BY <1>1, <1>4 DEF PlansTidy, CardsKept
  <2>2. /\ Len(calls') = 1 /\ DOMAIN calls' = {1}
        /\ calls'[1].kind = "delete" /\ calls'[1].ans = None
    BY <1>1, <1>2, <1>4 DEF Grows, Call
  <2>3. QED
    BY <1>1, <2>1, <2>2 DEF CardsKept
<1>5. QED
  BY <1>3, <1>4 DEF PlansTidy

LEMMA PlansAnswersInv ==
  ASSUME PlansTyped, PlansTidy, screen = "plans", NEW i \in DOMAIN calls,
         ServePlan(i) \/ PlanAnswered(i) \/ PlanMissed(i)
  PROVE  PlansTyped' /\ PlansTidy'
<1> USE PlansCallFields, ScreenAssumption
<1> DEFINE k == calls[i]
<1>1. ASSUME ServePlan(i)
      PROVE  PlansTyped' /\ PlansTidy'
  <2> DEFINE a == IF k.kind = "plans" THEN PlansOf(db) ELSE "ok"
  <2>1. /\ ui' = ui /\ upset' = upset /\ db' \in PlanDb
        /\ k.kind = "plans" => db' = db
        /\ PlansOf(db) \in PlanLists
    BY <1>1, AfterPlanTyped, PlansListed DEF PlansTyped, ServePlan, AfterPlan
  <2>2. Replies(i, a) /\ calls' \in Seq(PlansCall)
    BY <1>1, <2>1, Replied DEF PlansTyped, ServePlan, PlansCall
  <2>3. PlansTyped'
    BY <2>1, <2>2 DEF PlansTyped, PlansAsks, Replies
  <2>4. ASSUME ~upset
        PROVE  (Len(calls) <= 1 /\ CardsKept)'
    <3>1. Len(calls) <= 1 /\ CardsKept /\ \A j \in DOMAIN calls : j = i
      BY <2>4 DEF PlansTidy
    <3>2. CASE k.kind = "plans"
      BY <2>1, <2>2, <3>1, <3>2 DEF CardsKept, Replies
    <3>3. CASE k.kind = "delete"
      BY <2>1, <2>2, <3>1, <3>3 DEF CardsKept, Replies
    <3>4. QED
      BY <3>2, <3>3
  <2>5. QED
    BY <2>1, <2>3, <2>4 DEF PlansTidy
<1>2. ASSUME PlanAnswered(i), k.kind = "plans"
      PROVE  PlansTyped' /\ PlansTidy'
  <2>1. ui' \in PlansUi /\ ui'.plans = k.ans /\ k.ans # None /\ db' = db
    BY <1>2 DEF PlanAnswered, Arrived, PlansTyped, PlansUi, PlansAsks
  <2>2. calls' \in Seq(PlansCall) /\ Shrinks(i)
    <3>1. RemoveAt(calls, i) \in Seq(PlansCall)
      BY Removed DEF PlansTyped
    <3>2. QED
      BY <1>2, <3>1, Ended DEF PlansTyped, PlanAnswered, Refetched, Ends
  <2>3. PlansTyped'
    BY <2>1, <2>2 DEF PlansTyped, PlansAsks, Shrinks
  <2>4. ASSUME ~upset'
        PROVE  (Len(calls) <= 1 /\ CardsKept)'
    <3>1. Len(calls) = 1 /\ k.ans = PlansOf(db)
      <4>1. CASE upset
        BY <1>2, <2>4, <4>1 DEF PlanAnswered, PlansSettle
      <4>2. CASE ~upset
        BY <1>2, <2>1, <4>2 DEF PlansTidy, CardsKept
      <4>3. QED
        BY <4>1, <4>2
    <3>2. Len(calls') = 0 /\ DOMAIN calls' = {}
      BY <2>2, <3>1 DEF Shrinks
    <3>3. QED
      BY <2>1, <3>1, <3>2 DEF CardsKept
  <2>5. QED
    BY <2>3, <2>4 DEF PlansTidy
<1>3. ASSUME PlanAnswered(i), k.kind = "delete"
      PROVE  PlansTyped' /\ PlansTidy'
  <2>1. /\ ui' \in PlansUi /\ db' = db
        /\ ~upset' => ~upset
    <3>1. ui' \in PlansUi /\ db' = db
      BY <1>3 DEF PlanAnswered, Arrived, PlansTyped, PlansUi
    <3>2. /\ ~PlansSettle(k)
          /\ upset' = ((upset \/ (k.kind = "delete" /\ Len(calls) > 1)) /\ ~PlansSettle(k))
      BY <1>3 DEF PlanAnswered, PlansSettle
    <3>3. QED
      BY <3>1, <3>2
  <2>2. calls' \in Seq(PlansCall) /\ Swaps(i, Call("plans", None))
    <3>1. RemoveAt(calls, i) \in Seq(PlansCall)
      BY Removed DEF PlansTyped
    <3>2. calls' = Append(RemoveAt(calls, i), Call("plans", None))
      BY <1>3, <3>1 DEF PlanAnswered, Refetched
    <3>3. QED
      BY <3>2, Swapped, PlansCallIs DEF PlansTyped
  <2>3. PlansTyped'
    BY <2>1, <2>2 DEF PlansTyped, PlansAsks, Swaps, Call, PlanLists
  <2>4. ASSUME ~upset'
        PROVE  (Len(calls) <= 1 /\ CardsKept)'
    <3>1. Len(calls) = 1
      <4>1. Len(calls) <= 1
        BY <2>1, <2>4 DEF PlansTidy
      <4>2. QED
        BY <4>1
    <3>2. /\ Len(calls') = 1 /\ DOMAIN calls' = {1}
          /\ calls'[1].kind = "plans" /\ calls'[1].ans = None
      BY <2>2, <3>1 DEF Swaps, Call
    <3>3. QED
      BY <3>2 DEF CardsKept
  <2>5. QED
    BY <2>3, <2>4 DEF PlansTidy
<1>4. ASSUME PlanMissed(i)
      PROVE  PlansTyped' /\ PlansTidy'
  <2>1. /\ ui' \in PlansUi /\ ui'.plans = ui.plans /\ db' = db
        /\ ~upset' => ~upset /\ k.kind = "delete" /\ k.ans = None
    BY <1>4 DEF PlanMissed, Unarrived, PlansTyped, PlansUi
  <2>2. calls' \in Seq(PlansCall) /\ Shrinks(i)
    BY <1>4, Ended DEF PlansTyped, PlanMissed
  <2>3. PlansTyped'
    BY <2>1, <2>2 DEF PlansTyped, PlansAsks, Shrinks
  <2>4. ASSUME ~upset'
        PROVE  (Len(calls) <= 1 /\ CardsKept)'
    <3>1. Len(calls) <= 1 /\ CardsKept /\ \A j \in DOMAIN calls : j = i
      BY <2>1, <2>4 DEF PlansTidy
    <3>2. ui.plans = PlansOf(db)
      BY <2>1, <2>4, <3>1 DEF CardsKept
    <3>3. Len(calls') = 0 /\ DOMAIN calls' = {}
      BY <2>2, <3>1 DEF Shrinks
    <3>4. QED
      BY <2>1, <3>2, <3>3 DEF CardsKept
  <2>5. QED
    BY <2>3, <2>4 DEF PlansTidy
<1>5. QED
  BY <1>1, <1>2, <1>3, <1>4

LEMMA PlansNextInv ==
  ASSUME PlansInv, PlanNext, screen = "plans", db' \in PlanDb
  PROVE  PlansInv'
<1>1. PlansTyped /\ PlansTidy
  BY DEF PlansInv
<1>2. CASE JobNext
  <2>1. PlansTyped'
    BY <1>1, <1>2, JobKeepsPlans DEF PlansTyped, PlansAsks
  <2>2. PlansTidy'
    BY <1>1, <1>2, JobKeepsPlans DEF PlansTidy, CardsKept
  <2>3. QED
    BY <2>1, <2>2 DEF PlansInv
<1>3. CASE AppPlans \/ WebPlans
  BY <1>1, <1>3, DeletePlanInv DEF AppPlans, WebPlans, PlansInv
<1>4. CASE \E i \in DOMAIN calls : ServePlan(i) \/ PlanAnswered(i) \/ PlanMissed(i)
  BY <1>1, <1>4, PlansAnswersInv DEF PlansInv
<1>5. QED
  BY <1>2, <1>3, <1>4 DEF PlanNext

LEMMA PlansMounted ==
  ASSUME NEW m \in PlanMounts, m.screen = "plans", m.db \in PlanDb
  PROVE  /\ m.client \in Clients
         /\ Starts(m) => PlansInv
         /\ Opens(m) => PlansInv'
<1>1. PICK c \in Clients, s \in [Plans -> {"none", "pending"}] :
        m = Mount(c, "plans", [plans |-> None, deleting |-> {}],
                  <<Call("plans", None)>>,
                  [st |-> s, booked |-> {}, again |-> FALSE,
                   runs |-> [r \in 1 .. MaxRuns |-> NoRun]])
  BY DEF PlanMounts, Mount
<1>2. /\ m.client = c /\ m.screen = "plans"
      /\ m.ui \in PlansUi /\ m.calls = <<Call("plans", None)>>
  BY <1>1 DEF Mount, PlansUi, PlanLists
<1>3. /\ m.calls \in Seq(PlansCall) /\ Len(m.calls) = 1 /\ DOMAIN m.calls = {1}
      /\ m.calls[1].kind = "plans" /\ m.calls[1].ans = None
  BY <1>2, PlansCallIs DEF Call
<1>4. None \in PlanLists
  BY DEF PlanLists
<1>5. Starts(m) => PlansInv
  BY <1>2, <1>3, <1>4, ScreenAssumption
     DEF Starts, PlansInv, PlansTyped, PlansTidy, PlansAsks, CardsKept
<1>6. Opens(m) => PlansInv'
  BY <1>2, <1>3, <1>4, ScreenAssumption
     DEF Opens, PlansInv, PlansTyped, PlansTidy, PlansAsks, CardsKept
<1>7. QED
  BY <1>2, <1>5, <1>6

LEMMA PlansKept == PlansInv /\ UNCHANGED vars => PlansInv'
BY DEF vars, PlansInv, PlansTyped, PlansTidy, PlansAsks, CardsKept, PlansOf

-----------------------------------------------------------------------------
(* The profile.  Unless calls cross there is one at a time: what it was       *)
(* answered is what the server has, and a form that is being saved is the    *)
(* one on the screen.                                                      *)
ProfileUi ==
  [user : Account, dialog : {None, "edit", "password"}, form : Bios \cup {None},
   saving : BOOLEAN, uploading : BOOLEAN]

Sender == [here : BOOLEAN, form : Bios \cup {None}]

ProfileCall ==
  CallOf({"save", "put", "avatar", "password", "me"}, Sender, {None} \cup Account)

ShownOrComing ==
  \/ ui.user = db
  \/ \E i \in DOMAIN calls :
       calls[i].kind = "me" \/ (calls[i].kind # "put" /\ calls[i].ans # None)

AnsweredNow == \A i \in DOMAIN calls : calls[i].ans # None => calls[i].ans = db

FormKept ==
  \A i \in DOMAIN calls : calls[i].kind = "save" =>
    /\ calls[i].of.here => ui.dialog = "edit" /\ ui.saving /\ calls[i].of.form = ui.form
    /\ calls[i].ans # None /\ calls[i].of.form # None => db.bio = calls[i].of.form

ProfileTyped ==
  /\ ui \in ProfileUi /\ db \in Account
  /\ calls \in Seq(ProfileCall) /\ Len(calls) <= MaxCalls

ProfileTidy ==
  ~upset => Len(calls) <= 1 /\ ShownOrComing /\ AnsweredNow /\ FormKept

ProfileInv == screen = "profile" => ProfileTyped /\ ProfileTidy

LEMMA ProfileCallFields ==
  ASSUME ProfileTyped
  PROVE  /\ Len(calls) \in Nat
         /\ \A i \in DOMAIN calls :
              /\ calls[i].kind \in {"save", "put", "avatar", "password", "me"}
              /\ calls[i].of \in Sender /\ calls[i].of.here \in BOOLEAN
              /\ calls[i].of.form \in Bios \cup {None}
              /\ calls[i].ans \in {None} \cup Account
<1>1. \A s \in Sender : s.here \in BOOLEAN /\ s.form \in Bios \cup {None}
  BY DEF Sender
<1>2. QED
  BY <1>1, Fields DEF ProfileTyped, ProfileCall

LEMMA ProfileCallIs ==
  ASSUME NEW k \in {"save", "put", "avatar", "password", "me"}, NEW o \in Sender
  PROVE  Call(k, o) \in ProfileCall
BY Fields DEF ProfileCall

(* The calls of a dialog that is closed stay, and know that it is gone. *)
Orphans ==
  /\ Len(calls') = Len(calls) /\ DOMAIN calls' = DOMAIN calls
  /\ \A j \in DOMAIN calls :
       /\ calls'[j].kind = calls[j].kind /\ calls'[j].ans = calls[j].ans
       /\ calls'[j].of.form = calls[j].of.form /\ ~calls'[j].of.here

LEMMA OrphanedFields ==
  ASSUME NEW K, NEW F, NEW A, calls \in Seq(CallOf(K, [here : BOOLEAN, form : F], A)),
         calls' = Orphaned
  PROVE  calls' \in Seq(CallOf(K, [here : BOOLEAN, form : F], A)) /\ Orphans
<1> DEFINE C == CallOf(K, [here : BOOLEAN, form : F], A)
           new(j) == [calls[j] EXCEPT !.of.here = FALSE]
<1>1. \A j \in DOMAIN calls : calls[j] \in C
  OBVIOUS
<1>2. \A c \in C : /\ [c EXCEPT !.of.here = FALSE] \in C
                   /\ [c EXCEPT !.of.here = FALSE].kind = c.kind
                   /\ [c EXCEPT !.of.here = FALSE].ans = c.ans
                   /\ [c EXCEPT !.of.here = FALSE].of.form = c.of.form
                   /\ ~[c EXCEPT !.of.here = FALSE].of.here
  BY DEF CallOf
<1>3. \A j \in DOMAIN calls :
        /\ new(j) \in C /\ new(j).kind = calls[j].kind /\ new(j).ans = calls[j].ans
        /\ new(j).of.form = calls[j].of.form /\ ~new(j).of.here
  BY <1>1, <1>2
<1>4. calls' = [j \in 1 .. Len(calls) |-> new(j)] /\ Len(calls) \in Nat
  BY DEF Orphaned
<1> HIDE DEF C, new
<1>5. DOMAIN calls = 1 .. Len(calls)
  BY DEF C
<1>6. calls' \in Seq(C) /\ Len(calls') = Len(calls) /\ DOMAIN calls' = DOMAIN calls
  BY <1>3, <1>4, <1>5
<1>7. QED
  BY <1>3, <1>4, <1>5, <1>6 DEF Orphans, C

(* The dialogs: what is opened, closed and typed. *)
LEMMA DialogInv ==
  ASSUME ProfileTyped, ProfileTidy, client = "web",
         \/ \E d \in {"edit", "password"} : OpenDialog(d)
         \/ CloseDialog
         \/ \E b \in Bios \cup {None} : EditForm(b)
  PROVE  ProfileTyped' /\ ProfileTidy'
<1> USE ProfileCallFields, ScreenAssumption
<1>1. ASSUME NEW d \in {"edit", "password"}, OpenDialog(d)
      PROVE  ProfileTyped' /\ ProfileTidy'
  <2>1. /\ ui' \in ProfileUi /\ ui'.user = ui.user /\ ui.dialog = None
        /\ calls' = calls /\ db' = db /\ upset' = upset
    <3>1. ui.user.bio \in Bios \cup {None}
      BY DEF ProfileTyped, ProfileUi, Account
    <3>2. QED
      BY <1>1, <3>1 DEF ProfileTyped, ProfileUi, OpenDialog
  <2>2. QED
    BY <2>1 DEF ProfileTyped, ProfileTidy, ShownOrComing, AnsweredNow, FormKept
<1>2. ASSUME CloseDialog
      PROVE  ProfileTyped' /\ ProfileTidy'
  <2>1. /\ ui' \in ProfileUi /\ ui'.user = ui.user
        /\ calls' = Orphaned /\ db' = db /\ upset' = upset
    BY <1>2 DEF ProfileTyped, ProfileUi, CloseDialog
  <2>2. calls' \in Seq(ProfileCall) /\ Orphans
    BY <2>1, OrphanedFields DEF ProfileTyped, ProfileCall, Sender
  <2>3. ProfileTyped'
    BY <2>1, <2>2 DEF ProfileTyped, Orphans
  <2>4. ProfileTidy'
    BY <2>1, <2>2 DEF ProfileTidy, ShownOrComing, AnsweredNow, FormKept, Orphans
  <2>5. QED
    BY <2>3, <2>4
<1>3. ASSUME NEW b \in Bios \cup {None}, EditForm(b)
      PROVE  ProfileTyped' /\ ProfileTidy'
  <2>1. /\ ui' \in ProfileUi /\ ui'.user = ui.user
        /\ calls' = calls /\ db' = db /\ (~upset' => ~upset /\ ~ui.saving)
    BY <1>3 DEF ProfileTyped, ProfileUi, EditForm
  <2>2. QED
    BY <2>1 DEF ProfileTyped, ProfileTidy, ShownOrComing, AnsweredNow, FormKept
<1>4. QED
  BY <1>1, <1>2, <1>3

LEMMA ProfileSendsInv ==
  ASSUME ProfileTyped, ProfileTidy, SaveProfile \/ PickAvatar \/ ChangePassword
  PROVE  ProfileTyped' /\ ProfileTidy'
<1> USE ProfileCallFields, ScreenAssumption
<1> DEFINE o == [here |-> TRUE, form |-> ui.form]
<1>1. PICK k \in {"save", "put", "password"} :
        /\ AskAccount(Call(k, o)) /\ ui' \in ProfileUi
        /\ ui'.user = ui.user /\ ui'.dialog = ui.dialog /\ ui'.form = ui.form
        /\ k = "save" => ui.dialog = "edit" /\ ui'.saving
  BY DEF SaveProfile, PickAvatar, ChangePassword, FromDialog, ProfileTyped, ProfileUi
<1>2. o \in Sender /\ o.form = ui.form
  BY DEF ProfileTyped, ProfileUi, Sender
<1> HIDE DEF o
<1>3. Grows(Call(k, o)) /\ calls' \in Seq(ProfileCall) /\ Len(calls) < MaxCalls
  BY <1>1, <1>2, Sent, ProfileCallIs DEF ProfileTyped, AskAccount, Send
<1>4. db' = db /\ (~upset' => ~upset /\ calls = <<>>)
  BY <1>1 DEF AskAccount
<1>5. ProfileTyped'
  BY <1>1, <1>3, <1>4 DEF ProfileTyped, Grows
<1>6. ASSUME ~upset'
      PROVE  (Len(calls) <= 1 /\ ShownOrComing /\ AnsweredNow /\ FormKept)'
  <2>1. /\ Len(calls') = 1 /\ DOMAIN calls' = {1}
        /\ calls'[1].kind = k /\ calls'[1].of = o /\ calls'[1].ans = None
    BY <1>3, <1>4, <1>6 DEF Grows, Call
  <2>2. ui.user = db
    BY <1>4, <1>6 DEF ProfileTidy, ShownOrComing
  <2>3. QED
    BY <1>1, <1>2, <1>4, <2>1, <2>2 DEF ShownOrComing, AnsweredNow, FormKept
<1>7. QED
  BY <1>5, <1>6 DEF ProfileTidy

LEMMA ServeAccountInv ==
  ASSUME ProfileTyped, ProfileTidy, NEW i \in DOMAIN calls, ServeAccount(i)
  PROVE  ProfileTyped' /\ ProfileTidy'
<1> USE ProfileCallFields, ScreenAssumption, AccountsAreThere
<1> DEFINE k == calls[i]
<1>1. /\ ui' = ui /\ upset' = upset /\ k.ans = None
      /\ db' = AfterAccount(k) /\ Served(i, db')
  BY DEF ServeAccount
<1>2. /\ db' \in Account
      /\ k.kind \in {"put", "me"} => db' = db
      /\ k.kind = "save" /\ k.of.form # None => db'.bio = k.of.form
  BY <1>1 DEF AfterAccount, ProfileTyped, Account
<1>3. Replies(i, db') /\ calls' \in Seq(ProfileCall)
  BY <1>1, <1>2, Replied DEF ProfileTyped, ProfileCall
<1>4. ProfileTyped'
  BY <1>1, <1>2, <1>3 DEF ProfileTyped, Replies
<1>5. ASSUME ~upset
      PROVE  (Len(calls) <= 1 /\ ShownOrComing /\ AnsweredNow /\ FormKept)'
  <2>1. /\ Len(calls) <= 1 /\ ShownOrComing /\ FormKept
        /\ \A j \in DOMAIN calls : j = i
    BY <1>5 DEF ProfileTidy
  <2>2. AnsweredNow'
    BY <1>3, <2>1 DEF AnsweredNow, Replies
  <2>3. ShownOrComing'
    BY <1>1, <1>2, <1>3, <2>1 DEF ShownOrComing, Replies
  <2>4. FormKept'
    BY <1>1, <1>2, <1>3, <2>1 DEF FormKept, Replies
  <2>5. QED
    BY <1>3, <2>1, <2>2, <2>3, <2>4 DEF Replies
<1>6. QED
  BY <1>1, <1>4, <1>5 DEF ProfileTidy

(* A call leads to another one, or is over. *)
LEMMA ProfileEndsInv ==
  ASSUME ProfileTyped, ProfileTidy, NEW i \in DOMAIN calls, screen' = "profile",
         \/ ProfileSaved(i) \/ AvatarPut(i) \/ AvatarSet(i)
         \/ PasswordChanged(i) \/ MeRead(i) \/ AccountMissed(i)
  PROVE  ProfileTyped' /\ ProfileTidy'
<1> USE ProfileCallFields, ScreenAssumption
<1> DEFINE k == calls[i]
<1>1. ASSUME AvatarPut(i) \/ PasswordChanged(i)
      PROVE  ProfileTyped' /\ ProfileTidy'
  <2>1. PICK next \in {"avatar", "me"} :
          /\ calls' = Append(RemoveAt(calls, i), Call(next, k.of))
          /\ next = "avatar" => k.kind = "put"
    BY <1>1 DEF AvatarPut, PasswordChanged
  <2>2. ui' = ui /\ db' = db /\ (~upset' => ~upset)
    <3>1. CASE AvatarPut(i)
      BY <3>1 DEF AvatarPut
    <3>2. CASE PasswordChanged(i)
      BY <3>2 DEF PasswordChanged
    <3>3. QED
      BY <1>1, <3>1, <3>2
  <2>3. calls' \in Seq(ProfileCall) /\ Swaps(i, Call(next, k.of))
    BY <2>1, Swapped, ProfileCallIs DEF ProfileTyped
  <2>4. ProfileTyped'
    BY <2>2, <2>3 DEF ProfileTyped, Swaps
  <2>5. ASSUME ~upset'
        PROVE  (Len(calls) <= 1 /\ ShownOrComing /\ AnsweredNow /\ FormKept)'
    <3>1. /\ Len(calls) = 1 /\ ShownOrComing
          /\ \A j \in DOMAIN calls : j = i
      <4>1. ~upset
        BY <2>2, <2>5
      <4>2. Len(calls) \in Nat /\ DOMAIN calls = 1 .. Len(calls)
        BY DEF ProfileTyped
      <4>3. Len(calls) <= 1 /\ ShownOrComing /\ AnsweredNow
        BY <4>1 DEF ProfileTidy
      <4>4. QED
        BY <4>2, <4>3
    <3>2. /\ Len(calls') = 1 /\ DOMAIN calls' = {1}
          /\ calls'[1].kind = next /\ calls'[1].ans = None
      BY <2>3, <3>1 DEF Swaps, Call
    <3>3. QED
      BY <2>1, <2>2, <3>1, <3>2 DEF ShownOrComing, AnsweredNow, FormKept
  <2>6. QED
    BY <2>4, <2>5 DEF ProfileTidy
<1>2. ASSUME ProfileSaved(i) \/ AvatarSet(i) \/ MeRead(i) \/ AccountMissed(i)
      PROVE  ProfileTyped' /\ ProfileTidy'
  <2>1. /\ ui' \in ProfileUi /\ db' = db /\ Ends(i)
        /\ \/ k.ans # None /\ ui'.user = k.ans
           \/ ui'.user = ui.user /\ (~upset' => k.kind # "me" /\ k.ans = None)
        /\ ~upset' => ~upset
    <3>0. ~Opens(Home(client))
      BY DEF Opens, Home, Mount
    <3>1. ASSUME k.ans # None, NEW u, u \in {ui, [ui EXCEPT !.saving = FALSE]},
                 NEW d \in {"edit", "password"}
          PROVE  /\ Closed([u EXCEPT !.user = k.ans], d) \in ProfileUi
                 /\ Closed([u EXCEPT !.user = k.ans], d).user = k.ans
      BY <3>1 DEF Closed, ProfileTyped, ProfileUi
    <3>2. Freed(k) \in {ui, [ui EXCEPT !.saving = FALSE]}
      BY DEF Freed
    <3>3. CASE ProfileSaved(i)
      BY <3>1, <3>2, <3>3 DEF ProfileSaved, Saved
    <3>4. CASE MeRead(i)
      BY <3>0, <3>1, <3>2, <3>4 DEF MeRead
    <3>5. CASE AvatarSet(i)
      BY <3>5 DEF AvatarSet, ProfileTyped, ProfileUi
    <3>6. CASE AccountMissed(i)
      <4>1. /\ ui' = Unsaved(k) /\ Ends(i) /\ db' = db
            /\ upset' = (upset \/ k.kind = "me" \/ k.ans # None)
        BY <3>0, <3>6 DEF AccountMissed
      <4>2. Unsaved(k) \in ProfileUi /\ Unsaved(k).user = ui.user
        BY DEF Unsaved, Closed, Freed, ProfileTyped, ProfileUi
      <4>3. QED
        BY <4>1, <4>2
    <3>7. QED
      BY <1>2, <3>3, <3>4, <3>5, <3>6
  <2>2. calls' \in Seq(ProfileCall) /\ Shrinks(i)
    BY <2>1, Ended DEF ProfileTyped
  <2>3. ProfileTyped'
    BY <2>1, <2>2 DEF ProfileTyped, Shrinks
  <2>4. ASSUME ~upset'
        PROVE  (Len(calls) <= 1 /\ ShownOrComing /\ AnsweredNow /\ FormKept)'
    <3>1. /\ Len(calls) = 1 /\ ShownOrComing /\ AnsweredNow
          /\ \A j \in DOMAIN calls : j = i
      <4>1. ~upset
        BY <2>1, <2>4
      <4>2. Len(calls) \in Nat /\ DOMAIN calls = 1 .. Len(calls)
        BY DEF ProfileTyped
      <4>3. Len(calls) <= 1 /\ ShownOrComing /\ AnsweredNow
        BY <4>1 DEF ProfileTidy
      <4>4. QED
        BY <4>2, <4>3
    <3>2. Len(calls') = 0 /\ DOMAIN calls' = {}
      BY <2>2, <3>1 DEF Shrinks
    <3>3. ui'.user = db'
      BY <2>1, <2>4, <3>1 DEF ShownOrComing, AnsweredNow
    <3>4. QED
      BY <3>2, <3>3 DEF ShownOrComing, AnsweredNow, FormKept
  <2>5. QED
    BY <2>3, <2>4 DEF ProfileTidy
<1>3. QED
  BY <1>1, <1>2

LEMMA ProfileNextInv ==
  ASSUME ProfileInv, ProfileNext
  PROVE  ProfileInv'
<1>1. screen = "profile" /\ ProfileTyped /\ ProfileTidy
  BY DEF ProfileInv, ProfileNext
<1>2. CASE screen' # "profile"
  BY <1>2 DEF ProfileInv
<1>3. CASE screen' = "profile"
  <2>1. CASE \E i \in DOMAIN calls : ServeAccount(i)
    BY <1>1, <2>1, ServeAccountInv DEF ProfileInv
  <2>2. ASSUME NEW i \in DOMAIN calls,
               \/ ProfileSaved(i) \/ AvatarPut(i) \/ AvatarSet(i)
               \/ PasswordChanged(i) \/ MeRead(i) \/ AccountMissed(i)
        PROVE  ProfileInv'
    BY <1>1, <1>3, <2>2, ProfileEndsInv DEF ProfileInv
  <2>3. CASE SaveProfile \/ PickAvatar \/ ChangePassword
    BY <1>1, <2>3, ProfileSendsInv DEF ProfileInv
  <2>4. CASE client = "web" /\ (\/ \E d \in {"edit", "password"} : OpenDialog(d)
                               \/ CloseDialog
                               \/ \E b \in Bios \cup {None} : EditForm(b))
    BY <1>1, <2>4, DialogInv DEF ProfileInv
  <2>5. CASE client # "web" /\ CloseDialog
    BY <1>3, <2>5 DEF CloseDialog, Opens, Home, Mount
  <2>6. QED
    BY <2>1, <2>2, <2>3, <2>4, <2>5
       DEF ProfileNext, AppProfile, WebProfile, EditDialog, PasswordDialog
<1>4. QED
  BY <1>2, <1>3

LEMMA ProfileMounted ==
  ASSUME NEW m \in ProfileMounts
  PROVE  /\ m.screen = "profile" /\ m.client \in Clients
         /\ Starts(m) => ProfileInv
         /\ Opens(m) => ProfileInv'
<1>1. PICK c \in Clients, a \in Account :
        m = Mount(c, "profile",
              [user |-> a, dialog |-> IF c = "web" THEN None ELSE "password",
               form |-> None, saving |-> FALSE, uploading |-> FALSE], <<>>, a)
  BY DEF ProfileMounts, Mount
<1>2. /\ m.client = c /\ m.screen = "profile"
      /\ m.ui \in ProfileUi /\ m.db \in Account /\ m.ui.user = m.db
      /\ m.calls = <<>>
  BY <1>1 DEF Mount, ProfileUi
<1>3. m.calls \in Seq(ProfileCall) /\ Len(m.calls) = 0 /\ DOMAIN m.calls = {}
  BY <1>2
<1>4. Starts(m) => ProfileInv
  BY <1>2, <1>3, ScreenAssumption
     DEF Starts, ProfileInv, ProfileTyped, ProfileTidy, ShownOrComing, AnsweredNow,
         FormKept
<1>5. Opens(m) => ProfileInv'
  BY <1>2, <1>3, ScreenAssumption
     DEF Opens, ProfileInv, ProfileTyped, ProfileTidy, ShownOrComing, AnsweredNow,
         FormKept
<1>6. QED
  BY <1>2, <1>4, <1>5

LEMMA ProfileKept == ProfileInv /\ UNCHANGED vars => ProfileInv'
BY DEF vars, ProfileInv, ProfileTyped, ProfileTidy, ShownOrComing, AnsweredNow, FormKept

(* Only the answer to the call that saved it closes the form. *)
LEMMA FormStep ==
  ASSUME ProfileInv, ProfileNext, screen' = "profile", ui.dialog = "edit",
         ui'.dialog # "edit", Len(calls') < Len(calls), ~upset', ui.form # None
  PROVE  ui.form = db.bio
<1> USE ScreenAssumption, ProfileCallFields
<1>1. ProfileTyped /\ ProfileTidy
  BY DEF ProfileInv, ProfileNext
<1>2. ASSUME NEW i \in DOMAIN calls, ProfileSaved(i)
      PROVE  ui.form = db.bio
  <2>1. /\ calls[i].kind = "save" /\ calls[i].ans # None
        /\ ~upset /\ ~Mistaken(calls[i], "edit")
    BY <1>2 DEF ProfileSaved
  <2>2. FormKept /\ calls[i].of.here
    BY <1>1, <2>1 DEF ProfileTidy, Mistaken
  <2>3. QED
    BY <2>1, <2>2 DEF FormKept
<1>3. ASSUME NEW i \in DOMAIN calls, AvatarSet(i) \/ MeRead(i) \/ AccountMissed(i)
      PROVE  FALSE
  BY <1>1, <1>3
     DEF AvatarSet, MeRead, AccountMissed, Unsaved, Closed, Freed, Opens, Home,
         Mount, ProfileTyped, ProfileUi
<1>4. ASSUME NEW i \in DOMAIN calls, AvatarPut(i) \/ PasswordChanged(i) \/ ServeAccount(i)
      PROVE  FALSE
  BY <1>4 DEF AvatarPut, PasswordChanged, ServeAccount
<1>5. ASSUME \E b \in Bios \cup {None} : EditForm(b)
      PROVE  FALSE
  BY <1>1, <1>5 DEF EditForm, ProfileTyped, ProfileUi
<1>6. ASSUME SaveProfile \/ PickAvatar \/ ChangePassword
      PROVE  FALSE
  BY <1>1, <1>6 DEF SaveProfile, PickAvatar, ChangePassword, ProfileTyped, ProfileUi
<1>7. ASSUME CloseDialog
      PROVE  FALSE
  <2>1. CASE client = "web"
    <3>1. calls' = Orphaned
      BY <1>7, <2>1 DEF CloseDialog
    <3>2. Orphans
      BY <1>1, <3>1, OrphanedFields DEF ProfileTyped, ProfileCall, Sender
    <3>3. QED
      BY <1>1, <3>2 DEF Orphans, ProfileTyped
  <2>2. CASE client # "web"
    BY <1>7, <2>2 DEF CloseDialog, Opens, Home, Mount
  <2>3. QED
    BY <2>1, <2>2
<1>8. ASSUME \E d \in {"edit", "password"} : OpenDialog(d)
      PROVE  FALSE
  BY <1>8 DEF OpenDialog
<1>9. QED
  BY <1>2, <1>3, <1>4, <1>5, <1>6, <1>7, <1>8
     DEF ProfileNext, AppProfile, WebProfile, EditDialog, PasswordDialog

-----------------------------------------------------------------------------
(* The university account.  Unless calls cross, or the session ends by        *)
(* itself, there is one call at a time: the bar is as the server has it until *)
(* that call has changed something, and the status that is read then is.     *)
CampusUi ==
  [status : BOOLEAN \cup {None}, open : BOOLEAN, filled : BOOLEAN, submitting : BOOLEAN]

CasDialog == [here : BOOLEAN, form : {None}]

CasAnswer == {None, "ok"} \cup BOOLEAN

CampusCall == CallOf({"status", "bind", "unbind"}, CasDialog, CasAnswer)

StatusAsked ==
  \A i \in DOMAIN calls : calls[i].kind = "status" => calls[i].ans \in {None} \cup BOOLEAN

BarKept ==
  /\ (\A i \in DOMAIN calls : calls[i].kind # "status" /\ calls[i].ans = None) =>
       ui.status = db
  /\ \A i \in DOMAIN calls :
       calls[i].kind = "status" /\ calls[i].ans # None => calls[i].ans = db

CampusTyped ==
  /\ ui \in CampusUi /\ db \in BOOLEAN
  /\ calls \in Seq(CampusCall) /\ StatusAsked
  /\ Len(calls) <= MaxCalls

CampusTidy == ~upset => Len(calls) <= 1 /\ BarKept

CampusInv == screen = "campus" => CampusTyped /\ CampusTidy

LEMMA CampusCallFields ==
  ASSUME CampusTyped
  PROVE  /\ Len(calls) \in Nat /\ DOMAIN calls = 1 .. Len(calls)
         /\ \A i \in DOMAIN calls :
              /\ calls[i].kind \in {"status", "bind", "unbind"}
              /\ calls[i].of \in CasDialog
              /\ calls[i].ans \in CasAnswer
BY Fields DEF CampusTyped, CampusCall

LEMMA CampusCallIs ==
  ASSUME NEW k \in {"status", "bind", "unbind"}, NEW o \in CasDialog
  PROVE  Call(k, o) \in CampusCall
<1>1. None \in CasAnswer
  BY DEF CasAnswer
<1>2. QED
  BY <1>1, Fields DEF CampusCall

LEMMA Rechecks ==
  ASSUME NEW K, NEW O, NEW A, NEW c \in CallOf(K, O, A)
  PROVE  [c EXCEPT !.kind = "status", !.ans = None] = Call("status", c.of)
<1> DEFINE new == [c EXCEPT !.kind = "status", !.ans = None]
<1>1. new \in [kind : {"status"}, of : O, ans : {None}]
  BY DEF CallOf
<1>2. Call("status", c.of) \in [kind : {"status"}, of : O, ans : {None}]
  BY DEF CallOf, Call
<1>3. new.kind = "status" /\ new.of = c.of /\ new.ans = None
  BY DEF CallOf
<1> HIDE DEF new
<1>4. new = Call("status", c.of)
  BY <1>1, <1>2, <1>3 DEF Call
<1>5. QED
  BY <1>4 DEF new

LEMMA CasActionsInv ==
  ASSUME CampusTyped, CampusTidy, CasActions \/ CasExpires
  PROVE  CampusTyped' /\ CampusTidy'
<1> USE CampusCallFields, ScreenAssumption
<1>1. ASSUME OpenCas \/ TypeCas
      PROVE  CampusTyped' /\ CampusTidy'
  <2>1. /\ ui' \in CampusUi /\ ui'.status = ui.status
        /\ calls' = calls /\ db' = db /\ upset' = upset
    BY <1>1 DEF OpenCas, TypeCas, CampusTyped, CampusUi
  <2>2. QED
    BY <2>1 DEF CampusTyped, CampusTidy, StatusAsked, BarKept
<1>2. ASSUME CloseCas
      PROVE  CampusTyped' /\ CampusTidy'
  <2>1. /\ ui' \in CampusUi /\ ui'.status = ui.status
        /\ calls' = Orphaned /\ db' = db /\ upset' = upset
    BY <1>2 DEF CloseCas, CampusTyped, CampusUi
  <2>2. calls' \in Seq(CampusCall) /\ Orphans
    BY <2>1, OrphanedFields DEF CampusTyped, CampusCall, CasDialog
  <2>3. CampusTyped'
    BY <2>1, <2>2 DEF CampusTyped, StatusAsked, Orphans
  <2>4. CampusTidy'
    BY <2>1, <2>2 DEF CampusTidy, BarKept, Orphans
  <2>5. QED
    BY <2>3, <2>4
<1>3. ASSUME NEW kind \in {"bind", "unbind"}, Submits(kind)
      PROVE  CampusTyped' /\ CampusTidy'
  <2> DEFINE o == [here |-> TRUE, form |-> None]
  <2>1. /\ ui' \in CampusUi /\ ui'.status = ui.status /\ db' = db
        /\ ~upset' => ~upset /\ calls = <<>>
        /\ Send(Call(kind, o))
    BY <1>3 DEF Submits, FromCas, CampusTyped, CampusUi
  <2>2. Grows(Call(kind, o)) /\ calls' \in Seq(CampusCall) /\ Len(calls) < MaxCalls
    <3>1. o \in CasDialog
      BY DEF CasDialog
    <3>2. QED
      BY <2>1, <3>1, Sent, CampusCallIs DEF CampusTyped, Send
  <2>3. CampusTyped'
    BY <2>1, <2>2 DEF CampusTyped, StatusAsked, Grows, Call
  <2>4. ASSUME ~upset'
        PROVE  (Len(calls) <= 1 /\ BarKept)'
    <3>1. ui.status = db
      BY <2>1, <2>4 DEF CampusTidy, BarKept
    <3>2. /\ Len(calls') = 1 /\ DOMAIN calls' = {1}
          /\ calls'[1].kind = kind /\ calls'[1].ans = None
      BY <2>1, <2>2, <2>4 DEF Grows, Call
    <3>3. QED
      BY <2>1, <3>1, <3>2 DEF BarKept
  <2>5. QED
    BY <2>3, <2>4 DEF CampusTidy
<1>4. ASSUME CasExpires
      PROVE  CampusTyped' /\ CampusTidy'
  BY <1>4 DEF CasExpires, CampusTyped, CampusTidy, StatusAsked
<1>5. QED
  BY <1>1, <1>2, <1>3, <1>4 DEF CasActions

LEMMA CasAnswersInv ==
  ASSUME CampusTyped, CampusTidy, NEW i \in DOMAIN calls,
         ServeCas(i) \/ CasChanged(i) \/ CasRead(i) \/ CasMissed(i)
  PROVE  CampusTyped' /\ CampusTidy'
<1> USE CampusCallFields, ScreenAssumption
<1> DEFINE k == calls[i]
<1>1. ASSUME ServeCas(i)
      PROVE  CampusTyped' /\ CampusTidy'
  <2> DEFINE a == IF k.kind = "status" THEN db ELSE "ok"
  <2>1. /\ ui' = ui /\ upset' = upset /\ db' \in BOOLEAN
        /\ k.kind = "status" => db' = db
        /\ Served(i, a) /\ a \in CasAnswer
    BY <1>1 DEF ServeCas, CampusTyped, CasAnswer
  <2>2. Replies(i, a) /\ calls' \in Seq(CampusCall)
    BY <2>1, Replied DEF CampusTyped, CampusCall
  <2>3. CampusTyped'
    BY <2>1, <2>2 DEF CampusTyped, StatusAsked, Replies
  <2>4. ASSUME ~upset
        PROVE  (Len(calls) <= 1 /\ BarKept)'
    <3>1. Len(calls) <= 1 /\ BarKept /\ \A j \in DOMAIN calls : j = i
      BY <2>4 DEF CampusTidy
    <3>2. QED
      BY <2>1, <2>2, <3>1 DEF BarKept, Replies
  <2>5. QED
    BY <2>1, <2>3, <2>4 DEF CampusTidy
<1>2. ASSUME CasChanged(i)
      PROVE  CampusTyped' /\ CampusTidy'
  <2>1. /\ ui' \in CampusUi /\ ui'.status = ui.status /\ db' = db /\ upset' = upset
    BY <1>2 DEF CasChanged, CampusTyped, CampusUi
  <2>2. calls' \in Seq(CampusCall) /\ Swaps(i, Call("status", k.of))
    <3>1. k \in CampusCall
      BY DEF CampusTyped
    <3>2. [k EXCEPT !.kind = "status", !.ans = None] = Call("status", k.of)
      BY <3>1, Rechecks DEF CampusCall
    <3>3. RemoveAt(calls, i) \in Seq(CampusCall)
      BY Removed DEF CampusTyped
    <3>4. calls' = Append(RemoveAt(calls, i), Call("status", k.of))
      BY <1>2, <3>2, <3>3 DEF CasChanged, Rechecked
    <3>5. QED
      BY <3>4, Swapped, CampusCallIs DEF CampusTyped
  <2>3. CampusTyped'
    BY <2>1, <2>2 DEF CampusTyped, StatusAsked, Swaps, Call
  <2>4. ASSUME ~upset
        PROVE  (Len(calls) <= 1 /\ BarKept)'
    <3>1. Len(calls) = 1
      BY <2>4 DEF CampusTidy
    <3>2. /\ Len(calls') = 1 /\ DOMAIN calls' = {1}
          /\ calls'[1].kind = "status" /\ calls'[1].ans = None
      BY <2>2, <3>1 DEF Swaps, Call
    <3>3. QED
      BY <3>2 DEF BarKept
  <2>5. QED
    BY <2>1, <2>3, <2>4 DEF CampusTidy
<1>3. ASSUME CasRead(i) \/ CasMissed(i)
      PROVE  CampusTyped' /\ CampusTidy'
  <2>1. /\ ui' \in CampusUi /\ db' = db
        /\ CasMissed(i) => ui'.status = ui.status
        /\ CasRead(i) => ui'.status = k.ans /\ k.kind = "status" /\ k.ans # None
    BY <1>3 DEF CasRead, CasMissed, CampusTyped, CampusUi, StatusAsked
  <2>2. calls' \in Seq(CampusCall) /\ Shrinks(i)
    BY <1>3, Ended DEF CampusTyped, CasRead, CasMissed
  <2>3. CampusTyped'
    BY <2>1, <2>2 DEF CampusTyped, StatusAsked, Shrinks
  <2>4. ASSUME ~upset'
        PROVE  (Len(calls) <= 1 /\ BarKept)'
    <3>1. Len(calls) = 1 /\ ui'.status = db
      <4>1. CASE CasRead(i)
        <5>1. CASE upset
          BY <2>1, <2>4, <4>1, <5>1 DEF CasRead
        <5>2. CASE ~upset
          BY <2>1, <4>1, <5>2 DEF CampusTidy, BarKept
        <5>3. QED
          BY <5>1, <5>2
      <4>2. CASE CasMissed(i)
        <5>1. ~upset /\ k.kind # "status" /\ k.ans = None
          BY <2>4, <4>2 DEF CasMissed
        <5>2. Len(calls) = 1 /\ \A j \in DOMAIN calls : j = i
          BY <5>1 DEF CampusTidy
        <5>3. QED
          BY <2>1, <4>2, <5>1, <5>2 DEF CampusTidy, BarKept
      <4>3. QED
        BY <1>3, <4>1, <4>2
    <3>2. Len(calls') = 0 /\ DOMAIN calls' = {}
      BY <2>2, <3>1 DEF Shrinks
    <3>3. QED
      BY <2>1, <3>1, <3>2 DEF BarKept
  <2>5. QED
    BY <2>3, <2>4 DEF CampusTidy
<1>4. QED
  BY <1>1, <1>2, <1>3

LEMMA CampusNextInv ==
  ASSUME CampusInv, CampusNext
  PROVE  CampusInv'
<1>1. screen = "campus" /\ CampusTyped /\ CampusTidy
  BY DEF CampusInv, CampusNext
<1>2. QED
  BY <1>1, CasActionsInv, CasAnswersInv DEF CampusInv, CampusNext, AppCampus, WebCampus

LEMMA CampusMounted ==
  ASSUME NEW m \in CampusMounts
  PROVE  /\ m.screen = "campus" /\ m.client \in Clients
         /\ Starts(m) => CampusInv
         /\ Opens(m) => CampusInv'
<1> DEFINE o == [here |-> FALSE, form |-> None]
<1>1. PICK c \in Clients, b \in BOOLEAN :
        m = Mount(c, "campus",
              [status |-> None, open |-> FALSE, filled |-> FALSE, submitting |-> FALSE],
              <<Call("status", o)>>, b)
  BY DEF CampusMounts, Mount, Call
<1>2. /\ m.client = c /\ m.screen = "campus"
      /\ m.ui \in CampusUi /\ m.db \in BOOLEAN /\ m.calls = <<Call("status", o)>>
  BY <1>1 DEF Mount, CampusUi
<1>3. /\ m.calls \in Seq(CampusCall) /\ Len(m.calls) = 1 /\ DOMAIN m.calls = {1}
      /\ m.calls[1].kind = "status" /\ m.calls[1].ans = None
  <2>1. o \in CasDialog
    BY DEF CasDialog
  <2> HIDE DEF o
  <2>2. Call("status", o) \in CampusCall
    BY <2>1, CampusCallIs
  <2>3. QED
    BY <1>2, <2>2 DEF Call
<1>4. Starts(m) => CampusInv
  BY <1>2, <1>3, ScreenAssumption
     DEF Starts, CampusInv, CampusTyped, CampusTidy, StatusAsked, BarKept
<1>5. Opens(m) => CampusInv'
  BY <1>2, <1>3, ScreenAssumption
     DEF Opens, CampusInv, CampusTyped, CampusTidy, StatusAsked, BarKept
<1>6. QED
  BY <1>2, <1>4, <1>5

LEMMA CampusKept == CampusInv /\ UNCHANGED vars => CampusInv'
BY DEF vars, CampusInv, CampusTyped, CampusTidy, StatusAsked, BarKept
===============================================================================
