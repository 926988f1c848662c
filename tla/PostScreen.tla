------------------------------ MODULE PostScreen ------------------------------
(***************************************************************************)
(* The page of a post, app/post/[id].tsx and pages/PostDetail.tsx: loading   *)
(* it, the likes and favourites that are shown when they are answered, and   *)
(* deleting it.  The handlers of the two clients are the same; the web page  *)
(* stays mounted when a link of the sidebar leads to another post, while the *)
(* app opens a screen of its own.                                           *)
(***************************************************************************)
EXTENDS Screen

CONSTANTS
  Posts,
  Mine,         \* the posts of this user
  OtherLikes,   \* likes of other users
  MaxCount      \* bound: likes shown (the count may drift)

ASSUME PostScreenAssumption == Mine \subseteq Posts /\ OtherLikes \in Nat /\ MaxCount \in Nat

Toggles == {"like", "fav"}

(* The post as the server would answer it now. *)
Current(d, p) ==
  [of |-> p, like |-> p \in d.like, fav |-> p \in d.fav,
   count |-> OtherLikes + (IF p \in d.like THEN 1 ELSE 0)]

Post == [of : Posts, like : BOOLEAN, fav : BOOLEAN, count : Nat]

ASSUME PostsAreThere == None \notin Post

PostTypeOK ==
  screen = "post" =>
    /\ ui \in [id : Posts, post : Post \cup {None}, loading : BOOLEAN,
               deleting : BOOLEAN]
    /\ db \in [like : SUBSET Posts, fav : SUBSET Posts, gone : SUBSET Posts]
    /\ \A i \in DOMAIN calls :
         calls[i] \in [kind : Toggles \cup {"get", "delete", "report"},
                       of : Posts, ans : Post \cup {None}]

(* Mounted, the effect has asked for the post. *)
PostMounts ==
  {Mount(c, "post",
         [id |-> p, post |-> None, loading |-> TRUE, deleting |-> FALSE],
         <<Call("get", p)>>,
         [like |-> l, fav |-> {}, gone |-> {}]) :
     c \in Clients, p \in Posts, l \in SUBSET Posts}

-----------------------------------------------------------------------------
(* A spinner, a message, or the post with its buttons. *)
Buttons_App ==
  IF ui.loading \/ ui.post = None THEN {}
  ELSE Toggles \cup {"report"} \cup
       (IF ui.post.of \in Mine THEN {"edit", "delete"} ELSE {})

(* The web page disables the button while the post is being deleted. *)
Buttons_Web == Buttons_App \ (IF ui.deleting THEN {"delete"} ELSE {})

Buttons == IF client = "app" THEN Buttons_App ELSE Buttons_Web

(* A call that is sent now may be answered before, or read the server after,  *)
(* one that writes the same part of the screen.                             *)
Crosses(kind) ==
  \/ UnderWay("get")
  \/ UnderWay(kind)

(* likePost and favPost: the call names the page's id, not the post shown. *)
Toggle(kind) ==
  /\ kind \in Buttons
  /\ ui.post.count <= MaxCount
  /\ Send(Call(kind, ui.id))
  /\ upset' = (upset \/ Crosses(kind))
  /\ Stays /\ UNCHANGED <<ui, db>>

Report ==
  /\ "report" \in Buttons
  /\ Send(Call("report", ui.id))
  /\ Stays /\ UNCHANGED <<ui, db, upset>>

(* Confirmed by the user. *)
Delete ==
  /\ "delete" \in Buttons
  /\ Send(Call("delete", ui.id))
  /\ ui' = [ui EXCEPT !.deleting = client = "web"]
  /\ Stays /\ UNCHANGED <<db, upset>>

(* A link to another post: the page of the web keeps what it has and loads. *)
Reloading_KeepsPost(p) == [ui EXCEPT !.id = p]

Reloading(p) == [ui EXCEPT !.id = p, !.loading = TRUE]

OpenPost(p) ==
  /\ client = "web"
  /\ p # ui.id
  /\ ui' = Reloading(p)
  /\ Send(Call("get", p))
  /\ upset' = (upset \/ calls # <<>>)
  /\ Stays /\ UNCHANGED db

-----------------------------------------------------------------------------
(* The server: a toggle answers with the new state of its row. *)
Flip(S, p) == IF p \in S THEN S \ {p} ELSE S \cup {p}

After(k) ==
  [like |-> IF k.kind = "like" THEN Flip(db.like, k.of) ELSE db.like,
   fav |-> IF k.kind = "fav" THEN Flip(db.fav, k.of) ELSE db.fav,
   gone |-> IF k.kind = "delete" THEN db.gone \cup {k.of} ELSE db.gone]

Serve(i) ==
  /\ calls[i].ans = None
  /\ calls[i].of \notin db.gone
  /\ calls[i].kind = "delete" => calls[i].of \in Mine
  /\ db' = After(calls[i])
  /\ Served(i, Current(After(calls[i]), calls[i].of))
  /\ Stays /\ UNCHANGED <<ui, upset>>

(* The count is moved by one, not read. *)
Counted_Unclamped(n, on) == IF on THEN n + 1 ELSE n - 1

Counted(n, on) == IF on THEN n + 1 ELSE IF n > 0 THEN n - 1 ELSE 0

(* What the screen makes of an answer. *)
Shown(k) ==
  CASE k.kind = "get" -> [ui EXCEPT !.post = k.ans, !.loading = FALSE]
    [] k.kind = "like" /\ ui.post # None ->
         [ui EXCEPT !.post.like = k.ans.like,
                    !.post.count = Counted(ui.post.count, k.ans.like)]
    [] k.kind = "fav" /\ ui.post # None ->
         [ui EXCEPT !.post.fav = k.ans.fav]
    [] OTHER -> ui

(* A load that is answered last, and nothing was written since it was read. *)
Settles(k) ==
  /\ k.kind = "get" /\ Len(calls) = 1
  /\ k.ans = Current(db, ui.id) /\ ui.id \notin db.gone

Answer(i) ==
  /\ calls[i].ans # None
  /\ calls[i].kind # "delete"
  /\ ui' = Shown(calls[i])
  /\ Ends(i)
  /\ upset' = (upset /\ ~Settles(calls[i]))
  /\ Stays /\ UNCHANGED db

(* The post is deleted: back in the app, to the home page on the web. *)
Deleted(i) ==
  /\ calls[i].kind = "delete" /\ calls[i].ans # None
  /\ Opens(Home(client))

(* Refused, or the answer is lost: what was served all the same is not shown. *)
Complained(k) ==
  CASE k.kind = "get" -> [ui EXCEPT !.post = None, !.loading = FALSE]
    [] k.kind = "delete" -> [ui EXCEPT !.deleting = FALSE]
    [] OTHER -> ui

Miss(i) ==
  /\ ui' = Complained(calls[i])
  /\ Ends(i)
  /\ upset' = (upset \/ (calls[i].kind \notin {"get", "report"}
                        /\ calls[i].ans # None))
  /\ Stays /\ UNCHANGED db

-----------------------------------------------------------------------------
(* The handlers of the app's screen. *)
AppPost ==
  /\ client = "app"
  /\ (\E kind \in Toggles : Toggle(kind)) \/ Report \/ Delete

(* Those of the web page, and the links that lead to it while it is mounted. *)
WebPost ==
  /\ client = "web"
  /\ \/ \E kind \in Toggles : Toggle(kind)
     \/ Report
     \/ Delete
     \/ \E p \in Posts : OpenPost(p)

PostAnswers ==
  \E i \in DOMAIN calls : Serve(i) \/ Answer(i) \/ Deleted(i) \/ Miss(i)

PostNext ==
  screen = "post" /\ (AppPost \/ WebPost \/ PostAnswers)

-----------------------------------------------------------------------------
(* With nothing under way the page shows the post of its address as the       *)
(* server has it: likes are moved on the screen by what each answer says,    *)
(* and only calls that crossed, or an answer that was lost, leave it wrong. *)
ShownIsServers ==
  (screen = "post" /\ calls = <<>> /\ ~upset /\ ui.post # None) =>
    ui.post = Current(db, ui.id) /\ ui.id \notin db.gone

(* A click likes, or deletes, the post it is made on: the calls name the id   *)
(* of the address, which runs ahead of the post that is shown.              *)
ActsOnWhatIsShown ==
  [][(screen = "post" /\ screen' = "post" /\ Len(calls') > Len(calls)
      /\ Last(calls').kind # "get" /\ ~upset)
     => Last(calls').of = ui.post.of]_vars
=============================================================================
