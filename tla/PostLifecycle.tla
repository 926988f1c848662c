---------------------------- MODULE PostLifecycle ----------------------------
(***************************************************************************)
(* The life of a post: ContentService.CreatePost, UpdatePost and DeletePost *)
(* by its author, and the moderators' ReviewPost and DeletePost.           *)
(*                                                                         *)
(* A text is a title and a content, each of some level for the filter of    *)
(* sensitive words.  UpdatePost reads the post, judges what the author      *)
(* sent, and writes the columns it has new values for, in one UPDATE; a     *)
(* moderator's call is one UPDATE that does not look at the status.        *)
(***************************************************************************)
EXTENDS Naturals

CONSTANTS
  Posts,
  Edits,        \* calls of UpdatePost or DeletePost by the author, in flight
  NoText        \* a title or content the author left out

Levels == {"clean", "normal", "high"}
Status == {"none", "pending", "published", "rejected", "deleted"}

ASSUME PostLifecycleAssumption ==
  /\ Posts # {}
  /\ NoText \notin Levels

VARIABLES
  status,       \* posts.status; "none" before the post is created
  title,        \* the level of posts.title
  content,      \* the level of posts.content
  edit,         \* edit[e] : an UpdatePost call between its read and its write
  approved      \* history: the posts approved since their text was written

vars == <<status, title, content, edit, approved>>

Edit == [pc : {"idle", "write"}, post : Posts, read : Status,
         title : Levels \cup {NoText}, content : Levels \cup {NoText}]

TypeOK ==
  /\ status \in [Posts -> Status]
  /\ title \in [Posts -> Levels]
  /\ content \in [Posts -> Levels]
  /\ edit \in [Edits -> Edit]
  /\ approved \in SUBSET Posts

Idle == [pc |-> "idle", post |-> CHOOSE p \in Posts : TRUE, read |-> "none",
         title |-> NoText, content |-> NoText]

Init ==
  /\ status = [p \in Posts |-> "none"]
  /\ title = [p \in Posts |-> "clean"]
  /\ content = [p \in Posts |-> "clean"]
  /\ edit = [e \in Edits |-> Idle]
  /\ approved = {}

-----------------------------------------------------------------------------
(* Matcher.Match on title and content together: the worst word counts.      *)
Match(t, c) ==
  IF "high" \in {t, c} THEN "high"
  ELSE IF "normal" \in {t, c} THEN "normal"
  ELSE "clean"

(* CreatePost: words of high level are refused, others await moderation.    *)
FirstStatus(level) == IF level = "normal" THEN "pending" ELSE "published"

Create(p, t, c) ==
  LET level == Match(t, c) IN
  /\ status[p] = "none"
  /\ level # "high"
  /\ status' = [status EXCEPT ![p] = FirstStatus(level)]
  /\ title' = [title EXCEPT ![p] = t]
  /\ content' = [content EXCEPT ![p] = c]
  /\ UNCHANGED <<edit, approved>>

(* UpdatePost filters when there is new content: what is sent of the title  *)
(* and the content, not what is stored.                                    *)
Judged(t, c) == IF c = NoText THEN "clean" ELSE Match(t, c)

(* GetPost and the checks of UpdatePost, whatever the post's status. *)
ReadForEdit(e, p, t, c) ==
  /\ edit[e].pc = "idle"
  /\ status[p] # "none"
  /\ Judged(t, c) # "high"
  /\ edit' = [edit EXCEPT ![e] = [pc |-> "write", post |-> p, read |-> status[p],
                                  title |-> t, content |-> c]]
  /\ UNCHANGED <<status, title, content, approved>>

(* The status column is written only to send the post back to moderation.   *)
EditedStatus_AsRead(e, level, now) ==
  IF level = "normal" THEN "pending" ELSE edit[e].read

EditedStatus(e, level, now) == IF level = "normal" THEN "pending" ELSE now

NewOrOld_AsSent(new, old) == new

NewOrOld(new, old) == IF new = NoText THEN old ELSE new

(* UPDATE posts SET ... with text and status in one statement. *)
WriteEdit(e) ==
  LET d == edit[e]
      p == d.post
  IN
  /\ d.pc = "write"
  /\ title' = [title EXCEPT ![p] = NewOrOld(d.title, @)]
  /\ content' = [content EXCEPT ![p] = NewOrOld(d.content, @)]
  /\ status' = [status EXCEPT ![p] =
                  EditedStatus(e, Judged(d.title, d.content), @)]
  /\ approved' = IF d.content # NoText THEN approved \ {p} ELSE approved
  /\ edit' = [edit EXCEPT ![e] = Idle]

(* The UPDATE fails: nothing is written. *)
FailEdit(e) ==
  /\ edit[e].pc = "write"
  /\ edit' = [edit EXCEPT ![e] = Idle]
  /\ UNCHANGED <<status, title, content, approved>>

(* DeletePost of the author or of an operator, and of the moderators. *)
Delete(p) ==
  /\ status[p] # "none"
  /\ status' = [status EXCEPT ![p] = "deleted"]
  /\ UNCHANGED <<title, content, edit, approved>>

(* ReviewPost writes the status whatever it is and whatever text it was     *)
(* shown.                                                                  *)
Approve(p) ==
  /\ status[p] # "none"
  /\ status' = [status EXCEPT ![p] = "published"]
  /\ approved' = approved \cup {p}
  /\ UNCHANGED <<title, content, edit>>

Reject(p) ==
  /\ status[p] # "none"
  /\ status' = [status EXCEPT ![p] = "rejected"]
  /\ UNCHANGED <<title, content, edit, approved>>

Next ==
  \/ \E p \in Posts :
       \/ \E t, c \in Levels : Create(p, t, c)
       \/ \E e \in Edits, t, c \in Levels \cup {NoText} : ReadForEdit(e, p, t, c)
       \/ Delete(p)
       \/ Approve(p)
       \/ Reject(p)
  \/ \E e \in Edits : WriteEdit(e) \/ FailEdit(e)

Spec == Init /\ [][Next]_vars

-----------------------------------------------------------------------------
(* A content with sensitive words is published only if a moderator approved *)
(* the post after that content was written, however edits, reviews and      *)
(* deletions interleave; one of high level is never stored.                *)
ContentIsModerated ==
  \A p \in Posts :
    /\ content[p] # "high"
    /\ (status[p] = "published" /\ content[p] = "normal") => p \in approved

(* An edit never publishes: what the moderators rejected or the author       *)
(* deleted while the edit was in flight does not come back with it.         *)
EditsNeverPublish ==
  [][\A p \in Posts :
       (status[p] \notin {"none", "published"} /\ status'[p] = "published")
         => p \in approved']_vars
=============================================================================
