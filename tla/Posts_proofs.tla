----------------------------- MODULE Posts_proofs -----------------------------
(***************************************************************************)
(* Proofs about PostLifecycle, for any number of posts and of edits in       *)
(* flight, and about PostTags, for every set of tags and any number of       *)
(* replacements.                                                           *)
(*                                                                         *)
(* ContentIsModerated alone is not inductive: an edit that is about to be    *)
(* written must have been judged, which is what EditsAreJudged adds.  Of the *)
(* tags a reader sees changes at commits only, and a commit leaves its own   *)
(* rows there whoever else deleted what: CarriesValidTags follows the        *)
(* validated tags of an edit from the validation to its INSERT.             *)
(***************************************************************************)
EXTENDS PostLifecycle, PostTags, FiniteSetTheorems, TLAPS

(* Between its read and its write an edit carries nothing of high level. *)
EditsAreJudged ==
  \A e \in Edits : edit[e].pc = "write" =>
    Judged(edit[e].title, edit[e].content) # "high"

IInv == TypeOK /\ ContentIsModerated /\ EditsAreJudged

-----------------------------------------------------------------------------
(* The filter finds the worst of a title and a content. *)
LEMMA MatchIsWorst ==
  ASSUME NEW t \in Levels \cup {NoText}, NEW c \in Levels
  PROVE  /\ Match(t, c) \in Levels
         /\ c = "high" => Match(t, c) = "high"
         /\ c = "normal" => Match(t, c) \in {"normal", "high"}
BY PostLifecycleAssumption DEF Match, Levels

(* What UpdatePost judges is in Levels, and at least the new content. *)
LEMMA JudgedIsWorst ==
  ASSUME NEW t \in Levels \cup {NoText}, NEW c \in Levels \cup {NoText}
  PROVE  /\ Judged(t, c) \in Levels
         /\ c = "high" => Judged(t, c) = "high"
         /\ c = "normal" => Judged(t, c) \in {"normal", "high"}
<1>1. CASE c = NoText
  BY <1>1, PostLifecycleAssumption DEF Judged, Levels
<1>2. CASE c \in Levels
  <2>1. Judged(t, c) = Match(t, c)
    BY <1>2, PostLifecycleAssumption DEF Judged
  <2>. QED
    BY <1>2, <2>1, MatchIsWorst
<1>. QED
  BY <1>1, <1>2

LEMMA IdleIsEdit == Idle \in Edit
BY PostLifecycleAssumption DEF Idle, Edit, Status

LEMMA InitIInv ==
  ASSUME Init
  PROVE  IInv
<1>1. TypeOK
  BY IdleIsEdit DEF Init, TypeOK, Levels, Status
<1>2. ContentIsModerated /\ EditsAreJudged
  BY DEF Init, ContentIsModerated, EditsAreJudged, Idle
<1>. QED
  BY <1>1, <1>2 DEF IInv

(* CreatePost refuses the high level and holds back the normal one. *)
LEMMA CreateStep ==
  ASSUME IInv, NEW p \in Posts, NEW t \in Levels, NEW c \in Levels,
         Create(p, t, c)
  PROVE  IInv'
<1>. DEFINE level == Match(t, c)
<1>1. level \in Levels /\ (c = "high" => level = "high")
      /\ (c = "normal" => level \in {"normal", "high"})
  BY MatchIsWorst
<1>2. TypeOK'
  BY <1>1 DEF IInv, TypeOK, Create, FirstStatus, Status
<1>3. ContentIsModerated'
  BY <1>1 DEF IInv, TypeOK, ContentIsModerated, Create, FirstStatus
<1>4. EditsAreJudged'
  BY DEF IInv, EditsAreJudged, Create
<1>. QED
  BY <1>2, <1>3, <1>4 DEF IInv

LEMMA ReadForEditStep ==
  ASSUME IInv, NEW p \in Posts, NEW e \in Edits,
         NEW t \in Levels \cup {NoText}, NEW c \in Levels \cup {NoText},
         ReadForEdit(e, p, t, c)
  PROVE  IInv'
<1>1. TypeOK'
  BY DEF IInv, TypeOK, ReadForEdit, Edit
<1>2. ContentIsModerated'
  BY DEF IInv, ContentIsModerated, ReadForEdit
<1>3. EditsAreJudged'
  BY DEF IInv, TypeOK, EditsAreJudged, ReadForEdit, Edit
<1>. QED
  BY <1>1, <1>2, <1>3 DEF IInv

(* A new content is clean, or sends the post back to moderation. *)
LEMMA WriteEditStep ==
  ASSUME IInv, NEW e \in Edits, WriteEdit(e)
  PROVE  IInv'
<1>. DEFINE d == edit[e]
            p == d.post
            level == Judged(d.title, d.content)
<1>1. /\ d \in Edit
      /\ p \in Posts
      /\ level \in Levels \ {"high"}
      /\ d.content # "high"
      /\ d.content = "normal" => level = "normal"
  <2>1. d \in Edit /\ d.pc = "write"
    BY DEF IInv, TypeOK, WriteEdit
  <2>2. level # "high"
    BY <2>1 DEF IInv, EditsAreJudged
  <2>. QED
    BY <2>1, <2>2, JudgedIsWorst DEF Edit
<1>2. \A q \in Posts \ {p} :
        /\ content'[q] = content[q]
        /\ status'[q] = status[q]
        /\ q \in approved => q \in approved'
  BY <1>1 DEF IInv, TypeOK, WriteEdit
<1>3. /\ content'[p] = (IF d.content = NoText THEN content[p] ELSE d.content)
      /\ status'[p] = (IF level = "normal" THEN "pending" ELSE status[p])
      /\ d.content = NoText => approved' = approved
  BY <1>1 DEF IInv, TypeOK, WriteEdit, NewOrOld, EditedStatus
<1>4. TypeOK'
  BY <1>1, IdleIsEdit
  DEF IInv, TypeOK, WriteEdit, NewOrOld, EditedStatus, Edit, Status
<1>5. ContentIsModerated'
  <2>1. content'[p] # "high"
    BY <1>1, <1>3 DEF IInv, ContentIsModerated
  <2>2. ASSUME status'[p] = "published", content'[p] = "normal"
        PROVE  p \in approved'
    BY <1>1, <1>3, <2>2 DEF IInv, ContentIsModerated
  <2>. QED
    BY <1>2, <2>1, <2>2 DEF IInv, ContentIsModerated
<1>6. EditsAreJudged'
  BY DEF IInv, TypeOK, EditsAreJudged, WriteEdit, Idle
<1>. QED
  BY <1>4, <1>5, <1>6 DEF IInv

LEMMA FailEditStep ==
  ASSUME IInv, NEW e \in Edits, FailEdit(e)
  PROVE  IInv'
<1>1. TypeOK'
  BY IdleIsEdit DEF IInv, TypeOK, FailEdit
<1>2. ContentIsModerated'
  BY DEF IInv, ContentIsModerated, FailEdit
<1>3. EditsAreJudged'
  BY DEF IInv, TypeOK, EditsAreJudged, FailEdit, Idle
<1>. QED
  BY <1>1, <1>2, <1>3 DEF IInv

(* The moderators' steps leave texts and edits alone, and approve what they  *)
(* publish.                                                                *)
LEMMA ModerationStep ==
  ASSUME IInv, NEW p \in Posts, Delete(p) \/ Approve(p) \/ Reject(p)
  PROVE  IInv'
<1>1. TypeOK'
  BY DEF IInv, TypeOK, Delete, Approve, Reject, Status
<1>2. ContentIsModerated'
  BY DEF IInv, TypeOK, ContentIsModerated, Delete, Approve, Reject
<1>3. EditsAreJudged'
  BY DEF IInv, EditsAreJudged, Delete, Approve, Reject
<1>. QED
  BY <1>1, <1>2, <1>3 DEF IInv

LEMMA NextIInv ==
  ASSUME IInv, [Next]_vars
  PROVE  IInv'
<1>1. CASE UNCHANGED vars
  BY <1>1 DEF vars, IInv, TypeOK, ContentIsModerated, EditsAreJudged
<1>2. ASSUME NEW p \in Posts, NEW t \in Levels, NEW c \in Levels, Create(p, t, c)
      PROVE  IInv'
  BY <1>2, CreateStep
<1>3. ASSUME NEW p \in Posts, NEW e \in Edits, NEW t \in Levels \cup {NoText},
             NEW c \in Levels \cup {NoText}, ReadForEdit(e, p, t, c)
      PROVE  IInv'
  BY <1>3, ReadForEditStep
<1>4. ASSUME NEW p \in Posts, Delete(p) \/ Approve(p) \/ Reject(p)
      PROVE  IInv'
  BY <1>4, ModerationStep
<1>5. ASSUME NEW e \in Edits, WriteEdit(e)
      PROVE  IInv'
  BY <1>5, WriteEditStep
<1>6. ASSUME NEW e \in Edits, FailEdit(e)
      PROVE  IInv'
  BY <1>6, FailEditStep
<1>. QED
  BY <1>1, <1>2, <1>3, <1>4, <1>5, <1>6 DEF Next

-----------------------------------------------------------------------------
(* The variables of PostLifecycle keep their types. *)
THEOREM TypeCorrect == Spec => []TypeOK
<1>1. Init => IInv
  BY InitIInv
<1>2. IInv /\ [Next]_vars => IInv'
  BY NextIInv
<1>3. IInv => TypeOK
  BY DEF IInv
<1>. QED
  BY <1>1, <1>2, <1>3, PTL DEF Spec

(* No content with sensitive words is published that a moderator has not     *)
(* approved since it was written, however many edits are in flight.         *)
THEOREM PublishedIsModerated == Spec => []ContentIsModerated
<1>1. Init => IInv
  BY InitIInv
<1>2. IInv /\ [Next]_vars => IInv'
  BY NextIInv
<1>3. IInv => ContentIsModerated
  BY DEF IInv
<1>. QED
  BY <1>1, <1>2, <1>3, PTL DEF Spec

(* UpdatePost writes the status only to send a post back to moderation: no   *)
(* step but an approval publishes a post that was not published.            *)
THEOREM NoEditPublishes == Spec => EditsNeverPublish
<1>. DEFINE Step ==
       \A p \in Posts :
         (status[p] \notin {"none", "published"} /\ status'[p] = "published")
           => p \in approved'
<1>1. Init => IInv
  BY InitIInv
<1>2. IInv /\ [Next]_vars => IInv'
  BY NextIInv
<1>3. IInv /\ [Next]_vars => [Step]_vars
  <2>. SUFFICES ASSUME IInv, Next
                PROVE  Step
    OBVIOUS
  <2>1. ASSUME NEW q \in Posts, NEW t \in Levels, NEW c \in Levels, Create(q, t, c)
        PROVE  Step
    BY <2>1 DEF IInv, TypeOK, Create
  <2>2. ASSUME NEW q \in Posts, NEW e \in Edits, NEW t \in Levels \cup {NoText},
               NEW c \in Levels \cup {NoText}, ReadForEdit(e, q, t, c)
        PROVE  Step
    BY <2>2 DEF IInv, TypeOK, ReadForEdit
  <2>3. ASSUME NEW q \in Posts, Delete(q) \/ Approve(q) \/ Reject(q)
        PROVE  Step
    BY <2>3 DEF IInv, TypeOK, Delete, Approve, Reject
  <2>4. ASSUME NEW e \in Edits, WriteEdit(e)
        PROVE  Step
    BY <2>4 DEF IInv, TypeOK, WriteEdit, EditedStatus, Edit
  <2>5. ASSUME NEW e \in Edits, FailEdit(e)
        PROVE  Step
    BY <2>5 DEF IInv, TypeOK, FailEdit
  <2>. QED
    BY <2>1, <2>2, <2>3, <2>4, <2>5 DEF Next
<1>. QED
  BY <1>1, <1>2, <1>3, PTL DEF Spec, EditsNeverPublish

-----------------------------------------------------------------------------
(* The tags of a post.                                                     *)
(* The edit has validated its tags, and then inserted the rows for them. *)
CarriesValidTags ==
  \A e \in Replacements :
    /\ tx[e].pc \in {"delete", "deleting", "insert", "commit"} => Valid(tx[e].want)
    /\ tx[e].pc = "commit" => tx[e].inserted = RowsFor(e, tx[e].want)

TagsInv == TagsTypeOK /\ CarriesValidTags /\ RequiredTagKept

(* Tags that pass the validation contain a required one, if there is any. *)
LEMMA ValidHasRequired ==
  ASSUME NEW want, Valid(want), Required # {}
  PROVE  want \cap Required # {}
<1>1. Cardinality(want \cap Required) = 1
  BY DEF Valid
<1>2. QED
  BY <1>1, FS_EmptySet

LEMMA RowsForTags ==
  ASSUME NEW e \in Replacements \cup {NoEdit}, NEW want \in SUBSET Tags
  PROVE  RowsFor(e, want) \in SUBSET Row /\ TagsOf(RowsFor(e, want)) = want
<1>1. RowsFor(e, want) \in SUBSET Row
  BY DEF RowsFor, Row
<1>2. \A t \in TagsOf(RowsFor(e, want)) : t \in want
  BY DEF RowsFor, TagsOf
<1>3. ASSUME NEW t \in want PROVE t \in TagsOf(RowsFor(e, want))
  <2>1. [tag |-> t, by |-> e] \in RowsFor(e, want)
    BY DEF RowsFor
  <2>2. [tag |-> t, by |-> e].tag = t
    OBVIOUS
  <2>3. QED
    BY <2>1, <2>2 DEF TagsOf
<1>4. QED
  BY <1>1, <1>2, <1>3

LEMMA NoTxType ==
  /\ NoTx \in Tx
  /\ \A pc \in {"done", "failed"} :
       LET t == [NoTx EXCEPT !.pc = pc] IN t \in Tx /\ t.pc = pc
BY DEF NoTx, Tx

LEMMA InitTagsInv == TagsInit => TagsInv
<1> SUFFICES ASSUME TagsInit PROVE TagsInv
  OBVIOUS
<1>1. Valid(last) /\ last \in SUBSET Tags /\ rows = RowsFor(NoEdit, last)
  BY DEF TagsInit
<1>2. TagsTypeOK
  BY <1>1, RowsForTags, NoTxType DEF TagsInit, TagsTypeOK
<1>3. CarriesValidTags
  BY DEF TagsInit, NoTx, CarriesValidTags
<1>4. RequiredTagKept
  BY <1>1, RowsForTags, ValidHasRequired DEF RequiredTagKept
<1>5. QED
  BY <1>2, <1>3, <1>4 DEF TagsInv

(* A transaction goes on, and nothing is committed. *)
LEMMA TxStep ==
  ASSUME TagsInv, NEW e \in Replacements, NEW t \in Tx, tx' = [tx EXCEPT ![e] = t],
         UNCHANGED rows, last' \in SUBSET Tags,
         t.pc \in {"delete", "deleting", "insert", "commit"} => Valid(t.want),
         t.pc = "commit" => t.inserted = RowsFor(e, t.want)
  PROVE  TagsInv'
<1>1. TagsTypeOK'
  BY DEF TagsInv, TagsTypeOK
<1>2. CarriesValidTags'
  BY DEF TagsInv, TagsTypeOK, CarriesValidTags, Valid
<1>3. RequiredTagKept'
  BY DEF TagsInv, RequiredTagKept
<1>4. QED
  BY <1>1, <1>2, <1>3 DEF TagsInv

LEMMA ValidateInv ==
  ASSUME TagsInv, NEW e \in Replacements, NEW want, NEW blank \in BOOLEAN,
         Validate(e, want, blank)
  PROVE  TagsInv'
<1> DEFINE pc == IF Replaces(want, blank) THEN "delete" ELSE "done"
           t == [NoTx EXCEPT !.want = want, !.pc = pc]
<1>1. want \in SUBSET Tags /\ Valid(want) /\ UNCHANGED rows
      /\ tx' = [tx EXCEPT ![e] = t] /\ last' \in {last, want}
  BY DEF Validate, Valid
<1>2. pc \in {"delete", "done"}
  OBVIOUS
<1>3. t \in Tx /\ t.want = want /\ t.pc = pc
  BY <1>1, <1>2 DEF NoTx, Tx
<1> HIDE DEF t
<1>4. QED
  BY <1>1, <1>2, <1>3, TxStep DEF TagsInv, TagsTypeOK

LEMMA BeginDeleteInv ==
  ASSUME TagsInv, NEW e \in Replacements, BeginDelete(e)
  PROVE  TagsInv'
<1> DEFINE half == [tx[e] EXCEPT !.pc = "deleting"]
           t == [half EXCEPT !.saw = rows]
<1>1. tx[e] \in Tx /\ rows \in SUBSET Row /\ tx[e].pc = "delete" /\ Valid(tx[e].want)
  BY DEF TagsInv, TagsTypeOK, BeginDelete, CarriesValidTags
<1>2. tx' = [tx EXCEPT ![e] = t] /\ UNCHANGED <<rows, last>>
  BY DEF BeginDelete, TagsInv, TagsTypeOK
<1>3. half \in Tx /\ half.pc = "deleting" /\ half.want = tx[e].want
  BY <1>1 DEF Tx
<1> HIDE DEF half
<1>4. t \in Tx /\ t.pc = "deleting" /\ t.want = tx[e].want
  BY <1>1, <1>3 DEF Tx
<1> HIDE DEF t
<1>5. QED
  BY <1>1, <1>2, <1>4, TxStep DEF TagsInv, TagsTypeOK

LEMMA FinishDeleteInv ==
  ASSUME TagsInv, NEW e \in Replacements, FinishDelete(e)
  PROVE  TagsInv'
<1> DEFINE half == [tx[e] EXCEPT !.pc = "insert"]
           t == [half EXCEPT !.deleted = tx[e].saw \cap rows]
<1>1. tx[e] \in Tx /\ rows \in SUBSET Row /\ tx[e].pc = "deleting" /\ Valid(tx[e].want)
  BY DEF TagsInv, TagsTypeOK, FinishDelete, CarriesValidTags
<1>2. tx' = [tx EXCEPT ![e] = t] /\ UNCHANGED <<rows, last>>
  BY DEF FinishDelete, Visible, TagsInv, TagsTypeOK
<1>3. half \in Tx /\ half.pc = "insert" /\ half.want = tx[e].want
  BY <1>1 DEF Tx
<1> HIDE DEF half
<1>4. t \in Tx /\ t.pc = "insert" /\ t.want = tx[e].want
  BY <1>1, <1>3 DEF Tx
<1> HIDE DEF t
<1>5. QED
  BY <1>1, <1>2, <1>4, TxStep DEF TagsInv, TagsTypeOK

LEMMA InsertInv ==
  ASSUME TagsInv, NEW e \in Replacements, Insert(e)
  PROVE  TagsInv'
<1> DEFINE half == [tx[e] EXCEPT !.pc = "commit"]
           t == [half EXCEPT !.inserted = RowsFor(e, tx[e].want)]
<1>1. tx[e] \in Tx /\ tx[e].pc = "insert" /\ Valid(tx[e].want)
      /\ RowsFor(e, tx[e].want) \in SUBSET Row
  BY RowsForTags DEF TagsInv, TagsTypeOK, Insert, CarriesValidTags, Valid
<1>2. tx' = [tx EXCEPT ![e] = t] /\ UNCHANGED <<rows, last>>
  BY DEF Insert, TagsInv, TagsTypeOK
<1>3. half \in Tx /\ half.pc = "commit" /\ half.want = tx[e].want
  BY <1>1 DEF Tx
<1> HIDE DEF half
<1>4. t \in Tx /\ t.want = tx[e].want /\ t.inserted = RowsFor(e, tx[e].want)
  BY <1>1, <1>3 DEF Tx
<1> HIDE DEF t
<1>5. QED
  BY <1>1, <1>2, <1>4, TxStep DEF TagsInv, TagsTypeOK

LEMMA EndsInv ==
  ASSUME TagsInv, NEW e \in Replacements, InsertConflict(e) \/ Abort(e)
  PROVE  TagsInv'
<1> DEFINE t == [NoTx EXCEPT !.pc = "failed"]
<1>1. tx' = [tx EXCEPT ![e] = t] /\ UNCHANGED <<rows, last>>
  BY DEF InsertConflict, Abort
<1>2. t \in Tx /\ t.pc = "failed"
  BY NoTxType
<1> HIDE DEF t
<1>3. QED
  BY <1>1, <1>2, TxStep DEF TagsInv, TagsTypeOK

(* Whatever others have made of the rows, those of the edit are there now. *)
LEMMA CommitInv ==
  ASSUME TagsInv, NEW e \in Replacements, Commit(e)
  PROVE  TagsInv'
<1> DEFINE t == [NoTx EXCEPT !.pc = "done"]
<1>1. /\ tx[e] \in Tx /\ Valid(tx[e].want) /\ rows \in SUBSET Row
      /\ tx[e].inserted = RowsFor(e, tx[e].want) /\ tx[e].want \in SUBSET Tags
  BY DEF TagsInv, TagsTypeOK, Commit, CarriesValidTags, Valid
<1>2. /\ rows' = (rows \ tx[e].deleted) \cup tx[e].inserted
      /\ last' = tx[e].want /\ tx' = [tx EXCEPT ![e] = t]
  BY DEF Commit
<1>3. t \in Tx /\ t.pc = "done"
  BY NoTxType
<1> HIDE DEF t
<1>4. TagsTypeOK'
  BY <1>1, <1>2, <1>3, RowsForTags DEF TagsInv, TagsTypeOK
<1>5. CarriesValidTags'
  BY <1>2, <1>3 DEF TagsInv, TagsTypeOK, CarriesValidTags, Valid
<1>6. tx[e].want \subseteq TagsOf(rows')
  BY <1>1, <1>2, RowsForTags DEF TagsOf
<1>7. RequiredTagKept'
  BY <1>1, <1>6, ValidHasRequired DEF RequiredTagKept
<1>8. QED
  BY <1>4, <1>5, <1>7 DEF TagsInv

LEMMA NextTagsInv == TagsInv /\ [TagsNext]_tagsVars => TagsInv'
<1> SUFFICES ASSUME TagsInv, [TagsNext]_tagsVars PROVE TagsInv'
  OBVIOUS
<1>1. CASE UNCHANGED tagsVars
  BY <1>1 DEF tagsVars, TagsInv, TagsTypeOK, CarriesValidTags, RequiredTagKept, Valid
<1>2. CASE TagsNext
  BY <1>2, ValidateInv, BeginDeleteInv, FinishDeleteInv, InsertInv, EndsInv, CommitInv
     DEF TagsNext
<1>3. QED
  BY <1>1, <1>2

LEMMA TagsInvariance == TagsSpec => []TagsInv
BY InitTagsInv, NextTagsInv, PTL DEF TagsSpec

(* The rows, the transactions and what they asked for keep their types. *)
THEOREM TagTypes == TagsSpec => []TagsTypeOK
<1>1. TagsInv => TagsTypeOK
  BY DEF TagsInv
<1>2. QED
  BY <1>1, TagsInvariance, PTL

(* A post of a board with required tags has one at every moment, whatever     *)
(* number of ReplacePostDetails interleave, conflict and are rolled back.    *)
THEOREM RequiredTagStays == TagsSpec => []RequiredTagKept
<1>1. TagsInv => RequiredTagKept
  BY DEF TagsInv
<1>2. QED
  BY <1>1, TagsInvariance, PTL
===============================================================================
