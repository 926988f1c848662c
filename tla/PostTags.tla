------------------------------ MODULE PostTags ------------------------------
(***************************************************************************)
(* The tags of one post: resolveAndValidateTags, then the transaction of     *)
(* ReplacePostDetails, which deletes the post's rows of post_tags and       *)
(* inserts the new ones.  The database runs it at READ COMMITTED:           *)
(*   - a DELETE sees the rows committed when it starts, waits for the        *)
(*     transactions that are deleting some of them, and skips the rows      *)
(*     that are gone by then; rows committed meanwhile it does not see;     *)
(*   - an INSERT waits for the transactions that hold a row of the same     *)
(*     key, and fails if the key is there when they have ended.             *)
(***************************************************************************)
EXTENDS Naturals, FiniteSets

CONSTANTS
  Tags,         \* the enabled tags of the post's board
  OtherTags,    \* those of other boards
  Required,     \* those with is_required
  MaxTags,      \* maxTagsPerPost
  Replacements, \* calls of UpdatePost that carry tags, one each
  NoEdit        \* the creation of the post

ASSUME PostTagsAssumption ==
  /\ Required \subseteq Tags
  /\ MaxTags \in Nat \ {0}
  /\ Tags # {}
  /\ NoEdit \notin Replacements

VARIABLES
  rows,         \* the committed rows of post_tags for the post
  tx,           \* tx[e] : the transaction of edit e
  last          \* history: the edit that committed last, and what it asked for

tagsVars == <<rows, tx, last>>

(* A row is told from a later one of the same key by who inserted it. *)
Row == [tag : Tags, by : Replacements \cup {NoEdit}]

TagsOf(rs) == {x.tag : x \in rs}

RowsFor(e, tags) == {[tag |-> t, by |-> e] : t \in tags}

Tx == [pc : {"idle", "delete", "deleting", "insert", "commit", "done", "failed"},
       want : SUBSET Tags,      \* the validated tags
       saw : SUBSET Row,        \* the snapshot of its DELETE
       deleted : SUBSET Row,    \* rows it has deleted
       inserted : SUBSET Row]   \* rows it has inserted

TagsTypeOK ==
  /\ rows \in SUBSET Row
  /\ tx \in [Replacements -> Tx]
  /\ last \in SUBSET Tags

(* Tags of this board, at most MaxTags of them, and exactly one required tag *)
(* where the board has any.                                                *)
Valid_AnyBoard(want) ==
  /\ Cardinality(want) <= MaxTags
  /\ Required # {} => Cardinality(want \cap Required) = 1

Valid(want) ==
  /\ want \subseteq Tags
  /\ Cardinality(want) <= MaxTags
  /\ Required # {} => Cardinality(want \cap Required) = 1

NoTx == [pc |-> "idle", want |-> {}, saw |-> {}, deleted |-> {}, inserted |-> {}]

(* CreatePost validates the tags of the new post in the same way. *)
TagsInit ==
  /\ last \in {want \in SUBSET Tags : Valid(want)}
  /\ rows = RowsFor(NoEdit, last)
  /\ tx = [e \in Replacements |-> NoTx]

-----------------------------------------------------------------------------
Active(e) == tx[e].pc \in {"deleting", "insert", "commit"}

(* dedupStrings returns nil for an empty list, and nil means "not changed"; *)
(* a list of blank names is empty and not nil.                             *)
Replaces(want, blank) == want # {} \/ blank

Validate(e, want, blank) ==
  /\ tx[e].pc = "idle"
  /\ Valid(want)
  /\ tx' = [tx EXCEPT ![e] = [NoTx EXCEPT !.want = want,
              !.pc = IF Replaces(want, blank) THEN "delete" ELSE "done"]]
  /\ last' = IF Replaces(want, blank) THEN last ELSE want
  /\ UNCHANGED rows

(* BEGIN; DELETE FROM post_tags WHERE post_id = ? takes its snapshot. *)
BeginDelete(e) ==
  /\ tx[e].pc = "delete"
  /\ tx' = [tx EXCEPT ![e].pc = "deleting", ![e].saw = rows]
  /\ UNCHANGED <<rows, last>>

(* Another transaction has deleted or inserted rows of these keys. *)
Blocked(e, tags) ==
  \E f \in Replacements \ {e} :
    Active(f) /\ TagsOf(tx[f].deleted \cup tx[f].inserted) \cap tags # {}

(* Another transaction has deleted some of these rows. *)
Held(e, rs) == \E f \in Replacements \ {e} : Active(f) /\ tx[f].deleted \cap rs # {}

(* What the others see of a DELETE before its transaction commits. *)
Visible_AtOnce(e) == rows \ tx[e].saw

Visible(e) == rows

FinishDelete(e) ==
  /\ tx[e].pc = "deleting"
  /\ ~Held(e, tx[e].saw)
  /\ tx' = [tx EXCEPT ![e].pc = "insert", ![e].deleted = tx[e].saw \cap rows]
  /\ rows' = Visible(e)
  /\ UNCHANGED last

Conflict(e) == tx[e].want \cap TagsOf(rows \ tx[e].deleted) # {}

Insert(e) ==
  /\ tx[e].pc = "insert"
  /\ ~Blocked(e, tx[e].want)
  /\ ~Conflict(e)
  /\ tx' = [tx EXCEPT ![e].pc = "commit", ![e].inserted = RowsFor(e, tx[e].want)]
  /\ UNCHANGED <<rows, last>>

(* The primary key is taken: the transaction is rolled back. *)
InsertConflict(e) ==
  /\ tx[e].pc = "insert"
  /\ ~Blocked(e, tx[e].want)
  /\ Conflict(e)
  /\ tx' = [tx EXCEPT ![e] = [NoTx EXCEPT !.pc = "failed"]]
  /\ UNCHANGED <<rows, last>>

Commit(e) ==
  /\ tx[e].pc = "commit"
  /\ rows' = (rows \ tx[e].deleted) \cup tx[e].inserted
  /\ last' = tx[e].want
  /\ tx' = [tx EXCEPT ![e] = [NoTx EXCEPT !.pc = "done"]]

(* A statement fails, the server stops, or the database breaks a deadlock.  *)
Abort(e) ==
  /\ Active(e)
  /\ tx' = [tx EXCEPT ![e] = [NoTx EXCEPT !.pc = "failed"]]
  /\ UNCHANGED <<rows, last>>

TagsNext ==
  \E e \in Replacements :
    \/ \E want \in SUBSET (Tags \cup OtherTags), blank \in BOOLEAN :
         Validate(e, want, blank)
    \/ BeginDelete(e)
    \/ FinishDelete(e)
    \/ Insert(e)
    \/ InsertConflict(e)
    \/ Commit(e)
    \/ Abort(e)

TagsSpec == TagsInit /\ [][TagsNext]_tagsVars

-----------------------------------------------------------------------------
(* A post of a board with required tags is never seen without one, however  *)
(* concurrent replacements interleave and wherever they fail.              *)
RequiredTagKept == Required # {} => TagsOf(rows) \cap Required # {}

(* ReplacePostDetails: "replaces the post's tags as a whole, in a            *)
(* transaction".  When nobody is editing, the tags are those of the edit    *)
(* that ended last.                                                        *)
ReplacedAsAWhole ==
  (\A e \in Replacements : tx[e].pc \in {"idle", "done", "failed"}) =>
    TagsOf(rows) = last
=============================================================================
