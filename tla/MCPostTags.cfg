CONSTANTS
  Tags = {q1, q2, t1, t2}
  Required = {q1, q2}
  MaxTags = 2
  Replacements = {e1, e2, e3}
  NoEdit = NoEdit
  OtherTags = {o1}
SPECIFICATION TagsSpec
CHECK_DEADLOCK FALSE
SYMMETRY Symmetry
INVARIANTS
  TagsTypeOK
  RequiredTagKept
