CONSTANTS
  Emails = {e1}
  Requests = {r1, r2}
  None = None
  Ids = {a1, a2}
  OpenIds = {w1}
  Subjects = {s1}
  NoUser = NoUser
SPECIFICATION Spec
SYMMETRY Symmetry
PROPERTIES
  MergeKeepsIdentity
