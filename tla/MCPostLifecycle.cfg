CONSTANTS
  Posts = {p1}
  Edits = {e1, e2}
  NoText = NoText
SPECIFICATION Spec
SYMMETRY Symmetry
INVARIANTS
  TypeOK
  ContentIsModerated

  
