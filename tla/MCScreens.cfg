CONSTANTS
  None = None
  MaxCalls = 2
  Posts = {p1, p2}
  Mine = {p1}
  OtherLikes = 1
  MaxCount = 2
  Floors = {f1, f2}
  Drafts = {t1, t2}
  Boards = {b1, b2}
  TagsOf <- MCTagsOf
  EditBoard = b1
  MaxTags = 1
  MaxImages = 1
  MaxPick = 2
  Terms = {q1, q2, q3}
  MaxHistory = 2
  MaxSearches = 4
  Chats = {c1, c2}
  PageSize = 2
  MaxMessages = 3
  Notes = {n1, n2, n3}
  Buildings = {h1, h2}
  RoomsOf <- MCRoomsOf
  Dates = {d1, d2}
  Plans = {l1, l2}
  MaxRuns = 2
  Bios = {s1, s2}
  Minute = 2
  Ids = {i1, i2}
  Categories = {k1, k2}
  CategoryOf <- MCCategoryOf
  Words = {w1, w2}
SPECIFICATION Spec
INVARIANTS
  TypeOK
  
  
  
  
PROPERTIES
  
  TypedIsStored
CHECK_DEADLOCK FALSE
