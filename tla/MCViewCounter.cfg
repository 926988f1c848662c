CONSTANTS
  Posts = {p1, p2}
  Runs = {f1, f2}
  MaxViews = 2
  MaxFaults = 1
SPECIFICATION FairSpec
INVARIANTS
  TypeOK
  
  OvercountIsBounded
PROPERTIES
  PendingIsFlushed
