CONSTANTS
  u1 = u1
  u2 = u2
  r1 = r1
  r2 = r2
  r3 = r3
  Users = {u1, u2}
  Targets = {t1, t2}
  Requests = {r1, r2, r3}
  Caller <- Twice
  MayFail = TRUE
SPECIFICATION LikesSpec
CHECK_DEADLOCK FALSE
INVARIANTS
  LikesTypeOK
  DriftIsExplained
