CONSTANTS
  Users = {u1, u2}
  Requests = {r1, r2}
  None = None
  Queries = {q1, q2}
  MaxPages = 2
  Fetch = r1
SPECIFICATION FairSpec
INVARIANTS
  TypeOK
  OneRefresh
  TokensAreTheUsers
  ListMatchesQuery
PROPERTIES
  
  LockIsReleased
