CONSTANTS
  Users = {u1}
  Requests = {r1, r2}
  Commands = {c1}
  Profiles = {x, y}
  Durations = {"timed"}
  NoRow = NoRow
  RedisMayFail = TRUE
SPECIFICATION FairSpec
INVARIANTS
  TypeOK
  SanctionsStick
  SanctionsHaveRecords
  NoTokensAfterBan
PROPERTIES
  CacheConverges
