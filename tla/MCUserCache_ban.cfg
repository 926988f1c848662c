CONSTANTS
  Users = {u1}
  Requests = {r1, r2}
  Commands = {c1}
  Profiles = {x}
  Durations = {"permanent"}
  NoRow = NoRow
  RedisMayFail = FALSE
SPECIFICATION Spec
INVARIANTS
  BanTakesEffectAtOnce
