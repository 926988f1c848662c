CONSTANTS
  Posts = {p1}
  Requests = {r1, r2, r3, r4}
  u1 = u1
  u2 = u2
  Users = {u1, u2}
  NoReply = NoReply
  PostAuthor <- MCPostAuthor
SPECIFICATION Spec
SYMMETRY Symmetry
INVARIANTS
  TypeOK
  FloorsGapless
  ReplyCountExact
  NotificationsSound
  
PROPERTIES
  ThreadSpec
