CONSTANTS
  u1 = u1
  u2 = u2
  w1 = w1
  w2 = w2
  User = {u1, u2}
  MsgId = {m1}
  Worker = {w1, w2}
  ForeignKeys = TRUE
  MaxLifetime = 1
  MaxTime = 1
  MaxLives = 1
  NoRow = NoRow
  Never = Never
  NoJob = NoJob
SYMMETRY Symmetry
SPECIFICATION Spec
INVARIANT ConflictMeansDelivered
