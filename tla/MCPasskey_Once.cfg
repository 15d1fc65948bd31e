CONSTANTS
  u1 = u1
  u2 = u2
  d1 = d1
  d2 = d2
  c1 = c1
  c2 = c2
  c3 = c3
  w1 = w1
  w2 = w2
  User = {u1}
  Device = {d1}
  Credential = {k1}
  Challenge = {c1}
  Worker = {w1, w2}
  ForeignKeys = TRUE
  Development = TRUE
  Lifetime = 0
  MaxTime = 0
  MaxCount = 0
  NoRow = NoRow
  NoJob = NoJob
SPECIFICATION Spec
INVARIANT ChallengeOnce
