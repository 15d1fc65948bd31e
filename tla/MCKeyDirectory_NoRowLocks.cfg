CONSTANTS
  a = a
  b = b
  o1 = o1
  o2 = o2
  w1 = w1
  w2 = w2
  k1 = k1
  k2 = k2
  User = {a, b}
  OpkId = {o1, o2}
  Key = {k1}
  Worker = {w1, w2}
  RowLocks = FALSE
  Patient = {}
  NoRow = NoRow
  NoJob = NoJob
  Free = Free
SYMMETRY Symmetry
SPECIFICATION Spec
INVARIANT HandedOutOnce
