CONSTANTS
  a = a
  b = b
  o1 = o1
  o2 = o2
  w1 = w1
  w2 = w2
  k1 = k1
  k2 = k2
  User = {a, b}
  OpkId = {o1, o2}
  Key = {k1}
  Worker = {w1, w2}
  RowLocks = TRUE
  Patient = {w1}
  NoRow = NoRow
  NoJob = NoJob
  Free = Free
SPECIFICATION FairSpec
INVARIANTS TypeOK HandedOutOnce NoOrphanLock KeysHaveBundle UploadedKeysExist
PROPERTIES ImplementsOpkPool FetchEnds
