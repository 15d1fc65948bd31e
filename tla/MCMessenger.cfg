CONSTANTS
  m1 = m1
  m2 = m2
  c1 = c1
  c2 = c2
  User = {1, 2}
  MsgId = {m1, m2}
  Id = {c1, c2}
  Sender = {w1}
  Opener = {o1}
  ForeignKeys = TRUE
  MaxLifetime = 0
  MaxTime = 1
  MaxLives = 1
  NoRow = NoRow
  Never = Never
  NoJob = NoJob
  Undecided = Undecided
SYMMETRY Symmetry
SPECIFICATION Spec
INVARIANTS TypeOK OneThread
PROPERTIES AnsweredIsSendable ReadersFindIt
