CONSTANTS
  u1 = u1
  u2 = u2
  d1 = d1
  d2 = d2
  t1 = t1
  t2 = t2
  t3 = t3
  w1 = w1
  s1 = s1
  s2 = s2
  User = {u1, u2}
  Seeded = {u1, u2}
  Device = {d1, d2}
  DefaultDevice <- MCDefaultDevice
  Token = {t1, t2, t3}
  DevToken <- MCDevToken
  Worker = {w1}
  Seeder = {s1, s2}
  Lifetime = 1
  MaxTime = 1
  NoRow = NoRow
  NoJob = NoJob
SYMMETRY Symmetry
SPECIFICATION Spec
INVARIANTS TypeOK AdmittedInTime IssuedTokensAdmit SeedIsComplete
PROPERTY SeedsRecover
