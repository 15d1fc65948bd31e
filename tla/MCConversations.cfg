CONSTANTS
  c1 = c1
  c2 = c2
  c3 = c3
  c4 = c4
  w1 = w1
  w2 = w2
  w3 = w3
  Name = {1, 2, 3, 4}
  Registered = {1, 2, 3}
  Id = {c1, c2, c3, c4}
  Worker = {w1, w2, w3}
  NoJob = NoJob
  Undecided = Undecided
SYMMETRY Symmetry
SPECIFICATION Spec
INVARIANTS TypeOK OnePerPair Agreement NoServerError
PROPERTIES ListIsComplete ImplementsRegistry
