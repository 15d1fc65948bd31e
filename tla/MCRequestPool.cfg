CONSTANTS
  r1 = r1
  r2 = r2
  r3 = r3
  Request = {r1, r2, r3}
  Route = {"contacts", "send"}
  Threads = 2
  Connections = 1
SPECIFICATION FairSpec
INVARIANTS TypeOK NothingIsLeaked LoadSparesTheAdmitted
PROPERTIES StepsCountDown EveryRequestEnds
CHECK_DEADLOCK FALSE
