SPECIFICATION Spec
CONSTANTS
  j1 = j1
  j2 = j2
  j3 = j3
  NoJob = NoJob
  Jobs = {j1, j2}
  MaxKeep = 1
  MaxUpsets = 1
  LimitModes = {"raised", "returned"}
INVARIANTS
  TypeOK
  HistoryAgrees
  ActiveIsAttended
PROPERTIES
  EachJobLives
  EveryJobSettles
CHECK_DEADLOCK FALSE
