SPECIFICATION SafeSpec
CONSTANTS
  j1 = j1
  j2 = j2
  j3 = j3
  NoJob = NoJob
  Jobs = {j1, j2}
  MaxKeep = 2
  MaxUpsets = 0
  LimitModes = {"returned"}
INVARIANTS
  LimitedOnceIsRetried
CHECK_DEADLOCK FALSE
