SPECIFICATION SafeSpec
CONSTANTS
  d1 = d1
  d2 = d2
  MaxVersion = 1
  Downloads = {d1, d2}
  MaxActs = 2
INVARIANTS
  ProgressCanBePolled
CHECK_DEADLOCK FALSE
