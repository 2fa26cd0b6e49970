SPECIFICATION SafeSpec
CONSTANTS
  Jobs = {j1, j2}
  Workers = {w1, w2}
  Callers = {c1, c2}
  Main = main
  None = none
  MaxQueued = 1
  Retained = 1
SYMMETRY Symmetry
INVARIANTS
  TypeOK
  PoolIsConsistent
PROPERTIES
  LifecycleSpec
CHECK_DEADLOCK FALSE
