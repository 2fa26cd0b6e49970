SPECIFICATION Spec
CONSTANTS
  d1 = d1
  d2 = d2
  MaxVersion = 1
  Downloads = {d1, d2}
  MaxActs = 2
INVARIANTS
  TypeOK
  LaterIsTriedOnce
PROPERTIES
  UserIsServed
CHECK_DEADLOCK FALSE
