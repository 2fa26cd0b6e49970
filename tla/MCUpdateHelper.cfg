SPECIFICATION HelperSpec
CONSTANTS
  h1 = h1
  h2 = h2
  i1 = i1
  i2 = i2
  MaxRelease = 2
  Helpers = {h1}
  Installers = {i1, i2}
  MaxEnds = 2
INVARIANTS
  HelperTypeOK
  UsableCopyRemains
PROPERTIES
  AppComesBack
CHECK_DEADLOCK FALSE
