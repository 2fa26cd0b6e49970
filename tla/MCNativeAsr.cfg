SPECIFICATION Spec
CONSTANTS
  s1 = s1
  s2 = s2
  d1 = d1
  Streams = {s1, s2}
  Decoders = {d1}
  Evictor = Evictor
  Nobody = Nobody
  MaxAudio = 1
  MaxFeeds = 1
INVARIANTS
  TypeOK
  NothingIsLeaked
PROPERTIES
  EveryCallerEnds
CHECK_DEADLOCK FALSE
