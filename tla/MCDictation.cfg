SPECIFICATION Spec
CONSTANTS
  None = None
  MaxSessions = 2
  MaxTakeovers = 1
INVARIANTS
  TypeOK
  DeliveryIsRight
  OwnersHold
PROPERTIES
  ProcessingEnds
  RecordingIsKept
  EachDictationLives
CHECK_DEADLOCK FALSE
