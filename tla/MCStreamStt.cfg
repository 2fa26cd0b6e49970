SPECIFICATION Spec
CONSTANTS
  Workers = {w1, w2}
  MaxQueue = 2
  MaxBytes = 3
  MaxChunks = 3
  MaxEpochs = 2
  Sounds <- SilenceAndLongSpeech
INVARIANTS
  TypeOK
  StreamIsConsistent
  NoSilentLoss
PROPERTIES
  CollectedInOrder
  EveryChunkEnds
CHECK_DEADLOCK FALSE
