SPECIFICATION Spec
CONSTANTS
  speech = speech
  polish = polish
  whisper = whisper
  s1 = s1
  lfm = lfm
  a = a
  b = b
  Kinds = {speech, polish}
  Engines = {whisper, s1, lfm}
  Leases = {a, b}
  KindOf <- TwoFamilies
  MaxReleases = 2
  MaxRequests = 1
  MaxRefusals = 1
INVARIANTS
  TypeOK
  UseIsProtected
  RequestsSurvive
PROPERTIES
  UnusedModelIsFreed
