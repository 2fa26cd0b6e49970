SPECIFICATION Spec
CONSTANTS
  Styles = {"ctrl_win","double","single_ctrl"}
  Modes = {"ptt_only", "hybrid", "disabled"}
  Setups <- MCSetups
  QueueSize = 1
  MaxGestures = 2
  MaxEvents = 1
  None = None
INVARIANTS
  TypeOK
  FlagsAgree
  ReleaseEndsIt
PROPERTIES
  EveryGestureIsAnswered
CHECK_DEADLOCK FALSE
