SPECIFICATION AppSpec
CONSTANTS
  Jobs = {j1}
  Workers = {w1}
  Callers = {c1, c2}
  Main = main
  None = none
  MaxQueued = 1
  Retained = 0
INVARIANTS
  AppTypeOK
  HistoryIsTrue
PROPERTIES
  StoredOutcomeIsFinal
  EverySummaryEnds
CHECK_DEADLOCK FALSE
