SPECIFICATION SuiteSpec
CONSTANTS
  Workers = {w1, w2}
  Tests = {ui, db}
  BrowserTests = {ui}
  DbTests = {db}
  IsCi = TRUE
INVARIANTS
  PassLeavesNothing
  LogSurvives
  RecoveredIsFlaky
  SuiteVerdict
PROPERTY SuiteEnds
CHECK_DEADLOCK FALSE
