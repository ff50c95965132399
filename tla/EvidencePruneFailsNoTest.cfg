SPECIFICATION EvidenceSpec
CONSTANTS
  Workers = {w1, w2}
  Tests = {ui, api}
  BrowserTests = {ui}
  DbTests = {}
  IsCi = TRUE
INVARIANT PruneFailsNoTest
CHECK_DEADLOCK FALSE
