SPECIFICATION DriverSpec
CONSTANTS
  ADJUSTER_APPROVAL_LIMIT = 2
  Amounts = {2, 3}
  MaxCalls = 2
  MAX_RECORDED_ENTRIES = 3
  None = None
INVARIANTS
  DriveFailsForAuthorityOnly
  MatrixIsTheRules
  CallerIsExplicit
  EvidenceIsTheTests
