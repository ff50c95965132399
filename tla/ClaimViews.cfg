SPECIFICATION IntakeSpec
VIEW MCView
CONSTANTS
  holder = holder
  adjuster = adjuster
  admin = admin
  stranger = stranger
  policy = policy
  lapsed = lapsed
  None = None
  NaN = NaN
  Words = Words
  Users = {holder, stranger, adjuster, admin}
  RoleOf <- MCRoleOf
  Policies = {policy, lapsed}
  Holder <- MCHolder
  Coverage <- MCCoverage
  ActivePolicies = {policy}
  ClaimIds = {c1}
  Amounts = {0, 20, 30, 40}
  Slots = {w1}
  MaxEvents = 6
  ADJUSTER_APPROVAL_LIMIT = 20
  CENT = 10
  Typed = {0, 4, 20, 24, 26, 31, NaN, Words}
  Texts <- MCTexts
  DESCRIPTION_MIN_LENGTH = 2
  DESCRIPTION_MAX_LENGTH = 4
  MaxMidnights = 1
INVARIANTS
  AuditChainHasNoGaps
  PayoutMatchesClaim
  ApprovalWithinAuthority
  PageIsCoherent
  OfferIsHonoured
  DashboardMissesNoClaim
  FormAndApiAgree
  FormKeepsItsWord
  LedgerIsExact
PROPERTIES
  ImplementsLifecycle
