SPECIFICATION ListingSpec
SYMMETRY MCSymmetry
CONSTANTS
  holder = holder
  adjuster = adjuster
  policy = policy
  c1 = c1
  c2 = c2
  None = None
  Users = {holder, adjuster}
  RoleOf <- MCRoleOf
  Policies = {policy}
  Holder <- MCHolder
  Coverage <- MCCoverage
  ActivePolicies = {policy}
  Corpus <- MCCorpus
  SeedPolicy = policy
  SeedAdjuster = adjuster
  ClaimIds = {c1, c2, c3}
  Amounts = {2}
  Slots = {w1, w2}
  MaxEvents = 5
  ADJUSTER_APPROVAL_LIMIT = 2
  MaxClock = 3
  Readers = {holder}
  Filters = {None, "DRAFT"}
  Sorts = {"-created_at", "amount"}
  Size = 1
  Id <- MCId
INVARIANT ListedInOrder
CHECK_DEADLOCK FALSE
