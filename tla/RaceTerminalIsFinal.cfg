SPECIFICATION Spec
CONSTANTS
  holder = holder
  adjuster = adjuster
  admin = admin
  stranger = stranger
  policy = policy
  lapsed = lapsed
  None = None
  Users = {holder, adjuster, admin}
  RoleOf <- MCRoleOf
  Policies = {policy}
  Holder <- MCHolder
  Coverage <- MCCoverage
  ActivePolicies = {policy}
  ClaimIds = {c1}
  Amounts = {2, 3}
  Slots = {w1, w2}
  MaxEvents = 6
  ADJUSTER_APPROVAL_LIMIT = 2
SYMMETRY MCSymmetry
PROPERTY TerminalIsFinal
