CONSTANTS
  boss = boss
  ann = ann
  h1 = h1
  h2 = h2
  Users = {boss, ann}
  Nobody = Nobody
  Handlers = {h1, h2}
  Policies <- MCPolicies
  MaxTokens = 2
SPECIFICATION Spec
INVARIANTS InviteAcceptedOnce ApprovalIsNotSkipped ResetNeedsVerified OwnerStays OnlyDropsLeaveBehind
SYMMETRY Symmetric
