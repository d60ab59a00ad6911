SPECIFICATION Spec
CONSTANTS
  a1 = a1
  a2 = a2
  Approvals = {a1}
  ActionOf <- MCOne
  Proposals = {p1}
  LowRisk = {p1}
  ForgeTimeout = 1
  BridgeTimeout = 2
  Nothing = Nothing
  MaxReplies = 1
  MaxMishaps = 0
INVARIANT VetoHonoured
CHECK_DEADLOCK FALSE
