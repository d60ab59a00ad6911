SPECIFICATION MCSpec
CONSTANTS
  a1 = a1
  a2 = a2
  Approvals = {a1, a2}
  ActionOf <- MCSame
  Proposals = {p1}
  LowRisk = {p1}
  ForgeTimeout = 1
  BridgeTimeout = 2
  Nothing = Nothing
  MaxReplies = 2
  MaxMishaps = 2
INVARIANT RunsAreSound
PROPERTY EverythingCloses
CHECK_DEADLOCK FALSE
