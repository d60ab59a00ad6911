SPECIFICATION FairSpec
CONSTANTS
  e1 = e1
  e2 = e2
  p1 = p1
  p2 = p2
  Events = {e1}
  Workers = {w1, w2}
  Providers = {p1, p2}
  RuleSets <- MCRuleSets
  MaxAttempts = 1
  BatchLimit = 1
  NoEvent = NoEvent
  MaxMishaps = 2
  MaxQueue = 2
INVARIANTS TypeOK ExclusiveUnlessBlind ProcessingIsOwned OrphansOnlyAfterRedelivery
PROPERTIES EventuallySettled DeliveryContract
CHECK_DEADLOCK FALSE
