\* Two monitors of one component, a dependent without a strategy, an operator.
SPECIFICATION MCSpec
CONSTANTS
  m1 = m1
  m2 = m2
  r1 = r1
  Monitors = {m1, m2}
  Components = {"db", "app"}
  Owner <- MCOwner
  FailureOf <- MCFailures
  Dependents <- MCDependents
  Report = {"app"}
  Verified = {"db"}
  Attempts = 2
  Requests = {r1}
  Target <- MCTarget
  Ids = {1, 2, 3, 4, 5, 6}
  None = None
  MaxBreaks = 1
  MaxMishaps = 1
INVARIANTS ResolvedWasSeenHealthy IncidentsAreHeld
PROPERTY SelfHealing
CHECK_DEADLOCK FALSE
