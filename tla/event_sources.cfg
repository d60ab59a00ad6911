SPECIFICATION MCSpec
CONSTANTS
  Containers = {c1}
  OneShot = {}
  Serving = {c1}
  FlapCooldown = 2
  EndpointEvery = 2
  MaxChanges = 3
  MaxMishaps = 1
  EventsPerCheck = 1
  TargetCooldown = 1
  CrashloopThreshold = 1
  CrashloopWindow = 2
  Devices = {phone, tv}
  MaxDeviceChanges = 3
  MaxWatcherMishaps = 1
  MaxTime = 4
  Window = 1
  Threshold = 2
  Cooldown = 2
  Services <- MCServices
  Fallback <- MCFallback
  Gateways <- MCGateways
  OriginOf <- MCOriginOf
  Samples = 2
  MaxPulseChanges = 3
  MaxPulseMishaps = 2
INVARIANTS FleetIsKnown ErrorsConsidered AutoRunsRationed
INVARIANTS RowsFollowPasses BurstsReported EventsFollowSweeps
CHECK_DEADLOCK FALSE
SYMMETRY Devs
