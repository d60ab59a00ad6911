SPECIFICATION FairSpec
CONSTANTS
  RuleFiles <- MCRuleFiles
  WindowSize = 2
  Grace = 1
  Horizon = 2
  Devices = {"phone"}
  Known = {"phone"}
  Owner <- MCOwner
  Findings <- MCFindings
  OfflineAfter = 0
  MaxEvents = 2
INVARIANT TablesAreSound
PROPERTIES HouseEmpties SituationsEnd
CHECK_DEADLOCK FALSE
