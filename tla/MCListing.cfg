SPECIFICATION MCSpec
CONSTANTS
  MaxFaults = 0
  StaleReads = TRUE
  Incident = {1, 2, 3}
  Actor = {}
  Rca = {}
  NoIncident = 0
  NoRca = NoRca
  Nobody = Nobody
  NoTarget = NoTarget
  Filter <- MCFilter
  MCStatus <- MCStatuses
  Limit = 2
  FilterLimit = 2
INVARIANTS
  NobodyIsMissed
  ListedOnce
CHECK_DEADLOCK FALSE
