SPECIFICATION MCFairSpec
CONSTANTS
  MaxFaults = 1
  StaleReads = TRUE
  Incident = {i1}
  Actor = {dashboard}
  Operator = dashboard
  Rca = {}
  NoIncident = NoIncident
  NoRca = NoRca
  Nobody = Nobody
  NoTarget = NoTarget
  Moves <- MCMoves
  MaxLoads = 2
  Post = {p1, p2}
  MaxRequests = 2
INVARIANTS
  DashInv
  SuccessIsDecision
PROPERTIES
  PollingGoesOn
  BoardCatchesUp
  DecisionIsShown
CHECK_DEADLOCK FALSE
