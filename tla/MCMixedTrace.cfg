SPECIFICATION DashSpec
CONSTANTS
  MaxFaults = 0
  StaleReads = FALSE
  Incident = {i1, i2}
  Actor = {dashboard}
  Operator = dashboard
  Rca = {}
  NoIncident = NoIncident
  NoRca = NoRca
  Nobody = Nobody
  NoTarget = NoTarget
  Moves <- MCMoves
  MaxLoads = 2
  Post = {p1, p2}
  MaxRequests = 2
INVARIANTS
  TraceIsOfShownIncident
CHECK_DEADLOCK FALSE
