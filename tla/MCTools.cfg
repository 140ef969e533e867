SPECIFICATION ToolSpec
CONSTANTS
  Request <- Calls
  Log <- SmallLogs
  Activity <- Windows
  History <- Histories
  LOG_QUERY_LIMIT = 3
  POLL_TIMEOUT_S = 2
  EMPTY_RETRY_SLEEP_S = 1
  MAX_CORRELATION_SAMPLES = 2
  MAX_COMMITS = 3
  GITHUB_TIMEOUT_S = 2
  COMMIT_DETAIL_BUDGET_S = 3
  RUNBOOKS = 4
  MIN_SCORE = 2
  MAX_RESULTS = 2
  NoPayload = NoPayload
  NoId = NoId
  NoCensus = NoCensus
  NoSymptoms = NoSymptoms
INVARIANTS
  ToolsInv
  EmptyIsHonest
  EntriesStandForRows
  VerdictIsSound
  EvidenceIsHonest
CHECK_DEADLOCK FALSE
