SPECIFICATION Spec
CONSTANTS
  MaxFaults = 1
  StaleReads = FALSE
  Notification <- OneAlarm
  Incident <- OneIncident
  Instant = {1, 4}
  Slug <- MCSlug
  DEDUP_WINDOW_SECONDS = 3
  MaxDeliveries = 3
  maxReceiveCount = 2
  MaxAttempts = 3
  MaxVersion = 3
  InitialVersions = {3}
  EXECUTOR_FUNCTION = TRUE
  Rca <- RollbackOnly
  IngestWorker = {i1}
  AgentWorker = {a1}
  Actor = {o1}
  ExecutorWorker = {e1}
  Message = {m1}
  Event = {v1}
  Function = {f1}
  Flag = {g1}
  f1 = f1
  g1 = g1
  api = api
  NoName = NoName
  NoTime = NoTime
  NoNotification = NoNotification
  NoIncident = NoIncident
  NoRca = NoRca
  Nobody = Nobody
  NoTarget = NoTarget
  NoMessage = NoMessage
  NoEvent = NoEvent
INVARIANTS
  SingleEffect
CHECK_DEADLOCK FALSE
