SPECIFICATION Spec
CONSTANTS
  MaxFaults = 1
  StaleReads = FALSE
  Notification <- OneAlarm
  Incident <- OneIncident
  Instant = {1, 4}
  Slug <- MCSlug
  DEDUP_WINDOW_SECONDS = 3
  MaxDeliveries = 3
  maxReceiveCount = 2
  MaxAttempts = 3
  MaxVersion = 1
  InitialVersions = {1}
  EXECUTOR_FUNCTION = TRUE
  Rca <- AllRcas
  IngestWorker = {i1}
  AgentWorker = {}
  Actor = {}
  ExecutorWorker = {}
  Message = {m1}
  Event = {}
  Function = {f1}
  Flag = {g1}
  f1 = f1
  g1 = g1
  api = api
  NoName = NoName
  NoTime = NoTime
  NoNotification = NoNotification
  NoIncident = NoIncident
  NoRca = NoRca
  Nobody = Nobody
  NoTarget = NoTarget
  NoMessage = NoMessage
  NoEvent = NoEvent
INVARIANTS
  NewIsPursued
CHECK_DEADLOCK FALSE
