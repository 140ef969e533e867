SPECIFICATION Spec
CONSTANTS
  MaxFaults = 2
  StaleReads = TRUE
  Notification <- OneAlarm
  Incident <- OneIncident
  Instant = {1, 4}
  Slug <- MCSlug
  DEDUP_WINDOW_SECONDS = 3
  MaxDeliveries = 3
  maxReceiveCount = 2
  MaxAttempts = 3
  MaxVersion = 2
  InitialVersions = {1,2}
  EXECUTOR_FUNCTION = TRUE
  Rca <- AllRcas
  IngestWorker = {i1}
  AgentWorker = {a1,a2}
  Actor = {o1,o2}
  ExecutorWorker = {e1,e2}
  Message = {m1,m2}
  Event = {v1,v2}
  Function = {f1}
  Flag = {g1}
  f1 = f1
  g1 = g1
  api = api
  NoName = NoName
  NoTime = NoTime
  NoNotification = NoNotification
  NoIncident = NoIncident
  NoRca = NoRca
  Nobody = Nobody
  NoTarget = NoTarget
  NoMessage = NoMessage
  NoEvent = NoEvent
SYMMETRY WorkerSymmetry
INVARIANTS
  HumanGate
  ExecutedMeansDone
  WorksFromApprovedRca
PROPERTIES
  ImplementsContract
  SettledMeansExecuted
CHECK_DEADLOCK FALSE
