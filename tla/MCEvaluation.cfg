SPECIFICATION EvalSpec
CONSTANTS
  MaxFaults = 1
  Sweeps <- MCSweeps
  Answers <- MCAnswers
  Offered <- MCOffered
INVARIANTS
  EvalInv
  FaultIsOwn
  ReproducesUnlessLost
  ScoredIsReproduced
  ReportIsComplete
  PassIsEarned
  MergedIsLatest
CHECK_DEADLOCK FALSE
