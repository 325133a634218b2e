SPECIFICATION Spec
CONSTANTS
  w1 = w1
  w2 = w2
  c1 = c1
  c2 = c2
  None = None
  Workers <- MCWorkers
  Callers <- MCCallers
  BaseBackoff <- MCBase
  MaxBackoff <- MCMax
  MaxFloat <- MCFloat
  LogRounding = 1
  Slack = 0
  RunnerExits <- AllExits
  CancelExits <- AllExits
  MaxRequests = 5
  MaxRestarts = 4
CHECK_DEADLOCK FALSE
SYMMETRY Symmetry
INVARIANTS
  TypeOK
  OneSupervisorPerWorker
  NoSupervisorOutlivesStop
  HealthReportIsTrue
  BackoffSchedule
