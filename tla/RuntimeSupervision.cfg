SPECIFICATION FairSpec
CONSTANTS
  w1 = w1
  w2 = w2
  c1 = c1
  c2 = c2
  None = None
  Workers <- MCWorkers
  Callers <- MCCallers
  BaseBackoff <- MCBase
  MaxBackoff = 4
  MaxFloat <- MCFloat
  LogRounding <- MCRoundedDown
  Slack = 1
  RunnerExits <- Failures
  CancelExits <- Obedient
  MaxRequests = 4
  MaxRestarts = 4
CHECK_DEADLOCK FALSE
INVARIANTS
  SupervisedWhileStarted
PROPERTIES
  ImplementsSupervision
  StopReturns
  WorkerRunsAgain
