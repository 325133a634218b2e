SPECIFICATION FairSpec
CONSTANTS
  w1 = w1
  w2 = w2
  c1 = c1
  c2 = c2
  None = None
  Workers <- MCWorkers
  Callers <- MCOneCaller
  BaseBackoff <- MCBase
  MaxBackoff <- MCMax
  MaxFloat <- MCFloat
  LogRounding = 0
  Slack = 0
  RunnerExits <- Failures
  CancelExits <- UncleanCleanup
  MaxRequests = 2
  MaxRestarts = 4
CHECK_DEADLOCK FALSE
PROPERTIES
  StopReturns
