SPECIFICATION HealthSpec
CONSTANTS
  worker = worker
  main = main
  None = None
  Workers <- MCWorkers
  Callers <- MCCallers
  BaseBackoff = 1
  MaxBackoff = 2
  MaxFloat = 8
  LogRounding = 0
  Slack = 0
  RunnerExits <- AnyExit
  CancelExits <- AnyExit
  MaxRequests = 3
  MaxRestarts = 3
INVARIANTS
  BackoffIsExplained
  EmbeddedWhileWorking
