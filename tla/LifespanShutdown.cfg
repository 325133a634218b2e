SPECIFICATION FairSpec
CONSTANTS
  w1 = w1
  w2 = w2
  r1 = r1
  Main = Main
  None = None
  Workers <- TwoWorkers
  Requests <- OneRequest
  MaxConnections = 3
  MaxCalls = 5
CHECK_DEADLOCK FALSE
INVARIANTS
  NoReleaseUnderUse
  NothingSkipped
  BrokerReleased
PROPERTIES
  LifespanSettles
