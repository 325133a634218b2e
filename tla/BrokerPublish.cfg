SPECIFICATION Spec
CONSTANTS
  t1 = t1
  t2 = t2
  t3 = t3
  None = None
  Tasks <- MCTasks
  MaxConnections = 3
  MaxCalls = 4
CHECK_DEADLOCK FALSE
INVARIANTS
  PublishedIsQueued
  NoChannelLeak
