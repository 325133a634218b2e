SPECIFICATION Spec
CONSTANTS
  r1 = r1
  r2 = r2
  r3 = r3
  n1 = n1
  n2 = n2
  n3 = n3
  None = None
  Requests <- MCRequests
  Connections <- MCConnections
  PoolSize = 1
  MaxOverflow = 1
  MaxKills = 2
INVARIANTS
  NothingLeaked
