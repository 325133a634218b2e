SPECIFICATION Spec
CONSTANTS
  None = None
  Empty = Empty
  Environments <- MCEnvironments
CHECK_DEADLOCK FALSE
INVARIANTS
  TlsPolicyIsExact
  OtherOptionsKept
  MigratesTheAppsDatabase
  BootsOnValidUrl
