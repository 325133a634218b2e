SPECIFICATION Spec
CONSTANTS
  api1 = api1
  api2 = api2
  op1 = op1
  op2 = op2
  Containers <- MCContainers
  Operators <- MCOperators
  MaxCrashes = 3
CHECK_DEADLOCK FALSE
INVARIANTS
  ServesCompleteSchema
PROPERTIES
  ImplementsSchemaVersion
  RefusedOnlyWhenOvertaken
  AllServe
