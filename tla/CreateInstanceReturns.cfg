CONSTANTS
  Ops <- OnlyCreateInstance
  LaterOps = {}
  Bodies <- AllBodies
  MaxCalls = 1
  MaxHeaders = 1
  NULL = NULL
SPECIFICATION Spec
CHECK_DEADLOCK FALSE
INVARIANT CreateInstanceReturnsReference
