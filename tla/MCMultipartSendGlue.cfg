CONSTANTS
  m1 = m1
  m2 = m2
  department = department
  update = update
  Messages <- MCMessages
  Composites <- MCComposites
  Parts <- MCParts
  Calls <- MCCalls
  HighWaterMark = 1
  ReuseBroken = TRUE
  MaxCalls = 2
SPECIFICATION Spec
INVARIANT OneCallOneMessage
CHECK_DEADLOCK FALSE
