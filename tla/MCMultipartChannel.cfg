CONSTANTS
  m1 = m1
  m2 = m2
  department = department
  update = update
  Messages <- MCMessages
  Composites <- MCComposites
  Parts <- MCParts
  SendArgs <- MCSendArgs
  ReceiveArgs <- MCReceiveArgs
  HighWaterMark = 1
  MaxCalls = 2
SPECIFICATION Spec
PROPERTIES
  ImplementsChannel
  SentIsTaken
  BackPressureEnds
CHECK_DEADLOCK FALSE
