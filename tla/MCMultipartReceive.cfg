CONSTANTS
  m1 = m1
  m2 = m2
  department = department
  update = update
  Messages <- MCMessages
  Composites <- MCComposites
  Parts <- MCParts
  Calls <- MCCalls
  Lengths = {1, 2, 3, 4}
  Frames <- MCFrames
  ReuseMisaligned = TRUE
  MaxArrivals = 2
SPECIFICATION Spec
INVARIANTS
  TypeOK
  CallWithinOneMessage
  TrueMeansWhole
  FilledLeaves
PROPERTIES
  TimeoutTakesNothing
  ReceiveReturns
CHECK_DEADLOCK FALSE
