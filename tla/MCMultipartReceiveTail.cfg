CONSTANTS
  m1 = m1
  m2 = m2
  department = department
  update = update
  Messages <- MCMessages
  Composites <- MCComposites
  Parts <- MCParts
  Calls <- MCCalls
  Lengths = {1, 2, 3, 4}
  Frames <- MCFrames
  ReuseMisaligned = TRUE
  MaxArrivals = 1
SPECIFICATION Spec
INVARIANT InFullOrNotAtAll
CHECK_DEADLOCK FALSE
