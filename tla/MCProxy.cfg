CONSTANTS
  push = push
  pull = pull
  null = null
  Proxies = {p, q}
  Frontend = "Router"
  Backend = "Dealer"
  CaptureType <- MCCaptureType
  ControlType <- MCControlType
  Lengths = {2}
  MaxMessages <- MCMaxMessages
  HighWaterMark = 1
SPECIFICATION Spec
INVARIANTS
  TypeOK
  HeldOnce
  TrueMeansWhole
PROPERTIES
  ImplementsChannel
  RunEnds
