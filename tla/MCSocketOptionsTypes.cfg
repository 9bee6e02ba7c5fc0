CONSTANTS
  x1 = x1
  x2 = x2
  dealer = dealer
  xsub = xsub
  Objects = {x1, x2, dealer, xsub}
  SocketType <- MCSocketType
  Settings = {"blocky"}
  Topics = {a}
  Options <- MCOptions
  Inputs <- MCInputs
  MaxSockets = 2
  MaxConnections = 1
  MaxSettings = 1
SPECIFICATION Spec
INVARIANTS
  AccessorsWork
