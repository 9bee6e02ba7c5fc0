\* A failing assertion ends the program.
CHECK_DEADLOCK FALSE
CONSTANTS
  s1 = s1
  s2 = s2
  Sockets = {s1, s2}
  SocketType <- MCSocketType
  Items <- MCItems
  Capacity = 1
  Movable = {s1, s2}
  NDEBUG = FALSE
  MaxDepth = 2
SPECIFICATION Spec
INVARIANTS
  TypeOK
  ReadyItemsOnceInReverse
  StaleOnlyIfUsed
PROPERTY
  ReadyIsServed
