CONSTANTS
  Threads = {t1, t2}
  MaxSocketCount = 1
  NDebug = TRUE
  MaxContexts = 2
  MaxSockets = 2
  MaxDepth = 3
  MaxDepthOfMany = 2
SPECIFICATION Spec
INVARIANTS
  TypeOK
  OwnedOnce
  ContextOutlivesSockets
PROPERTIES
  SelfDeadlockIsForGood
  TerminationEnds
CHECK_DEADLOCK FALSE
