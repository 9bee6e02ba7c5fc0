CONSTANTS
  Threads = {t1, t2}
  MaxSocketCount = 1
  NDebug = FALSE
  MaxContexts = 1
  MaxSockets = 1
  MaxDepth = 2
  MaxDepthOfMany = 2
SPECIFICATION Spec
INVARIANT TermAssertionHolds
CHECK_DEADLOCK FALSE
