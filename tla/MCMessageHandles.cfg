CONSTANTS
  Threads = {t1, t2}
  Outgoing = {o1, o2}
  Incoming = {i1}
  Capacity = 1
  MaxContents = 2
SYMMETRY Symmetry
SPECIFICATION Spec
INVARIANTS
  TypeOK
  CountsExact
PROPERTIES
  SendLeavesMessages
  ReceiveIsFresh
