SPECIFICATION Spec
CONSTANTS
  b1 = b1
  b2 = b2
  b3 = b3
  n1 = n1
  n2 = n2
  s1 = s1
  s2 = s2
  Nodes = {n1, n2}
  Bundles = {b1, b2}
  None = None
  MaxTotal = 2
  Lifetimes = {1}
  MaxWait = 1
  MaxNow = 2
  Links <- MCLinks
  MaxFaults = 0
  Sessions = {s1, s2}
  Size <- MCSize
  MaxBytes = 4
  MaxPerSession = 1
SYMMETRY Interchangeable
INVARIANTS TypeOK InStep BudgetSuffices
PROPERTIES ImplementsGossip
CHECK_DEADLOCK FALSE
