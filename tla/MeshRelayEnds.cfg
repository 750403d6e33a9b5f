SPECIFICATION FairSpec
CONSTANTS
  b1 = b1
  b2 = b2
  b3 = b3
  n1 = n1
  n2 = n2
  s1 = s1
  s2 = s2
  Nodes = {n1, n2}
  Bundles = {b1, b2, b3}
  None = None
  MaxTotal = 2
  Lifetimes = {1}
  MaxWait = 0
  MaxNow = 0
  Links <- MCLinks
  MaxFaults = 2
  Sessions = {s1}
  Size <- MCSize
  MaxBytes = 3
  MaxPerSession = 2
INVARIANTS StoreBounded SyncComplete
PROPERTY SessionsEnd
CHECK_DEADLOCK FALSE
