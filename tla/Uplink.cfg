SPECIFICATION Spec
CONSTANTS
  s = s
  r = r
  x = x
  m1 = m1
  m2 = m2
  w1 = w1
  w2 = w2
  n1 = n1
  n2 = n2
  n3 = n3
  p1 = p1
  p2 = p2
  p3 = p3
  p4 = p4
  Callers = {s, r, x}
  Workers = {w1, w2}
  Token = 2
  Burst = 2
  PerTick = 3
  Floor = 1
  MaxBuckets = 1
  NoBucket = NoBucket
  NoRequest = NoRequest
  MaxClock = 3
  Nodes = {n1, n2, n3}
  Procs = {p1, p2, p3, p4}
  NodeOf <- MCNodeOf
  KeySource <- MCKeySource
  MaxStarts = 4
  Msgs = {m1, m2}
  Deployments <- MCDeployments
  Sender <- MCSender
  Recipient = r
  Sealed = {m1}
  ApiKeys = {s, r}
  PathLength = 3
  MinPathLength = 3
SYMMETRY MCSymmetry
CHECK_DEADLOCK FALSE
INVARIANTS TypeOK RateBound IdentityStays DuplicateForCause LossForCause
