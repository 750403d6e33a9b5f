SPECIFICATION Spec
CONSTANTS
  Msgs = {m1}
  Handles = {h1, h2}
  Callers = {c1}
  None = None
  Window = 2
  Epoch = 1
  MaxNow = 3
  MaxSkews = 1
  MaxExports = 2
  MaxReads = 0
SYMMETRY Interchangeable
INVARIANT TypeOK
INVARIANT LiveKeysEnd
INVARIANT DowntimeCounts
INVARIANT RestoredInTime
INVARIANT NoFalseRollback
