SPECIFICATION FairSpec
CONSTANTS
  Msgs = {m1}
  Handles = {h1, h2}
  Callers = {c1, c2}
  None = None
  Window = 1
  Epoch = 1
  MaxNow = 1
  MaxSkews = 0
  MaxExports = 2
  MaxReads = 4
INVARIANT KeyConservation
INVARIANT ReadOnce
PROPERTY GoneIsForever
PROPERTY TimedKeysErased
