SPECIFICATION FairSpec
CONSTANTS
  A = A
  B = B
  Routes <- OneWay
  Nodes = {A, B}
  Ends = {A, B}
  Senders = {A}
  Pollers = {B}
  NoEnd = NoEnd
  Bundles = {b1, b2, b3}
  MaxTotal = 3
  Lifetimes = {1}
  MaxWait = 0
  MaxNow = 1
  Tasks = {t1}
  Polls = {p1}
  WindowSize = 2
  MaxRestarts = 1
INVARIANTS TypeOK NoSilentSkip AheadInWindow NeverBehind
PROPERTIES OnlyLossBlocks
CHECK_DEADLOCK FALSE
