SPECIFICATION Spec
CONSTANTS
  A = A
  B = B
  Routes <- OneWay
  Nodes = {A, B}
  Ends = {A, B}
  Senders = {A, B}
  Pollers = {A, B}
  NoEnd = NoEnd
  Bundles = {b1}
  MaxTotal = 3
  Lifetimes = {1}
  MaxWait = 0
  MaxNow = 1
  Tasks = {t1}
  Polls = {p1}
  WindowSize = 2
  MaxRestarts = 0
CHECK_DEADLOCK FALSE
INVARIANT ClaimedByRecipient
