SPECIFICATION FairSpec
CONSTANTS
  in1 = in1
  w1 = w1
  Inbound = {in1}
  StreamCap = 1
  Threads = {w1}
  None = None
  MaxIds = 3
  MaxRuns = 2
  MaxTexts = 1
CHECK_DEADLOCK FALSE
INVARIANTS TypeOK EntriesAccounted OwnAnswer
PROPERTIES ScansEnd
