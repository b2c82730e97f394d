SPECIFICATION FairSpec
CONSTANTS
  Workers = {w1, w2}
  Handlers = {h1}
  Heart = heart
  MaxKeys = 2
  Accepts = 1
  MaxData = 1
  ExitLimit = 0
INVARIANTS TypeOK ModulesOutliveThreads UsersTold Drained QuietStop
PROPERTY StopReturns
CHECK_DEADLOCK FALSE
