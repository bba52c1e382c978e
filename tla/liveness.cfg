SPECIFICATION FairQueueSpec
CONSTANTS
  j1 = j1
  j2 = j2
  w1 = w1
  w2 = w2
  NoWorker = NoWorker
  Job = {j1}
  Worker = {w1, w2}
  Priority <- MCPriority
  PriorityAging = FALSE
  ClaimBatchMax = 1
  BatchMax = 2
  MaxErrorHistory = 5
  MaxAttempts = 2
  MaxReplays = 0
  Concurrency = 1
  MayCrash = {w1}
  MayStop = {}
PROPERTIES
  EveryJobSettles
