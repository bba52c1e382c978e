SPECIFICATION QueueSpec
CONSTANTS
  j1 = j1
  j2 = j2
  w1 = w1
  w2 = w2
  NoWorker = NoWorker
  Job = {j1}
  Worker = {w1, w2}
  Priority <- MCPriority
  PriorityAging = FALSE
  ClaimBatchMax = 1
  BatchMax = 2
  MaxErrorHistory = 5
  MaxAttempts = 1
  MaxReplays = 1
  Concurrency = 2
  MayCrash = {}
  MayStop = {}
INVARIANTS
  FenceIdentifiesDelivery
