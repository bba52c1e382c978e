SPECIFICATION FairPoolSpec
CONSTANTS
  j1 = j1
  j2 = j2
  j3 = j3
  Job = {j1, j2, j3}
  Queues <- MCQueues
  QueueOf <- MCQueueOf
  Concurrency = 2
  ClaimBatchMax = 2
  MayHang = {j1}
  MaxFaults = 1
INVARIANTS
  PoolWithinConcurrency
  NothingStranded
PROPERTIES
  ReadyJobIsClaimed
  DrainEnds
CHECK_DEADLOCK FALSE
