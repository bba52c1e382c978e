SPECIFICATION Spec
CONSTANTS
  j1 = j1
  j2 = j2
  w1 = w1
  w2 = w2
  Job = {j1, j2}
  Worker = {w1, w2}
  NoWorker = NoWorker
  Priority <- MCPriority
  PriorityAging = FALSE
  ClaimBatchMax = 2
  BatchMax = 2
  MaxErrorHistory = 3
  MaxAttempts = 2
  MaxReplays = 2
INVARIANTS
  TypeOK
  RowsPassChecks
  ErrorHistoryBounded
PROPERTIES
  ImplementsLifecycle
