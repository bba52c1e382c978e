SPECIFICATION FairRetentionSpec
CONSTANTS
  j1 = j1
  j2 = j2
  i1 = i1
  i2 = i2
  Job = {j1, j2}
  Instance = {i1, i2}
  Archive = TRUE
  BatchMax = 1
  QueueOf <- MCQueueOf
  Outcomes <- MCOutcomes
  QueueConfig <- MCQueueConfig
  Defaults <- MCDefaults
  MonthLength = 2
  Skew <- MCSkew
  PassMax = 1
  MayStop = {i2}
  MayFail = {i2}
  MaxTime = 3
INVARIANTS
  RetentionTypeOK
  ArchivedExactlyOnce
  PartitionAtHand
PROPERTIES
  BacklogDrains
CHECK_DEADLOCK FALSE
