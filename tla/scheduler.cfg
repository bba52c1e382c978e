SPECIFICATION FairSchedulerSpec
CONSTANTS
  s1 = s1
  s2 = s2
  i1 = i1
  i2 = i2
  Schedule = {s1, s2}
  Instance = {i1, i2}
  Occurrences <- MCOccurrences
  SkipMissed = {s1}
  Hour = 1
  Skew <- MCSkew
  ScheduleBatch = 2
  MayFail = {i2}
  Managed = {s1, s2}
  CallDelay = 1
  MaxTime = 3
INVARIANTS
  SchedulerTypeOK
  AtMostOneJobPerOccurrence
  FiresOnlyOccurrences
PROPERTIES
  DueScheduleMovesOn
CHECK_DEADLOCK FALSE
