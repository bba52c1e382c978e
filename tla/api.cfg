SPECIFICATION FairServerSpec
CONSTANTS
  c1 = c1
  c2 = c2
  Connection = {c1, c2}
  Key <- MCKey
  Requests <- MCRequests
  HasScheduler = TRUE
  MaxSubscribers = 1
  RateLimitMax = 1
  MaxSnapshots = 1
  MaxFailures = 1
INVARIANTS
  ServerTypeOK
  AnswerTellsEffect
  RevokedKeyIsRefused
  OpenStreamIsFed
  ShutdownFailsNobody
PROPERTIES
  RequestIsAnswered
  ShutdownEnds
CHECK_DEADLOCK FALSE
