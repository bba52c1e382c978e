SPECIFICATION FairStartupSpec
CONSTANTS
  m1 = m1
  m2 = m2
  w1 = w1
  s1 = s1
  Process = {m1, m2, w1, s1}
  Kind <- MCKind
  Build <- MCBuild
  Environment <- MCEnvironment
  MayHave <- MCMayHave
  Outages = {"starting", "denied"}
  MaxAttempts = 2
  MaxOutages = 1
  MaxDeaths = 1
  MaxFinite = 1073741823
INVARIANTS
  ServesMigratedSchema
  MigratedInOrder
  SuccessMeansMigrated
  DelaysWithinCeiling
PROPERTIES
  DeploymentConverges
CHECK_DEADLOCK FALSE
