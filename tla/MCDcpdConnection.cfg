SPECIFICATION FairSpec
CONSTANTS
  f1 = f1
  f2 = f2
  Facts = {f1, f2}
  MaxQueue = 4
  MaxLives = 3
INVARIANTS
  CompleteStoreFollowsDcpd
PROPERTIES
  LossIsNoticed
  RestartIsCaughtUpWith
CHECK_DEADLOCK FALSE
