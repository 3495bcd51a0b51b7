CONSTANTS
  r1 = r1
  r2 = r2
  t1 = t1
  t2 = t2
  t3 = t3
  c1 = c1
  c2 = c2
  None = None
  Runs <- TwoRuns
  Tasks <- TwoTasks
  Callers <- OneCaller
  MaxCrashes = 1
  MayDisconnect = FALSE
  StorageFails = TRUE
SPECIFICATION FairSpec
INVARIANTS OwnershipIsSound OnlyLateFailuresFollowCompletion
PROPERTIES CancelReachesEveryOwner VerdictsStand QueuedIsLaunched CancelledDriverStops
CHECK_DEADLOCK FALSE
