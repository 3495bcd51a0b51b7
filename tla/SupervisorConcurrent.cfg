CONSTANTS
  r1 = r1
  r2 = r2
  t1 = t1
  t2 = t2
  t3 = t3
  c1 = c1
  c2 = c2
  None = None
  Runs <- OneRun
  Tasks <- ThreeTasks
  Callers <- TwoCallers
  MaxCrashes = 1
  MayDisconnect = TRUE
  StorageFails = TRUE
SPECIFICATION Spec
SYMMETRY Symmetry2
VIEW WithoutFrames
INVARIANTS DriversAreAccountedFor
CHECK_DEADLOCK FALSE
