SPECIFICATION Spec
CONSTANTS
  t1 = t1
  t2 = t2
  p1 = p1
  p2 = p2
  m1 = m1
  m2 = m2
  a1 = a1
  a2 = a2
  s1 = s1
  s2 = s2
  s3 = s3
  None = None
  Unix = TRUE
  Tasks <- MCTasks
  Providers <- MCProviders
  Models <- MCModels
  Accounts <- MCAccounts
  Secrets <- MCSecrets
INVARIANTS
  RowsHaveSecrets
  NothingIsLeftBehind
  DefaultWasReady
SYMMETRY Symmetry
CHECK_DEADLOCK FALSE
