SPECIFICATION FairSpec
CONSTANTS
  a1 = a1
  a2 = a2
  b1 = b1
  b2 = b2
  u1 = u1
  None = None
  Attempts <- TwoAttempts
  Callbacks <- TwoCallbacks
  Clients <- OneClient
  Installed <- SomeMachines
  Found <- SomeDirectories
INVARIANTS
  AttemptsRunOnce
  LoginsTellTheTruth
  FilesArePrivate
  OwnNodesAreAccepted
CHECK_DEADLOCK FALSE
PROPERTIES
  OverIsOver
  SecretsAreDropped
  LoginsMoveOn
