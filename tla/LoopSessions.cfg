CONSTANTS
  act = act
  note = note
  ask = ask
  NoTool = NoTool
  RecentResults = 1
  Tools <- TwoTools
  MachineTools <- Acting
  AskTools <- Asking
  MaxIterations = 1
  MaxCalls = 1
  MaxSessions = 3
SPECIFICATION FairSpec
INVARIANTS
  CallsAreOnRecord
  SessionsAreToldTheTruth
  RecoveryIsTheLog
PROPERTIES
  CallsActOnRecord
  SessionsAreFinite
CHECK_DEADLOCK FALSE
