CONSTANTS
  act = act
  note = note
  ask = ask
  NoTool = NoTool
  RecentResults = 1
  Tools <- AllTools
  MachineTools <- Acting
  AskTools <- Asking
  MaxIterations = 1
  MaxCalls = 1
  MaxSessions = 2
SPECIFICATION Spec
INVARIANT JournalStaysReadable
CHECK_DEADLOCK FALSE
