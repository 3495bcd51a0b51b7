CONSTANTS
  a = a
  b = b
  d1 = d1
  d2 = d2
  cli1 = cli1
  Absent = Absent
  Nobody = Nobody
  Stranger = Stranger
  Runs <- TwoRuns
  Daemons <- TwoDaemons
  Machines <- SomeMachines
  Callers <- OneCaller
  Ports <- TwoPorts
  TakenPorts <- Default
  MayInterrupt = TRUE
SPECIFICATION ServiceSpec
INVARIANTS
  DaemonsAreNamed
  HistoryIsKept
SYMMETRY Symmetry
