SPECIFICATION Spec
CONSTANTS
  c1 = c1
  c2 = c2
  phone = phone
  Conns <- TwoConns
  Peers <- OnePeer
  PeerOf <- Redials
  MaxUnbound = 1
  MaxAdopting = 1
  MaxBound = 1
  MaxWindows = 2
INVARIANTS
  SlotsAreReturned
  RevokedConnectionsHear
  CapsAreKept
PROPERTIES
  ClaimSurvivesItsOwnEnd
CHECK_DEADLOCK FALSE
