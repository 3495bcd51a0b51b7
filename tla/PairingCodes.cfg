SPECIFICATION Spec
CONSTANTS
  h1 = h1
  h2 = h2
  p1 = p1
  p2 = p2
  none = none
  owner = owner
  d1 = d1
  d2 = d2
  nodev = nodev
  Handlers <- MCHandlers
  Peers <- MCPeers
  NoPeer <- none
  Devices <- MCDevices
  NoDevice <- nodev
  Owner <- owner
  MaxFailures = 2
  MaxMints = 2
INVARIANTS
  DevicesAreOneToOne
  EndsAreAnnounced
PROPERTIES
  CodesAreOneTime
SYMMETRY Symmetry
CHECK_DEADLOCK FALSE
