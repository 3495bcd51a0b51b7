CONSTANTS
  phone = phone
  first = first
  follower = follower
  NoDevice = NoDevice
  Sockets <- TwoSockets
  Devices <- OnePhone
  OwnerOf <- Owners
  Kinds <- SomeKinds
  Quiet <- Cancelled
  Terminal <- Cancelled
  MaxBuffer = 2
  Capacity = 1
  MaxFrames = 3
SPECIFICATION FairSpec
INVARIANTS
  StreamsAreWhole
PROPERTIES
  WatchedSocketsClose
  FollowersHearTheEnd
CHECK_DEADLOCK FALSE
