CONSTANTS
  Nothing = Nothing
  Releases <- FourReleases
  Pins <- SomePins
  Unix = FALSE
  Requests = {q1, q2}
SPECIFICATION Spec
SYMMETRY Symmetry
CONSTRAINT RequestsBeforeUpdates
INVARIANTS
  PayloadsFollowBinaries
  RollbackIsPossible
  SettingIsTold
CHECK_DEADLOCK FALSE
