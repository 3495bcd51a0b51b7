CONSTANTS
  Nothing = Nothing
  Answers <- SomeAnswers
  Refusals <- SomeRefusals
  Results <- SomeResults
  Recovered <- SomeRecovered
  KeepImages = 2
  MaxTurns = 2
  ModelIds <- TwoModels
  Default = "large"
SPECIFICATION TurnsSpec
INVARIANTS
  WhatWasSaidIsHeard
  RepeatsHaveAReason
  FailuresAreToldApart
CHECK_DEADLOCK FALSE
