SPECIFICATION FairSpec
CONSTANTS
  Total = 3
  Scenarios = {"stream"}
  PipeCapacity = 2
  MaxLaunches = 2
  MaxKills = 0
  MaxServeErrors = 0
  MaxFailedAccepts = 0
  MaxCrashes = 0
  MaxLives = 1
PROPERTY RunJobReturns
CHECK_DEADLOCK FALSE
