SPECIFICATION FairSpec
CONSTANTS
  Total = 5
  Scenarios = {"stream"}
  PipeCapacity = 2
  MaxLaunches = 4
  MaxKills = 2
  MaxServeErrors = 1
  MaxFailedAccepts = 0
  MaxCrashes = 0
  MaxLives = 3
INVARIANTS
  TypeOK
  OneRepeatPerKill
  PipeHoldsTheDifference
PROPERTIES
  VanishedClientIsReleased
  ImplementsResumableStream
CHECK_DEADLOCK FALSE
