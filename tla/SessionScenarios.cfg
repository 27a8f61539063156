SPECIFICATION Spec
CONSTANTS
  Total = 3
  Scenarios = {"stream", "hello", "shutdown"}
  PipeCapacity = 2
  MaxLaunches = 4
  MaxKills = 2
  MaxServeErrors = 1
  MaxFailedAccepts = 1
  MaxCrashes = 1
  MaxLives = 3
INVARIANTS
  NothingSkipped
  NumbersFollow
PROPERTIES
  OnlyShutdownEndsTheJob
CHECK_DEADLOCK FALSE
