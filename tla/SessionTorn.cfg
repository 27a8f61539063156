SPECIFICATION Spec
CONSTANTS
  Total = 3
  Scenarios = {"stream"}
  PipeCapacity = 2
  MaxLaunches = 2
  MaxKills = 1
  MaxServeErrors = 0
  MaxFailedAccepts = 0
  MaxCrashes = 0
  MaxLives = 1
INVARIANT KillLeavesAResumePoint
CHECK_DEADLOCK FALSE
