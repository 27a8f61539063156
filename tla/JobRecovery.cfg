\* A second broker opens the job row the first one left.
SPECIFICATION Spec
CONSTANTS
  NumStages = 2
  TicksPerStage = 1
  Checkpoint = TRUE
  Wal = TRUE
  MaxLives = 2
  MaxStoreFaults = 0
INVARIANT RecoveryNeverSkips
CHECK_DEADLOCK FALSE
