\* Seven stages, two lives, one failing store call, WAL with checkpoints.
SPECIFICATION FairSpec
CONSTANTS
  NumStages = 7
  TicksPerStage = 2
  Checkpoint = TRUE
  Wal = TRUE
  MaxLives = 2
  MaxStoreFaults = 1
INVARIANTS
  TypeOK
  ResumePointNeverAhead
  CompletionTrailsByOne
  StageRowsMatchResumePoint
  AnnouncedIsDurable
PROPERTIES
  ImplementsEventLog
  JobCompletes
CHECK_DEADLOCK FALSE
