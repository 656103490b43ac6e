SPECIFICATION FairSpec
CONSTANTS
  MaxStarts = 2
  Failures = TRUE
  BadConfig = TRUE
  MaxAttempts = 2
INVARIANTS
  DampingIsLast
  NoStageOutlivesItsSource
  RolledBack
  OnePublisher
PROPERTY QuitStops
CHECK_DEADLOCK FALSE
