CONSTANTS
  Eager = TRUE
  MaxTurns = 4
  MaxUpdates = 6
SPECIFICATION Spec
CHECK_DEADLOCK FALSE

PROPERTY LatestCheckpointSent
