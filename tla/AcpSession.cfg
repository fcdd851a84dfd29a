SPECIFICATION FairSpec
CONSTANTS
  QueueMax = 1
  MaxMessages = 4
  Escapes = TRUE
  None = None
INVARIANTS OutputComplete RequestsAnswered
PROPERTIES CallEnds
CHECK_DEADLOCK FALSE
