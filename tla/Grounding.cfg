CONSTANTS
  Stream = {"out"}
  Chunk = {"expected", "environment", "other"}
  Limit = 1
  Capacity = 1
  MaxChunks = 2
  ExitCode <- Codes3
  Killed = Killed
  Running = Running
  None = None
  SlowThreads = FALSE
  Request <- Candidates
SPECIFICATION Spec
INVARIANTS
  OutputIsWhole
  KilledTreeIsGone
  ConfirmedIsShown
PROPERTY
  GroundingEnds
