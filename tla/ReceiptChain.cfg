SPECIFICATION FairReaderSpec
CONSTANTS
  Persister = {p1, p2}
  Run = {r1, r2, r3}
  NoRun = NoRun
  Free = Free
  Leaked = Leaked
  LateInterrupts = FALSE
INVARIANTS TypeOK HeadIsCurrent
PROPERTIES ReturnedStays PersistEnds VerifiedWhilePersisting
CHECK_DEADLOCK FALSE
