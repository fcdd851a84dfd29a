SPECIFICATION FairDispatchSpec
CONSTANTS
  Request = {1, 2, 3}
  MaxConcurrency = 2
  MaxCalls = 2
  Wallclock = 2
  MaxCost = 3
  NoLimit = NoLimit
  Timeout <- Timeouts
  Costs = {1, 2}
  Unknown = Unknown
  Late = 1
INVARIANTS DispatchTypeOK ReservationsSettled CostsAddUp CompletedInTime
PROPERTIES DispatchEnds
CHECK_DEADLOCK FALSE
