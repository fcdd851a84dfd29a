SPECIFICATION Spec
CONSTANTS
  None = None
  Known = {"known"}
  Routes <- MCRoutes
  Reviews <- MCReviews
  Verdicts <- MCVerdicts
  CapsuleSets <- MCCapsuleSets
INVARIANTS RefusedOnlyFor DissentIsKept ShipIsEarned ScriptsAgree
CHECK_DEADLOCK FALSE
