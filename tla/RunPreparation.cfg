CONSTANTS
  Handle <- ConfiguredHandle
  Self = "self"
  ModelOf <- ConfiguredModelOf
  Panel <- ConfiguredPanel
  PanelOf <- ConfiguredPanelOf
  Pack <- ConfiguredPack
  HardMinimum = "balanced"
  MaxPanelSize = 4
  None = None
  Requests <- AllRequests
  RepoAccess <- ConfiguredRepoAccess
  DlpAction = "redact"
  Files = 2
  MaxEdits = 4
  Edited <- GroundedRequests
  Candidate = {1, 2, 3}
  VerificationOf <- VerificationOfThree
  GroundingVerdict = {"confirmed", "inconclusive", "policy-blocked"}
SPECIFICATION Spec
INVARIANTS
  TypeOK
  FrozenExisted
  NotStale
  UndegradedIsEarned
  SensitiveReviewedTwice
