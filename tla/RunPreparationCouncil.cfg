CONSTANTS
  Handle <- ConfiguredHandle
  Self = "self"
  ModelOf <- ConfiguredModelOf
  Panel <- ConfiguredPanel
  PanelOf <- ConfiguredPanelOf
  Pack <- ConfiguredPack
  HardMinimum = "balanced"
  MaxPanelSize = 4
  None = None
  Requests <- CouncilRequests
  RepoAccess <- ConfiguredRepoAccess
  DlpAction = "redact"
  Files = 2
  MaxEdits = 1
  Edited = {}
  Candidate = {1, 2, 3}
  VerificationOf <- VerificationOfThree
  GroundingVerdict = {"confirmed", "inconclusive", "policy-blocked"}
SPECIFICATION Spec
INVARIANTS
  FailureIsRecorded
