CONSTANTS
  File <- TwoFiles
  Version = {1, 2, 3}
  Absent = 0
  Text = {1, 2}
  Approved = {2}
  MaxOverlay = 1
  Source <- Roots
  Request <- ProofRequests
  Outputs <- RunnerOutputs
  Word <- Words
  Edited <- EditedRequests
  MaxEdits = 2
SPECIFICATION Spec
INVARIANTS
  TypeOK
  ObservedTreeIsDeclared
  VerdictIsEarned
  ObservationsAccepted
