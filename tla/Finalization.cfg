SPECIFICATION Spec
CONSTANTS
  engine = engine
  operator = operator
  minor = minor
  major = major
  proof1 = proof1
  proof2 = proof2
  capsule1 = capsule1
  capsule1b = capsule1b
  capsule2 = capsule2
  NoValue = NoValue
  Caller = {engine, operator}
  Engine = engine
  Runs <- SelfDrivenRuns
  Finding = {minor}
  Grounded = {}
  Capsule = {capsule1, capsule1b, capsule2}
  Valid = {capsule1, capsule1b, capsule2}
  ProofOf <- ProofId
  FindingOf <- FindingId
  Confirms = {capsule1}
  Judgement <- Judgements
  Faults = TRUE
  MaxCalls = 2
INVARIANTS RecordsAgree AcceptedProofsCount RecoverableUntilCompleted
PROPERTIES FinalizedIsFinal
CHECK_DEADLOCK FALSE
