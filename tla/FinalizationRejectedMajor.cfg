SPECIFICATION Spec
CONSTANTS
  engine = engine
  operator = operator
  minor = minor
  major = major
  proof1 = proof1
  proof2 = proof2
  capsule1 = capsule1
  capsule1b = capsule1b
  capsule2 = capsule2
  NoValue = NoValue
  Caller = {engine}
  Engine = engine
  Runs <- FusingRuns
  Finding = {major}
  Grounded = {}
  Capsule = {}
  Valid = {}
  ProofOf <- ProofId
  FindingOf <- FindingId
  Confirms = {}
  Judgement <- AllJudgements
  Faults = FALSE
  MaxCalls = 1
INVARIANTS ResumableCanFinish
CHECK_DEADLOCK FALSE
