SPECIFICATION FairSpec
CONSTANTS
  engine = engine
  operator = operator
  minor = minor
  major = major
  proof1 = proof1
  proof2 = proof2
  capsule1 = capsule1
  capsule1b = capsule1b
  capsule2 = capsule2
  NoValue = NoValue
  Caller = {engine}
  Engine = engine
  Runs <- AllRuns
  Finding = {minor, major}
  Grounded = {}
  Capsule = {capsule1, capsule2}
  Valid = {capsule1}
  ProofOf <- ProofId
  FindingOf <- FindingId
  Confirms = {capsule1}
  Judgement <- AllJudgements
  Faults = FALSE
  MaxCalls = 1
PROPERTIES AutomaticRunRecorded
CHECK_DEADLOCK FALSE
