SPECIFICATION FairSpec
CONSTANTS
  w1 = w1  w2 = w2  w3 = w3
  p1 = p1  p2 = p2
  e1 = e1  e2 = e2
  Writer = {w1, w2, w3}
  Proc = {p1, p2}
  ProcOf <- MCProcOf
  Entry = {e1, e2}
  NoEntry = NoEntry
  Nobody = Nobody
  Leaked = Leaked
  TailForms = {"torn"}
  ShortWrites = FALSE
  MaxRecords = 2
INVARIANTS TypeOK OneChain AckedDurable
PROPERTIES ImplementsLog AppendEnds
CHECK_DEADLOCK FALSE
