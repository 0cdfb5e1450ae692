CONSTANTS
  None = None
  Transcripts = {t1, t2}
  Responses = {r1, r2}
  Tools = {u1}
  Spawned = {r1, r2}
  BatchSize = 2
  SomeWithout = FALSE
  MaxLines = 4
SPECIFICATION RunsSpec
SYMMETRY Symmetry
CHECK_DEADLOCK FALSE
INVARIANTS TypeOK RunsTypeOK NoDuplicateBilling EveryResponseBilled ToolRowsExact SubagentRunExact
PROPERTY ImplementsLedger
