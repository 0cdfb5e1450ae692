SPECIFICATION Spec
CONSTANTS
  None = None
  Files = {f1, f2}
  Turns = {e1}
  Compactions = {k1}
  Models = {m1, m2}
  Tools = {u1}
  Nested = {f2}
  OwnModel = TRUE
  MaxEntries = 4
CHECK_DEADLOCK FALSE
SYMMETRY Symmetry
INVARIANTS TypeOK OneRowPerTurn SessionSpendStored CompactionModelNeverWrong ToolRowsExact
PROPERTY ImplementsLedger
