SPECIFICATION Spec
CONSTANTS
  None = None
  Files = {f1}
  Turns = {e1}
  Compactions = {k1}
  Models = {m1}
  Tools = {u1}
  Nested = {f1}
  OwnModel = TRUE
  MaxEntries = 2
CHECK_DEADLOCK FALSE
INVARIANT EverySpendStored
