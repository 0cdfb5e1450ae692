CONSTANTS
  None = None
  n1 = n1
  n2 = n2
  u1 = u1
  u2 = u2
  m1 = m1
  m2 = m2
  Names = {n1, n2}
  Users = {u1, u2}
  Messages = {m1, m2}
  Unpriced = {m2}
  MaxTime = 2
SPECIFICATION ReportsSpec
SYMMETRY Symmetry
INVARIANTS ReportsTypeOK IncompleteIsSaid CreditedAfterStart
PROPERTIES ImplementsWindows SerialUnlessRaced
CHECK_DEADLOCK FALSE
