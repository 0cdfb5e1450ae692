SPECIFICATION Spec
CONSTANTS
  None = None
  Sessions = {s1, s2}
  Messages = {1, 2}
  Unpriced = {1}
  Window = 2
  MaxLatency = 1
  MaxTime = 4
SYMMETRY Symmetry
PROPERTY RollupsAgree
