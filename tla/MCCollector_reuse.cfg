CONSTANTS
  None = None
  Blank = Blank
  Bad = Bad
  Poison = Poison
  k1 = k1
  k2 = k2
  i1 = i1
  i2 = i2
  i3 = i3
  c1 = c1
  c2 = c2
  Paths = {1}
  Inodes = {i1, i2}
  Keys = {k1, k2}
  Lines = {k1, k2, Blank}
  Collectors = {c1}
  MaxFiles = 0
  TimeBudget = FALSE
  Reuse = TRUE
  MaxWrites = 6
  MaxClock = 1
  MaxCrashes = 0
  MaxPowerLoss = 0
  MaxIOErrors = 0
SPECIFICATION Spec
SYMMETRY Symmetry
INVARIANTS OffsetIsMeaningful
