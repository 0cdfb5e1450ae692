CONSTANTS
  None = None
  Blank = Blank
  Bad = Bad
  Poison = Poison
  k1 = k1
  k2 = k2
  i1 = i1
  i2 = i2
  i3 = i3
  c1 = c1
  c2 = c2
  Paths = {1, 2}
  Inodes = {i1, i2, i3}
  Keys = {k1, k2}
  Lines = {k1, k2, Blank, Bad, Poison}
  Collectors = {c1}
  MaxFiles = 1
  TimeBudget = TRUE
  Reuse = FALSE
  MaxWrites = 4
  MaxClock = 0
  MaxCrashes = 1
  MaxPowerLoss = 1
  MaxIOErrors = 0
SPECIFICATION Spec
SYMMETRY Symmetry
INVARIANTS LinesCountedOnce NoLossOnDisk
PROPERTIES CompleteRunIsComplete ImplementsLedger
