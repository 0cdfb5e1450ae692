CONSTANTS
  None = None
  Blank = Blank
  Bad = Bad
  Poison = Poison
  k1 = k1
  k2 = k2
  i1 = i1
  i2 = i2
  i3 = i3
  c1 = c1
  c2 = c2
  Paths = {1, 2}
  Inodes = {i1, i2, i3}
  Keys = {k1}
  Lines = {k1, Blank}
  Collectors = {c1}
  MaxFiles = 0
  TimeBudget = FALSE
  Reuse = FALSE
  MaxWrites = 4
  MaxClock = 0
  MaxCrashes = 1
  MaxPowerLoss = 0
  MaxIOErrors = 1
SPECIFICATION FairSpec
INVARIANTS NoLoss SkipIsSafe
PROPERTIES EventuallyStored
