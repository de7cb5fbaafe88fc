CONSTANTS
  p1 = p1
  p2 = p2
  idle = idle
  FlagMod = 3
  MaxGen = 2
  MaxFloor = 1
  MaxEpoch = 1
  Policy = {p1, p2}
  Crit = {idle}
  Aux = {0, 1, 2}
  Unfit = {2}
  Seed <- SeedData
SPECIFICATION Spec
INVARIANTS AlwaysSelectable AckedDurable SnapshotFresh
PROPERTIES SelectionMovesForward IsRegister
