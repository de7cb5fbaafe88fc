CONSTANTS
  MaxJobs = 2
  MaxSeq = 2
  BadDrops = {TRUE, FALSE}
  MaxCrashes = 0
  MaxIOErrors = 0
  WaitExpires = FALSE
  MaxFaults = 1
  MaxResets = 1
SPECIFICATION Spec
INVARIANTS LoaderNeverHalts GuardSound KnownGoodKept
PROPERTIES FloorEarned ReadyKept
CHECK_DEADLOCK FALSE
