CONSTANTS
  MaxJobs = 1
  MaxSeq = 1
  BadDrops = {TRUE, FALSE}
  MaxCrashes = 0
  MaxIOErrors = 0
  WaitExpires = FALSE
  MaxFaults = 1
  MaxResets = 0
SPECIFICATION Spec
INVARIANT ConfirmCompletes
CHECK_DEADLOCK FALSE
