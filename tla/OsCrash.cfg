CONSTANTS
  MaxJobs = 1
  MaxSeq = 1
  BadDrops = {TRUE}
  MaxCrashes = 1
  MaxIOErrors = 1
  WaitExpires = TRUE
  MaxFaults = 0
  MaxResets = 0
SPECIFICATION FairSpec
INVARIANTS PendingSound AttemptsSound ConfirmedIsFloored
PROPERTIES TrialEnds JobSettles
CHECK_DEADLOCK FALSE
