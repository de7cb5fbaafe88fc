SPECIFICATION Spec
CONSTANTS
  DEADLINE_S = 6
  BOUNDS <- Bounds
  REBOOT_FORCE_S = 2
  REBOOT_SYSRQ_S = 1
  WatchdogSec = 2
  MaxStalls = 2
  MaxLost = 2
  MaxOver = 12
INVARIANTS DecidedInTime RecordedStays
PROPERTY BootEnds
CHECK_DEADLOCK FALSE
