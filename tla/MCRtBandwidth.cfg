SPECIFICATION FairSpec
CONSTANTS
  NCpus = 2
  U64 = 64
  Period = 3
  BootRuntime = 2
  Runtimes <- Written
  MaxTime = 3
  MaxWrites = 1
  MaxOverrun = 1
INVARIANTS Consistent OnlyResetsLeaveWanting OnlyReclaimedOverrun TimerRunsUnlessMissed
PROPERTIES ThrottledIsReleased
CHECK_DEADLOCK FALSE
