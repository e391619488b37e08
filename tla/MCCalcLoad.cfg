SPECIFICATION Spec
CONSTANTS
  Cpus = {a, b}
  LOAD_FREQ = 3
  Window = 2
  NrActive = {0, 1}
  MaxJump = 7
  MaxJiffies = 9
  MaxDebt = 1
  FSHIFT = 11
  Exps = {1884, 2014, 2037}
  DEGRADE_SHIFT = 7
  MaxPeriods = 60
  Loads = {0, 1, 9, 1024, 2048, 6000}
  MaxMissed = 130
INVARIANTS Consistent OnlyTornWritesAreLate EveryPeriodCounts OnlyLateWakersSkip CatchingUpIsStepwise
PROPERTIES OneSamplePerWindow
SYMMETRY Symmetry
CHECK_DEADLOCK FALSE
