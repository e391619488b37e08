SPECIFICATION Spec
CONSTANTS
  Root = root
  Groups = {root, a, b, c}
  None = none
  Tasks = {t1}
  Writers = {w1, w2}
  Periods = {1}
  Runtimes = {0, 1}
  CfsPeriods = {1}
  Quotas = {1, 2}
  SysPeriods = {0}
  SysRuntimes <- Written
  DefaultPeriod = 2
  DefaultRuntime = 1
  DefaultCfsPeriod = 2
  MinCfs = 1
  MaxCfs = 2
  FULL = 4
  U64 = 64
  MaxWrites = 2
CONSTRAINT OneKind
SYMMETRY Symmetry
INVARIANTS Consistent OnlyRefusedSysctlsLetMoreBy QuotasNest
PROPERTIES OnlyUncheckedPeriodDivides OnlyKnownWaysStarve
CHECK_DEADLOCK FALSE
