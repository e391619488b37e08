SPECIFICATION LiveSpec
CONSTANTS
  Tasks = {t1, t2, t3}
  InitTask = t1
  Idle = idle
  MAX_RT_PRIO = 2
  MAX_PRIO = 4
  WRR_MAX_PRIO = 4
  UINT_MAX = 3
  RR_TIMESLICE = 1
  WRR_TIMESLICE_FORE = 2
  WRR_TIMESLICE_BACK = 1
  Policies = {"NORMAL", "WRR"}
  RtParams = {}
  ResetFlags = {FALSE}
  SleepStates = {"intr"}
  NicePrios = {3}
  DEFAULT_PRIO = 3
  PiPrios = {}
  Groups = {"fore"}
PROPERTIES EveryWrrTaskRuns ImplementsRoundRobin
