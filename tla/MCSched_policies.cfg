SPECIFICATION Spec
CONSTANTS
  Tasks = {t1, t2}
  InitTask = t1
  Idle = idle
  MAX_RT_PRIO = 3
  MAX_PRIO = 5
  WRR_MAX_PRIO = 5
  UINT_MAX = 1
  RR_TIMESLICE = 1
  WRR_TIMESLICE_FORE = 1
  WRR_TIMESLICE_BACK = 0
  Policies = {"NORMAL", "RR", "WRR"}
  RtParams = {1}
  ResetFlags = {FALSE}
  SleepStates = {"intr"}
  NicePrios = {3, 4}
  DEFAULT_PRIO = 3
  PiPrios = {0}
  Groups = {"back"}
INVARIANTS TypeOK RqConsistent NoRunnableTaskLost PiHonoured
PROPERTIES OnlyWrrMissesPreemption PickHighest RtKeepsItsPlace
