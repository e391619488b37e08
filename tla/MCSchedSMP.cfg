SPECIFICATION Spec
CONSTANTS
  t1 = t1
  t2 = t2
  t3 = t3
  Cpus = {c1, c2}
  Tasks = {t1, t2, t3}
  Prio <- Priorities
  Idle = idle
  Stop = stop
  Waiting = {t2}
  Exiting = {t2}
  Masks <- AnyMask
  MaxMasks = 1
  MaxWakers = 2
SYMMETRY Symmetry
INVARIANTS OneCpuAtATime NoLostWakeup DeadPutOnce OnlyWakeListStrays NoTaskLeftBehind
CHECK_DEADLOCK FALSE
