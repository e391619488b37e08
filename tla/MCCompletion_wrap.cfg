SPECIFICATION Spec
CONSTANTS
  Threads = {t1, t2}
  Calls = {"plain", "intr_timeout"}
  UINT_MAX = 65535
  MaxDone = 70000
INVARIANT AllReleased
