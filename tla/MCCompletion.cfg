SPECIFICATION FairSpec
CONSTANTS
  Threads = {t1, t2, t3}
  Calls = {"plain", "intr_timeout"}
  UINT_MAX = 4
  MaxDone = 4
INVARIANTS NoStrandedWaiter
PROPERTIES ImplementsSemaphore WaiterReturns
