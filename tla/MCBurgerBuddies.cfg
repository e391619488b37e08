SPECIFICATION BBFairSpec
CONSTANTS
  Cooks = {k1, k2}
  Cashiers = {s1, s2}
  Customers = {c1, c2}
  rack_num = 2
INVARIANTS Consistent LastCustomerEndsMain
PROPERTIES EveryoneServed MainReturns
CHECK_DEADLOCK FALSE
