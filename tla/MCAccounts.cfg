SPECIFICATION Spec
CONSTANTS
  Thread = {w1, w2}
  Ip = {i1, i2}
  Email = {e1, e2}
  Registered = {}
  None = None
  CountOf <- MCCountOf
  WindowOf <- MCWindowOf
  GuestAge = 4
  MaxDelay = 1
  MaxTime = 5
  MaxRequests = 3
  MaxFaults = 1
SYMMETRY Symmetry
CHECK_DEADLOCK FALSE
INVARIANTS
  TypeOK
  AccountsWithinBudget
  BudgetIsShared
  RefusalsAreDeserved
  SimulationsAreSpaced
  RepeatClicksReuse
