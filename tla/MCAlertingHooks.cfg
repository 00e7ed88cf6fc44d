SPECIFICATION Spec
CONSTANTS
  User = {u}
  Guest = {}
  Ticker = {"TSLA"}
  Hook = {h1, h2}
  None = None
  SubTtl = 2
  Cooldown = 1
  SharedCache = FALSE
  MaxTime = 2
  MaxAlerts = 2
  MaxRequests = 4
  MaxFaults = 1
SYMMETRY Symmetry
CHECK_DEADLOCK FALSE
INVARIANTS
  OnlyTestedHooksArePosted
  FailedHookIsLeftAlone
