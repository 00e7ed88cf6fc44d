SPECIFICATION Spec
CONSTANTS
  User = {u, g}
  Guest = {g}
  Ticker = {"TSLA"}
  Hook = {}
  None = None
  SubTtl = 2
  Cooldown = 2
  SharedCache = TRUE
  MaxTime = 3
  MaxAlerts = 2
  MaxRequests = 3
  MaxFaults = 1
CHECK_DEADLOCK FALSE
INVARIANTS
  LiveAlertsAreSpaced
  LongStandingAreServed
