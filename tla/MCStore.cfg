CONSTANTS
  Thread = {w1, w2}
  NewId = {n1}
  Email = {e1, e3}
  Ticker = {t1, t2}
  Legacy <- MCLegacy
  None = None
  MaxRequests = 2
  MaxRuns = 2
  u1 = u1
  u2 = u2
  u3 = u3
  e1 = e1
  e2 = e2
  e3 = e3
  t1 = t1
  t2 = t2
  d1 = d1
SPECIFICATION Spec
SYMMETRY Symmetry
INVARIANTS
  ListWasAsked
PROPERTIES
  LandsCompletelyOrNotAtAll
CHECK_DEADLOCK FALSE
