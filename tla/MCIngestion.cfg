CONSTANTS
  Id = {a1, a2}
  EventTime <- MCEventTime
  MaxAge = 3
  ClampAge = 1
  SeenTtl = 6
  MaxSkew = 1
  MaxSweep = 1
  None = None
  MaxTime = 9
  MaxFaults = 2
SPECIFICATION Spec
SYMMETRY IdSymmetry
INVARIANTS
  HandedAtMostOnce
  NoStaleNews
  DisorderIsBounded
