CONSTANTS
  Ticker = {t1, t2}
  EventTime <- MCEventTime
  Size = 4
  Slide = 1
  Delay = 1
  BatchSize = 2
  BatchTimeout = 0
  NoWatermark <- MCNoWatermark
  None = None
  MaxRaw = 5
  MaxStageErrors = 0
  Id = {a1}
  FeedDate <- MCFeedDate
  MaxAge = 4
  ClampAge = 3
  SeenTtl = 7
  MaxSkew = 1
  MaxSweep = 1
  MaxClaiming = 1
  News = t1
  Simulated = t1
  FillerTicker = t2
  Margin = 0
  SlotTtl = 2
  BusMax = 2
  MaxTime = 2
  MaxFaults = 1
  MaxSims = 2
SPECIFICATION NodeSpec
INVARIANTS
  ClaimedIsInOnePlace
  NewsIsOnTime
  SimulationFires
