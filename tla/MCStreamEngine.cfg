CONSTANTS
  Ticker = {t1}
  EventTime <- MCEventTime
  Size = 4
  Slide = 2
  Delay = 1
  BatchSize = 2
  BatchTimeout = 1
  NoWatermark <- MCNoWatermark
  None = None
  MaxRaw = 4
  MaxStageErrors = 1
SPECIFICATION Spec
INVARIANTS
  FiresAtMostOnce
  FiresInEventTimeOrder
  NothingDueWhenIdle
  ArticlesAccountedFor
  LatenessTolerance
\* The engine rests when no news is left and no timer is armed.
CHECK_DEADLOCK FALSE
