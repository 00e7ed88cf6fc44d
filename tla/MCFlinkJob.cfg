CONSTANTS
  Ticker = {t1}
  EventTime <- MCEventTime
  Size = 4
  Slide = 2
  Delay = 1
  BatchSize = 2
  BatchTimeout = 1
  NoWatermark <- MCNoWatermark
  None = None
  MaxRaw = 3
  MaxTime = 1
  MaxRestarts = 1
SPECIFICATION Spec
INVARIANTS
  BufferHasTimer
  ConsumedOnceInOrder
PROPERTIES
  AttemptIsWindowOperator
  ReadIsFlushed
CHECK_DEADLOCK FALSE
