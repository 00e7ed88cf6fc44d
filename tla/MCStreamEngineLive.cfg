CONSTANTS
  Ticker = {t1, t2}
  EventTime <- MCFewTimes
  Size = 4
  Slide = 2
  Delay = 1
  BatchSize = 2
  BatchTimeout = 1
  NoWatermark <- MCNoWatermark
  None = None
  MaxRaw = 3
  MaxStageErrors = 0
SPECIFICATION Spec
INVARIANTS
  WindowsAreComplete
PROPERTIES
  OfferedIsHandled
  ImplementsWindowOperator
CHECK_DEADLOCK FALSE
