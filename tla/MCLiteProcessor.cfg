CONSTANTS
  Ticker = {}
  EventTime <- MCEventTime
  Size = 4
  Slide = 2
  Delay = 1
  BatchSize = 2
  BatchTimeout = 1
  NoWatermark <- MCNoWatermark
  None = None
  MaxRaw = 4
  MaxStageErrors = 0
  MaxPoll = 3
  MaxExits = 2
SPECIFICATION ProcSpec
INVARIANTS
  ProcTypeOK
  NoLossOnceCommitted
  CommittedIsEnriched
PROPERTIES
  OffsetMonotone
  FetchedIsEnriched
