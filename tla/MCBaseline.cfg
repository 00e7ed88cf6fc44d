SPECIFICATION Spec
CONSTANTS
  Score = {1, 2}
  Percentile = 75
  MinSamples = 2
  MinMentions = 2
  Trail = 3
  Ahead = 1
  NoWindow = NoWindow
  MaxTime = 4
  MaxSamples = 3
  MaxSeed = 2
INVARIANTS VerdictIsPercentile BaselineIsTrailingWindow
CHECK_DEADLOCK FALSE
