SPECIFICATION ClockSpec
CONSTANTS
  FreqMs = 2
  Threshold = 1
  ThresholdMax = 2
  Discontinue = 11
  MaxAge = 30
  Content = 7
  First = 28
  Far = 60
  Interval = 2
  Cut = 1
  Jumps <- MCJumps
PROPERTY NotAhead
PROPERTY TimeIsContent
PROPERTY PicturesEnd
PROPERTY SyncRestored
CHECK_DEADLOCK FALSE
