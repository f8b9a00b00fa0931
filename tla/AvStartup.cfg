SPECIFICATION FairSpec
CONSTANTS
  Starts = {0, 2, 7}
  End = 9
  AFrame = 2
  VFrame = 3
  PerPacket = 1
  Skew = 2
  QueueMax <- MCQueueMax
  PcmMax = 1
  PicturesMax = 1
  DecoderDelay = 0
  VideoDecodes = TRUE
  Threshold = 1
  DropThreshold = 5
  Timeout = 1
INVARIANT OneSideDrops
INVARIANT AudioMeetsVideo
PROPERTY BothBegin
CHECK_DEADLOCK FALSE
