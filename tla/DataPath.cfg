SPECIFICATION DataPathSpec
CONSTANTS
  NoPacket = NoPacket
  Media = {"audio", "video", "sub"}
  Stream = {"audio", "video"}
  Total <- MCTotal
  Skew = 2
  Size <- MCSize
  MaxNum <- MCMaxNum
  MaxSize <- MCMaxSize
  Enter <- MCEnter
  Exit <- MCExit
  Ahead = 2
  Network = TRUE
  MaxSeeks = 1
  Length = 8
  CacheSize = 6
  FixPre = 2
  ReadPerTime = 2
  MaxRead = 3
  IntMax = 7
  MaxCacheSeeks = 2
  Prompt = TRUE
  Buffers = {"packets", "bytes"}
INVARIANT InOrder
INVARIANT CacheHoldsFile
PROPERTY PlaysToEnd
PROPERTY Refills
CHECK_DEADLOCK FALSE
