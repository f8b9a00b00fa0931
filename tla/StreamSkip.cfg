SPECIFICATION DataPathSpec
CONSTANTS
  NoPacket = NoPacket
  Media = {"audio", "video", "sub"}
  Stream = {"audio", "video"}
  Total <- MCTotal
  Skew = 2
  Size <- MCSize
  MaxNum <- MCMaxNum
  MaxSize <- MCMaxSize
  Enter <- MCEnter
  Exit <- MCExit
  Ahead = 2
  Network = TRUE
  MaxSeeks = 1
  Length = 8
  CacheSize = 5
  FixPre = 1
  ReadPerTime = 2
  MaxRead = 3
  IntMax = 6
  MaxCacheSeeks = 1
  Prompt = TRUE
  Buffers = {"bytes"}
INVARIANT SkipsFromHere
CHECK_DEADLOCK FALSE
