SPECIFICATION SequentialSpec
CONSTANTS
  Byte = {a, b}
  Size = 3
  Chunks <- MCChunks
  Requests <- MCRequests
  Node = {n1, n2, n3, n4, n5}
  Item = {p, q}
  Caller = {decoder, output}
  Depth = {0, 2, 3, 4, 6}
  None = None
  Pieces <- MCPieces
  Timestamps <- MCTimestamps
  Rate = 2
  Many = 2
  Videos <- MCVideos
  Delay = 1
  Untimed = {{}}
  Every = 4
  DurInc = 4
  Audios <- MCAudios
  UntimedPackets = {{}}
  PcmSize = 5
  HalfSecond = 6
  UnitSize = 2
  DeviceSize = 3
  Subjects = {"ring", "list", "aac", "video", "audio"}
PROPERTY ImplementsFifo
PROPERTY DequeButForLast
PROPERTY EveryFrameOnce
INVARIANT PicturesInOrder
INVARIANT SoundTimed
SYMMETRY MCNodes
CHECK_DEADLOCK FALSE
