SPECIFICATION ToolSpec
CONSTANTS
  Backends = {"sdl", "sdl2"}
  FirstSizes = {"stream", "default"}
  FrameSizes = {"stream", "other"}
  Formats = {"yuv420p", "rgb565"}
  FormatVaries = FALSE
  Asked = FALSE
  MaxEvents = 3
  LoopModes = {TRUE, FALSE}
  AoBackends = {"sdl", "sdl2"}
  RingSize = 5
  Unit = 3
  Period = 2
  Content = 8
INVARIANT WindowOutlivesVideo
INVARIANT PictureFits
INVARIANT HeardInOrder
PROPERTY ToolEnds
PROPERTY SoundDrains
CHECK_DEADLOCK FALSE
