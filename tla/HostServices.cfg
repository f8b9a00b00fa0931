SPECIFICATION Spec
CONSTANTS
  PcmRing = 1
  MaxCommands = 2
  PictureQueue = 1
  SubQueue = 1
  Files <- MCFiles
  MayFail <- MCMayFail
INVARIANT LivesNest
INVARIANT InStep
INVARIANT PauseIsPrompt
PROPERTY StopEnds
CHECK_DEADLOCK FALSE
