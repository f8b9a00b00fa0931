SPECIFICATION FairSpec
CONSTANTS
  io1 = io1
  io2 = io2
  audio = audio
  key = key
  NoPacket = NoPacket
  IoThread = {io1, io2}
  Packet = {audio, key}
  KeyFrame = {key}
  Prompt = TRUE
  Network = FALSE
  Settings <- LoopSettings
PROPERTY StopEnds
CHECK_DEADLOCK FALSE
