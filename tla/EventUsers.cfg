SPECIFICATION FairSpec
CONSTANTS
  app = app
  loop = loop
  aud1 = aud1
  aud2 = aud2
  ply = ply
  PLAYER = PLAYER
  AUDIO = AUDIO
  aStart = aStart
  aStop = aStop
  pPause = pPause
  pSeek = pSeek
  pStop = pStop
  Transport = Transport
  None = None
  Client = {app, loop}
  Service = {aud1, aud2, ply}
  Id = {PLAYER, AUDIO}
  Event = {aStart, aStop, pPause, pSeek, pStop}
  Sync = {pSeek}
  IdOf <- MCIdOf
  Dest <- MCDest
  Senders <- MCSenders
  Releaser = loop
  Restarts = {AUDIO}
  Conducts <- MCConducts
INVARIANT EventsKept
INVARIANT HubOrder
INVARIANT NoDanglingPointer
PROPERTY AllDelivered
PROPERTY ReleaseEnds
CHECK_DEADLOCK FALSE
