SPECIFICATION MCSpec
CONSTANTS
  Plugin <- MCPlugin
  Null = Null
  Internal <- MCInternal
  Handles <- MCHandles
  Job <- MCJobs
  External <- MCExternal
  MaxSessions = 4
  ReadOnce = 2
  ProbeSize = 5
  RetryFirst = 3
  RetryAfter = 2
  AacNeeds = 3
INVARIANT ProbeIsHead
INVARIANT PlaysWhatWasChosen
INVARIANT NothingLeftOpen
INVARIANT PluginsStay
CHECK_DEADLOCK FALSE
