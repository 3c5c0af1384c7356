\* Fair goroutines: turns in order, accepted messages are sent, finished streams freed, writers released.
SPECIFICATION FairDispatcherSpec
CONSTANTS
  s1 = s1
  s2 = s2
  w1 = w1
  w2 = w2
  Streams = {s1, s2}
  Writers = {w1, w2}
  StreamOf <- OneEach
  Capacity = 1
  MaxCalls = 2
  MaxControl = 1
  None = None
CHECK_DEADLOCK FALSE
INVARIANT RoundRobin
PROPERTIES EventuallySent StreamFreed CloseReleases
