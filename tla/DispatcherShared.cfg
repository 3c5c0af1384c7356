\* Two goroutines on one stream, as on the daemon's connection.
SPECIFICATION DispatcherSpec
CONSTANTS
  s1 = s1
  s2 = s2
  w1 = w1
  w2 = w2
  Streams = {s1}
  Writers = {w1, w2}
  StreamOf <- Shared
  Capacity = 2
  MaxCalls = 3
  MaxControl = 1
  None = None
CHECK_DEADLOCK FALSE
INVARIANTS DispatcherTypeOK NothingStranded LostAfterFinal
PROPERTY InOrder
