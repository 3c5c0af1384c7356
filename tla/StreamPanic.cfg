\* A frame sent on a closed channel.
SPECIFICATION StreamSpec
CONSTANTS
  MaxFrames = 2
  Capacity = 1
  MaxResume = 2
CHECK_DEADLOCK FALSE
INVARIANT NoPanic
