\* Every interleaving of the goroutines of one request, under fair scheduling.
SPECIFICATION FairStreamSpec
CONSTANTS
  MaxFrames = 2
  Capacity = 1
  MaxResume = 1
CHECK_DEADLOCK FALSE
INVARIANTS StreamTypeOK EndedOnce SlotFollowsRequest CleanEndIsDrained
PROPERTY AllOver
