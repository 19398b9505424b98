SPECIFICATION FairSpec
CONSTANTS
  loop = loop  p1 = p1  p2 = p2
  Posters <- Tasks
  LoopTask = loop
  queue_size = 3
  UINT64_MAX = 7
  MaxPosts = 6
  MaxRuns = 1
CHECK_DEADLOCK FALSE
INVARIANTS TypeOK AssertionsHold WakeCountsEvents NoStarvation
PROPERTIES EventsDelivered ImplementsMailbox
