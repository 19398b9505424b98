SPECIFICATION Spec
CONSTANTS
  loop = loop  p1 = p1  p2 = p2
  Posters <- Tasks
  LoopTask = loop
  queue_size = 2
  UINT64_MAX = 7
  MaxPosts = 4
  MaxRuns = 2
CHECK_DEADLOCK FALSE
INVARIANTS AssertionsHold
