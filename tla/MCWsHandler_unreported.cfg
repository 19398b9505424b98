SPECIFICATION FairSpec
CONSTANTS
  Ws = Ws  w1 = w1  w2 = w2
  Watchers = {Ws, w1, w2}
  WillSelects = {Ws, w1}
  WatchFor <- WatchesFor
  FdOf <- Descriptors
  Early <- FirstAdded
  MaxRuns = 1
  MaxReads = 1
  MaxBuffered = 1
  MaxMessages = 1
  MaxFrames = 2
CHECK_DEADLOCK FALSE
PROPERTIES MessageReported
