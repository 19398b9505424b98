SPECIFICATION FairSpec
CONSTANTS
  Ws = Ws  w1 = w1  w2 = w2
  Watchers = {Ws, w1, w2}
  WillSelects = {Ws, w1}
  WatchFor <- WatchesFor
  FdOf <- Descriptors
  Early <- FirstAdded
  MaxRuns = 2
  MaxReads = 2
  MaxBuffered = 1
  MaxMessages = 2
  MaxFrames = 2
CHECK_DEADLOCK FALSE
INVARIANTS TypeOK CallbackWanted ClosesOnce MessagesInOrder SentReported ClosedIsQuiet
PROPERTIES StopsPromptly ClosedOnce ClosedReported
