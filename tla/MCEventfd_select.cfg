SPECIFICATION FairSpec
CONSTANTS
  t1 = t1  t2 = t2  t3 = t3
  e1 = e1  e2 = e2
  f1 = f1  f2 = f2
  Tasks = {t1, t2, t3}
  Efds = {e1, e2}
  Fds = {f1, f2}
  NoTask = NoTask  NoEfd = NoEfd  NoFd = NoFd
  MAX_NUM_EVENTFD = 2
  MaxValue = 3
  Does <- DoesSelect
  MaxCalls = 2
  Adds = {1, 2}
  SelectSets <- WatchAll
  InitTable <- TwoOpen
  InitNonblock = {e1, e2}
  CreateFlags = {TRUE}
  TimerQueueMayFill = FALSE
CHECK_DEADLOCK FALSE
INVARIANTS NoLostSelectWakeup OnlyActiveSelect
PROPERTIES ReportedReadable SelectWakesUp
