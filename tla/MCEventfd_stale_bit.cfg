SPECIFICATION FairSpec
CONSTANTS
  t1 = t1  t2 = t2  t3 = t3
  e1 = e1  e2 = e2
  f1 = f1  f2 = f2
  Tasks = {t1, t2, t3}
  Efds = {e1, e2}
  Fds = {f1, f2}
  NoTask = NoTask  NoEfd = NoEfd  NoFd = NoFd
  MAX_NUM_EVENTFD = 1
  MaxValue = 3
  Does <- DoesReading
  MaxCalls = 3
  Adds = {1}
  SelectSets <- NoSelects
  InitTable <- OneOpen
  InitNonblock = {}
  CreateFlags = {TRUE, FALSE}
  TimerQueueMayFill = FALSE
CHECK_DEADLOCK FALSE
PROPERTIES BitAnnouncesValue
