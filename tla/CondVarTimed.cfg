CONSTANTS
  t1 = t1
  t2 = t2
  t3 = t3
  v1 = v1
  v2 = v2
  m1 = m1
  Null = Null
  Tasks <- ThreeTasks
  CVs <- OneCV
  Mutexes <- OneMutex
  MutexOf <- OneMutexOf
  TimedWaits = TRUE
  MaxCalls <- FewCalls
SPECIFICATION FairSpec
CHECK_DEADLOCK FALSE
PROPERTIES
  NotifiersReturn
  WaitersReturn
