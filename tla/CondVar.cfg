CONSTANTS
  t1 = t1
  t2 = t2
  t3 = t3
  v1 = v1
  v2 = v2
  m1 = m1
  Null = Null
  Tasks <- ThreeTasks
  CVs <- TwoCVs
  Mutexes <- OneMutex
  MutexOf <- OneMutexOf
  TimedWaits = FALSE
  MaxCalls <- TwoCalls
SPECIFICATION Spec
CHECK_DEADLOCK FALSE
SYMMETRY Symmetry
INVARIANTS
  NoLostWaiter
  QueuedTasksWait
  NoStaleNotification
PROPERTIES
  ImplementsContract
