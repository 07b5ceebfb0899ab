CONSTANTS
  t1 = t1
  t2 = t2
  t3 = t3
  f1 = f1
  f2 = f2
  Null = Null
  Tasks <- ThreeTasks
  Flags <- TwoFlags
  Inner <- OneInner
  MaxCalls = 2
SPECIFICATION FairSpec
CHECK_DEADLOCK FALSE
INVARIANTS
  RunsOwnCallable
PROPERTIES
  ImplementsContract
  CallsReturn
