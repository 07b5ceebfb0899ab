CONSTANTS
  t1 = t1
  t2 = t2
  t3 = t3
  o1 = o1
  o2 = o2
  o3 = o3
  Null = Null
  Words = 2
  Tasks <- ThreeTasks
  Objects <- ThreeObjects
  Address <- Addresses
  LockFree <- ObjectThree
  Prio <- TwoPriorities
  Calls <- SomeCalls
  MaxCalls = 1
SPECIFICATION FairSpec
CHECK_DEADLOCK FALSE
INVARIANTS
  FlagsAreLocks
PROPERTIES
  ImplementsContract
  OperationsReturn
