CONSTANTS
  t1 = t1
  t2 = t2
  t3 = t3
  a1 = a1
  a2 = a2
  Null = Null
  Threads <- ThreeThreads
  Addrs <- TwoAddrs
  MaxElements = 2
  Reenter = TRUE
SPECIFICATION FairSpec
CHECK_DEADLOCK FALSE
INVARIANTS
  CallbacksRunBeforeJoin
  RunsOwnCallbacks
PROPERTIES
  ExitsComplete
