CONSTANTS
  c1 = c1
  c2 = c2
  o1 = o1
  o2 = o2
  t1 = t1
  t2 = t2
  t3 = t3
  a1 = a1
  a2 = a2
  e1 = e1
  e2 = e2
  Null = Null
  Clients <- OneClient
  Objects <- TwoObjects
  Threads <- TwoThreads
  TaskAddr <- TwoTasks
  EvAddr <- TwoGroups
  AddressReuse = FALSE
  Urgent <- UrgentThread
SPECIFICATION FairSpec
CHECK_DEADLOCK FALSE
PROPERTIES
  CallsComplete
  JoinsComplete
  TasksReclaimed
