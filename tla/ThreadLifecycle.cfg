CONSTANTS
  c1 = c1
  c2 = c2
  o1 = o1
  o2 = o2
  t1 = t1
  t2 = t2
  t3 = t3
  a1 = a1
  a2 = a2
  e1 = e1
  e2 = e2
  Null = Null
  Clients <- TwoClients
  Objects <- TwoObjects
  Threads <- ThreeThreads
  TaskAddr <- TwoTasks
  EvAddr <- TwoGroups
  AddressReuse = FALSE
  Urgent <- NoThread
SPECIFICATION Spec
CHECK_DEADLOCK FALSE
SYMMETRY Symmetry
INVARIANTS
  NoThreadKilled
  EventsReachOwnGroup
  SoleOwner
  NoGroupLeaks
PROPERTIES
  ImplementsContract
