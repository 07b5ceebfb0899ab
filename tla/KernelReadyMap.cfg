CONSTANTS
  high = high
  mid = mid
  low = low
  idle = idle
  daemon = daemon
  None = None
  Tasks <- TheTasks
  Idle = idle
  Daemon = daemon
  TimerQueue = "timers"
  TimerHandles <- TheTimers
  Streams <- TheStreams
  TopPriority = 3
  TickCount = 8
  PerSecond = 2
  Fine = 2
  InitialTick = 6
  EventLists <- TheEventLists
  Objects <- TheObjects
  Items <- TheItems
  Groups <- TheGroups
  Programs <- OnlyStaleBit
SPECIFICATION SystemSpec
CHECK_DEADLOCK FALSE
INVARIANTS
  AssertionsHold
