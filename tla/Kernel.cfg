CONSTANTS
  high = high
  mid = mid
  low = low
  idle = idle
  daemon = daemon
  None = None
  Tasks <- TheTasks
  Idle = idle
  Daemon = daemon
  TimerQueue = "timers"
  TimerHandles <- TheTimers
  Streams <- TheStreams
  TopPriority = 3
  TickCount = 8
  PerSecond = 2
  Fine = 2
  InitialTick = 5
  EventLists <- TheEventLists
  Objects <- TheObjects
  Items <- TheItems
  Groups <- TheGroups
  Programs <- TestPrograms
SPECIFICATION FairSystemSpec
CHECK_DEADLOCK FALSE
INVARIANTS
  ListsAgree
  HighestPriorityRuns
  NoLostWakeup
  PriorityIsInherited
  WaitsAreExact
  BitsDelivered
  GroupUsesAreLive
  StreamsDeliver
  StreamWaitersWake
  TimersAreExact
  DeadlinesAreKept
PROPERTIES
  ImplementsContract
  ProgramsFinish
