CONSTANTS
  MaxTasks = 3
  MaxReady = 2
  NoTask = NoTask
  NoWaker = NoWaker
SPECIFICATION FairSpec
INVARIANTS TypeOK TreeConsistent ResultIffGone WaiterIsWoken
PROPERTIES NoChildOutlivesParent WokenIsPolled
