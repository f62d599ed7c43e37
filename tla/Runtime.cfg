CONSTANTS
  MaxCommands = 2
  MaxTasks = 3
  MaxOps = 2
  MaxWaits = 2
  MaxSteps = 2
SPECIFICATION FairSpec
INVARIANTS StatusIsTrue
PROPERTIES ExitIsLast CommandsEnd EofIsFinal
CHECK_DEADLOCK FALSE
