CONSTANTS
  f1 = f1
  f2 = f2
  f3 = f3
  A = A
  B = B
  T = T
  Futures = {f1, f2, f3}
  Tasks = {A, B}
  TaskOf <- MCTaskOf
  NoopTasks = {}
  NoTask = NoTask
  NoSlot = NoSlot
  NoResult = NoResult
  MaxPending = 1
  BufferLimit = 0
  GenMax = 3
  MaxOps = 3
  MaxWakers = 4
SPECIFICATION FairSpec
PROPERTIES
  BlockedSubmits
CHECK_DEADLOCK FALSE
