CONSTANTS
  f1 = f1
  f2 = f2
  f3 = f3
  A = A
  B = B
  T = T
  Futures = {f1, f2}
  Tasks = {A, T}
  TaskOf <- MCTimerTaskOf
  NoopTasks = {T}
  NoTask = NoTask
  NoSlot = NoSlot
  NoResult = NoResult
  MaxPending = 2
  BufferLimit = 1
  GenMax = 3
  MaxOps = 3
  MaxWakers = 3
SPECIFICATION FairSpec
INVARIANTS TypeOK AnswersMatch SlotAccounting BlockedIsRegistered
PROPERTIES OperationsEnd TakenInOrderAndWanted
CHECK_DEADLOCK FALSE
