SPECIFICATION AuditSpec
CONSTANTS
  Capacity = 12
  Levels = {0, 1}
  MaxEntries = 5
INVARIANTS LinesAreWhole
PROPERTIES ImplementsLossyLog
CHECK_DEADLOCK FALSE
