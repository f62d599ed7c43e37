CONSTANTS
  Sleeps = {s1, s2}
  NoSlot = NoSlot
  MaxTime = 2
  MaxSlots = 3
SPECIFICATION FairSpec
INVARIANTS NeverEarly WakeAtCoversEarliest
PROPERTIES SleepEnds
