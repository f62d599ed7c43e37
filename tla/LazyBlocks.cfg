SPECIFICATION FairSpec
CONSTANTS
  BlockNums = {0, 1, 2}
  InFile = {0, 1}
  MaxBlocks = 1
  Handles = {h1, h2}
  MaxReads = 4
  MaxFailures = 1
INVARIANTS TypeOK ReadIsTrue OneFetchPerBlock WaiterIsRegistered
PROPERTIES OnlyAbandonedFetchHangs
CHECK_DEADLOCK FALSE
