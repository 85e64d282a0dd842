SPECIFICATION FairPairSpec
CONSTANTS
  MaxPresses = 3
  MaxWrites = 1
  Written = {0, 7}
  Times = 2
  MaxIoLoads = 1
INVARIANTS
  LatestPrinted
  ExitClean
  ButtonOwned
PROPERTIES
  PressPrinted
CHECK_DEADLOCK FALSE
