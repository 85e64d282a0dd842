SPECIFICATION Spec
CONSTANTS
  MaxPresses = 1
  MaxWrites = 0
  Written = {}
INVARIANTS
  PressesCounted
CHECK_DEADLOCK FALSE
