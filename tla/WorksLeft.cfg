SPECIFICATION DeferredSpec
CONSTANTS
  Restarts = 5
INVARIANTS
  WorksCancelled
CHECK_DEADLOCK FALSE
