SPECIFICATION FairSpec
CONSTANTS
  Allocated = {1, 2, 5}
  Times = 15
  IrqTimes = 6
  Restarts = 5
  TimerRestarts = 5
  NPAGES = 2
  Procs = {p1, p2}
  MaxLoads = 2
  Threads = 3
  Modulus = 3
  Byte = {0, 1, 2}
  MEM_SIZE = 5
  MSG = 4
  WORD = 2
  MaxRuns = 2
  MaxBinds = 2
INVARIANTS
  Fifo
  NoneLost
  WorkServesAll
  VmallocRight
  NoPageAfterFree
  LeavesNothing
  NoIncrementLost
  AllStopped
  MessageIntact
  NoWorkOnFreedDevice
PROPERTIES
  RmmodReturns
  BothDirectionsGoOn
CHECK_DEADLOCK FALSE
