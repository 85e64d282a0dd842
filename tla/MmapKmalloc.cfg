SPECIFICATION MmapSpec
CONSTANTS
  NPAGES = 2
  Procs = {p1, p2}
  MaxLoads = 2
INVARIANT KmallocRight
CHECK_DEADLOCK FALSE
