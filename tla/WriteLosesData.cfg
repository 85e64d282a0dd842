SPECIFICATION Spec
CONSTANTS
  Byte = {0, 1, 2, 3, 4, 5, 6, 7, 8}
  MEM_SIZE = 2
  BUFF_SIZE = 3
  Files <- NoFiles
  Readers = {r1}
  ReadSizes = {2}
  Writers = {w1}
  UserData <- WriteData
  WriteFaults = FALSE
  WorkerSignals = FALSE
INVARIANT
  RingHoldsUnread
