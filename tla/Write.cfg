SPECIFICATION FairSpec
CONSTANTS
  Byte = {0, 1, 2, 3, 4, 5, 6}
  MEM_SIZE = 2
  BUFF_SIZE = 3
  Files <- ShortFile
  Readers = {r1}
  ReadSizes = {1, 2}
  Writers = {w1, w2}
  UserData <- TwoWrites
  WriteFaults = TRUE
  WorkerSignals = TRUE
INVARIANTS
  GotInOrder
PROPERTIES
  MutexReleased
