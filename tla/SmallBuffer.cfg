SPECIFICATION FairSpec
CONSTANTS
  Byte = {0, 1, 2, 3, 4, 5}
  MEM_SIZE = 2
  BUFF_SIZE = 2
  Files <- OneFile
  Readers = {r1}
  ReadSizes = {2}
  Writers = {}
  UserData <- NoData
  WriteFaults = FALSE
  WorkerSignals = FALSE
PROPERTY
  AllDelivered
