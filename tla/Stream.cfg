SPECIFICATION FairSpec
CONSTANTS
  Byte = {0, 1, 2, 3, 4, 5}
  MEM_SIZE = 2
  BUFF_SIZE = 4
  Files <- OneFile
  Readers = {r1, r2}
  ReadSizes = {1, 3}
  Writers = {}
  UserData <- NoData
  WriteFaults = FALSE
  WorkerSignals = FALSE
INVARIANTS
  TypeOK
  MutexInv
  RingHoldsUnread
  NoLostWakeup
  Handshake
  PrefixDelivered
PROPERTIES
  ImplementsChannel
  AllDelivered
