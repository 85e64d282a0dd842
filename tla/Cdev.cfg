SPECIFICATION Spec
CONSTANTS
  DUMMY_DEVICES = 2
  Handles = {f1, f2}
  MaxProbe = 3
  HZ = 100
  Intervals = {0, 10, 15, 10000, 10001}
  PhysMemSize = 1
  MapSizes = {0, 1, 2}
INVARIANTS
  NoStaleDevice
  RightDevice
  NodesServed
