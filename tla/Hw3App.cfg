SPECIFICATION AppSpec
CONSTANTS
  Users = {u1}
  MaxEdges = 4
  COUNT = 3
INVARIANTS
  NoLostWakeup
  LatestDelivered
  LedMatches
  AppLedMatches
  TogglePerRelease
CHECK_DEADLOCK FALSE
