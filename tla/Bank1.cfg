SPECIFICATION MCSpec
CONSTANTS
  Leds = {usr0, led}
  OnChip = {usr0}
  Setters = {user, trigger}
  Trigger = trigger
  Platform = TRUE
  Texts = {"-1", "0", "1", "x"}
  MaxLoads = 2
INVARIANTS
  LedShowsBrightness
  
  NoCodeAfterExit
  
PROPERTIES
  LedFollowsButton
CHECK_DEADLOCK FALSE
