SPECIFICATION UpFairSpec
CONSTANTS
  WindowSize = 2
  StampMod = 7
  Lifetime = 2
  MaxFrame = 8
CHECK_DEADLOCK FALSE
INVARIANTS
  IdleCountExact
  UplinkNoAliasing
PROPERTIES
  Delivery
  CameraNeverStuck
