SPECIFICATION DownSpec
CONSTANTS
  WindowSize = 3
  StampMod = 9
  Lifetime = 1
  MaxFrame = 10
CONSTRAINT DownBufferBound
CHECK_DEADLOCK FALSE
INVARIANTS
  InOrderIsLossless
PROPERTIES
  RobotAtMostOnce
