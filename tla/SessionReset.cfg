SPECIFICATION FairSpec
CONSTANTS
  WindowSize = 2
  StampMod = 5
  MaxRestarts = 2
  MaxSpurious = 1
CHECK_DEADLOCK FALSE
INVARIANTS
  CleanIsLossless
PROPERTIES
  VideoComesBack
