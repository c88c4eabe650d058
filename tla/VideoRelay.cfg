SPECIFICATION FairSpec
CONSTANTS
  WindowSize = 2
  MaxFrame <- Frames
CHECK_DEADLOCK FALSE
INVARIANTS
  ForgottenIsAccountedFor
PROPERTIES
  EveryFrameResolved
  ResendNeverStops
