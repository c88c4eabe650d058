SPECIFICATION FairSpec
CONSTANTS
  WindowSize = 2
  StampMod = 7
  Lifetime = 2
  MaxFrame = 8
CHECK_DEADLOCK FALSE
INVARIANTS
  LinkInv
  ForgottenIsDelivered
  NoAliasing
PROPERTIES
  Delivery
  EveryFrameArrives
