SPECIFICATION CaptureFairSpec
CONSTANTS
  WindowSize = 2
  SendCap = 2
  RecvCap = 4
  MaxCalls = 3
  MaxSound = 7
CHECK_DEADLOCK FALSE
INVARIANTS
  CallbackSafe
PROPERTIES
  SoundInOrder
  CameraReleased
