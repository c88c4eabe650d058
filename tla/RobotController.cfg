SPECIFICATION FairSpec
CONSTANTS
  UserAngles <- Thresholds
  Commands = {0, 1, 26, 30, 31}
  Durations = {4}
  PulseLimit = 5
  MaxMoves = 1
INVARIANTS
  FacingIsStill
  OnePulse
PROPERTIES
  FacesUser
