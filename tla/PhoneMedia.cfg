SPECIFICATION PhoneFairSpec
CONSTANTS
  MaxUser = 2
  MaxRobot = 2
CHECK_DEADLOCK FALSE
INVARIANTS
  OneMicrophone
  VerdictIsOurs
PROPERTIES
  MainGetsOn
  MediaStops
  MediaStarts
