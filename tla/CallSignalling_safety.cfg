SPECIFICATION Spec
CONSTANTS
  MaxInFlight = 1
  MaxClicks = 3
  Outages = {"robot"}
  MaxDown = 1
INVARIANTS
  MediaOnlyInCall
  CallHasMedia
