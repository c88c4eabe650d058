SPECIFICATION FairSpec
CONSTANTS
  MaxInFlight = 1
  MaxClicks = 2
  Outages = {"phone", "robot"}
  MaxDown = 1
PROPERTIES
  PhoneNotLeftAlone
  RobotNotLeftAlone
  
