SPECIFICATION UdpFairSpec
CONSTANTS
  MaxDatagrams = 3
CHECK_DEADLOCK FALSE
PROPERTIES
  PassedOnOrWaiting
