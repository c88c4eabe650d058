SPECIFICATION FairSpec
CONSTANTS
  Tokens = {1, 2}
  MaxTries = 3
CHECK_DEADLOCK FALSE
INVARIANTS
  SharedToken
  ReadyIsReachable
PROPERTIES
  ClientsGetReady
  PhoneRegisters
