SPECIFICATION FairSpec
CONSTANTS
  Scenarios <- SomeScenarios
  NReg = 4
INVARIANTS
  CountsHold
  ReceivedIntact
  StopHasFrame
  NothingLeftBehind
  NothingMisplaced
PROPERTIES
  ReliableTransfer
  EveryCallReturns
CHECK_DEADLOCK FALSE
