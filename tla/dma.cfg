SPECIFICATION DmaFairSpec
CONSTANTS
  Scenarios <- SomeScenarios
  NReg = 4
INVARIANTS
  DmaCountsHold
  ReceivedIntact
  NothingMisplaced
  EndQuiesces
PROPERTIES
  ReliableDma
  EveryCallReturns
CHECK_DEADLOCK FALSE
