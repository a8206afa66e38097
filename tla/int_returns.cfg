\* Bounded waits, a line fault, one try
SPECIFICATION FairSpec
CONSTANTS
  Plans <- OneRound
  MaxTries = 0
  MaxFaults = 1
  Timeouts = TRUE
  ResetOnError = TRUE
  SlaveFirst = FALSE
  Prompt = TRUE
PROPERTIES
  EveryCallReturns
