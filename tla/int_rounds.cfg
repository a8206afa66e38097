\* Two rounds, a sound line, the slave listening before the master calls
SPECIFICATION FairSpec
CONSTANTS
  Plans <- TwoRounds
  MaxTries = 0
  MaxFaults = 0
  Timeouts = FALSE
  ResetOnError = TRUE
  SlaveFirst = TRUE
  Prompt = TRUE
INVARIANTS
  MatchedInv
PROPERTIES
  StopAfterLastByte
  ReliableTransfer
