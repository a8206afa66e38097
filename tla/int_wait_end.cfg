\* i2c_wait_end's parameter timeout: maximum waiting time
SPECIFICATION FairSpec
CONSTANTS
  Plans <- LongWrite
  MaxTries = 0
  MaxFaults = 0
  Timeouts = TRUE
  ResetOnError = TRUE
  SlaveFirst = TRUE
  Prompt = TRUE
PROPERTIES
  WaitEndReturns
\* The stalled handler is the point
CHECK_DEADLOCK FALSE
