\* A master that calls before the slave listens, is refused and tries again
\* as it is, without i2c_config: what a refused call leaves in the registers
\* of either side meets the next one
SPECIFICATION Spec
CONSTANTS
  Plans <- TwoRounds
  MaxTries = 2
  MaxFaults = 0
  Timeouts = FALSE
  ResetOnError = FALSE
  SlaveFirst = FALSE
  Prompt = TRUE
INVARIANTS
  ReceivedIntact
  ReadClocksExactly
\* The slave's ACKEN outlives its call: the next address is acknowledged early
\* and the slave's next call waits for the BUSYF that its own peripheral keeps
CHECK_DEADLOCK FALSE
