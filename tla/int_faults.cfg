\* Any two sizes, timeouts, a line fault, a reset and a second try
SPECIFICATION Spec
CONSTANTS
  Plans <- AnySizes
  MaxTries = 1
  MaxFaults = 1
  Timeouts = TRUE
  ResetOnError = TRUE
  SlaveFirst = FALSE
  Prompt = TRUE
INVARIANTS
  IInv
  BufferBounds
  EndQuiesces
  NoMixedBuffer
\* A handler whose request nothing clears runs for ever (int_wait_end)
CHECK_DEADLOCK FALSE
