\* Reset of a suspended device
SPECIFICATION Spec
CONSTANTS
  MaxPacket = 2
  MaxTransfers = 4
  MaxResets = 1
  MaxSuspends = 1
  Cancels = FALSE
  ResetSuspended = TRUE
  Requests <- Restless
INVARIANTS
  ResetLeavesDefault
