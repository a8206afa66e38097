\* Every request, answered
SPECIFICATION FairSpec
CONSTANTS
  MaxPacket = 2
  MaxTransfers = 4
  MaxResets = 0
  MaxSuspends = 1
  Cancels = FALSE
  ResetSuspended = FALSE
  Requests <- Answered
INVARIANTS
  ReadExact
  WriteExact
PROPERTIES
  ControlPipe
