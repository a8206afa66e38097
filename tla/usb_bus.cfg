\* Resets, suspends and wake-ups, and a host that may give up
SPECIFICATION FairSpec
CONSTANTS
  MaxPacket = 2
  MaxTransfers = 4
  MaxResets = 2
  MaxSuspends = 2
  Cancels = TRUE
  ResetSuspended = FALSE
  Requests <- Unruly
INVARIANTS
  CoreInv
  HostAgrees
PROPERTIES
  AddressTakenLate
  ControlPipe
