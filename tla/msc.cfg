\* A sound medium, one that fails, lost handshakes and port resets
SPECIFICATION FairSpec
CONSTANTS
  MaxPacket = 2
  BlkSize = 2
  BufLen = 4
  NBlk = 3
  Wrap = 64
  Environments <- SomeEnvironments
INVARIANTS
  RightAnswer
  ResidueTells
  NoOverrun
  FailureIsTold
PROPERTIES
  IsABlockDevice
  GoodCommandsPass
\* The script ends
CHECK_DEADLOCK FALSE
