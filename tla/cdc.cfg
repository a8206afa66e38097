\* Both directions at once, handshakes lost, port resets
SPECIFICATION FairSpec
CONSTANTS
  MaxPacket = 2
  Environments <- SomeEnvironments
INVARIANTS
  IInv
  GetsInOrder
  TakesWhole
PROPERTIES
  AllArrives
