SPECIFICATION FairSpec
CONSTANTS
  Clients = {c1, c2}
  Commands = 2
  IngressRoom = 1
  EgressRoom = 2
  MaxTimeouts = 1
INVARIANT FramesKept
PROPERTIES CommandsFinish OffersEnd
CHECK_DEADLOCK FALSE
