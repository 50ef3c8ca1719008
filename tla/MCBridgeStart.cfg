\* Both directions and the three protocols.
SPECIFICATION FairSpec
CONSTANTS
  Directions = {"to_corelink", "from_corelink"}
  Protocols = {"udp", "tcp", "websocket"}
  MaxUpdates = 2
  MaxUnknown = 1
  MaxMessages = 2
INVARIANTS
  TypeOK
  SetUpInOrder
  WebsocketStreamsAreRegistered
PROPERTY SetupSettles
CHECK_DEADLOCK FALSE
