\* The default data protocol.
SPECIFICATION Spec
CONSTANTS
  Directions = {"to_corelink"}
  Protocols = {"udp"}
  MaxUpdates = 0
  MaxUnknown = 0
  MaxMessages = 1
INVARIANT StreamsAreRegistered
CHECK_DEADLOCK FALSE
