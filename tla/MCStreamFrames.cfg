\* TCP and websockets. The MTU lets a packet through whose data a size field
\* cannot hold, and one size is above the MTU. Reads and writes cut anywhere.
SPECIFICATION FairSpec
CONSTANTS
  HeaderLen = 2
  FieldLimit = 2
  MaxTxUnit = 4
  HeaderSizes = {0, 1}
  DataSizes = {0, 1, 2}
  Multipart = {TRUE, FALSE}
  MaxPackets = 2
  PartialWrites = TRUE
  ConnectionFails = TRUE
INVARIANTS
  TypeOK
  DeliveredInOrder
  NothingHeldBack
  SpoiltAlone
  NoByteTwice
PROPERTIES
  StreamSpec
  EveryPacketArrives
CHECK_DEADLOCK FALSE
