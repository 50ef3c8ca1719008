\* TCP, with reads of any length.
SPECIFICATION Spec
CONSTANTS
  HeaderLen = 2
  FieldLimit = 3
  MaxTxUnit = 4
  HeaderSizes = {0}
  DataSizes = {0, 1, 2}
  Multipart = {TRUE}
  MaxPackets = 2
  PartialWrites = FALSE
  ConnectionFails = FALSE
INVARIANT PacketsIntact
CHECK_DEADLOCK FALSE
