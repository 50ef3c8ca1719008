\* Connections fail, are closed and are torn down.
SPECIFICATION FairSpec
CONSTANTS
  control = control
  stream = stream
  service = service
  executor = executor
  Channels <- ControlAndStream
  Control = control
  Threads <- ServiceAndExecutor
  Service = service
  MaxPackets = 2
  ConnectionsFail = TRUE
  Teardowns = TRUE
INVARIANTS
  TypeOK
  EachPacketOnce
  ThreadOrderKept
PROPERTY EveryPacketIsWritten
CHECK_DEADLOCK FALSE
