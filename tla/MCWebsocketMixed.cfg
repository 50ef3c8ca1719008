\* The control channel and a data channel share the manager.
SPECIFICATION Spec
CONSTANTS
  control = control
  stream = stream
  service = service
  executor = executor
  Channels <- ControlAndStream
  Control = control
  Threads <- ServiceAndExecutor
  Service = service
  MaxPackets = 2
  ConnectionsFail = FALSE
  Teardowns = FALSE
INVARIANT OwnChannel
CHECK_DEADLOCK FALSE
