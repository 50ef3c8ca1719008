\* The server sends events no handler is registered for, duplicates answers,
\* sends garbage and ignores requests; handlers throw. It may
\* also do none of this.
SPECIFICATION FairSpec
CONSTANTS
  r1 = r1
  r2 = r2
  r3 = r3
  update = update
  stale = stale
  Requests <- ThreeRequests
  EventKinds <- Callbacks
  Preregistered <- OnInitCallbacks
  MaxSpontaneous = 2
  SendsUnknown = TRUE
  HandlersThrow = TRUE
  ServerIgnores = TRUE
INVARIANTS
  TypeOK
  OneOutstanding
  NoRequestLostOrDuplicated
  InUseIffArmed
  NoStalledQueue
  StreamDrainedByReturn
PROPERTIES
  ServiceSpec
  EveryRequestCompletes
CHECK_DEADLOCK FALSE
