\* Senders and receivers of both protocols, from init to the end of the client.
SPECIFICATION FairSpec
CONSTANTS
  Protocols = {"tcp", "udp"}
  BufferSize = 3
  Sizes = {0, 1, 2, 3}
  MaxDatagrams = 3
  Ends = TRUE
  Fails = TRUE
INVARIANTS
  TypeOK
  SocketThereWhenUsed
  ReceivesAccountedFor
PROPERTIES
  ReceiveSpec
  EveryDatagramHandedOn
CHECK_DEADLOCK FALSE
