\* Two packets in escrow, one sending thread.
SPECIFICATION Spec
CONSTANTS
  t1 = t1
  t2 = t2
  Empty = Empty
  Threads <- OneThread
  Slots = 4
  Window = 2
  MaxPackets = 6
INVARIANT HeldPacketsIntact
CHECK_DEADLOCK FALSE
