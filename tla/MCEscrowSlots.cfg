\* Two sending threads race on the counter, or take their slots in turn; the ring
\* is filled twice over.
SPECIFICATION Spec
CONSTANTS
  t1 = t1
  t2 = t2
  Empty = Empty
  Threads <- TwoThreads
  Slots = 3
  Window = 3
  MaxPackets = 9
SYMMETRY ThreadSymmetry
INVARIANTS
  TypeOK
  IndexInRange
  IntactOffSlotZero
CHECK_DEADLOCK FALSE
