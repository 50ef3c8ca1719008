--------------------------- MODULE MCPacketEscrow ---------------------------
(* Instances of PacketEscrow for TLC. *)
EXTENDS PacketEscrow, TLC

CONSTANTS t1, t2

OneThread == {t1}
TwoThreads == {t1, t2}

ThreadSymmetry == Permutations(TwoThreads)
=============================================================================
