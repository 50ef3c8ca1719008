---------------------------- MODULE PacketStream ----------------------------
(***************************************************************************)
(* What a Corelink data stream over TCP or a websocket promises to the two *)
(* applications at its ends: the packets given to send_data reach the      *)
(* receiver's handler as they were, once each and in order, until the      *)
(* stream is broken.                                                       *)
(***************************************************************************)
EXTENDS Naturals, Sequences

VARIABLES
  accepted,   \* the packets send_data took, in order
  delivered,  \* those the receive handler was called with, in order
  broken      \* the receiver is out of step with the sender

vars == <<accepted, delivered, broken>>

Init == accepted = <<>> /\ delivered = <<>> /\ broken = FALSE

Extends(s, t) == Len(t) = Len(s) + 1 /\ SubSeq(t, 1, Len(s)) = s

\* The stream is broken, too, by a packet it cannot carry.
Accept ==
  /\ Extends(accepted, accepted')
  /\ broken' \in {broken, TRUE}
  /\ UNCHANGED delivered

Deliver ==
  /\ Len(delivered) < Len(accepted)
  /\ delivered' = Append(delivered, accepted[Len(delivered) + 1])
  /\ UNCHANGED <<accepted, broken>>

Break == broken' = TRUE /\ UNCHANGED <<accepted, delivered>>

Garble ==
  /\ broken
  /\ Extends(delivered, delivered')
  /\ UNCHANGED <<accepted, broken>>

Next == Accept \/ Deliver \/ Break \/ Garble

Spec == Init /\ [][Next]_vars
=============================================================================
