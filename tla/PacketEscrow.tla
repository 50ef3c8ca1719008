---------------------------- MODULE PacketEscrow ----------------------------
(***************************************************************************)
(* The global packet escrow (src/core/corelink_network_global_packet_hold  *)
(* .cc) and the counter that hands out its slots (utils/concurrent_counter *)
(* .hpp), with the transports that borrow a slot for the time of a send.   *)
(*                                                                         *)
(* Every send_data of the three protocol managers moves its packet into    *)
(* the slot that current_slot++ returns, keeps a reference to that slot,   *)
(* and transmits from it later.  TCP and UDP clear the slot when the send  *)
(* completes; the websocket manager leaves it as it is.  Packets are       *)
(* numbered in the order in which their sends begin.                       *)
(***************************************************************************)
EXTENDS Integers, FiniteSets

CONSTANTS
  Threads,     \* threads that call send_data: executor, asio, libwebsockets
  Slots,       \* MAX_SLOT_COUNT, also the counter's upper bound
  Window,      \* bound: packets between the oldest one held and the newest
  MaxPackets,  \* bound: packets sent in a behaviour
  Empty        \* a slot without a packet

ASSUME EscrowAssumption ==
  /\ Slots \in Nat /\ Slots >= 2
  /\ Window \in Nat /\ Window >= 1
  /\ MaxPackets \in Nat
  /\ Empty \notin Nat

VARIABLES
  counter,  \* current_slot
  pc,       \* where each thread stands in assign_or_override_slot
  slot,     \* the value current_slot++ returned to it
  packet,   \* the packet it is sending
  escrow,   \* packet_escrow
  held,     \* the sends that refer to a slot
  sends,    \* how many sends have begun
  overlapped  \* history: were two threads in assign_or_override_slot at once?

vars == <<counter, pc, slot, packet, escrow, held, sends, overlapped>>

Transports == {"raw", "websocket"}

\* A send in progress; `sent' tells whether its bytes were read from the slot.
Send(p, s, transport, sent) ==
  [packet |-> p, slot |-> s, transport |-> transport, sent |-> sent]

TypeOK ==
  /\ counter \in Nat
  /\ pc \in [Threads -> {"idle", "increment", "reset", "reload", "store"}]
  /\ slot \in [Threads -> 0..(Slots - 1)]
  /\ packet \in [Threads -> Nat]
  /\ escrow \in [0..(Slots - 1) -> Nat \cup {Empty}]
  /\ held \subseteq [packet : Nat, slot : 0..(Slots - 1), transport : Transports, sent : BOOLEAN]
  /\ sends \in Nat
  /\ overlapped \in BOOLEAN

Init ==
  /\ counter = 0
  /\ pc = [t \in Threads |-> "idle"]
  /\ slot = [t \in Threads |-> 0]
  /\ packet = [t \in Threads |-> 0]
  /\ escrow = [s \in 0..(Slots - 1) |-> Empty]
  /\ held = {}
  /\ sends = 0
  /\ overlapped = FALSE

-----------------------------------------------------------------------------
(* concurrent_counter's post-increment: a check, then one atomic operation, *)
(* or two when the counter is reset                                         *)

\* The bounds of the instance: nothing in the code limits them.
MayBegin ==
  /\ sends < MaxPackets
  /\ \A o \in held : sends - o.packet < Window
  /\ \A t \in Threads : pc[t] # "idle" => sends - packet[t] < Window

BeginAt(t, next) ==
  /\ pc[t] = "idle"
  /\ MayBegin
  /\ packet' = [packet EXCEPT ![t] = sends]
  /\ sends' = sends + 1
  /\ pc' = [pc EXCEPT ![t] = next]
  /\ overlapped' = (overlapped \/ \E u \in Threads \ {t} : pc[u] # "idle")
  /\ UNCHANGED <<counter, slot, escrow, held>>

\* Defective variant of Begin: the bound is not looked at.
BeginUnchecked(t) == BeginAt(t, "increment")

\* send_data calls assign_or_override_slot: m_counter < m_upper_bound - 1.
Begin(t) == BeginAt(t, IF counter < Slots - 1 THEN "increment" ELSE "reset")

\* Defective variant of Increment: a pre-increment.
IncrementFirst(t) ==
  /\ pc[t] = "increment"
  /\ slot' = [slot EXCEPT ![t] = counter + 1]
  /\ counter' = counter + 1
  /\ pc' = [pc EXCEPT ![t] = "store"]
  /\ UNCHANGED <<packet, escrow, held, sends, overlapped>>

\* return m_counter.fetch_add(1)
Increment(t) ==
  /\ pc[t] = "increment"
  /\ slot' = [slot EXCEPT ![t] = counter]
  /\ counter' = counter + 1
  /\ pc' = [pc EXCEPT ![t] = "store"]
  /\ UNCHANGED <<packet, escrow, held, sends, overlapped>>

\* Defective variant of Reset: the reset value is not the lowest slot.
ResetToOne(t) ==
  /\ pc[t] = "reset"
  /\ counter' = 1
  /\ pc' = [pc EXCEPT ![t] = "reload"]
  /\ UNCHANGED <<slot, packet, escrow, held, sends, overlapped>>

\* m_counter.store(m_reset_value)
Reset(t) ==
  /\ pc[t] = "reset"
  /\ counter' = 0
  /\ pc' = [pc EXCEPT ![t] = "reload"]
  /\ UNCHANGED <<slot, packet, escrow, held, sends, overlapped>>

\* return m_counter: the value is read again, and the counter is left as it is.
Reload(t) ==
  /\ pc[t] = "reload"
  /\ slot' = [slot EXCEPT ![t] = counter]
  /\ pc' = [pc EXCEPT ![t] = "store"]
  /\ UNCHANGED <<counter, packet, escrow, held, sends, overlapped>>

-----------------------------------------------------------------------------
(* The slot in use *)

\* The packet is moved into the slot, over what the slot holds, and the send
\* starts: async_write, async_send_to, or an entry of m_data_queue.
Store(t) ==
  /\ pc[t] = "store"
  /\ escrow' = [escrow EXCEPT ![slot[t]] = packet[t]]
  /\ \E transport \in Transports :
       held' = held \cup {Send(packet[t], slot[t], transport, FALSE)}
  /\ pc' = [pc EXCEPT ![t] = "idle"]
  /\ UNCHANGED <<counter, slot, packet, sends, overlapped>>

\* The transport reads the bytes from the slot.  The websocket manager is done
\* with them: it pops its queue and never clears the slot.
Transmit(o) ==
  /\ o \in held
  /\ ~o.sent
  /\ held' = IF o.transport = "websocket"
               THEN held \ {o}
               ELSE (held \ {o}) \cup {Send(o.packet, o.slot, o.transport, TRUE)}
  /\ UNCHANGED <<counter, pc, slot, packet, escrow, sends, overlapped>>

\* The completion handler of TCP and UDP: clear_packet.
Complete(o) ==
  /\ o \in held
  /\ o.sent
  /\ escrow' = [escrow EXCEPT ![o.slot] = Empty]
  /\ held' = held \ {o}
  /\ UNCHANGED <<counter, pc, slot, packet, sends, overlapped>>

Next ==
  \/ \E t \in Threads : Begin(t) \/ Increment(t) \/ Reset(t) \/ Reload(t) \/ Store(t)
  \/ \E o \in held : Transmit(o) \/ Complete(o)

Spec == Init /\ [][Next]_vars

-----------------------------------------------------------------------------
(* Properties *)

\* A thread that is about to write its packet writes inside packet_escrow.
\* The counter tests its bound and increments in two steps, so it can pass
\* the bound: two threads can be one past the test, which leaves the index in
\* range.
IndexInRange ==
  \A t \in Threads : pc[t] = "store" => slot[t] \in 0..(Slots - 1)

Intact(o) == o.sent \/ escrow[o.slot] = o.packet

\* A packet stays in its slot until it is transmitted, as long as no more
\* than MAX_SLOT_COUNT packets are in escrow.
HeldPacketsIntact == \A o \in held : Intact(o)

\* While the threads take their slots one after the other, that is so in every
\* slot but slot 0: neither a later packet nor the completion of an earlier
\* send touches the slot.
IntactOffSlotZero == ~overlapped => \A o \in held : o.slot # 0 => Intact(o)
=============================================================================
