----------------------------- MODULE DataStream -----------------------------
(***************************************************************************)
(* A data stream from the send_data of one client to the receive handler of*)
(* another: the frames of corelink_classic_client::send_data, the writes   *)
(* and reads of corelink_data_xchg_tcp_protocol_manager, and the on_receive*)
(* of handle_create_receiver, which takes the frames apart again           *)
(* (core/corelink_client.hpp).  The server between the two forwards a      *)
(* stream's bytes in order.                                                *)
(*                                                                         *)
(* Bytes are numbered in the order in which they are framed, so a sequence *)
(* of numbers says which bytes a buffer holds.  A frame is HeaderLen bytes *)
(* (the sizes of header and data and the stream's id), then the JSON       *)
(* header, then the data.  The model begins when the server has answered   *)
(* create_receiver: the receiver's channel is being registered while its   *)
(* connection opens.                                                       *)
(***************************************************************************)
EXTENDS Naturals, Sequences, SequencesExt

CONSTANTS
  HeaderLen,      \* the bytes before header and data: 8
  FieldLimit,     \* what a size field holds, two bytes: 65536
  MaxTxUnit,      \* max_tx_unit, the MTU the server announces
  HeaderSizes, DataSizes,  \* sizes of what the application sends
  Multipart,      \* can_have_multipart_frame: TRUE for TCP, FALSE for websockets
  MaxPackets,     \* bound: packets sent
  PartialWrites,  \* may the socket take a part of a frame?
  ConnectionFails \* may the connection end?

ASSUME StreamAssumption ==
  /\ HeaderLen \in Nat /\ HeaderLen >= 1
  /\ FieldLimit \in Nat /\ FieldLimit >= 1
  /\ MaxTxUnit \in Nat /\ MaxPackets \in Nat
  /\ HeaderSizes \subseteq Nat /\ DataSizes \subseteq Nat
  /\ Multipart \subseteq BOOLEAN
  /\ {PartialWrites, ConnectionFails} \subseteq BOOLEAN

VARIABLES
  multipart,  \* the stream's transport
  registered, \* whether m_corelink_channels has the receiver's channel
  frames,     \* history: the packets send_data took, framed
  writes,     \* the asio::async_write operations in progress
  wire,       \* the bytes on their way
  partial,    \* incomplete_packet_buffer
  chunk,      \* stream_data, the bytes on_receive works on
  pos,        \* pkt_pos
  pc,         \* where the receiver stands
  delivered,  \* history: what the receive handler was called with
  disturbed,  \* history: a short read was dropped, two writes mixed, a
              \* websocket message cut, or a size not held by its field
  spoilt      \* history: the packets, by their first byte, of the last two kinds

history == <<disturbed, spoilt>>
vars == <<multipart, registered, frames, writes, wire, partial, chunk, pos, pc, delivered,
          history>>
channel == <<multipart, registered>>
sender == <<frames, writes>>

FrameLen(f) == HeaderLen + f.header + f.data
EndOf(f) == f.start + FrameLen(f)
NextByte == IF frames = <<>> THEN 0 ELSE EndOf(frames[Len(frames)])
Bytes(from, n) == [i \in 1..n |-> from + i - 1]

TypeOK ==
  /\ multipart \in Multipart /\ registered \in BOOLEAN
  /\ frames \in Seq([start : Nat, header : HeaderSizes, data : DataSizes])
  /\ writes \in Seq([from : Nat, to : Nat])
  /\ wire \in Seq(Nat) /\ partial \in Seq(Nat) /\ chunk \in Seq(Nat)
  /\ pc \in {"opening", "idle", "parse", "stopped"}
  /\ pos \in 0..Len(chunk)
  /\ pc = "parse" => partial = <<>>
  /\ delivered \in Seq([header : Seq(Nat), data : Seq(Nat)])
  /\ disturbed \in BOOLEAN /\ spoilt \subseteq Nat

Init ==
  /\ multipart \in Multipart /\ registered = FALSE
  /\ frames = <<>> /\ writes = <<>> /\ wire = <<>>
  /\ partial = <<>> /\ chunk = <<>> /\ pos = 0
  /\ pc = "opening"
  /\ delivered = <<>> /\ disturbed = FALSE /\ spoilt = {}

-----------------------------------------------------------------------------
(* The receiver's channel, before the first read *)

\* handle_create_receiver, behind add_and_init_channel.
Register ==
  /\ ~registered /\ pc # "stopped"
  /\ registered' = TRUE
  /\ UNCHANGED <<multipart, sender, wire, partial, chunk, pos, pc, delivered, history>>

\* Defective variant of Open: the server is not pinged.
OpenSilently ==
  /\ pc = "opening"
  /\ multipart \/ registered
  /\ pc' = "idle"
  /\ UNCHANGED <<channel, sender, wire, partial, chunk, pos, delivered, history>>

\* The connection is there: on_init pings the server, and its send_data looks the
\* channel up with at.  The asio thread may come before Register and ends with the
\* process; a websocket's callback runs on the thread that registers the channel.
Open ==
  /\ pc = "opening"
  /\ multipart \/ registered
  /\ pc' = IF registered THEN "idle" ELSE "stopped"
  /\ UNCHANGED <<channel, sender, wire, partial, chunk, pos, delivered, history>>

-----------------------------------------------------------------------------
(* The sender; the server forwards what is sent once the receiver is connected *)

\* send_data; a packet that does not fit the MTU is dropped with an error.  Its
\* sizes go into two bytes each, whether or not they fit.
SendData(h, d) ==
  /\ pc \in {"idle", "parse"} /\ Len(frames) < MaxPackets
  /\ HeaderLen + h + d <= MaxTxUnit
  /\ frames' = Append(frames, [start |-> NextByte, header |-> h, data |-> d])
  /\ writes' = Append(writes, [from |-> NextByte, to |-> NextByte + HeaderLen + h + d])
  /\ LET held == h < FieldLimit /\ d < FieldLimit IN
       /\ disturbed' = (disturbed \/ ~held)
       /\ spoilt' = IF held THEN spoilt ELSE spoilt \cup {NextByte}
  /\ UNCHANGED <<channel, wire, partial, chunk, pos, pc, delivered>>

\* asio::async_write goes on until its bytes are written; what it could not
\* write waits behind the writes begun meanwhile.  A part written while no other
\* write waits is not a step here: the reads cut the stream in any case.
Write(n) ==
  /\ pc # "stopped" /\ writes # <<>>
  /\ LET w == Head(writes) IN
       /\ n <= w.to - w.from
       /\ n = w.to - w.from \/ (PartialWrites /\ multipart /\ Len(writes) > 1)
       /\ wire' = wire \o Bytes(w.from, n)
       /\ writes' = IF n = w.to - w.from THEN Tail(writes)
                    ELSE Append(Tail(writes), [w EXCEPT !.from = @ + n])
       /\ disturbed' = (disturbed \/ n < w.to - w.from)
  /\ UNCHANGED <<channel, frames, partial, chunk, pos, pc, delivered, spoilt>>

-----------------------------------------------------------------------------
(* The receiver *)

\* async_read_some returns any number of bytes of the stream.  A websocket's
\* RECEIVE callback gets any part of one message: libwebsockets is given no
\* rx_buffer_size, and the callback does not ask for the final fragment.
CanRead(n) ==
  /\ pc = "idle" /\ n <= Len(wire)
  /\ multipart \/ \E f \in ToSet(frames) : f.start <= wire[1] /\ wire[1] + n <= EndOf(f)

\* The packet of which a websocket's callback gets a part.
CutBy(n) ==
  {f.start : f \in {g \in ToSet(frames) :
     ~multipart /\ g.start <= wire[1] /\ wire[1] < EndOf(g) /\ n < FrameLen(g)}}

Taking(n) == wire' = SubSeq(wire, n + 1, Len(wire)) /\ spoilt' = spoilt \cup CutBy(n)

\* What on_receive gets when it is shorter than a frame's first part is dropped.
ReadShort(n) ==
  /\ CanRead(n) /\ n < HeaderLen
  /\ Taking(n)
  /\ disturbed' = TRUE
  /\ UNCHANGED <<channel, sender, partial, chunk, pos, pc, delivered>>

\* Defective variants of Read: the incomplete packet is kept, or is put behind
\* the new bytes.
ReadKeeping(n) ==
  /\ CanRead(n) /\ n >= HeaderLen
  /\ Taking(n)
  /\ chunk' = partial \o SubSeq(wire, 1, n)
  /\ pos' = 0 /\ pc' = "parse"
  /\ disturbed' = (disturbed \/ CutBy(n) # {})
  /\ UNCHANGED <<channel, sender, partial, delivered>>

ReadBehind(n) ==
  /\ CanRead(n) /\ n >= HeaderLen
  /\ Taking(n)
  /\ chunk' = SubSeq(wire, 1, n) \o partial
  /\ partial' = <<>> /\ pos' = 0 /\ pc' = "parse"
  /\ disturbed' = (disturbed \/ CutBy(n) # {})
  /\ UNCHANGED <<channel, sender, delivered>>

\* on_receive: the channel is looked up, and what comes for one that is not there
\* is dropped; otherwise the incomplete packet of the reads before is taken and
\* the new bytes.
Read(n) ==
  /\ CanRead(n) /\ n >= HeaderLen
  /\ Taking(n)
  /\ IF registered
       THEN chunk' = partial \o SubSeq(wire, 1, n) /\ partial' = <<>> /\ pos' = 0 /\ pc' = "parse"
       ELSE UNCHANGED <<partial, chunk, pos, pc>>
  /\ disturbed' = (disturbed \/ CutBy(n) # {})
  /\ UNCHANGED <<channel, sender, delivered>>

\* The bytes at pkt_pos are the first part of frame f.
Starts(f) ==
  /\ pos + HeaderLen <= Len(chunk)
  /\ \A i \in 1..HeaderLen : chunk[pos + i] = f.start + i - 1

\* The two sizes read at pkt_pos, each in two bytes.  Out of step with the
\* frames, or past the end of the vector, they are what the bytes there say.
Sizes ==
  LET known == {f \in ToSet(frames) : Starts(f)}
  IN  IF known = {}
        THEN [header : 0..(FieldLimit - 1), data : 0..(FieldLimit - 1)]
        ELSE {[header |-> f.header % FieldLimit, data |-> f.data % FieldLimit] : f \in known}

\* Defective variant of Fits: a packet that ends with the read is not complete.
FitsStrictly(s) == pos + HeaderLen + s.header + s.data < Len(chunk)

Fits(s) == pos + HeaderLen + s.header + s.data <= Len(chunk)

Done == chunk' = <<>> /\ pos' = 0 /\ pc' = "idle"

Handled(s) ==
  LET h == pos + HeaderLen
      d == h + s.header
  IN  [header |-> SubSeq(chunk, h + 1, h + s.header), data |-> SubSeq(chunk, d + 1, d + s.data)]

\* Defective variant of Deliver: a byte too many is passed over.
DeliverSkipping ==
  /\ pc = "parse"
  /\ \E s \in Sizes :
       /\ Fits(s)
       /\ delivered' = Append(delivered, Handled(s))
       /\ pos' = pos + HeaderLen + s.header + s.data + 1
  /\ UNCHANGED <<channel, sender, wire, partial, chunk, pc, history>>

\* The loop's then: the handler is called, and TCP goes on behind the packet.
Deliver ==
  /\ pc = "parse"
  /\ \E s \in Sizes :
       /\ Fits(s)
       /\ delivered' = Append(delivered, Handled(s))
       /\ IF multipart
            THEN pos' = pos + HeaderLen + s.header + s.data /\ UNCHANGED <<chunk, pc>>
            ELSE Done
  /\ UNCHANGED <<channel, sender, wire, partial, history>>

\* Defective variant of Incomplete: the rest is thrown away.
IncompleteForgotten ==
  /\ pc = "parse"
  /\ \E s \in Sizes : ~Fits(s)
  /\ Done
  /\ UNCHANGED <<channel, sender, wire, partial, delivered, history>>

\* Defective variant of Incomplete: websockets keep the rest, too.
IncompleteKept ==
  /\ pc = "parse"
  /\ \E s \in Sizes : ~Fits(s)
  /\ partial' = partial \o SubSeq(chunk, pos + 1, Len(chunk))
  /\ Done
  /\ UNCHANGED <<channel, sender, wire, delivered, history>>

\* The loop's else: what is there of a packet waits for the next read, and what
\* is there of a websocket message is thrown away.
Incomplete ==
  /\ pc = "parse"
  /\ \E s \in Sizes : ~Fits(s)
  /\ partial' = IF multipart THEN partial \o SubSeq(chunk, pos + 1, Len(chunk)) ELSE partial
  /\ Done
  /\ UNCHANGED <<channel, sender, wire, delivered, history>>

\* The end of the file stops the receiver; after any other error it reads on,
\* and gets the error again.
ConnectionLost ==
  /\ ConnectionFails /\ pc = "idle"
  /\ wire' = <<>> /\ writes' = <<>>
  /\ pc' = "stopped"
  /\ UNCHANGED <<channel, frames, partial, chunk, pos, delivered, history>>

-----------------------------------------------------------------------------
SomeRead == \E n \in 1..Len(wire) : ReadShort(n) \/ Read(n)
SomeWrite == \E n \in 1..(IF writes = <<>> THEN 0 ELSE Head(writes).to - Head(writes).from) : Write(n)

Next ==
  \/ Register \/ Open
  \/ \E h \in HeaderSizes, d \in DataSizes : SendData(h, d)
  \/ SomeWrite \/ SomeRead
  \/ Deliver \/ Incomplete
  \/ ConnectionLost

Spec == Init /\ [][Next]_vars

\* The asio threads at both ends run.
FairSpec == Spec /\ WF_vars(SomeWrite) /\ WF_vars(SomeRead) /\ WF_vars(Deliver \/ Incomplete)

-----------------------------------------------------------------------------
(* Properties *)

Payload(f) ==
  [header |-> Bytes(f.start + HeaderLen, f.header),
   data |-> Bytes(f.start + HeaderLen + f.header, f.data)]

Accepted == [i \in DOMAIN frames |-> Payload(frames[i])]

PacketsIntact ==
  /\ Len(delivered) <= Len(frames)
  /\ \A i \in DOMAIN delivered : delivered[i] = Payload(frames[i])

\* However a TCP stream is cut into reads, the handler gets exactly the packets
\* that were sent, in order: none is lost, repeated, joined to another one or cut;
\* and so it is with websocket messages.  This holds until a read of less than a
\* first part is dropped, two writes are mixed, a websocket message is cut, or a
\* packet is sent that its size fields cannot hold.
DeliveredInOrder == ~disturbed => PacketsIntact

\* The stream implements its promise: what was delivered is never changed, and
\* each step delivers the next packet, or anything once the stream is disturbed.
Promise == INSTANCE PacketStream WITH accepted <- Accepted, broken <- disturbed
StreamSpec == Promise!Spec

\* When every byte was read, every packet was delivered: a complete one does
\* not wait in incomplete_packet_buffer for bytes that belong to the next, and none
\* was lost to a channel that was not registered yet.
NothingHeldBack ==
  ~disturbed /\ pc = "idle" /\ wire = <<>> /\ writes = <<>> => Len(delivered) = Len(frames)

\* The first byte that no read has taken.
Unread ==
  IF wire # <<>> THEN wire[1] ELSE IF writes # <<>> THEN Head(writes).from ELSE NextByte

\* A websocket message that was cut, or whose sizes are not held by their fields,
\* costs no other packet: each one read whole is handed on as it was sent, before
\* and behind the spoilt ones.
SpoiltAlone ==
  ~multipart /\ pc = "idle" =>
    \A f \in ToSet(frames) :
      EndOf(f) <= Unread /\ f.start \notin spoilt => Contains(delivered, Payload(f))

\* Whatever happens to the stream, no byte is handed to the application twice.
Handed(i) == delivered[i].header \o delivered[i].data
NoByteTwice ==
  \A i, j \in DOMAIN delivered : \A k \in DOMAIN Handed(i), l \in DOMAIN Handed(j) :
    Handed(i)[k] = Handed(j)[l] => i = j /\ k = l

\* Every packet is delivered, unless the stream is disturbed or its connection
\* lost.
EveryPacketArrives ==
  \A k \in 1..MaxPackets :
    (Len(frames) >= k) ~> (Len(delivered) >= k \/ disturbed \/ pc = "stopped")
=============================================================================
