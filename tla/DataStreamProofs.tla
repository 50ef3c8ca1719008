--------------------------- MODULE DataStreamProofs ---------------------------
(***************************************************************************)
(* Proofs about DataStream, for headers and data of any size, any MTU, any *)
(* size of a frame's first part, and any number of packets.                *)
(***************************************************************************)
EXTENDS DataStream, SequenceTheorems, TLAPS

\* The sizes of a packet are less than what their fields hold.
Held(f) == f.header < FieldLimit /\ f.data < FieldLimit

\* Where frame i starts; behind the last one is the next byte to be framed.
Start ==
  [i \in 1..(Len(frames) + 1) |-> IF i \in DOMAIN frames THEN frames[i].start ELSE NextByte]

\* The frames follow each other, and the fields of an undisturbed stream hold
\* their sizes.
FramesInv ==
  /\ Start[1] = 0
  /\ \A i \in DOMAIN frames :
       /\ Start[i + 1] = EndOf(frames[i])
       /\ EndOf(frames[i]) <= NextByte
       /\ FrameLen(frames[i]) <= MaxTxUnit
  /\ \A i, j \in DOMAIN frames : i < j => EndOf(frames[i]) <= frames[j].start
  /\ ~disturbed => \A i \in DOMAIN frames : Held(frames[i])

\* Between two reads no bytes are worked on, before the first and of a websocket
\* none are kept, and a receiver that reads is registered: the ping of on_init ends
\* the process of one whose connection opens earlier.
BufferInv ==
  /\ pc # "parse" => chunk = <<>> /\ pos = 0
  /\ ~multipart \/ pc = "opening" => partial = <<>>
  /\ pc \in {"idle", "parse"} => registered

\* The first byte that is not yet written, the first of those on their way, and
\* the first one behind the packets that were delivered.
Unwritten == Start[Len(frames) - Len(writes) + 1]
OnWire == Unwritten - Len(wire)
Undelivered == OnWire - Len(partial) - (Len(chunk) - pos)

\* Until the stream is disturbed, it is the frames' bytes from one end to the
\* other: those delivered, kept, worked on, on their way and to be written.
FlowInv ==
  /\ Len(writes) <= Len(frames)
  /\ \A i \in DOMAIN writes :
       /\ writes[i].from = frames[Len(frames) - Len(writes) + i].start
       /\ writes[i].to = EndOf(frames[Len(frames) - Len(writes) + i])
  /\ \A k \in DOMAIN wire : wire[k] = OnWire + k - 1
  /\ \A k \in DOMAIN chunk : chunk[k] = OnWire - Len(chunk) + k - 1
  /\ \A k \in DOMAIN partial : partial[k] = OnWire - Len(partial) + k - 1
  /\ Undelivered = Start[Len(delivered) + 1]

\* What a read leaves is less than a packet; a websocket's read is one.
CutInv ==
  /\ pc = "idle" /\ Len(delivered) < Len(frames) =>
       Len(partial) < FrameLen(frames[Len(delivered) + 1])
  /\ pc = "parse" /\ ~multipart =>
       /\ pos = 0 /\ Len(delivered) < Len(frames)
       /\ Len(chunk) = FrameLen(frames[Len(delivered) + 1])

AlignedInv ==
  ~disturbed => PacketsIntact /\ (pc # "stopped" => FlowInv /\ CutInv)

StreamInv == FramesInv /\ BufferInv /\ AlignedInv

-----------------------------------------------------------------------------
(* Bytes are in one place *)

\* Bytes that were framed and are not waiting to be written.
Taken ==
  {b \in Nat : b < NextByte /\ \A i \in DOMAIN writes : b < writes[i].from \/ writes[i].to <= b}

Rest == (pos + 1)..Len(chunk)
Got == [j \in DOMAIN delivered |-> Handed(j)]

\* No byte waits to be written twice.
WritesInv ==
  /\ \A i \in DOMAIN writes : writes[i].to <= NextByte
  /\ \A i, j \in DOMAIN writes :
       i # j => writes[i].to <= writes[j].from \/ writes[j].to <= writes[i].from

\* A byte on its way, kept, worked on or handed over is there once, in no other
\* of these places, and not to be written.
WireInv ==
  /\ \A i \in DOMAIN wire : wire[i] \in Taken
  /\ \A i, j \in DOMAIN wire : wire[i] = wire[j] => i = j

PartialInv ==
  /\ \A i \in DOMAIN partial : partial[i] \in Taken
  /\ \A i, j \in DOMAIN partial : partial[i] = partial[j] => i = j
  /\ \A i \in DOMAIN partial, j \in DOMAIN wire : partial[i] # wire[j]

RestInv ==
  /\ \A i \in Rest : chunk[i] \in Taken
  /\ \A i, j \in Rest : chunk[i] = chunk[j] => i = j
  /\ \A i \in Rest, j \in DOMAIN wire : chunk[i] # wire[j]

GotInv ==
  \A j \in DOMAIN delivered : \A k \in DOMAIN Got[j] :
    /\ Got[j][k] \in Taken
    /\ \A i \in DOMAIN wire : Got[j][k] # wire[i]
    /\ \A i \in DOMAIN partial : Got[j][k] # partial[i]
    /\ \A i \in Rest : Got[j][k] # chunk[i]

GotOnce ==
  \A i, j \in DOMAIN delivered : \A k \in DOMAIN Got[i], l \in DOMAIN Got[j] :
    Got[i][k] = Got[j][l] => i = j /\ k = l

PlaceInv == WritesInv /\ WireInv /\ PartialInv /\ RestInv /\ GotInv /\ GotOnce

-----------------------------------------------------------------------------
(* Sequences of bytes *)

LEMMA ElementType ==
  ASSUME NEW S, NEW s \in Seq(S), NEW i \in DOMAIN s
  PROVE  s[i] \in S
  BY LenProperties, ElementOfSeq

LEMMA SequenceOfFunction ==
  ASSUME NEW S, NEW n \in Nat, NEW f \in [1..n -> S]
  PROVE  f \in Seq(S) /\ Len(f) = n /\ DOMAIN f = 1..n
  <1>1. f \in Seq(S)
    BY SeqDef, Zenon
  <1>2. DOMAIN f = 1..n /\ DOMAIN f = 1..Len(f) /\ Len(f) \in Nat
    BY <1>1, LenProperties
  <1>3. QED
    BY <1>1, <1>2

LEMMA BytesType ==
  ASSUME NEW a \in Nat, NEW n \in Nat
  PROVE  /\ Bytes(a, n) \in Seq(Nat) /\ Len(Bytes(a, n)) = n /\ DOMAIN Bytes(a, n) = 1..n
         /\ \A k \in 1..n : Bytes(a, n)[k] = a + k - 1
  <1>1. Bytes(a, n) \in [1..n -> Nat]
    <2>1. \A k \in 1..n : a + k - 1 \in Nat
      OBVIOUS
    <2>2. QED
      BY <2>1 DEF Bytes
  <1>2. QED
    BY <1>1, SequenceOfFunction DEF Bytes

\* Elements m+1 to n of a sequence.
LEMMA PartOf ==
  ASSUME NEW s \in Seq(Nat), NEW m \in Nat, NEW n \in Nat, m <= n, n <= Len(s)
  PROVE  /\ SubSeq(s, m + 1, n) \in Seq(Nat)
         /\ Len(SubSeq(s, m + 1, n)) = n - m
         /\ DOMAIN SubSeq(s, m + 1, n) = 1..(n - m)
         /\ \A k \in 1..(n - m) : SubSeq(s, m + 1, n)[k] = s[m + k]
  <1> DEFINE part == SubSeq(s, m + 1, n)
  <1>1. \A i \in (m + 1)..n : s[i] \in Nat
    BY ElementOfSeq
  <1>2. /\ part \in Seq(Nat)
        /\ Len(part) = IF m + 1 <= n THEN n - (m + 1) + 1 ELSE 0
        /\ \A k \in 1..(n - (m + 1) + 1) : part[k] = s[(m + 1) + k - 1]
    BY <1>1, SubSeqProperties
  <1> HIDE DEF part
  <1>3. n - (m + 1) + 1 = n - m /\ \A k \in 1..(n - m) : (m + 1) + k - 1 = m + k
    OBVIOUS
  <1>4. Len(part) = n - m
    BY <1>2, <1>3
  <1>5. QED
    BY <1>2, <1>3, <1>4, LenProperties DEF part

LEMMA Joined ==
  ASSUME NEW s \in Seq(Nat), NEW t \in Seq(Nat)
  PROVE  /\ s \o t \in Seq(Nat) /\ Len(s \o t) = Len(s) + Len(t)
         /\ \A k \in 1..Len(s) : (s \o t)[k] = s[k]
         /\ \A k \in 1..Len(t) : (s \o t)[Len(s) + k] = t[k]
  <1> DEFINE both == s \o t
  <1>1. /\ both \in Seq(Nat) /\ Len(both) = Len(s) + Len(t)
        /\ \A i \in 1..(Len(s) + Len(t)) :
             both[i] = IF i <= Len(s) THEN s[i] ELSE t[i - Len(s)]
    BY ConcatProperties
  <1> HIDE DEF both
  <1>2. Len(s) \in Nat /\ Len(t) \in Nat
    OBVIOUS
  <1>3. ASSUME NEW k \in 1..Len(t) PROVE both[Len(s) + k] = t[k]
    <2>1. /\ Len(s) + k \in 1..(Len(s) + Len(t)) /\ ~(Len(s) + k <= Len(s))
          /\ (Len(s) + k) - Len(s) = k
      BY <1>2
    <2>2. QED
      BY <1>1, <2>1
  <1>4. \A k \in 1..Len(s) : both[k] = s[k]
    BY <1>1, <1>2
  <1>5. QED
    BY <1>1, <1>3, <1>4 DEF both

\* A part of a sequence of consecutive bytes.
LEMMA PartIsBytes ==
  ASSUME NEW s \in Seq(Nat), NEW m \in Nat, NEW n \in Nat, m + n <= Len(s), NEW a \in Nat,
         \A k \in 1..n : s[m + k] = a + k - 1
  PROVE  SubSeq(s, m + 1, m + n) = Bytes(a, n)
  <1>1. m + n \in Nat /\ m <= m + n /\ (m + n) - m = n
    OBVIOUS
  <1>2. /\ SubSeq(s, m + 1, m + n) \in Seq(Nat)
        /\ Len(SubSeq(s, m + 1, m + n)) = n
        /\ \A k \in 1..n : SubSeq(s, m + 1, m + n)[k] = s[m + k]
    BY <1>1, PartOf
  <1> DEFINE part == SubSeq(s, m + 1, m + n)
             whole == Bytes(a, n)
  <1>3. /\ whole \in Seq(Nat) /\ Len(whole) = n
        /\ \A k \in 1..n : whole[k] = a + k - 1
    BY BytesType
  <1>4. part \in Seq(Nat) /\ Len(part) = Len(whole) /\ \A k \in 1..Len(part) : part[k] = whole[k]
    BY <1>2, <1>3
  <1> HIDE DEF part, whole
  <1>5. part = whole
    BY <1>3, <1>4, SeqEqual
  <1>6. QED
    BY <1>5 DEF part, whole

-----------------------------------------------------------------------------
(* Types *)

Framed == [start : Nat, header : HeaderSizes, data : DataSizes]
Packets == [header : Seq(Nat), data : Seq(Nat)]

LEMMA FrameType ==
  ASSUME NEW f \in Framed
  PROVE  /\ f.start \in Nat /\ f.header \in Nat /\ f.data \in Nat
         /\ FrameLen(f) \in Nat /\ FrameLen(f) >= 1 /\ EndOf(f) \in Nat
         /\ FrameLen(f) = HeaderLen + f.header + f.data
         /\ EndOf(f) = f.start + FrameLen(f)
  <1>1. HeaderLen \in Nat /\ HeaderLen >= 1 /\ HeaderSizes \subseteq Nat /\ DataSizes \subseteq Nat
    BY StreamAssumption DEF StreamAssumption
  <1>2. f.start \in Nat /\ f.header \in Nat /\ f.data \in Nat
    BY <1>1 DEF Framed
  <1>3. QED
    BY <1>1, <1>2 DEF FrameLen, EndOf

LEMMA SequenceTypes ==
  ASSUME TypeOK
  PROVE  /\ frames \in Seq(Framed) /\ Len(frames) \in Nat /\ DOMAIN frames = 1..Len(frames)
         /\ Len(writes) \in Nat /\ DOMAIN writes = 1..Len(writes)
         /\ wire \in Seq(Nat) /\ Len(wire) \in Nat /\ DOMAIN wire = 1..Len(wire)
         /\ partial \in Seq(Nat) /\ Len(partial) \in Nat /\ DOMAIN partial = 1..Len(partial)
         /\ chunk \in Seq(Nat) /\ Len(chunk) \in Nat /\ DOMAIN chunk = 1..Len(chunk)
         /\ delivered \in Seq(Packets) /\ Len(delivered) \in Nat
         /\ DOMAIN delivered = 1..Len(delivered)
         /\ \A i \in DOMAIN frames : frames[i] \in Framed
         /\ \A i \in DOMAIN writes : writes[i].from \in Nat /\ writes[i].to \in Nat
         /\ pos \in Nat /\ pos <= Len(chunk)
         /\ NextByte \in Nat
  <1>1. /\ frames \in Seq(Framed) /\ writes \in Seq([from : Nat, to : Nat]) /\ wire \in Seq(Nat)
        /\ partial \in Seq(Nat) /\ chunk \in Seq(Nat) /\ delivered \in Seq(Packets)
        /\ pos \in 0..Len(chunk)
    BY DEF TypeOK, Framed, Packets
  <1>2. \A i \in DOMAIN frames : frames[i] \in Framed
    BY <1>1
  <1>3. ASSUME NEW i \in DOMAIN writes PROVE writes[i].from \in Nat /\ writes[i].to \in Nat
    <2>1. writes[i] \in [from : Nat, to : Nat]
      BY <1>1, ElementType
    <2>2. QED
      BY <2>1
  <1>4. NextByte \in Nat
    <2>1. CASE frames = <<>>
      BY <2>1 DEF NextByte
    <2>2. CASE frames # <<>>
      <3>1. Len(frames) \in DOMAIN frames
        BY <1>1, <2>2, EmptySeq, LenProperties
      <3>2. frames[Len(frames)] \in Framed
        BY <1>2, <3>1
      <3>3. QED
        BY <2>2, <3>2, FrameType DEF NextByte
    <2>3. QED
      BY <2>1, <2>2
  <1>5. Len(chunk) \in Nat
    BY <1>1
  <1>6. QED
    BY <1>1, <1>2, <1>3, <1>4, <1>5, LenProperties

\* What the receiver can read as sizes.
LEMMA SizesType ==
  ASSUME TypeOK, NEW s \in Sizes
  PROVE  s.header \in Nat /\ s.data \in Nat
  <1> DEFINE known == {f \in ToSet(frames) : Starts(f)}
  <1>1. FieldLimit \in Nat \ {0}
    BY StreamAssumption DEF StreamAssumption
  <1>2. CASE known = {}
    <2>1. s \in [header : 0..(FieldLimit - 1), data : 0..(FieldLimit - 1)]
      BY <1>2 DEF Sizes
    <2>2. QED
      BY <1>1, <2>1
  <1>3. CASE known # {}
    <2>1. PICK f \in known : s = [header |-> f.header % FieldLimit, data |-> f.data % FieldLimit]
      BY <1>3 DEF Sizes
    <2>2. f \in Framed
      BY <2>1, SequenceTypes DEF ToSet
    <2>3. f.header \in Nat /\ f.data \in Nat
      BY <2>2, FrameType
    <2>4. f.header % FieldLimit \in Nat /\ f.data % FieldLimit \in Nat
      BY <1>1, <2>3
    <2>5. QED
      BY <2>1, <2>4
  <1>4. QED
    BY <1>2, <1>3

\* A packet that is all there is handed on as it lies in the buffer.
LEMMA HandledType ==
  ASSUME TypeOK, NEW s \in Sizes, Fits(s)
  PROVE  LET h == pos + HeaderLen
         IN  /\ Handled(s) \in Packets
             /\ Handled(s).header = SubSeq(chunk, h + 1, h + s.header)
             /\ Handled(s).data = SubSeq(chunk, h + s.header + 1, h + s.header + s.data)
             /\ h \in Nat /\ s.header \in Nat /\ s.data \in Nat
             /\ h + s.header + s.data <= Len(chunk)
  <1> DEFINE h == pos + HeaderLen
  <1>1. s.header \in Nat /\ s.data \in Nat
    BY SizesType
  <1>2. pos \in Nat /\ HeaderLen \in Nat /\ chunk \in Seq(Nat) /\ Len(chunk) \in Nat
    BY SequenceTypes, StreamAssumption DEF StreamAssumption
  <1>3. h + s.header + s.data <= Len(chunk)
    BY <1>2 DEF Fits
  <1>4. h \in Nat /\ h + s.header \in Nat /\ h + s.header + s.data \in Nat
        /\ h <= h + s.header /\ h + s.header <= h + s.header + s.data /\ h + s.header <= Len(chunk)
    BY <1>1, <1>2, <1>3
  <1>5. SubSeq(chunk, h + 1, h + s.header) \in Seq(Nat)
        /\ SubSeq(chunk, h + s.header + 1, h + s.header + s.data) \in Seq(Nat)
    <2> HIDE DEF h
    <2> QED BY <1>2, <1>3, <1>4, PartOf
  <1>6. QED
    BY <1>1, <1>3, <1>4, <1>5 DEF Handled, Packets

-----------------------------------------------------------------------------
(* What each action does *)

LEMMA SendEffect ==
  ASSUME TypeOK, NEW h \in HeaderSizes, NEW d \in DataSizes, SendData(h, d)
  PROVE  LET f == [start |-> NextByte, header |-> h, data |-> d]
         IN  /\ f \in Framed /\ FrameLen(f) <= MaxTxUnit
             /\ frames' \in Seq(Framed) /\ Len(frames') = Len(frames) + 1
             /\ \A i \in 1..Len(frames) : frames'[i] = frames[i]
             /\ frames'[Len(frames) + 1] = f
             /\ writes' \in Seq([from : Nat, to : Nat]) /\ Len(writes') = Len(writes) + 1
             /\ \A i \in 1..Len(writes) : writes'[i] = writes[i]
             /\ writes'[Len(writes) + 1].from = NextByte
             /\ writes'[Len(writes) + 1].to = EndOf(f)
             /\ NextByte' = EndOf(f) /\ NextByte < EndOf(f) /\ pc \in {"idle", "parse"}
             /\ disturbed' = (disturbed \/ ~Held(f)) /\ spoilt' \subseteq Nat
             /\ UNCHANGED <<multipart, registered, wire, partial, chunk, pos, pc, delivered>>
  <1> DEFINE f == [start |-> NextByte, header |-> h, data |-> d]
             w == [from |-> NextByte, to |-> NextByte + HeaderLen + h + d]
  <1>1. /\ frames' = Append(frames, f) /\ writes' = Append(writes, w)
        /\ HeaderLen + h + d <= MaxTxUnit /\ pc \in {"idle", "parse"}
        /\ spoilt' \in {spoilt, spoilt \cup {NextByte}}
        /\ UNCHANGED <<multipart, registered, wire, partial, chunk, pos, pc, delivered>>
    BY DEF SendData, channel
  <1>2. NextByte \in Nat /\ f \in Framed
    BY SequenceTypes DEF Framed
  <1>11. disturbed' = (disturbed \/ ~Held(f))
    BY DEF SendData, Held
  <1>12. spoilt' \subseteq Nat
    BY <1>1, <1>2 DEF TypeOK
  <1>3. HeaderLen \in Nat /\ h \in Nat /\ d \in Nat /\ HeaderLen >= 1
    BY StreamAssumption DEF StreamAssumption
  <1>4. /\ FrameLen(f) <= MaxTxUnit /\ EndOf(f) = w.to /\ w.from = NextByte
        /\ NextByte < EndOf(f)
    BY <1>1, <1>2, <1>3 DEF FrameLen, EndOf
  <1>5. w \in [from : Nat, to : Nat]
    BY <1>2, <1>3
  <1>6. frames \in Seq(Framed) /\ writes \in Seq([from : Nat, to : Nat])
    BY DEF TypeOK, Framed
  <1> HIDE DEF f, w
  <1>7. /\ frames' \in Seq(Framed) /\ Len(frames') = Len(frames) + 1 /\ frames' # <<>>
        /\ \A i \in 1..Len(frames) : frames'[i] = frames[i]
        /\ frames'[Len(frames) + 1] = f
    BY <1>1, <1>2, <1>6, AppendProperties
  <1>8. /\ writes' \in Seq([from : Nat, to : Nat]) /\ Len(writes') = Len(writes) + 1
        /\ \A i \in 1..Len(writes) : writes'[i] = writes[i]
        /\ writes'[Len(writes) + 1] = w
    BY <1>1, <1>5, <1>6, AppendProperties
  <1>9. NextByte' = EndOf(f)
    BY <1>7 DEF NextByte, EndOf, FrameLen
  <1>10. QED
    BY <1>1, <1>2, <1>4, <1>7, <1>8, <1>9, <1>11, <1>12 DEF f

LEMMA WriteEffect ==
  ASSUME TypeOK, NEW n \in Nat, n >= 1, Write(n)
  PROVE  LET m == writes[1].to - writes[1].from
         IN  /\ 1 \in DOMAIN writes /\ pc # "stopped" /\ n <= m
             /\ wire' \in Seq(Nat) /\ Len(wire') = Len(wire) + n
             /\ \A k \in 1..Len(wire) : wire'[k] = wire[k]
             /\ \A k \in 1..n : wire'[Len(wire) + k] = writes[1].from + k - 1
             /\ writes' \in Seq([from : Nat, to : Nat])
             /\ \A i \in 1..(Len(writes) - 1) : writes'[i] = writes[i + 1]
             /\ n = m => Len(writes') = Len(writes) - 1 /\ disturbed' = disturbed
             /\ n < m =>
                  /\ Len(writes') = Len(writes) /\ disturbed' = TRUE
                  /\ writes'[Len(writes)].from = writes[1].from + n
                  /\ writes'[Len(writes)].to = writes[1].to
             /\ UNCHANGED <<multipart, registered, frames, partial, chunk, pos, pc, delivered, spoilt>>
  <1> DEFINE m == writes[1].to - writes[1].from
             new == Bytes(writes[1].from, n)
             rest == [writes[1] EXCEPT !.from = @ + n]
  <1>1. writes \in Seq([from : Nat, to : Nat]) /\ wire \in Seq(Nat) /\ writes # <<>>
    BY DEF TypeOK, Write
  <1>2. /\ Tail(writes) \in Seq([from : Nat, to : Nat])
        /\ Len(Tail(writes)) = Len(writes) - 1
        /\ \A i \in 1..(Len(writes) - 1) : Tail(writes)[i] = writes[i + 1]
        /\ Head(writes) = writes[1] /\ Len(writes) \in Nat \ {0}
    BY <1>1, HeadTailProperties, EmptySeq
  <1>3. 1 \in DOMAIN writes /\ writes[1] \in [from : Nat, to : Nat]
    <2>1. 1 \in DOMAIN writes
      BY <1>1, <1>2
    <2>2. QED
      BY <1>1, <2>1, ElementType
  <1>4. /\ n <= m /\ wire' = wire \o new
        /\ writes' = IF n = m THEN Tail(writes) ELSE Append(Tail(writes), rest)
        /\ disturbed' = (disturbed \/ n < m) /\ pc # "stopped"
        /\ UNCHANGED <<multipart, registered, frames, partial, chunk, pos, pc, delivered, spoilt>>
    BY <1>2 DEF Write, channel
  <1>5. rest \in [from : Nat, to : Nat] /\ rest.from = writes[1].from + n /\ rest.to = writes[1].to
    BY <1>3
  <1>6. /\ new \in Seq(Nat) /\ Len(new) = n
        /\ \A k \in 1..n : new[k] = writes[1].from + k - 1
    BY <1>3, BytesType
  <1>7. m \in Int /\ disturbed \in BOOLEAN
    BY <1>3 DEF TypeOK
  <1> HIDE DEF m, new, rest
  <1>8. /\ wire' \in Seq(Nat) /\ Len(wire') = Len(wire) + n
        /\ \A k \in 1..Len(wire) : wire'[k] = wire[k]
        /\ \A k \in 1..n : wire'[Len(wire) + k] = writes[1].from + k - 1
    <2>1. wire' = wire \o new
      BY <1>4
    <2>2. /\ wire' \in Seq(Nat) /\ Len(wire') = Len(wire) + Len(new)
          /\ \A k \in 1..Len(wire) : wire'[k] = wire[k]
          /\ \A k \in 1..Len(new) : wire'[Len(wire) + k] = new[k]
      BY <1>1, <1>6, <2>1, Joined
    <2>3. QED
      BY <1>6, <2>2
  <1>9. CASE n = m
    <2>1. writes' = Tail(writes) /\ ~(n < m) /\ disturbed' = disturbed
      BY <1>4, <1>7, <1>9
    <2>2. QED
      BY <1>2, <1>3, <1>4, <1>8, <2>1 DEF m
  <1>10. CASE n # m
    <2>1. /\ writes' \in Seq([from : Nat, to : Nat]) /\ Len(writes') = (Len(writes) - 1) + 1
          /\ \A i \in 1..(Len(writes) - 1) : writes'[i] = Tail(writes)[i]
          /\ writes'[(Len(writes) - 1) + 1] = rest
      BY <1>2, <1>4, <1>5, <1>10, AppendProperties
    <2>2. (Len(writes) - 1) + 1 = Len(writes)
      BY <1>2
    <2>3. QED
      BY <1>2, <1>3, <1>4, <1>5, <1>7, <1>8, <1>10, <2>1, <2>2 DEF m
  <1>11. QED
    BY <1>9, <1>10

\* What is left on its way when n bytes were read.
LEMMA ReadRest ==
  ASSUME TypeOK, NEW n \in 1..Len(wire), wire' = SubSeq(wire, n + 1, Len(wire))
  PROVE  /\ wire' \in Seq(Nat) /\ Len(wire') = Len(wire) - n
         /\ \A k \in 1..(Len(wire) - n) : wire'[k] = wire[n + k]
  <1>1. wire \in Seq(Nat) /\ Len(wire) \in Nat /\ n \in Nat /\ n <= Len(wire)
    BY DEF TypeOK
  <1>2. QED
    BY <1>1, PartOf

\* A packet that is cut is named by its first byte.
LEMMA CutType ==
  ASSUME TypeOK, NEW n
  PROVE  CutBy(n) \subseteq Nat
  <1>1. \A f \in ToSet(frames) : f.start \in Nat
    BY SequenceTypes, FrameType DEF ToSet
  <1>2. QED
    BY <1>1 DEF CutBy

LEMMA ReadEffect ==
  ASSUME TypeOK, BufferInv, NEW n \in 1..Len(wire), Read(n)
  PROVE  /\ wire' \in Seq(Nat) /\ Len(wire') = Len(wire) - n
         /\ \A k \in 1..(Len(wire) - n) : wire'[k] = wire[n + k]
         /\ chunk' \in Seq(Nat) /\ Len(chunk') = Len(partial) + n
         /\ \A k \in 1..Len(partial) : chunk'[k] = partial[k]
         /\ \A k \in 1..n : chunk'[Len(partial) + k] = wire[k]
         /\ partial' = <<>> /\ pos' = 0 /\ pc' = "parse" /\ pc = "idle"
         /\ ~multipart /\ ~disturbed' =>
              \E f \in ToSet(frames) : f.start = wire[1] /\ FrameLen(f) = n
         /\ disturbed' \in {disturbed, TRUE} /\ spoilt' \subseteq Nat
         /\ UNCHANGED <<multipart, registered, frames, writes, delivered>>
  <1> DEFINE new == SubSeq(wire, 1, n)
  <1>1. /\ chunk' = partial \o new /\ wire' = SubSeq(wire, n + 1, Len(wire))
        /\ partial' = <<>> /\ pos' = 0 /\ pc' = "parse" /\ pc = "idle"
        /\ disturbed' \in {disturbed, TRUE}
        /\ UNCHANGED <<multipart, registered, frames, writes, delivered>>
    BY DEF Read, CanRead, Taking, channel, sender, BufferInv, TypeOK
  <1>2. ASSUME ~multipart, ~disturbed'
        PROVE  \E f \in ToSet(frames) : f.start = wire[1] /\ FrameLen(f) = n
    <2>1. CutBy(n) = {}
      BY <1>2 DEF Read
    <2>2. PICK f \in ToSet(frames) : f.start <= wire[1] /\ wire[1] + n <= EndOf(f)
      BY <1>2 DEF Read, CanRead
    <2>3. /\ f.start \in Nat /\ FrameLen(f) \in Nat /\ EndOf(f) = f.start + FrameLen(f)
          /\ wire[1] \in Nat
      <3>1. f \in Framed
        BY <2>2, SequenceTypes DEF ToSet
      <3>2. 1 \in DOMAIN wire /\ wire \in Seq(Nat)
        BY SequenceTypes
      <3>3. QED
        BY <3>1, <3>2, FrameType, ElementType
    <2>4. ~(wire[1] < EndOf(f) /\ n < FrameLen(f))
      BY <1>2, <2>1, <2>2 DEF CutBy
    <2>5. f.start = wire[1] /\ FrameLen(f) = n
      BY <2>2, <2>3, <2>4
    <2>6. QED
      BY <2>2, <2>5
  <1>8. spoilt' \subseteq Nat
    BY CutType DEF Read, Taking, TypeOK
  <1>3. wire \in Seq(Nat) /\ partial \in Seq(Nat) /\ Len(wire) \in Nat
    BY DEF TypeOK
  <1>4. new \in Seq(Nat) /\ Len(new) = n /\ \A k \in 1..n : new[k] = wire[k]
    <2>1. n \in Nat /\ 0 <= n /\ n <= Len(wire) /\ n - 0 = n /\ 0 + 1 = 1
      BY <1>3
    <2>2. /\ SubSeq(wire, 0 + 1, n) \in Seq(Nat)
          /\ Len(SubSeq(wire, 0 + 1, n)) = n - 0
          /\ \A k \in 1..(n - 0) : SubSeq(wire, 0 + 1, n)[k] = wire[0 + k]
      BY <1>3, <2>1, PartOf
    <2>3. QED
      BY <1>3, <2>1, <2>2
  <1> HIDE DEF new
  <1>5. /\ chunk' \in Seq(Nat) /\ Len(chunk') = Len(partial) + Len(new)
        /\ \A k \in 1..Len(partial) : chunk'[k] = partial[k]
        /\ \A k \in 1..Len(new) : chunk'[Len(partial) + k] = new[k]
    <2>1. chunk' = partial \o new
      BY <1>1
    <2>2. QED
      BY <1>3, <1>4, <2>1, Joined
  <1>6. /\ wire' \in Seq(Nat) /\ Len(wire') = Len(wire) - n
        /\ \A k \in 1..(Len(wire) - n) : wire'[k] = wire[n + k]
    BY <1>1, ReadRest
  <1>7. QED
    BY <1>1, <1>2, <1>4, <1>5, <1>6, <1>8

LEMMA IncompleteEffect ==
  ASSUME TypeOK, Incomplete
  PROVE  /\ pc = "parse" /\ partial = <<>> /\ \E s \in Sizes : ~Fits(s)
         /\ partial' \in Seq(Nat)
         /\ multipart =>
              /\ partial' = SubSeq(chunk, pos + 1, Len(chunk))
              /\ Len(partial') = Len(chunk) - pos
              /\ \A k \in 1..(Len(chunk) - pos) : partial'[k] = chunk[pos + k]
         /\ ~multipart => partial' = <<>>
         /\ chunk' = <<>> /\ pos' = 0 /\ pc' = "idle"
         /\ UNCHANGED <<multipart, registered, frames, writes, wire, delivered, disturbed, spoilt>>
  <1> DEFINE rest == SubSeq(chunk, pos + 1, Len(chunk))
  <1>1. /\ pc = "parse" /\ partial = <<>> /\ \E s \in Sizes : ~Fits(s)
        /\ partial' = (IF multipart THEN partial \o rest ELSE partial)
        /\ chunk' = <<>> /\ pos' = 0 /\ pc' = "idle"
        /\ UNCHANGED <<multipart, registered, frames, writes, wire, delivered, disturbed, spoilt>>
    BY DEF Incomplete, Done, channel, sender, history, TypeOK
  <1>2. chunk \in Seq(Nat) /\ Len(chunk) \in Nat /\ pos \in Nat /\ pos <= Len(chunk)
    BY SequenceTypes
  <1>3. /\ rest \in Seq(Nat) /\ Len(rest) = Len(chunk) - pos
        /\ \A k \in 1..(Len(chunk) - pos) : rest[k] = chunk[pos + k]
    BY <1>2, PartOf
  <1> HIDE DEF rest
  <1>4. <<>> \o rest = rest
    BY <1>3, ConcatEmptySeq
  <1>5. <<>> \in Seq(Nat)
    OBVIOUS
  <1>6. QED
    BY <1>1, <1>3, <1>4, <1>5 DEF rest

LEMMA DeliverEffect ==
  ASSUME TypeOK, Deliver
  PROVE  /\ pc = "parse" /\ partial = <<>>
         /\ \E s \in Sizes :
              /\ Fits(s)
              /\ delivered' = Append(delivered, Handled(s))
              /\ IF multipart
                   THEN pos' = pos + HeaderLen + s.header + s.data /\ UNCHANGED <<chunk, pc>>
                   ELSE chunk' = <<>> /\ pos' = 0 /\ pc' = "idle"
              /\ delivered' \in Seq(Packets) /\ Len(delivered') = Len(delivered) + 1
              /\ \A i \in 1..Len(delivered) : delivered'[i] = delivered[i]
              /\ delivered'[Len(delivered) + 1] = Handled(s)
         /\ UNCHANGED <<multipart, registered, frames, writes, wire, partial, disturbed, spoilt>>
  <1>1. PICK s \in Sizes :
          /\ Fits(s)
          /\ delivered' = Append(delivered, Handled(s))
          /\ IF multipart
               THEN pos' = pos + HeaderLen + s.header + s.data /\ UNCHANGED <<chunk, pc>>
               ELSE chunk' = <<>> /\ pos' = 0 /\ pc' = "idle"
    BY DEF Deliver, Done
  <1>2. /\ pc = "parse" /\ partial = <<>>
        /\ UNCHANGED <<multipart, registered, frames, writes, wire, partial, disturbed, spoilt>>
    BY DEF Deliver, channel, sender, history, TypeOK
  <1>3. Handled(s) \in Packets /\ delivered \in Seq(Packets)
    BY <1>1, HandledType DEF TypeOK, Packets
  <1>4. /\ delivered' \in Seq(Packets) /\ Len(delivered') = Len(delivered) + 1
        /\ \A i \in 1..Len(delivered) : delivered'[i] = delivered[i]
        /\ delivered'[Len(delivered) + 1] = Handled(s)
    BY <1>1, <1>3, AppendProperties
  <1>5. QED
    BY <1>1, <1>2, <1>4

\* Before the first read, the receiver is registered, and its connection opens
\* or ends with the process.
LEMMA OpenEffect ==
  ASSUME Register \/ Open
  PROVE  /\ UNCHANGED <<multipart, frames, writes, wire, partial, chunk, pos, delivered,
                         disturbed, spoilt>>
         /\ \/ pc' = pc /\ registered' = TRUE /\ pc # "stopped"
            \/ pc = "opening" /\ pc' = "idle" /\ registered /\ registered'
            \/ pc = "opening" /\ pc' = "stopped" /\ registered' = registered
  BY DEF Register, Open, channel, sender, history

-----------------------------------------------------------------------------
(* Types and buffers are kept *)

LEMMA TypeStep ==
  ASSUME TypeOK, BufferInv, [Next]_vars
  PROVE  TypeOK' /\ BufferInv'
  <1>0. /\ multipart \in Multipart /\ registered \in BOOLEAN
        /\ disturbed \in BOOLEAN /\ spoilt \subseteq Nat
        /\ pc \in {"opening", "idle", "parse", "stopped"}
        /\ frames \in Seq(Framed) /\ writes \in Seq([from : Nat, to : Nat]) /\ wire \in Seq(Nat)
        /\ partial \in Seq(Nat) /\ chunk \in Seq(Nat) /\ delivered \in Seq(Packets)
        /\ pos \in Nat /\ pos <= Len(chunk) /\ (pc = "parse" => partial = <<>>)
        /\ (pc # "parse" => chunk = <<>> /\ pos = 0)
        /\ (~multipart \/ pc = "opening" => partial = <<>>)
        /\ (pc \in {"idle", "parse"} => registered)
    BY SequenceTypes DEF TypeOK, BufferInv, Framed
  <1> DEFINE Typed ==
        /\ multipart' \in Multipart /\ registered' \in BOOLEAN
        /\ disturbed' \in BOOLEAN /\ spoilt' \subseteq Nat
        /\ pc' \in {"opening", "idle", "parse", "stopped"}
        /\ frames' \in Seq(Framed) /\ writes' \in Seq([from : Nat, to : Nat])
        /\ wire' \in Seq(Nat) /\ partial' \in Seq(Nat) /\ chunk' \in Seq(Nat)
        /\ delivered' \in Seq(Packets)
        /\ pos' \in Nat /\ pos' <= Len(chunk') /\ (pc' = "parse" => partial' = <<>>)
        /\ (pc' # "parse" => chunk' = <<>> /\ pos' = 0)
        /\ (~multipart' \/ pc' = "opening" => partial' = <<>>)
        /\ (pc' \in {"idle", "parse"} => registered')
  <1>a. ASSUME Typed PROVE TypeOK' /\ BufferInv'
    <2>1. pos' \in 0..Len(chunk')
      BY <1>a, LenProperties
    <2>2. QED
      BY <1>a, <2>1 DEF TypeOK, BufferInv, Framed, Packets
  <1>b. <<>> \in Seq(Nat) /\ Len(<<>>) = 0 /\ <<>> \in Seq([from : Nat, to : Nat])
    OBVIOUS
  <1>1. ASSUME NEW h \in HeaderSizes, NEW d \in DataSizes, SendData(h, d) PROVE Typed
    BY <1>0, <1>1, SendEffect
  <1>2. ASSUME SomeWrite PROVE Typed
    <2>1. PICK n \in 1..(IF writes = <<>> THEN 0 ELSE Head(writes).to - Head(writes).from) : Write(n)
      BY <1>2 DEF SomeWrite
    <2>2. n \in Nat /\ n >= 1
      BY <2>1
    <2>3. /\ wire' \in Seq(Nat) /\ writes' \in Seq([from : Nat, to : Nat])
          /\ UNCHANGED <<multipart, registered, frames, partial, chunk, pos, pc, delivered, spoilt>>
      BY <2>1, <2>2, WriteEffect
    <2>4. disturbed' \in BOOLEAN
      BY <1>0, <2>1 DEF Write
    <2>5. QED
      BY <1>0, <2>3, <2>4
  <1>3. ASSUME NEW n \in 1..Len(wire), ReadShort(n) PROVE Typed
    <2>1. wire' \in Seq(Nat)
      BY <1>3, ReadRest DEF ReadShort, Taking
    <2>2. spoilt' \subseteq Nat
      BY <1>0, <1>3, CutType DEF ReadShort, Taking
    <2>3. QED
      BY <1>0, <1>3, <2>1, <2>2 DEF ReadShort, channel, sender
  <1>4. ASSUME NEW n \in 1..Len(wire), Read(n) PROVE Typed
    <2>1. /\ wire' \in Seq(Nat) /\ chunk' \in Seq(Nat)
          /\ partial' = <<>> /\ pos' = 0 /\ pc' = "parse"
          /\ pc = "idle" /\ disturbed' \in {disturbed, TRUE} /\ spoilt' \subseteq Nat
          /\ UNCHANGED <<multipart, registered, frames, writes, delivered>>
      BY <1>4, ReadEffect
    <2>2. Len(chunk') \in Nat /\ pos' \in Nat /\ pos' <= Len(chunk')
      BY <2>1
    <2>3. registered' /\ registered' \in BOOLEAN /\ disturbed' \in BOOLEAN
      BY <1>0, <2>1
    <2>4. QED
      BY <1>0, <1>b, <2>1, <2>2, <2>3
  <1>5. ASSUME Deliver PROVE Typed
    <2>1. /\ pc = "parse" /\ partial = <<>>
          /\ UNCHANGED <<multipart, registered, frames, writes, wire, partial, disturbed, spoilt>>
      BY <1>5, DeliverEffect
    <2>2. PICK s \in Sizes :
            /\ Fits(s) /\ delivered' \in Seq(Packets)
            /\ IF multipart
                 THEN pos' = pos + HeaderLen + s.header + s.data /\ UNCHANGED <<chunk, pc>>
                 ELSE chunk' = <<>> /\ pos' = 0 /\ pc' = "idle"
      BY <1>5, DeliverEffect
    <2>3. pos + HeaderLen + s.header + s.data \in Nat
          /\ pos + HeaderLen + s.header + s.data <= Len(chunk)
      <3>1. s.header \in Nat /\ s.data \in Nat
        BY SizesType
      <3>2. pos \in Nat /\ HeaderLen \in Nat
        BY <1>0, StreamAssumption DEF StreamAssumption
      <3>3. QED
        BY <2>2, <3>1, <3>2 DEF Fits
    <2>4. CASE multipart
      <3>1. pos' \in Nat /\ pos' <= Len(chunk) /\ chunk' = chunk /\ pc' = pc
        BY <2>2, <2>3, <2>4
      <3>2. QED
        BY <1>0, <2>1, <2>2, <3>1
    <2>5. CASE ~multipart
      <3>1. chunk' = <<>> /\ pos' = 0 /\ pc' = "idle"
        BY <2>2, <2>5
      <3>2. QED
        BY <1>0, <1>b, <2>1, <2>2, <3>1
    <2>6. QED
      BY <2>4, <2>5
  <1>6. ASSUME Incomplete PROVE Typed
    <2>1. /\ partial' \in Seq(Nat) /\ (~multipart => partial' = <<>>)
          /\ chunk' = <<>> /\ pos' = 0 /\ pc = "parse" /\ pc' = "idle"
          /\ UNCHANGED <<multipart, registered, frames, writes, wire, delivered, disturbed, spoilt>>
      BY <1>6, IncompleteEffect
    <2>2. pos' \in Nat /\ pos' <= Len(chunk')
      BY <1>b, <2>1
    <2>3. QED
      BY <1>0, <1>b, <2>1, <2>2
  <1>7. ASSUME ConnectionLost PROVE Typed
    BY <1>0, <1>b, <1>7 DEF ConnectionLost, channel, history
  <1>8. ASSUME UNCHANGED vars PROVE Typed
    BY <1>0, <1>8 DEF vars, history
  <1>10. ASSUME Register \/ Open PROVE Typed
    BY <1>0, <1>10, OpenEffect
  <1> HIDE DEF Typed
  <1>9. QED
    BY <1>a, <1>1, <1>2, <1>3, <1>4, <1>5, <1>6, <1>7, <1>8, <1>10 DEF Next, SomeRead

-----------------------------------------------------------------------------
(* The frames follow each other *)

LEMMA FramesStep ==
  ASSUME TypeOK, FramesInv, [Next]_vars
  PROVE  FramesInv'
  <1>0. /\ Len(frames) \in Nat /\ DOMAIN frames = 1..Len(frames) /\ NextByte \in Nat
        /\ \A i \in DOMAIN frames : frames[i] \in Framed
    BY SequenceTypes
  <1>1. ASSUME NEW h \in HeaderSizes, NEW d \in DataSizes, SendData(h, d) PROVE FramesInv'
    <2> DEFINE f == [start |-> NextByte, header |-> h, data |-> d]
    <2>1. /\ f \in Framed /\ FrameLen(f) <= MaxTxUnit /\ f.start = NextByte
          /\ frames' \in Seq(Framed) /\ Len(frames') = Len(frames) + 1
          /\ \A i \in 1..Len(frames) : frames'[i] = frames[i]
          /\ frames'[Len(frames) + 1] = f
          /\ NextByte' = EndOf(f) /\ NextByte < EndOf(f)
          /\ disturbed' = (disturbed \/ ~Held(f))
      BY <1>1, SendEffect
    <2> HIDE DEF f
    <2>2. DOMAIN frames' = 1..(Len(frames) + 1)
      BY <2>1, LenProperties
    <2>3. EndOf(f) \in Nat
      BY <2>1, FrameType
    <2>4. ASSUME NEW i \in 1..(Len(frames) + 1) PROVE Start'[i] = Start[i]
      BY <1>0, <2>1, <2>2 DEF Start
    <2>6. ASSUME NEW i \in DOMAIN frames'
          PROVE  /\ Start'[i + 1] = EndOf(frames'[i])
                 /\ EndOf(frames'[i]) <= NextByte'
                 /\ FrameLen(frames'[i]) <= MaxTxUnit
      <3>1. CASE i \in DOMAIN frames
        <4>1. frames'[i] = frames[i] /\ i + 1 \in 1..(Len(frames) + 1)
          BY <1>0, <2>1, <3>1
        <4>2. /\ Start[i + 1] = EndOf(frames[i]) /\ EndOf(frames[i]) <= NextByte
              /\ FrameLen(frames[i]) <= MaxTxUnit /\ EndOf(frames[i]) \in Nat
          BY <1>0, <3>1, FrameType DEF FramesInv
        <4>3. Start'[i + 1] = Start[i + 1]
          BY <2>4, <4>1
        <4>4. QED
          BY <1>0, <2>1, <2>3, <4>1, <4>2, <4>3
      <3>2. CASE i = Len(frames) + 1
        <4>1. i + 1 = Len(frames) + 2
          BY <1>0, <3>2
        <4>2. frames'[i] = f
          BY <2>1, <3>2
        <4>3. Start'[i + 1] = EndOf(f)
          BY <1>0, <2>1, <2>2, <4>1 DEF Start
        <4>4. EndOf(f) <= NextByte' /\ FrameLen(f) <= MaxTxUnit
          BY <2>1, <2>3
        <4>5. QED
          BY <4>2, <4>3, <4>4
      <3>3. QED
        BY <1>0, <2>2, <3>1, <3>2
    <2>7. ASSUME NEW i \in DOMAIN frames', NEW j \in DOMAIN frames', i < j
          PROVE  EndOf(frames'[i]) <= frames'[j].start
      <3>1. i \in DOMAIN frames /\ frames'[i] = frames[i]
        BY <1>0, <2>1, <2>2, <2>7
      <3>2. CASE j \in DOMAIN frames
        BY <1>0, <2>1, <2>7, <3>1, <3>2 DEF FramesInv
      <3>3. CASE j = Len(frames) + 1
        BY <2>1, <3>1, <3>3 DEF FramesInv
      <3>4. QED
        BY <1>0, <2>2, <3>2, <3>3
    <2>8. Start'[1] = 0
      BY <1>0, <2>4 DEF FramesInv
    <2>9. ASSUME ~disturbed', NEW i \in DOMAIN frames' PROVE Held(frames'[i])
      <3>1. ~disturbed /\ Held(f)
        BY <2>1, <2>9
      <3>2. (i \in DOMAIN frames /\ frames'[i] = frames[i]) \/ frames'[i] = f
        BY <1>0, <2>1, <2>2
      <3>3. QED
        BY <3>1, <3>2 DEF FramesInv
    <2>10. QED
      BY <2>6, <2>7, <2>8, <2>9 DEF FramesInv
  <1>2. CASE UNCHANGED frames /\ (disturbed => disturbed')
    BY <1>2 DEF FramesInv, Start, NextByte
  <1>3. CASE SomeWrite \/ SomeRead \/ Deliver \/ Incomplete \/ ConnectionLost \/ UNCHANGED vars
    <2>1. CASE SomeWrite
      <3>1. UNCHANGED frames
        BY <2>1 DEF SomeWrite, Write
      <3>2. disturbed => disturbed'
        BY <2>1 DEF SomeWrite, Write
      <3>3. QED
        BY <1>2, <3>1, <3>2
    <2>2. CASE SomeRead
      <3>1. UNCHANGED frames
        BY <2>2 DEF SomeRead, ReadShort, Read, sender
      <3>2. disturbed => disturbed'
        BY <2>2 DEF SomeRead, ReadShort, Read
      <3>3. QED
        BY <1>2, <3>1, <3>2
    <2>3. CASE Deliver \/ Incomplete \/ ConnectionLost \/ UNCHANGED vars
      <3>1. UNCHANGED <<frames, disturbed>>
        BY <2>3 DEF Deliver, Incomplete, ConnectionLost, sender, history, vars
      <3>2. QED
        BY <1>2, <3>1
    <2>4. QED
      BY <1>3, <2>1, <2>2, <2>3
  <1>5. CASE Register \/ Open
    BY <1>2, <1>5, OpenEffect
  <1>4. QED
    BY <1>1, <1>3, <1>5 DEF Next

\* Where frames start, in numbers.
LEMMA Starts1 ==
  ASSUME TypeOK, FramesInv
  PROVE  /\ \A i \in 1..(Len(frames) + 1) : Start[i] \in Nat /\ Start[i] <= NextByte
         /\ \A i \in DOMAIN frames :
              /\ Start[i] = frames[i].start
              /\ Start[i + 1] = Start[i] + FrameLen(frames[i])
              /\ FrameLen(frames[i]) \in Nat /\ FrameLen(frames[i]) >= 1
              /\ FrameLen(frames[i]) = HeaderLen + frames[i].header + frames[i].data
              /\ frames[i].header \in Nat /\ frames[i].data \in Nat
         /\ Start[Len(frames) + 1] = NextByte
         /\ \A i, j \in DOMAIN frames : Start[i] = Start[j] => i = j
  <1>0. /\ Len(frames) \in Nat /\ DOMAIN frames = 1..Len(frames) /\ NextByte \in Nat
        /\ \A i \in DOMAIN frames : frames[i] \in Framed
    BY SequenceTypes
  <1>1. ASSUME NEW i \in DOMAIN frames
        PROVE  /\ Start[i] = frames[i].start /\ Start[i] \in Nat
               /\ Start[i + 1] = Start[i] + FrameLen(frames[i])
               /\ Start[i] + FrameLen(frames[i]) <= NextByte
               /\ FrameLen(frames[i]) \in Nat /\ FrameLen(frames[i]) >= 1
               /\ FrameLen(frames[i]) = HeaderLen + frames[i].header + frames[i].data
               /\ frames[i].header \in Nat /\ frames[i].data \in Nat
    <2>1. Start[i] = frames[i].start
      BY <1>0 DEF Start
    <2>2. /\ frames[i].start \in Nat /\ frames[i].header \in Nat /\ frames[i].data \in Nat
          /\ FrameLen(frames[i]) \in Nat /\ FrameLen(frames[i]) >= 1
          /\ FrameLen(frames[i]) = HeaderLen + frames[i].header + frames[i].data
          /\ EndOf(frames[i]) = frames[i].start + FrameLen(frames[i])
      BY <1>0, FrameType
    <2>3. Start[i + 1] = EndOf(frames[i]) /\ EndOf(frames[i]) <= NextByte
      BY DEF FramesInv
    <2>4. QED
      BY <2>1, <2>2, <2>3
  <1>2. Start[Len(frames) + 1] = NextByte
    BY <1>0 DEF Start
  <1>3. ASSUME NEW i \in 1..(Len(frames) + 1) PROVE Start[i] \in Nat /\ Start[i] <= NextByte
    BY <1>0, <1>1, <1>2
  <1>4. ASSUME NEW i \in DOMAIN frames, NEW j \in DOMAIN frames, i < j PROVE Start[i] < Start[j]
    <2>1. EndOf(frames[i]) <= frames[j].start
      BY <1>4 DEF FramesInv
    <2>2. EndOf(frames[i]) = Start[i] + FrameLen(frames[i])
      BY <1>0, <1>1, FrameType
    <2>3. QED
      BY <1>1, <2>1, <2>2
  <1>5. ASSUME NEW i \in DOMAIN frames, NEW j \in DOMAIN frames, Start[i] = Start[j] PROVE i = j
    <2>1. ~(i < j) /\ ~(j < i)
      BY <1>1, <1>4, <1>5
    <2>2. QED
      BY <1>0, <2>1
  <1>6. QED
    BY <1>1, <1>2, <1>3, <1>5

-----------------------------------------------------------------------------
(* The stream in numbers, while it is not disturbed *)

LEMMA FlowFacts ==
  ASSUME TypeOK, FramesInv, FlowInv, Len(delivered) <= Len(frames)
  PROVE  /\ Unwritten \in Nat /\ Unwritten <= NextByte
         /\ OnWire \in Nat /\ Undelivered \in Nat
         /\ OnWire = Unwritten - Len(wire)
         /\ Undelivered = OnWire - Len(partial) - (Len(chunk) - pos)
         /\ Undelivered = Start[Len(delivered) + 1]
         /\ Undelivered < NextByte =>
              /\ Len(delivered) < Len(frames) /\ Len(delivered) + 1 \in DOMAIN frames
              /\ frames[Len(delivered) + 1].start = Undelivered
         /\ Len(delivered) < Len(frames) => Len(delivered) + 1 \in DOMAIN frames
         /\ Len(delivered) = Len(frames) => Undelivered = NextByte
  <1>1. /\ Len(frames) \in Nat /\ DOMAIN frames = 1..Len(frames) /\ NextByte \in Nat
        /\ Len(writes) \in Nat /\ Len(wire) \in Nat /\ Len(partial) \in Nat /\ Len(chunk) \in Nat
        /\ pos \in Nat /\ pos <= Len(chunk) /\ Len(delivered) \in Nat
    BY SequenceTypes
  <1>2. Len(writes) <= Len(frames) /\ Undelivered = Start[Len(delivered) + 1]
    BY DEF FlowInv
  <1>3. /\ Len(frames) - Len(writes) + 1 \in 1..(Len(frames) + 1)
        /\ Len(delivered) + 1 \in 1..(Len(frames) + 1)
    BY <1>1, <1>2
  <1>4. Unwritten \in Nat /\ Unwritten <= NextByte
    BY <1>3, Starts1 DEF Unwritten
  <1>5. Start[Len(delivered) + 1] \in Nat /\ Start[Len(delivered) + 1] <= NextByte
    BY <1>3, Starts1
  <1>6. /\ OnWire = Unwritten - Len(wire)
        /\ Undelivered = OnWire - Len(partial) - (Len(chunk) - pos)
    BY DEF OnWire, Undelivered
  <1>7. Len(delivered) = Len(frames) => Undelivered = NextByte
    BY <1>2, Starts1
  <1>8. Len(delivered) < Len(frames) =>
          Len(delivered) + 1 \in DOMAIN frames /\ frames[Len(delivered) + 1].start = Undelivered
    BY <1>1, <1>2, Starts1
  <1>9. OnWire \in Nat /\ Undelivered \in Nat
    BY <1>1, <1>2, <1>4, <1>5, <1>6
  <1>10. Undelivered < NextByte => Len(delivered) < Len(frames)
    BY <1>1, <1>7, <1>9
  <1>11. QED
    BY <1>2, <1>4, <1>6, <1>7, <1>8, <1>9, <1>10

LEMMA SumType ==
  ASSUME NEW a \in Nat, NEW b \in Nat, NEW c \in Nat
  PROVE  a + b \in Nat /\ a + b + c \in Nat
  OBVIOUS

LEMMA SmallRemainder ==
  ASSUME NEW n \in Nat, NEW m \in Nat, n < m
  PROVE  n % m = n
  OBVIOUS

\* In step with the frames, the sizes read are those of the next packet.
LEMMA SizesKnown ==
  ASSUME TypeOK, FramesInv, FlowInv, Len(delivered) <= Len(frames), ~disturbed, pc = "parse",
         pos + HeaderLen <= Len(chunk), NEW s \in Sizes
  PROVE  /\ Len(delivered) < Len(frames) /\ Len(delivered) + 1 \in DOMAIN frames
         /\ s.header = frames[Len(delivered) + 1].header
         /\ s.data = frames[Len(delivered) + 1].data
         /\ frames[Len(delivered) + 1].start = Undelivered
  <1> DEFINE next == Len(delivered) + 1
             f == frames[next]
             known == {g \in ToSet(frames) : Starts(g)}
  <1>0. /\ HeaderLen \in Nat /\ HeaderLen >= 1 /\ FieldLimit \in Nat /\ MaxTxUnit \in Nat
    BY StreamAssumption DEF StreamAssumption
  <1>1. /\ DOMAIN frames = 1..Len(frames) /\ NextByte \in Nat /\ Len(wire) \in Nat
        /\ Len(chunk) \in Nat /\ DOMAIN chunk = 1..Len(chunk) /\ pos \in Nat /\ partial = <<>>
        /\ \A i \in DOMAIN frames : frames[i] \in Framed
    BY SequenceTypes DEF TypeOK
  <1>2. /\ Unwritten \in Nat /\ Unwritten <= NextByte /\ OnWire \in Nat /\ Undelivered \in Nat
        /\ OnWire = Unwritten - Len(wire)
        /\ Undelivered = OnWire - (Len(chunk) - pos)
    BY <1>1, FlowFacts
  <1>3. Undelivered < NextByte
    BY <1>0, <1>1, <1>2
  <1>4. Len(delivered) < Len(frames) /\ next \in DOMAIN frames /\ f.start = Undelivered
    BY <1>3, FlowFacts
  <1>5. ASSUME NEW i \in 1..HeaderLen PROVE chunk[pos + i] = Undelivered + i - 1
    <2>1. pos + i \in DOMAIN chunk
      BY <1>0, <1>1
    <2>2. chunk[pos + i] = OnWire - Len(chunk) + (pos + i) - 1
      BY <2>1 DEF FlowInv
    <2>3. QED
      BY <1>0, <1>1, <1>2, <2>2
  <1> HIDE DEF next
  <1>6. Starts(f)
    BY <1>4, <1>5 DEF Starts
  <1>7. ASSUME NEW g \in known PROVE g = f
    <2>1. PICK j \in DOMAIN frames : frames[j] = g
      BY DEF ToSet
    <2>2. 1 \in 1..HeaderLen
      BY <1>0
    <2>3. chunk[pos + 1] = g.start + 1 - 1 /\ chunk[pos + 1] = Undelivered + 1 - 1
      BY <1>5, <2>2 DEF Starts
    <2>4. g.start \in Nat
      BY <1>1, <2>1, FrameType
    <2>5. frames[j].start = frames[next].start
      BY <1>2, <1>4, <2>1, <2>3, <2>4
    <2>6. j = next
      BY <1>4, <2>1, <2>5, Starts1
    <2>7. QED
      BY <2>1, <2>6
  <1>8. known = {f}
    BY <1>4, <1>6, <1>7 DEF ToSet
  <1>9. s = [header |-> f.header % FieldLimit, data |-> f.data % FieldLimit]
    BY <1>8 DEF Sizes
  <1>10. f.header \in Nat /\ f.data \in Nat
    BY <1>1, <1>4, FrameType
  <1>11. f.header < FieldLimit /\ f.data < FieldLimit
    BY <1>4 DEF FramesInv, Held
  <1>12. f.header % FieldLimit = f.header /\ f.data % FieldLimit = f.data
    BY <1>0, <1>10, <1>11, SmallRemainder
  <1>13. s.header = f.header /\ s.data = f.data
    BY <1>9, <1>12
  <1>14. QED
    BY <1>4, <1>13 DEF next

-----------------------------------------------------------------------------
(* What each action does to an undisturbed stream *)

Flowing == FlowInv /\ CutInv /\ PacketsIntact

LEMMA FlowAtSend ==
  ASSUME TypeOK, FramesInv, Flowing,
         NEW h \in HeaderSizes, NEW d \in DataSizes, SendData(h, d)
  PROVE  Flowing'
  <1> DEFINE f == [start |-> NextByte, header |-> h, data |-> d]
             N == Len(frames)
             W == Len(writes)
  <1>1. /\ f \in Framed /\ f.start = NextByte
        /\ frames' \in Seq(Framed) /\ Len(frames') = N + 1
        /\ \A i \in 1..N : frames'[i] = frames[i]
        /\ frames'[N + 1] = f
        /\ writes' \in Seq([from : Nat, to : Nat]) /\ Len(writes') = W + 1
        /\ \A i \in 1..W : writes'[i] = writes[i]
        /\ writes'[W + 1].from = NextByte
        /\ writes'[W + 1].to = EndOf(f)
        /\ UNCHANGED <<multipart, wire, partial, chunk, pos, pc, delivered>>
    BY SendEffect
  <1> HIDE DEF f
  <1>2. /\ N \in Nat /\ DOMAIN frames = 1..N /\ W \in Nat /\ DOMAIN writes = 1..W
        /\ Len(delivered) \in Nat /\ DOMAIN delivered = 1..Len(delivered)
        /\ Len(partial) \in Nat /\ Len(chunk) \in Nat /\ Len(wire) \in Nat
        /\ pos \in Nat /\ pos <= Len(chunk) /\ NextByte \in Nat
    BY SequenceTypes
  <1>3. DOMAIN frames' = 1..(N + 1) /\ DOMAIN writes' = 1..(W + 1)
    BY <1>1, LenProperties
  <1>4. W <= N /\ Len(delivered) <= N
    BY DEF Flowing, FlowInv, PacketsIntact
  <1>5. ASSUME NEW i \in 1..(N + 1) PROVE Start'[i] = Start[i]
    <2>1. i \in 1..(Len(frames') + 1)
      BY <1>1, <1>2
    <2>2. CASE i \in 1..N
      BY <1>1, <1>2, <1>3, <2>1, <2>2 DEF Start
    <2>3. CASE i = N + 1
      <3>1. i \notin DOMAIN frames /\ i \in DOMAIN frames'
        BY <1>2, <1>3, <2>3
      <3>2. QED
        BY <1>1, <2>1, <2>3, <3>1 DEF Start
    <2>4. QED
      BY <1>2, <2>2, <2>3
  <1>6. Unwritten' = Unwritten
    <2>1. Unwritten' = Start'[Len(frames') - Len(writes') + 1]
      BY DEF Unwritten
    <2>2. Len(frames') - Len(writes') + 1 = N - W + 1 /\ N - W + 1 \in 1..(N + 1)
      BY <1>1, <1>2, <1>4
    <2>3. Start'[N - W + 1] = Start[N - W + 1]
      BY <1>5, <2>2
    <2>4. QED
      BY <2>1, <2>2, <2>3 DEF Unwritten
  <1>7. OnWire' = OnWire /\ Undelivered' = Undelivered
    BY <1>1, <1>6 DEF OnWire, Undelivered
  <1>8. Start'[Len(delivered) + 1] = Start[Len(delivered) + 1]
    <2>1. Len(delivered) + 1 \in 1..(N + 1)
      BY <1>2, <1>4
    <2>2. QED
      BY <1>1, <1>5, <2>1
  <1>9. ASSUME NEW i \in 1..(W + 1)
        PROVE  /\ writes'[i].from = frames'[Len(frames') - Len(writes') + i].start
               /\ writes'[i].to = EndOf(frames'[Len(frames') - Len(writes') + i])
    <2>0. N \in Nat /\ W \in Nat /\ W <= N
      BY <1>2, <1>4
    <2>1. Len(frames') - Len(writes') + i = N - W + i /\ N - W + i \in 1..(N + 1)
      <3>1. Len(frames') - Len(writes') + i = (N + 1) - (W + 1) + i
        BY <1>1
      <3> HIDE DEF N, W
      <3>2. (N + 1) - (W + 1) + i = N - W + i /\ N - W + i \in 1..(N + 1)
        BY <2>0
      <3>3. QED
        BY <3>1, <3>2
    <2>2. CASE i \in 1..W
      <3>1. N - W + i \in 1..N
        BY <1>2, <1>4, <2>2
      <3>2. frames'[N - W + i] = frames[N - W + i] /\ writes'[i] = writes[i]
        BY <1>1, <2>2, <3>1
      <3>3. QED
        BY <1>2, <2>1, <2>2, <3>2 DEF Flowing, FlowInv
    <2>3. CASE i = W + 1
      <3>1. N - W + i = N + 1
        BY <1>2, <2>3
      <3>2. QED
        BY <1>1, <2>1, <2>3, <3>1
    <2>4. QED
      BY <1>2, <2>2, <2>3
  <1>10. FlowInv'
    <2>1. Len(writes') <= Len(frames')
      BY <1>1, <1>2, <1>4
    <2>2. /\ \A k \in DOMAIN wire' : wire'[k] = OnWire' + k - 1
          /\ \A k \in DOMAIN chunk' : chunk'[k] = OnWire' - Len(chunk') + k - 1
          /\ \A k \in DOMAIN partial' : partial'[k] = OnWire' - Len(partial') + k - 1
      BY <1>1, <1>7 DEF Flowing, FlowInv
    <2>3. Undelivered' = Start'[Len(delivered') + 1]
      BY <1>1, <1>7, <1>8 DEF Flowing, FlowInv
    <2>4. QED
      BY <1>3, <1>9, <2>1, <2>2, <2>3 DEF FlowInv
  <1>11. PacketsIntact'
    BY <1>1, <1>2, <1>4 DEF Flowing, PacketsIntact
  <1>12. CutInv'
    <2>1. ASSUME pc = "idle"
          PROVE  Len(partial) < FrameLen(frames'[Len(delivered) + 1])
      <3>1. CASE Len(delivered) < N
        <4>1. Len(partial) < FrameLen(frames[Len(delivered) + 1])
          BY <2>1, <3>1 DEF Flowing, CutInv
        <4>2. Len(delivered) + 1 \in 1..N
          BY <1>2, <3>1
        <4>3. frames'[Len(delivered) + 1] = frames[Len(delivered) + 1]
          BY <1>1, <4>2
        <4>4. QED
          BY <4>1, <4>3
      <3>2. CASE Len(delivered) = N
        <4>1. /\ Undelivered = NextByte /\ Unwritten <= NextByte /\ Unwritten \in Nat
              /\ OnWire = Unwritten - Len(wire) /\ OnWire \in Nat
              /\ Undelivered = OnWire - Len(partial) - (Len(chunk) - pos)
          BY <3>2, <1>4, FlowFacts DEF Flowing
        <4>2. Len(partial) = 0
          BY <1>2, <4>1
        <4>3. FrameLen(f) \in Nat /\ FrameLen(f) >= 1
          BY <1>1, FrameType
        <4>4. frames'[Len(delivered) + 1] = f
          BY <1>1, <3>2
        <4>5. QED
          BY <4>2, <4>3, <4>4
      <3>3. Len(delivered) < N \/ Len(delivered) = N
        <4>1. Len(delivered) \in Nat /\ N \in Nat /\ Len(delivered) <= N
          BY <1>2, <1>4
        <4>2. QED
          BY <4>1
      <3>4. QED
        BY <3>1, <3>2, <3>3
    <2>2. ASSUME pc = "parse", ~multipart
          PROVE  /\ pos = 0 /\ Len(delivered) < N + 1
                 /\ Len(chunk) = FrameLen(frames'[Len(delivered) + 1])
      <3>1. pos = 0 /\ Len(delivered) < N /\ Len(chunk) = FrameLen(frames[Len(delivered) + 1])
        BY <2>2 DEF Flowing, CutInv
      <3>2. Len(delivered) + 1 \in 1..N
        BY <1>2, <3>1
      <3>3. QED
        BY <1>1, <1>2, <3>1, <3>2
    <2>3. QED
      BY <1>1, <2>1, <2>2 DEF CutInv
  <1>13. QED
    BY <1>10, <1>11, <1>12 DEF Flowing

\* Where frames start while none is added.
LEMMA SameFrames ==
  ASSUME UNCHANGED frames
  PROVE  NextByte' = NextByte /\ Start' = Start
  BY DEF Start, NextByte

LEMMA FlowAtWrite ==
  ASSUME TypeOK, FramesInv, Flowing, NEW n \in Nat, n >= 1, Write(n), ~disturbed'
  PROVE  Flowing'
  <1> DEFINE N == Len(frames)
             W == Len(writes)
             m == writes[1].to - writes[1].from
  <1>1. /\ 1 \in DOMAIN writes /\ n <= m
        /\ wire' \in Seq(Nat) /\ Len(wire') = Len(wire) + n
        /\ \A k \in 1..Len(wire) : wire'[k] = wire[k]
        /\ \A k \in 1..n : wire'[Len(wire) + k] = writes[1].from + k - 1
        /\ writes' \in Seq([from : Nat, to : Nat])
        /\ \A i \in 1..(W - 1) : writes'[i] = writes[i + 1]
        /\ n = m => Len(writes') = W - 1
        /\ n < m => disturbed' = TRUE
        /\ UNCHANGED <<multipart, frames, partial, chunk, pos, pc, delivered>>
    BY WriteEffect
  <1>2. /\ N \in Nat /\ DOMAIN frames = 1..N /\ W \in Nat /\ DOMAIN writes = 1..W
        /\ Len(wire) \in Nat /\ DOMAIN wire = 1..Len(wire)
        /\ writes[1].from \in Nat /\ writes[1].to \in Nat
        /\ \A i \in DOMAIN frames : frames[i] \in Framed
    BY <1>1, SequenceTypes
  <1>3. n = m /\ Len(writes') = W - 1
    <2>1. ~(n < m)
      BY <1>1
    <2>2. m \in Int
      BY <1>2
    <2>3. QED
      BY <1>1, <2>1, <2>2
  <1>4. /\ DOMAIN writes' = 1..(W - 1) /\ DOMAIN wire' = 1..(Len(wire) + n)
    BY <1>1, <1>3, LenProperties
  <1>5. /\ W <= N /\ W >= 1 /\ Len(delivered) <= N
        /\ writes[1].from = frames[N - W + 1].start /\ writes[1].to = EndOf(frames[N - W + 1])
    <2>1. W <= N /\ Len(delivered) <= N
      BY DEF Flowing, FlowInv, PacketsIntact
    <2>2. /\ writes[1].from = frames[N - W + 1].start
          /\ writes[1].to = EndOf(frames[N - W + 1])
      BY <1>1 DEF Flowing, FlowInv
    <2>3. W >= 1
      <3>1. 1 \in 1..W /\ W \in Nat
        BY <1>1, <1>2
      <3>2. QED
        BY <3>1
    <2>4. QED
      BY <2>1, <2>2, <2>3
  <1>6. N - W + 1 \in 1..N
    BY <1>2, <1>5
  <1>7. /\ Start[N - W + 1] = writes[1].from /\ Start[N - W + 2] = writes[1].to
        /\ Unwritten = writes[1].from
    <2>1. (N - W + 1) + 1 = N - W + 2
      BY <1>2
    <2>2. Start[N - W + 1] = frames[N - W + 1].start
          /\ Start[(N - W + 1) + 1] = EndOf(frames[N - W + 1])
      BY <1>2, <1>6, Starts1, FrameType DEF FramesInv
    <2>3. QED
      BY <1>5, <2>1, <2>2 DEF Unwritten
  <1>8. Unwritten' = Unwritten + n
    <2>1. Len(frames') - Len(writes') + 1 = N - W + 2
      BY <1>1, <1>2, <1>3
    <2>2. Unwritten' = Start'[N - W + 2]
      BY <2>1 DEF Unwritten
    <2>3. Unwritten' = Start[N - W + 2]
      BY <1>1, <2>2, SameFrames
    <2>4. QED
      BY <1>2, <1>3, <1>7, <2>3
  <1>9. /\ Unwritten \in Nat /\ OnWire \in Nat /\ OnWire = Unwritten - Len(wire)
    BY <1>5, FlowFacts DEF Flowing
  <1>10. OnWire' = OnWire /\ Undelivered' = Undelivered
    <2>1. OnWire' = Unwritten' - Len(wire')
      BY DEF OnWire
    <2>2. OnWire' = OnWire
      <3>1. OnWire' = (Unwritten + n) - (Len(wire) + n)
        BY <1>1, <1>8, <2>1
      <3>2. QED
        BY <1>2, <1>9, <3>1
    <2>3. QED
      BY <1>1, <2>2 DEF Undelivered
  <1>11. ASSUME NEW k \in 1..(Len(wire) + n) PROVE wire'[k] = OnWire + k - 1
    <2>1. CASE k \in 1..Len(wire)
      BY <1>1, <1>2, <2>1 DEF Flowing, FlowInv
    <2>2. CASE k \notin 1..Len(wire)
      <3>1. PICK l \in 1..n : k = Len(wire) + l
        <4>1. k - Len(wire) \in 1..n /\ k = Len(wire) + (k - Len(wire))
          BY <1>2, <2>2
        <4>2. QED
          BY <4>1
      <3>2. wire'[k] = writes[1].from + l - 1
        BY <1>1, <3>1
      <3>3. wire'[k] = Unwritten + l - 1
        BY <1>7, <3>2
      <3>4. QED
        BY <1>2, <1>9, <3>1, <3>3
    <2>3. QED
      BY <2>1, <2>2
  <1>12. ASSUME NEW i \in 1..(W - 1)
         PROVE  /\ writes'[i].from = frames[N - Len(writes') + i].start
                /\ writes'[i].to = EndOf(frames[N - Len(writes') + i])
    <2>1. N - Len(writes') + i = N - W + (i + 1) /\ i + 1 \in DOMAIN writes
      BY <1>2, <1>3
    <2>2. writes'[i] = writes[i + 1]
      BY <1>1
    <2>3. QED
      BY <2>1, <2>2 DEF Flowing, FlowInv
  <1>13. Start'[Len(delivered) + 1] = Start[Len(delivered) + 1]
    BY <1>1, SameFrames
  <1>14. Len(writes') <= N
    BY <1>2, <1>3, <1>5
  <1>15. FlowInv'
    BY <1>1, <1>4, <1>10, <1>11, <1>12, <1>13, <1>14 DEF Flowing, FlowInv
  <1>16. CutInv' /\ PacketsIntact'
    BY <1>1 DEF Flowing, CutInv, PacketsIntact
  <1>17. QED
    BY <1>15, <1>16 DEF Flowing

LEMMA FlowAtRead ==
  ASSUME TypeOK, FramesInv, BufferInv, Flowing, NEW n \in 1..Len(wire), Read(n), ~disturbed'
  PROVE  Flowing'
  <1> DEFINE N == Len(frames)
             D == Len(delivered)
             P == Len(partial)
             L == Len(wire)
  <1>1. /\ wire' \in Seq(Nat) /\ Len(wire') = L - n
        /\ \A k \in 1..(L - n) : wire'[k] = wire[n + k]
        /\ chunk' \in Seq(Nat) /\ Len(chunk') = P + n
        /\ \A k \in 1..P : chunk'[k] = partial[k]
        /\ \A k \in 1..n : chunk'[P + k] = wire[k]
        /\ partial' = <<>> /\ pos' = 0 /\ pc' = "parse" /\ pc = "idle"
        /\ ~multipart => \E f \in ToSet(frames) : f.start = wire[1] /\ FrameLen(f) = n
        /\ UNCHANGED <<multipart, frames, writes, delivered>>
    BY ReadEffect
  <1>2. /\ N \in Nat /\ DOMAIN frames = 1..N /\ D \in Nat
        /\ P \in Nat /\ DOMAIN partial = 1..P /\ L \in Nat /\ DOMAIN wire = 1..L
        /\ NextByte \in Nat /\ \A i \in DOMAIN frames : frames[i] \in Framed
    BY SequenceTypes
  <1>3. /\ DOMAIN wire' = 1..(L - n) /\ DOMAIN chunk' = 1..(P + n) /\ DOMAIN partial' = {}
        /\ Len(partial') = 0
    BY <1>1, LenProperties
  <1>4. chunk = <<>> /\ pos = 0 /\ Len(chunk) = 0 /\ D <= N
    BY <1>1 DEF BufferInv, Flowing, PacketsIntact
  <1>5. /\ Unwritten \in Nat /\ Unwritten <= NextByte /\ OnWire \in Nat /\ Undelivered \in Nat
        /\ OnWire = Unwritten - L
        /\ Undelivered = OnWire - P - (Len(chunk) - pos)
        /\ Undelivered = Start[D + 1]
    BY <1>4, FlowFacts DEF Flowing
  <1>6. Undelivered = OnWire - P
    BY <1>2, <1>4, <1>5
  <1>7. OnWire' = OnWire + n
    <2>1. Unwritten' = Unwritten
      BY <1>1, SameFrames DEF Unwritten
    <2>2. OnWire' = Unwritten - (L - n)
      BY <1>1, <2>1 DEF OnWire
    <2>3. QED
      BY <1>2, <1>5, <2>2
  <1>8. Undelivered' = Undelivered
    <2>1. Undelivered' = (OnWire + n) - 0 - ((P + n) - 0)
      BY <1>1, <1>3, <1>7 DEF Undelivered
    <2>2. QED
      BY <1>2, <1>5, <1>6, <2>1
  <1>9. ASSUME NEW k \in 1..(L - n) PROVE wire'[k] = OnWire' + k - 1
    <2>1. n + k \in DOMAIN wire
      BY <1>2
    <2>2. wire[n + k] = OnWire + (n + k) - 1
      BY <2>1 DEF Flowing, FlowInv
    <2>3. wire'[k] = OnWire + (n + k) - 1
      BY <1>1, <2>2
    <2>4. QED
      BY <1>5, <1>7, <2>3
  <1>10. ASSUME NEW k \in 1..(P + n) PROVE chunk'[k] = OnWire' - Len(chunk') + k - 1
    <2>1. OnWire' - Len(chunk') + k - 1 = OnWire - P + k - 1
      <3>1. OnWire' - Len(chunk') + k - 1 = (OnWire + n) - (P + n) + k - 1
        BY <1>1, <1>7
      <3>2. QED
        BY <1>2, <1>5, <3>1
    <2>2. CASE k \in 1..P
      <3>1. chunk'[k] = partial[k] /\ partial[k] = OnWire - P + k - 1
        BY <1>1, <1>2, <2>2 DEF Flowing, FlowInv
      <3>2. QED
        BY <2>1, <3>1
    <2>3. CASE k \notin 1..P
      <3>1. PICK l \in 1..n : k = P + l
        <4>1. k - P \in 1..n /\ k = P + (k - P)
          BY <1>2, <2>3
        <4>2. QED
          BY <4>1
      <3>2. chunk'[k] = wire[l]
        BY <1>1, <3>1
      <3>3. l \in DOMAIN wire
        BY <1>2, <3>1
      <3>4. wire[l] = OnWire + l - 1
        BY <3>3 DEF Flowing, FlowInv
      <3>5. OnWire + l - 1 = OnWire - P + k - 1
        BY <1>2, <1>5, <3>1
      <3>6. QED
        BY <2>1, <3>2, <3>4, <3>5
    <2>4. QED
      BY <2>2, <2>3
  <1>11. FlowInv'
    <2>1. /\ Len(writes') <= Len(frames')
          /\ \A i \in DOMAIN writes' :
               /\ writes'[i].from = frames'[Len(frames') - Len(writes') + i].start
               /\ writes'[i].to = EndOf(frames'[Len(frames') - Len(writes') + i])
      BY <1>1 DEF Flowing, FlowInv
    <2>2. Undelivered' = Start'[Len(delivered') + 1]
      BY <1>1, <1>5, <1>8, SameFrames
    <2>3. QED
      BY <1>3, <1>9, <1>10, <2>1, <2>2 DEF FlowInv
  <1>12. PacketsIntact'
    BY <1>1 DEF Flowing, PacketsIntact
  <1>13. ASSUME ~multipart
         PROVE  D < N /\ P + n = FrameLen(frames[D + 1])
    <2>1. PICK f \in ToSet(frames) : f.start = wire[1] /\ FrameLen(f) = n
      BY <1>1, <1>13
    <2>2. PICK j \in DOMAIN frames : frames[j] = f
      BY DEF ToSet
    <2>3. P = 0
      BY <1>3, <1>13 DEF BufferInv
    <2>4. wire[1] = Undelivered
      <3>1. 1 \in DOMAIN wire
        BY <1>2
      <3>2. wire[1] = OnWire + 1 - 1
        BY <3>1 DEF Flowing, FlowInv
      <3>3. QED
        BY <1>5, <1>6, <2>3, <3>2
    <2>5. Undelivered < NextByte
      BY <1>2, <1>5, <1>6
    <2>6. D < N /\ D + 1 \in DOMAIN frames /\ frames[D + 1].start = Undelivered
      BY <1>4, <2>5, FlowFacts DEF Flowing
    <2>7. j = D + 1
      BY <2>1, <2>2, <2>4, <2>6, Starts1
    <2>8. QED
      BY <1>2, <2>1, <2>2, <2>3, <2>6, <2>7
  <1>14. CutInv'
    BY <1>1, <1>13 DEF CutInv
  <1>15. QED
    BY <1>11, <1>12, <1>14 DEF Flowing

\* What the handler gets is the next packet.
LEMMA FlowAtDeliver ==
  ASSUME TypeOK, FramesInv, Flowing, ~disturbed, Deliver
  PROVE  /\ Flowing'
         /\ Len(delivered) + 1 \in DOMAIN frames
         /\ delivered' = Append(delivered, Payload(frames[Len(delivered) + 1]))
  <1> DEFINE N == Len(frames)
             D == Len(delivered)
             f == frames[D + 1]
             C == Len(chunk)
  <1>1. /\ pc = "parse" /\ partial = <<>>
        /\ UNCHANGED <<multipart, frames, writes, wire, partial>>
    BY DeliverEffect
  <1>2. PICK s \in Sizes :
          /\ Fits(s)
          /\ delivered' = Append(delivered, Handled(s))
          /\ IF multipart
               THEN pos' = pos + HeaderLen + s.header + s.data /\ UNCHANGED <<chunk, pc>>
               ELSE chunk' = <<>> /\ pos' = 0 /\ pc' = "idle"
          /\ delivered' \in Seq(Packets) /\ Len(delivered') = D + 1
          /\ \A i \in 1..D : delivered'[i] = delivered[i]
          /\ delivered'[D + 1] = Handled(s)
    BY DeliverEffect
  <1>3. /\ N \in Nat /\ DOMAIN frames = 1..N /\ D \in Nat /\ DOMAIN delivered = 1..D
        /\ C \in Nat /\ DOMAIN chunk = 1..C /\ Len(wire) \in Nat
        /\ chunk \in Seq(Nat) /\ pos \in Nat /\ pos <= C
        /\ NextByte \in Nat /\ \A i \in DOMAIN frames : frames[i] \in Framed
    BY SequenceTypes
  <1>4. HeaderLen \in Nat /\ HeaderLen >= 1
    BY StreamAssumption DEF StreamAssumption
  <1>5. /\ s.header \in Nat /\ s.data \in Nat /\ pos + HeaderLen + s.header + s.data <= C
        /\ pos \in Nat /\ C \in Nat /\ HeaderLen \in Nat
    BY <1>2, <1>3, <1>4, SizesType DEF Fits
  <1>6. pos + HeaderLen <= C /\ D <= N
    BY <1>3, <1>4, <1>5 DEF Flowing, PacketsIntact
  <1>7. /\ D < N /\ D + 1 \in DOMAIN frames /\ s.header = f.header /\ s.data = f.data
        /\ f.start = Undelivered
    BY <1>1, <1>6, SizesKnown DEF Flowing
  <1>8. /\ OnWire \in Nat /\ Undelivered \in Nat
        /\ Undelivered = OnWire - Len(partial) - (C - pos)
    BY <1>6, FlowFacts DEF Flowing
  <1>9. Len(partial) = 0 /\ Undelivered = OnWire - (C - pos)
    BY <1>1, <1>3, <1>8
  <1>10. ASSUME NEW k \in 1..(C - pos) PROVE chunk[pos + k] = f.start + k - 1
    <2>1. pos + k \in DOMAIN chunk
      BY <1>3
    <2>2. chunk[pos + k] = OnWire - C + (pos + k) - 1
      BY <2>1 DEF Flowing, FlowInv
    <2>3. QED
      BY <1>3, <1>7, <1>8, <1>9, <2>2
  <1>11. f.start \in Nat /\ FrameLen(f) = HeaderLen + f.header + f.data /\ FrameLen(f) \in Nat
         /\ FrameLen(f) >= 1
    BY <1>3, <1>7, FrameType
  <1> HIDE DEF f
  <1>12. SubSeq(chunk, (pos + HeaderLen) + 1, (pos + HeaderLen) + s.header)
           = Bytes(f.start + HeaderLen, f.header)
    <2> DEFINE h == pos + HeaderLen
               a == f.start + HeaderLen
    <2>1. h \in Nat /\ a \in Nat /\ h + s.header <= C
      BY <1>5, <1>11
    <2>2. ASSUME NEW k \in 1..s.header PROVE chunk[h + k] = a + k - 1
      <3>1. HeaderLen + k \in 1..(C - pos) /\ h + k = pos + (HeaderLen + k)
        BY <1>5
      <3>2. chunk[h + k] = f.start + (HeaderLen + k) - 1
        BY <1>10, <3>1
      <3>3. QED
        BY <1>4, <1>11, <3>2
    <2> HIDE DEF h, a
    <2>3. SubSeq(chunk, h + 1, h + s.header) = Bytes(a, s.header)
      <3>1. chunk \in Seq(Nat) /\ C = Len(chunk)
        BY <1>3
      <3>2. s.header \in Nat /\ h \in Nat /\ a \in Nat /\ h + s.header <= Len(chunk)
        BY <1>5, <2>1
      <3>3. \A k \in 1..s.header : chunk[h + k] = a + k - 1
        BY <2>2
      <3>4. QED
        BY <3>1, <3>2, <3>3, PartIsBytes, ZenonT(60)
    <2>4. QED
      BY <1>7, <2>3 DEF h, a
  <1>13. SubSeq(chunk, (pos + HeaderLen + s.header) + 1, (pos + HeaderLen + s.header) + s.data)
           = Bytes(f.start + HeaderLen + f.header, f.data)
    <2> DEFINE h == pos + HeaderLen + s.header
               a == f.start + HeaderLen + f.header
    <2>1. h \in Nat /\ h + s.data <= C
      BY <1>5
    <2>0. a \in Nat
      <3>1. f.header \in Nat
        BY <1>5, <1>7 DEF f
      <3>2. f.start \in Nat /\ HeaderLen \in Nat
        BY <1>5, <1>11
      <3>3. QED
        BY <3>1, <3>2, SumType
    <2>2. ASSUME NEW k \in 1..s.data PROVE chunk[h + k] = a + k - 1
      <3> DEFINE l == HeaderLen + s.header + k
      <3>1. h + k = pos + l /\ l \in Nat /\ l >= 1 /\ k \in Nat
        BY <1>5
      <3>2. l <= C - pos
        BY <1>5
      <3> HIDE DEF l
      <3>3. l \in 1..(C - pos)
        BY <1>5, <3>1, <3>2
      <3>4. chunk[h + k] = f.start + l - 1
        BY <1>10, <3>1, <3>3
      <3>5. f.start + l - 1 = a + k - 1
        <4>1. l = HeaderLen + f.header + k
          BY <1>7 DEF f, l
        <4>2. f.header \in Nat
          BY <1>5, <1>7 DEF f
        <4>3. f.start \in Nat /\ HeaderLen \in Nat /\ k \in Nat
          BY <1>5, <1>11, <3>1
        <4>4. f.start + (HeaderLen + f.header + k) - 1 = (f.start + HeaderLen + f.header) + k - 1
          BY <4>2, <4>3
        <4>5. QED
          BY <4>1, <4>4
      <3>6. QED
        BY <3>4, <3>5
    <2> HIDE DEF h, a
    <2>3. SubSeq(chunk, h + 1, h + s.data) = Bytes(a, s.data)
      <3>1. chunk \in Seq(Nat) /\ C = Len(chunk)
        BY <1>3
      <3>2. s.data \in Nat /\ h \in Nat /\ a \in Nat /\ h + s.data <= Len(chunk)
        BY <1>5, <2>0, <2>1
      <3>3. \A k \in 1..s.data : chunk[h + k] = a + k - 1
        BY <2>2
      <3>4. QED
        BY <3>1, <3>2, <3>3, PartIsBytes, ZenonT(60)
    <2>4. QED
      BY <1>7, <2>3 DEF h, a
  <1>14. Handled(s) = Payload(f)
    BY <1>12, <1>13 DEF Handled, Payload
  <1>15. PacketsIntact'
    <2>1. DOMAIN delivered' = 1..(D + 1)
      BY <1>2, LenProperties
    <2>2. ASSUME NEW i \in 1..(D + 1) PROVE delivered'[i] = Payload(frames[i])
      <3>1. CASE i \in 1..D
        BY <1>2, <1>3, <3>1 DEF Flowing, PacketsIntact
      <3>2. CASE i = D + 1
        BY <1>2, <1>14, <3>2 DEF f
      <3>3. QED
        BY <1>3, <3>1, <3>2
    <2>3. D + 1 <= N
      BY <1>3, <1>7
    <2>4. QED
      BY <1>1, <1>2, <2>1, <2>2, <2>3 DEF PacketsIntact
  <1>16. OnWire' = OnWire
    BY <1>1, SameFrames DEF OnWire, Unwritten
  <1>17. Start'[Len(delivered') + 1] = Undelivered + FrameLen(f)
    <2>1. Start[(D + 1) + 1] = Start[D + 1] + FrameLen(f) /\ Start[D + 1] = f.start
      BY <1>7, Starts1 DEF f
    <2>2. QED
      BY <1>1, <1>2, <1>7, <2>1, SameFrames
  <1>18. /\ \A k \in DOMAIN chunk' : chunk'[k] = OnWire' - Len(chunk') + k - 1
         /\ Undelivered' = Undelivered + FrameLen(f)
         /\ CutInv'
    <2>1. CASE multipart
      <3>1. pos' = pos + FrameLen(f) /\ chunk' = chunk /\ pc' = "parse" /\ multipart'
        <4>1. pos' = pos + HeaderLen + s.header + s.data /\ chunk' = chunk /\ pc' = pc
          BY <1>2, <2>1
        <4>2. pos + HeaderLen + s.header + s.data = pos + (HeaderLen + s.header + s.data)
          BY <1>5
        <4>3. FrameLen(f) = HeaderLen + s.header + s.data
          BY <1>7, <1>11 DEF f
        <4>4. QED
          BY <1>1, <2>1, <4>1, <4>2, <4>3
      <3>2. Undelivered' = OnWire - 0 - (C - (pos + FrameLen(f)))
        BY <1>1, <1>9, <1>16, <3>1 DEF Undelivered
      <3>3. Undelivered' = Undelivered + FrameLen(f)
        BY <1>3, <1>8, <1>9, <1>11, <3>2
      <3>4. CutInv'
        BY <3>1 DEF CutInv
      <3>5. QED
        BY <1>16, <3>1, <3>3, <3>4 DEF Flowing, FlowInv
    <2>2. CASE ~multipart
      <3>1. pos' = 0 /\ chunk' = <<>> /\ pc' = "idle" /\ Len(chunk') = 0
        BY <1>2, <2>2
      <3>2. pos = 0 /\ C = FrameLen(f)
        BY <1>1, <2>2 DEF Flowing, CutInv, f
      <3>3. Undelivered' = OnWire - 0 - (0 - 0)
        BY <1>1, <1>9, <1>16, <3>1 DEF Undelivered
      <3>4. Undelivered' = Undelivered + FrameLen(f)
        BY <1>8, <1>9, <1>11, <3>2, <3>3
      <3>5. CutInv'
        <4>1. ASSUME D + 1 < N PROVE FrameLen(frames[(D + 1) + 1]) >= 1
          <5>1. (D + 1) + 1 \in DOMAIN frames
            BY <1>3, <4>1
          <5>2. QED
            BY <5>1, Starts1
        <4>2. ASSUME D + 1 < N PROVE 0 < FrameLen(frames[(D + 1) + 1])
          <5>1. (D + 1) + 1 \in DOMAIN frames
            BY <1>3, <4>2
          <5>2. FrameLen(frames[(D + 1) + 1]) \in Nat
            BY <5>1, Starts1
          <5>3. QED
            BY <4>1, <4>2, <5>2
        <4>3. QED
          BY <1>1, <1>2, <1>9, <3>1, <4>2 DEF CutInv
      <3>6. QED
        BY <3>1, <3>4, <3>5
    <2>3. QED
      BY <2>1, <2>2
  <1>19. FlowInv'
    <2>1. /\ Len(writes') <= Len(frames')
          /\ \A i \in DOMAIN writes' :
               /\ writes'[i].from = frames'[Len(frames') - Len(writes') + i].start
               /\ writes'[i].to = EndOf(frames'[Len(frames') - Len(writes') + i])
          /\ \A k \in DOMAIN wire' : wire'[k] = OnWire' + k - 1
      BY <1>1, <1>16 DEF Flowing, FlowInv
    <2>2. DOMAIN partial' = {}
      BY <1>1
    <2>3. QED
      BY <1>17, <1>18, <2>1, <2>2 DEF FlowInv
  <1>20. QED
    BY <1>2, <1>7, <1>14, <1>15, <1>18, <1>19 DEF Flowing, f

LEMMA FlowAtIncomplete ==
  ASSUME TypeOK, FramesInv, Flowing, ~disturbed, Incomplete
  PROVE  Flowing'
  <1> DEFINE N == Len(frames)
             D == Len(delivered)
             f == frames[D + 1]
             C == Len(chunk)
  <1>1. /\ pc = "parse" /\ partial = <<>>
        /\ multipart =>
             /\ Len(partial') = C - pos
             /\ \A k \in 1..(C - pos) : partial'[k] = chunk[pos + k]
        /\ partial' \in Seq(Nat)
        /\ chunk' = <<>> /\ pos' = 0 /\ pc' = "idle"
        /\ UNCHANGED <<multipart, frames, writes, wire, delivered>>
    BY IncompleteEffect
  <1>2. PICK s \in Sizes : ~Fits(s)
    BY IncompleteEffect
  <1>3. /\ N \in Nat /\ DOMAIN frames = 1..N /\ D \in Nat
        /\ C \in Nat /\ DOMAIN chunk = 1..C /\ pos \in Nat /\ pos <= C
        /\ \A i \in DOMAIN frames : frames[i] \in Framed
    BY SequenceTypes
  <1>4. HeaderLen \in Nat /\ HeaderLen >= 1
    BY StreamAssumption DEF StreamAssumption
  <1>5. s.header \in Nat /\ s.data \in Nat /\ ~(pos + HeaderLen + s.header + s.data <= C)
    BY <1>2, SizesType DEF Fits
  <1>6. D <= N
    BY DEF Flowing, PacketsIntact
  <1>7. ASSUME D < N
        PROVE  /\ f \in Framed /\ FrameLen(f) \in Nat /\ FrameLen(f) >= HeaderLen
               /\ FrameLen(f) = HeaderLen + f.header + f.data
    <2>1. D + 1 \in DOMAIN frames
      BY <1>3, <1>7
    <2>2. f \in Framed
      BY <1>3, <2>1
    <2>3. /\ f.header \in Nat /\ f.data \in Nat /\ FrameLen(f) \in Nat
          /\ FrameLen(f) = HeaderLen + f.header + f.data
      BY <2>2, FrameType
    <2>4. QED
      BY <1>4, <2>2, <2>3
  <1>8. ASSUME pos + HeaderLen <= C
        PROVE  D < N /\ s.header = f.header /\ s.data = f.data
    BY <1>1, <1>6, <1>8, SizesKnown DEF Flowing
  <1> HIDE DEF f
  <1>9. ASSUME D < N
        PROVE  C - pos < FrameLen(f)
    <2>1. CASE pos + HeaderLen <= C
      <3>1. FrameLen(f) = HeaderLen + s.header + s.data
        BY <1>7, <1>8, <1>9, <2>1
      <3>2. QED
        BY <1>3, <1>4, <1>5, <3>1
    <2>2. CASE ~(pos + HeaderLen <= C)
      <3>1. FrameLen(f) \in Nat /\ FrameLen(f) >= HeaderLen
        BY <1>7, <1>9
      <3>2. QED
        BY <1>3, <1>4, <2>2, <3>1
    <2>3. QED
      BY <2>1, <2>2
  <1>10. multipart
    <2> SUFFICES ASSUME ~multipart
                 PROVE  FALSE
      OBVIOUS
    <2>1. pos = 0 /\ D < N /\ C = FrameLen(f)
      BY <1>1 DEF Flowing, CutInv, f
    <2>2. C < FrameLen(f)
      BY <1>3, <1>9, <2>1
    <2>3. QED
      BY <1>3, <2>1, <2>2
  <1>11. /\ OnWire \in Nat /\ Undelivered \in Nat
         /\ Undelivered = OnWire - Len(partial) - (C - pos)
    BY <1>6, FlowFacts DEF Flowing
  <1>12. Len(partial) = 0 /\ Len(chunk') = 0 /\ Len(partial') = C - pos
    BY <1>1, <1>10
  <1>13. DOMAIN partial' = 1..(C - pos) /\ DOMAIN chunk' = {}
    BY <1>1, <1>12, LenProperties
  <1>14. OnWire' = OnWire
    BY <1>1, SameFrames DEF OnWire, Unwritten
  <1>15. Undelivered' = Undelivered
    <2>1. Undelivered' = OnWire - (C - pos) - (0 - 0)
      BY <1>1, <1>12, <1>14 DEF Undelivered
    <2>2. Undelivered = OnWire - 0 - (C - pos)
      BY <1>11, <1>12
    <2>3. QED
      BY <1>3, <1>11, <2>1, <2>2
  <1>16. ASSUME NEW k \in 1..(C - pos) PROVE partial'[k] = OnWire' - Len(partial') + k - 1
    <2>1. pos + k \in DOMAIN chunk
      BY <1>3
    <2>2. chunk[pos + k] = OnWire - C + (pos + k) - 1
      BY <2>1 DEF Flowing, FlowInv
    <2>3. partial'[k] = chunk[pos + k]
      BY <1>1, <1>10
    <2>4. OnWire - C + (pos + k) - 1 = OnWire - (C - pos) + k - 1
      BY <1>3, <1>11
    <2>5. QED
      BY <1>12, <1>14, <2>2, <2>3, <2>4
  <1>17. FlowInv'
    <2>1. /\ Len(writes') <= Len(frames')
          /\ \A i \in DOMAIN writes' :
               /\ writes'[i].from = frames'[Len(frames') - Len(writes') + i].start
               /\ writes'[i].to = EndOf(frames'[Len(frames') - Len(writes') + i])
          /\ \A k \in DOMAIN wire' : wire'[k] = OnWire' + k - 1
      BY <1>1, <1>14 DEF Flowing, FlowInv
    <2>2. Undelivered' = Start'[Len(delivered') + 1]
      BY <1>1, <1>15, SameFrames DEF Flowing, FlowInv
    <2>3. QED
      BY <1>13, <1>16, <2>1, <2>2 DEF FlowInv
  <1>18. CutInv'
    <2>1. ASSUME D < N PROVE Len(partial') < FrameLen(frames[D + 1])
      BY <1>9, <1>12, <2>1 DEF f
    <2>2. QED
      BY <1>1, <2>1 DEF CutInv
  <1>19. PacketsIntact'
    BY <1>1 DEF Flowing, PacketsIntact
  <1>20. QED
    BY <1>17, <1>18, <1>19 DEF Flowing

-----------------------------------------------------------------------------
(* The invariant of the stream, which DeliveredInOrder and NothingHeldBack rest on *)

LEMMA AlignedStep ==
  ASSUME TypeOK, StreamInv, [Next]_vars
  PROVE  AlignedInv'
  <1> SUFFICES ASSUME ~disturbed'
               PROVE  PacketsIntact' /\ (pc' # "stopped" => FlowInv' /\ CutInv')
    BY DEF AlignedInv
  <1>1. FramesInv /\ BufferInv /\ AlignedInv
    BY DEF StreamInv
  <1>2. ASSUME ~disturbed, pc # "stopped" PROVE Flowing
    BY <1>1, <1>2 DEF AlignedInv, Flowing
  <1>3. ASSUME NEW h \in HeaderSizes, NEW d \in DataSizes, SendData(h, d) PROVE Flowing'
    <2>1. ~disturbed /\ pc # "stopped"
      BY <1>3, SendEffect
    <2>2. QED
      BY <1>1, <1>2, <1>3, <2>1, FlowAtSend
  <1>4. ASSUME SomeWrite PROVE Flowing'
    <2>1. PICK n \in 1..(IF writes = <<>> THEN 0 ELSE Head(writes).to - Head(writes).from) : Write(n)
      BY <1>4 DEF SomeWrite
    <2>2. n \in Nat /\ n >= 1
      BY <2>1
    <2>3. ~disturbed /\ pc # "stopped"
      BY <2>1 DEF Write
    <2>4. QED
      BY <1>1, <1>2, <2>1, <2>2, <2>3, FlowAtWrite
  <1>5. ASSUME NEW n \in 1..Len(wire), ReadShort(n) PROVE FALSE
    BY <1>5 DEF ReadShort
  <1>6. ASSUME NEW n \in 1..Len(wire), Read(n) PROVE Flowing'
    <2>1. ~disturbed /\ pc # "stopped"
      BY <1>6 DEF Read, CanRead
    <2>2. QED
      BY <1>1, <1>2, <1>6, <2>1, FlowAtRead
  <1>7. ASSUME Deliver PROVE Flowing'
    <2>1. ~disturbed /\ pc # "stopped"
      BY <1>7, DeliverEffect
    <2>2. QED
      BY <1>1, <1>2, <1>7, <2>1, FlowAtDeliver
  <1>8. ASSUME Incomplete PROVE Flowing'
    <2>1. ~disturbed /\ pc # "stopped"
      BY <1>8, IncompleteEffect
    <2>2. QED
      BY <1>1, <1>2, <1>8, <2>1, FlowAtIncomplete
  <1>9. ASSUME ConnectionLost PROVE PacketsIntact' /\ pc' = "stopped"
    BY <1>1, <1>9 DEF ConnectionLost, history, AlignedInv, PacketsIntact
  <1>10. ASSUME UNCHANGED vars PROVE AlignedInv'
    BY <1>1, <1>10 DEF vars, history, AlignedInv, PacketsIntact, FlowInv, CutInv, Undelivered, OnWire,
         Unwritten, Start, NextByte
  <1>13. ASSUME Register \/ Open
         PROVE  PacketsIntact' /\ (pc' # "stopped" => FlowInv' /\ CutInv')
    <2>1. /\ UNCHANGED <<multipart, frames, writes, wire, partial, chunk, pos, delivered, disturbed>>
          /\ pc # "stopped"
          /\ pc' = pc \/ pc' = "stopped" \/ (pc = "opening" /\ pc' = "idle")
      BY <1>13, OpenEffect
    <2>2. Flowing
      BY <1>2, <2>1
    <2>3. FlowInv' /\ PacketsIntact'
      BY <2>1, <2>2 DEF Flowing, PacketsIntact, FlowInv, Undelivered, OnWire, Unwritten, Start,
           NextByte
    <2>4. CASE pc' = pc
      BY <2>1, <2>2, <2>3, <2>4 DEF Flowing, CutInv
    <2>5. CASE pc = "opening" /\ pc' = "idle"
      <3>1. Len(partial) = 0
        BY <1>1, <2>5 DEF BufferInv
      <3>2. ASSUME Len(delivered) < Len(frames)
            PROVE  Len(partial) < FrameLen(frames[Len(delivered) + 1])
        <4>1. Len(delivered) + 1 \in DOMAIN frames
          BY <3>2, SequenceTypes
        <4>2. frames[Len(delivered) + 1] \in Framed
          BY <4>1, SequenceTypes
        <4>3. QED
          BY <3>1, <4>2, FrameType
      <3>3. CutInv'
        BY <2>1, <2>5, <3>2 DEF CutInv
      <3>4. QED
        BY <2>3, <3>3
    <2>6. QED
      BY <2>1, <2>3, <2>4, <2>5
  <1>11. CASE Next
    BY <1>3, <1>4, <1>5, <1>6, <1>7, <1>8, <1>9, <1>11, <1>13 DEF Next, SomeRead, Flowing
  <1>12. QED
    BY <1>10, <1>11 DEF AlignedInv

LEMMA StreamStart ==
  ASSUME Init
  PROVE  TypeOK /\ StreamInv
  <1>1. /\ multipart \in Multipart /\ frames = <<>> /\ writes = <<>> /\ wire = <<>>
        /\ partial = <<>> /\ chunk = <<>> /\ pos = 0 /\ pc = "opening" /\ delivered = <<>>
        /\ registered = FALSE /\ disturbed = FALSE /\ spoilt = {}
    BY DEF Init
  <1>2. /\ Len(frames) = 0 /\ Len(writes) = 0 /\ Len(wire) = 0 /\ Len(partial) = 0
        /\ Len(chunk) = 0 /\ Len(delivered) = 0 /\ DOMAIN frames = {} /\ DOMAIN writes = {}
        /\ DOMAIN wire = {} /\ DOMAIN partial = {} /\ DOMAIN chunk = {} /\ DOMAIN delivered = {}
    BY <1>1
  <1>3. TypeOK
    <2>1. /\ <<>> \in Seq([start : Nat, header : HeaderSizes, data : DataSizes])
          /\ <<>> \in Seq([from : Nat, to : Nat]) /\ <<>> \in Seq(Nat)
          /\ <<>> \in Seq([header : Seq(Nat), data : Seq(Nat)])
      OBVIOUS
    <2>2. pos \in 0..Len(chunk)
      BY <1>1, <1>2
    <2>3. QED
      BY <1>1, <2>1, <2>2 DEF TypeOK
  <1>4. NextByte = 0
    BY <1>1 DEF NextByte
  <1>5. Start[1] = 0
    BY <1>2, <1>4 DEF Start
  <1>6. FramesInv /\ BufferInv /\ PacketsIntact /\ CutInv
    BY <1>1, <1>2, <1>5 DEF FramesInv, BufferInv, PacketsIntact, CutInv
  <1>7. Undelivered = 0
    <2>1. Unwritten = 0
      BY <1>2, <1>5 DEF Unwritten
    <2>2. OnWire = 0 - 0
      BY <1>2, <2>1 DEF OnWire
    <2>3. Undelivered = (0 - 0) - 0 - (0 - 0)
      BY <1>1, <1>2, <2>2 DEF Undelivered
    <2>4. QED
      BY <2>3
  <1>8. FlowInv
    BY <1>2, <1>5, <1>7 DEF FlowInv
  <1>9. QED
    BY <1>3, <1>6, <1>8 DEF StreamInv, AlignedInv

LEMMA StreamInvariant == Spec => [](TypeOK /\ StreamInv)
  <1>1. Init => TypeOK /\ StreamInv
    BY StreamStart
  <1>2. TypeOK /\ StreamInv /\ [Next]_vars => (TypeOK /\ StreamInv)'
    BY TypeStep, FramesStep, AlignedStep DEF StreamInv
  <1>3. QED
    BY <1>1, <1>2, PTL DEF Spec

LEMMA BuffersKept == Spec => [](TypeOK /\ BufferInv)
  <1>1. Init => TypeOK /\ BufferInv
    BY StreamStart DEF StreamInv
  <1>2. TypeOK /\ BufferInv /\ [Next]_vars => (TypeOK /\ BufferInv)'
    BY TypeStep
  <1>3. QED
    BY <1>1, <1>2, PTL DEF Spec

\* The values the variables take (every action of DataStream): the receiver's
\* position never leaves its buffer, and no incomplete packet is kept while
\* bytes are worked on.
THEOREM TypeCorrect == Spec => []TypeOK
  BY BuffersKept, PTL

\* Whatever the sizes of header and data and however the stream is cut into reads,
\* the loop of on_receive (corelink_client.hpp) hands on exactly the packets that
\* send_data took, in order: until a short read of TCP is dropped, two writes are
\* mixed, a websocket message is cut, or a size is not held by its field.
THEOREM FramesInOrder == Spec => []DeliveredInOrder
  <1>1. StreamInv => DeliveredInOrder
    BY DEF StreamInv, AlignedInv, DeliveredInOrder
  <1>2. QED
    BY <1>1, StreamInvariant, PTL

\* When the bytes that were sent have all been read, the handler got every
\* packet: on_receive leaves none in incomplete_packet_buffer that is complete.
THEOREM NoneHeldBack == Spec => []NothingHeldBack
  <1>1. TypeOK /\ StreamInv => NothingHeldBack
    <2> SUFFICES ASSUME TypeOK, StreamInv, ~disturbed, pc = "idle", wire = <<>>, writes = <<>>
                 PROVE  Len(delivered) = Len(frames)
      BY DEF NothingHeldBack
    <2>1. FramesInv /\ FlowInv /\ CutInv /\ PacketsIntact /\ chunk = <<>> /\ pos = 0
      BY DEF StreamInv, AlignedInv, BufferInv
    <2>2. /\ Len(frames) \in Nat /\ DOMAIN frames = 1..Len(frames) /\ Len(delivered) \in Nat
          /\ Len(partial) \in Nat /\ NextByte \in Nat
      BY SequenceTypes
    <2>3. Len(chunk) = 0 /\ Len(wire) = 0 /\ Len(writes) = 0 /\ Len(delivered) <= Len(frames)
      BY <2>1 DEF PacketsIntact
    <2>4. Unwritten = NextByte
      <3>1. Len(frames) - Len(writes) + 1 = Len(frames) + 1
        BY <2>2, <2>3
      <3>2. QED
        BY <2>1, <3>1, Starts1 DEF Unwritten
    <2>5. Undelivered = NextByte - Len(partial)
      <3>1. Undelivered = (NextByte - 0) - Len(partial) - (0 - 0)
        BY <2>1, <2>3, <2>4 DEF Undelivered, OnWire
      <3>2. QED
        BY <2>2, <3>1
    <2>6. ASSUME Len(delivered) < Len(frames) PROVE FALSE
      <3> DEFINE f == frames[Len(delivered) + 1]
      <3>1. Len(delivered) + 1 \in DOMAIN frames
        BY <2>2, <2>6
      <3>2. frames[Len(delivered) + 1] \in Framed
        BY <3>1, SequenceTypes
      <3>3. Len(partial) < FrameLen(f)
        BY <2>1, <2>6 DEF CutInv
      <3>4. f.start = Undelivered
        BY <2>1, <3>1, Starts1 DEF FlowInv
      <3>5. f.start + FrameLen(f) <= NextByte
        BY <2>1, <3>1, <3>2, FrameType DEF FramesInv
      <3>6. f.start \in Nat /\ FrameLen(f) \in Nat
        BY <3>2, FrameType
      <3> HIDE DEF f
      <3>7. QED
        BY <2>2, <2>5, <3>3, <3>4, <3>5, <3>6
    <2>7. QED
      BY <2>2, <2>3, <2>6
  <1>2. QED
    BY <1>1, StreamInvariant, PTL

-----------------------------------------------------------------------------
(* The stream implements its promise *)

AcceptedOK ==
  /\ Accepted \in Seq(Packets) /\ Len(Accepted) = Len(frames)
  /\ DOMAIN frames = 1..Len(frames) /\ Len(frames) \in Nat
  /\ \A i \in DOMAIN frames : Accepted[i] = Payload(frames[i])

LEMMA AcceptedType ==
  ASSUME TypeOK
  PROVE  AcceptedOK
  <1>1. /\ DOMAIN frames = 1..Len(frames) /\ Len(frames) \in Nat
        /\ \A i \in DOMAIN frames : frames[i] \in Framed
    BY SequenceTypes
  <1>2. ASSUME NEW i \in 1..Len(frames) PROVE Payload(frames[i]) \in Packets
    <2>1. /\ frames[i].start \in Nat /\ frames[i].header \in Nat /\ frames[i].data \in Nat
          /\ HeaderLen \in Nat
      BY <1>1, FrameType, StreamAssumption DEF StreamAssumption
    <2>2. /\ frames[i].start + HeaderLen \in Nat
          /\ frames[i].start + HeaderLen + frames[i].header \in Nat
      BY <2>1, SumType
    <2>3. QED
      BY <2>1, <2>2, BytesType DEF Payload, Packets
  <1>3. Accepted \in [1..Len(frames) -> Packets]
    BY <1>1, <1>2 DEF Accepted
  <1>4. QED
    BY <1>1, <1>3, SequenceOfFunction DEF Accepted, AcceptedOK

LEMMA ExtendsType ==
  ASSUME NEW S, NEW s \in Seq(S), NEW t \in Seq(S), Len(t) = Len(s) + 1,
         \A i \in 1..Len(s) : t[i] = s[i]
  PROVE  Promise!Extends(s, t)
  <1> DEFINE part == SubSeq(t, 1, Len(s))
  <1>1. Len(s) \in Nat /\ Len(t) \in Nat /\ Len(s) <= Len(t)
    OBVIOUS
  <1>2. \A i \in 1..Len(s) : t[i] \in S
    BY <1>1, ElementOfSeq
  <1>3. /\ part \in Seq(S)
        /\ Len(part) = IF 1 <= Len(s) THEN Len(s) - 1 + 1 ELSE 0
        /\ \A i \in 1..(Len(s) - 1 + 1) : part[i] = t[1 + i - 1]
    BY <1>1, <1>2, SubSeqProperties
  <1> HIDE DEF part
  <1>4. Len(s) - 1 + 1 = Len(s) /\ \A i \in 1..Len(s) : 1 + i - 1 = i
    BY <1>1
  <1>5. Len(part) = Len(s)
    BY <1>1, <1>3, <1>4
  <1>6. \A i \in 1..Len(part) : part[i] = s[i]
    BY <1>3, <1>4, <1>5
  <1>7. part = s
    BY <1>3, <1>5, <1>6, SeqEqual
  <1>8. QED
    BY <1>7 DEF Promise!Extends, part

LEMMA PromiseStart ==
  ASSUME Init
  PROVE  Promise!Init
  <1>1. frames = <<>> /\ delivered = <<>> /\ disturbed = FALSE
    BY DEF Init
  <1>2. Accepted \in Seq(Packets) /\ Len(Accepted) = 0
    BY <1>1, StreamStart, AcceptedType DEF AcceptedOK
  <1>3. Accepted = <<>>
    BY <1>2, EmptySeq
  <1>4. QED
    BY <1>1, <1>3 DEF Promise!Init

LEMMA PromiseStep ==
  ASSUME TypeOK, AcceptedOK, AcceptedOK', StreamInv, [Next]_vars
  PROVE  [Promise!Next]_(Promise!vars)
  <1>1. ASSUME NEW h \in HeaderSizes, NEW d \in DataSizes, SendData(h, d) PROVE Promise!Accept
    <2>1. /\ Len(frames') = Len(frames) + 1
          /\ \A i \in 1..Len(frames) : frames'[i] = frames[i]
          /\ delivered' = delivered
      BY <1>1, SendEffect
    <2>6. disturbed' \in {disturbed, TRUE}
      BY <1>1 DEF SendData, TypeOK
    <2>2. /\ Accepted \in Seq(Packets) /\ Len(Accepted) = Len(frames)
          /\ Accepted' \in Seq(Packets) /\ Len(Accepted') = Len(frames')
          /\ Len(frames) \in Nat
      BY DEF AcceptedOK
    <2>3. ASSUME NEW i \in 1..Len(Accepted) PROVE Accepted'[i] = Accepted[i]
      <3>1. i \in DOMAIN frames /\ i \in DOMAIN frames'
        BY <2>1, <2>2 DEF AcceptedOK
      <3>2. Accepted[i] = Payload(frames[i]) /\ Accepted'[i] = Payload(frames'[i])
        BY <3>1 DEF AcceptedOK
      <3>3. frames'[i] = frames[i]
        BY <2>1, <2>2
      <3>4. QED
        BY <3>2, <3>3
    <2>4. Promise!Extends(Accepted, Accepted')
      BY <2>1, <2>2, <2>3, ExtendsType
    <2>5. QED
      BY <2>1, <2>4, <2>6 DEF Promise!Accept
  <1>2. ASSUME UNCHANGED frames PROVE Accepted' = Accepted
    BY <1>2 DEF Accepted
  <1>3. ASSUME SomeWrite PROVE Promise!Break \/ UNCHANGED Promise!vars
    <2>1. PICK n \in 1..(IF writes = <<>> THEN 0 ELSE Head(writes).to - Head(writes).from) : Write(n)
      BY <1>3 DEF SomeWrite
    <2>2. n \in Nat /\ n >= 1
      BY <2>1
    <2>3. UNCHANGED <<frames, delivered>> /\ (disturbed' = disturbed \/ disturbed' = TRUE)
      <3>1. UNCHANGED <<frames, delivered>>
        BY <2>1, <2>2, WriteEffect
      <3>2. LET w == Head(writes) IN disturbed' = (disturbed \/ n < w.to - w.from)
        BY <2>1 DEF Write
      <3>3. disturbed \in BOOLEAN
        BY DEF TypeOK
      <3>4. QED
        BY <3>1, <3>2, <3>3
    <2>4. QED
      BY <1>2, <2>3 DEF Promise!Break, Promise!vars
  <1>4. ASSUME NEW n \in 1..Len(wire), ReadShort(n) PROVE Promise!Break
    BY <1>2, <1>4 DEF ReadShort, sender, Promise!Break
  <1>5. ASSUME NEW n \in 1..Len(wire), Read(n) PROVE Promise!Break \/ UNCHANGED Promise!vars
    <2>1. UNCHANGED <<frames, delivered>> /\ disturbed' \in {disturbed, TRUE}
      BY <1>5, ReadEffect DEF StreamInv
    <2>2. QED
      BY <1>2, <2>1 DEF Promise!Break, Promise!vars
  <1>6. ASSUME Deliver PROVE Promise!Deliver \/ Promise!Garble
    <2>1. UNCHANGED <<frames, disturbed>> /\ Accepted' = Accepted
      BY <1>2, <1>6, DeliverEffect
    <2>2. CASE disturbed
      <3>1. /\ delivered \in Seq(Packets) /\ delivered' \in Seq(Packets)
            /\ Len(delivered') = Len(delivered) + 1
            /\ \A i \in 1..Len(delivered) : delivered'[i] = delivered[i]
        BY <1>6, DeliverEffect, SequenceTypes
      <3>2. Promise!Extends(delivered, delivered')
        BY <3>1, ExtendsType
      <3>3. QED
        BY <2>1, <2>2, <3>2 DEF Promise!Garble
    <2>3. CASE ~disturbed
      <3>1. FramesInv /\ Flowing
        BY <1>6, <2>3 DEF StreamInv, AlignedInv, Flowing, Deliver
      <3>2. /\ Len(delivered) + 1 \in DOMAIN frames
            /\ delivered' = Append(delivered, Payload(frames[Len(delivered) + 1]))
        BY <1>6, <2>3, <3>1, FlowAtDeliver
      <3>3. Accepted[Len(delivered) + 1] = Payload(frames[Len(delivered) + 1])
        BY <3>2 DEF AcceptedOK
      <3>4. Len(delivered) < Len(Accepted)
        <4>1. Len(delivered) + 1 \in 1..Len(Accepted) /\ Len(delivered) \in Nat
              /\ Len(Accepted) \in Nat
          BY <3>2, SequenceTypes DEF AcceptedOK
        <4>2. QED
          BY <4>1
      <3>5. QED
        BY <2>1, <3>2, <3>3, <3>4 DEF Promise!Deliver
    <2>4. QED
      BY <2>2, <2>3
  <1>7. ASSUME Incomplete \/ ConnectionLost \/ Register \/ Open \/ UNCHANGED vars
        PROVE UNCHANGED Promise!vars
    <2>1. UNCHANGED <<frames, delivered, disturbed>>
      BY <1>7 DEF Incomplete, ConnectionLost, Register, Open, vars, channel, sender, history
    <2>2. QED
      BY <1>2, <2>1 DEF Promise!vars
  <1>8. QED
    BY <1>1, <1>3, <1>4, <1>5, <1>6, <1>7 DEF Next, SomeRead, Promise!Next

\* The framed stream implements PacketStream: each packet that send_data takes
\* is handed to the receive handler as it was, once and in order, and only a
\* disturbed stream hands on anything else.
THEOREM ImplementsStream == Spec => StreamSpec
  <1>1. Init => Promise!Init
    BY PromiseStart
  <1>2. TypeOK => AcceptedOK
    BY AcceptedType
  <1>3. TypeOK /\ AcceptedOK /\ AcceptedOK' /\ StreamInv /\ [Next]_vars
          => [Promise!Next]_(Promise!vars)
    BY PromiseStep
  <1>4. QED
    BY <1>1, <1>2, <1>3, StreamInvariant, PTL DEF Spec, StreamSpec, Promise!Spec

-----------------------------------------------------------------------------
(* No byte is handed over twice, whatever happens to the stream *)

\* Bytes stay taken: what is framed later, or is still to be written, is not
\* among them.
LEMMA TakenAtSend ==
  ASSUME TypeOK, WritesInv, NEW h \in HeaderSizes, NEW d \in DataSizes, SendData(h, d)
  PROVE  WritesInv' /\ Taken \subseteq Taken'
  <1> DEFINE W == Len(writes)
             E == NextByte'
  <1>1. /\ Len(writes') = W + 1 /\ writes' \in Seq([from : Nat, to : Nat])
        /\ \A i \in 1..W : writes'[i] = writes[i]
        /\ writes'[W + 1].from = NextByte /\ writes'[W + 1].to = E /\ NextByte < E
    <2> DEFINE f == [start |-> NextByte, header |-> h, data |-> d]
    <2>1. /\ Len(writes') = W + 1 /\ writes' \in Seq([from : Nat, to : Nat])
          /\ \A i \in 1..W : writes'[i] = writes[i]
          /\ writes'[W + 1].from = NextByte /\ writes'[W + 1].to = EndOf(f)
          /\ NextByte' = EndOf(f) /\ NextByte < EndOf(f)
      BY SendEffect
    <2> HIDE DEF f
    <2>2. QED
      BY <2>1
  <1>2. /\ W \in Nat /\ DOMAIN writes = 1..W /\ NextByte \in Nat
        /\ \A i \in DOMAIN writes : writes[i].from \in Nat /\ writes[i].to \in Nat
    BY SequenceTypes
  <1>3. E \in Nat
    <2>1. W + 1 \in DOMAIN writes'
      BY <1>1, <1>2, LenProperties
    <2>2. writes'[W + 1] \in [from : Nat, to : Nat]
      BY <1>1, <2>1, ElementType
    <2>3. writes'[W + 1].to \in Nat
      BY <2>2
    <2>4. QED
      BY <1>1, <2>3
  <1>4. DOMAIN writes' = 1..(W + 1)
    BY <1>1, LenProperties
  <1> HIDE DEF W, E
  <1>5. ASSUME NEW i \in 1..(W + 1)
        PROVE  /\ i \in 1..W => writes'[i].to <= NextByte /\ writes'[i] = writes[i]
               /\ i \notin 1..W => i = W + 1 /\ writes'[i].from = NextByte
               /\ writes'[i].to <= E
    <2>1. CASE i \in 1..W
      <3>1. writes'[i] = writes[i] /\ writes[i].to \in Nat /\ writes[i].to <= NextByte
        BY <1>1, <1>2, <2>1 DEF WritesInv
      <3>2. writes[i].to <= E
        <4>1. NextByte \in Nat /\ E \in Nat /\ NextByte < E
          BY <1>1, <1>2, <1>3
        <4>2. QED
          BY <3>1, <4>1
      <3>3. QED
        BY <2>1, <3>1, <3>2
    <2>2. CASE i \notin 1..W
      BY <1>1, <1>2, <1>3, <2>2
    <2>3. QED
      BY <2>1, <2>2
  <1>6. ASSUME NEW i \in 1..(W + 1), NEW j \in 1..(W + 1), i # j
        PROVE  writes'[i].to <= writes'[j].from \/ writes'[j].to <= writes'[i].from
    <2>1. CASE i \in 1..W /\ j \in 1..W
      BY <1>2, <1>5, <1>6, <2>1 DEF WritesInv
    <2>2. CASE i \in 1..W /\ j \notin 1..W
      BY <1>5, <2>2
    <2>3. CASE i \notin 1..W /\ j \in 1..W
      BY <1>5, <2>3
    <2>4. CASE i \notin 1..W /\ j \notin 1..W
      BY <1>5, <1>6, <2>4
    <2>5. QED
      BY <2>1, <2>2, <2>3, <2>4
  <1>7. WritesInv'
    BY <1>4, <1>5, <1>6 DEF WritesInv, E
  <1>8. ASSUME NEW b \in Taken
        PROVE  b \in Taken'
    <2>1. b \in Nat /\ b < NextByte /\ b < E
      BY <1>1, <1>2, <1>3 DEF Taken
    <2>2. ASSUME NEW i \in 1..(W + 1) PROVE b < writes'[i].from \/ writes'[i].to <= b
      <3>1. CASE i \in 1..W
        BY <1>2, <1>5, <3>1 DEF Taken
      <3>2. CASE i \notin 1..W
        BY <1>5, <2>1, <3>2
      <3>3. QED
        BY <3>1, <3>2
    <2>3. QED
      BY <1>4, <2>1, <2>2 DEF Taken, E
  <1>9. QED
    BY <1>7, <1>8

\* The bytes that are written were waiting, and now are taken.
LEMMA TakenAtWrite ==
  ASSUME TypeOK, WritesInv, NEW n \in Nat, n >= 1, Write(n)
  PROVE  /\ WritesInv' /\ Taken \subseteq Taken'
         /\ \A k \in 1..n :
              writes[1].from + k - 1 \notin Taken /\ writes[1].from + k - 1 \in Taken'
  <1> DEFINE W == Len(writes)
             w == writes[1]
             m == w.to - w.from
  <1>1. /\ 1 \in DOMAIN writes /\ n <= m
        /\ writes' \in Seq([from : Nat, to : Nat])
        /\ \A i \in 1..(W - 1) : writes'[i] = writes[i + 1]
        /\ n = m => Len(writes') = W - 1
        /\ n < m =>
             /\ Len(writes') = W
             /\ writes'[W].from = w.from + n
             /\ writes'[W].to = w.to
        /\ UNCHANGED frames
    BY WriteEffect
  <1>2. /\ W \in Nat /\ DOMAIN writes = 1..W /\ NextByte \in Nat
        /\ \A i \in DOMAIN writes : writes[i].from \in Nat /\ writes[i].to \in Nat
    BY SequenceTypes
  <1>3. NextByte' = NextByte
    BY <1>1, SameFrames
  <1>4. /\ w.from \in Nat /\ w.to \in Nat /\ w.from + n <= w.to /\ w.to <= NextByte /\ W >= 1
    <2>1. w.from \in Nat /\ w.to \in Nat /\ w.to <= NextByte
      BY <1>1, <1>2 DEF WritesInv
    <2>2. W >= 1
      <3>1. 1 \in 1..W /\ W \in Nat
        BY <1>1, <1>2
      <3>2. QED
        BY <3>1
    <2>3. w.from + n <= w.to
      BY <1>1, <2>1
    <2>4. QED
      BY <2>1, <2>2, <2>3
  <1>5. DOMAIN writes' = 1..Len(writes') /\ (Len(writes') = W - 1 \/ Len(writes') = W)
    <2>1. n = m \/ n < m
      BY <1>1, <1>4
    <2>2. QED
      BY <1>1, <2>1, LenProperties
  <1> HIDE DEF W, w
  \* Each write in progress was one before, or is what remains of the first.
  <1>6. ASSUME NEW i \in DOMAIN writes'
        PROVE  \/ /\ i \in 1..(W - 1) /\ i + 1 \in DOMAIN writes /\ i + 1 # 1
                  /\ writes'[i] = writes[i + 1]
               \/ /\ i = W /\ writes'[i].from = w.from + n /\ writes'[i].to = w.to
    <2>1. CASE i \in 1..(W - 1)
      <3>1. i + 1 \in DOMAIN writes /\ i + 1 # 1
        BY <1>2, <2>1
      <3>2. QED
        BY <1>1, <2>1, <3>1
    <2>2. CASE i \notin 1..(W - 1)
      <3>1. i = W /\ Len(writes') = W
        <4>1. i \in 1..Len(writes') /\ W \in Nat
          BY <1>2, <1>5
        <4>2. Len(writes') # W - 1
          BY <2>2, <4>1
        <4>3. Len(writes') = W
          BY <1>5, <4>2
        <4>4. QED
          BY <2>2, <4>1, <4>3
      <3>2. n < m
        BY <1>1, <1>2, <1>4, <3>1
      <3>3. QED
        BY <1>1, <3>1, <3>2
    <2>3. QED
      BY <2>1, <2>2
  <1>7. ASSUME NEW i \in DOMAIN writes, i # 1
        PROVE  w.to <= writes[i].from \/ writes[i].to <= w.from
    BY <1>1, <1>7 DEF WritesInv, w
  <1>8. WritesInv'
    <2>1. ASSUME NEW i \in DOMAIN writes' PROVE writes'[i].to <= NextByte'
      BY <1>3, <1>4, <1>6 DEF WritesInv
    <2>2. ASSUME NEW i \in DOMAIN writes', NEW j \in DOMAIN writes', i # j
          PROVE  writes'[i].to <= writes'[j].from \/ writes'[j].to <= writes'[i].from
      <3>1. CASE i \in 1..(W - 1) /\ j \in 1..(W - 1)
        <4>1. /\ i + 1 \in DOMAIN writes /\ writes'[i] = writes[i + 1]
              /\ j + 1 \in DOMAIN writes /\ writes'[j] = writes[j + 1] /\ i + 1 # j + 1
          BY <1>2, <1>6, <2>2, <3>1
        <4>2. QED
          BY <4>1 DEF WritesInv
      <3>2. CASE i \in 1..(W - 1) /\ j \notin 1..(W - 1)
        <4>1. /\ i + 1 \in DOMAIN writes /\ i + 1 # 1 /\ writes'[i] = writes[i + 1]
              /\ writes'[j].from = w.from + n /\ writes'[j].to = w.to
          BY <1>2, <1>6, <3>2
        <4>2. w.to <= writes[i + 1].from \/ writes[i + 1].to <= w.from
          BY <1>7, <4>1
        <4>3. writes[i + 1].from \in Nat /\ writes[i + 1].to \in Nat
          BY <1>2, <4>1
        <4>4. QED
          BY <1>4, <4>1, <4>2, <4>3
      <3>3. CASE i \notin 1..(W - 1) /\ j \in 1..(W - 1)
        <4>1. /\ j + 1 \in DOMAIN writes /\ j + 1 # 1 /\ writes'[j] = writes[j + 1]
              /\ writes'[i].from = w.from + n /\ writes'[i].to = w.to
          BY <1>2, <1>6, <3>3
        <4>2. w.to <= writes[j + 1].from \/ writes[j + 1].to <= w.from
          BY <1>7, <4>1
        <4>3. writes[j + 1].from \in Nat /\ writes[j + 1].to \in Nat
          BY <1>2, <4>1
        <4>4. QED
          BY <1>4, <4>1, <4>2, <4>3
      <3>4. CASE i \notin 1..(W - 1) /\ j \notin 1..(W - 1)
        BY <1>6, <2>2, <3>4
      <3>5. QED
        BY <3>1, <3>2, <3>3, <3>4
    <2>3. QED
      BY <2>1, <2>2 DEF WritesInv
  <1>9. ASSUME NEW b \in Taken
        PROVE  b \in Taken'
    <2>1. b \in Nat /\ b < NextByte' /\ (b < w.from \/ w.to <= b)
      BY <1>1, <1>3 DEF Taken, w
    <2>2. ASSUME NEW i \in DOMAIN writes' PROVE b < writes'[i].from \/ writes'[i].to <= b
      <3>1. CASE i \in 1..(W - 1)
        <4>1. i + 1 \in DOMAIN writes /\ writes'[i] = writes[i + 1]
          BY <1>2, <1>6, <3>1
        <4>2. QED
          BY <4>1 DEF Taken
      <3>2. CASE i \notin 1..(W - 1)
        <4>1. writes'[i].from = w.from + n /\ writes'[i].to = w.to
          BY <1>6, <3>2
        <4>2. QED
          BY <1>4, <2>1, <4>1
      <3>3. QED
        BY <3>1, <3>2
    <2>3. QED
      BY <2>1, <2>2 DEF Taken
  <1>10. ASSUME NEW k \in 1..n
         PROVE  w.from + k - 1 \notin Taken /\ w.from + k - 1 \in Taken'
    <2> DEFINE b == w.from + k - 1
    <2>1. b \in Nat /\ w.from <= b /\ b < w.from + n /\ b < w.to /\ b < NextByte'
      BY <1>2, <1>3, <1>4
    <2> HIDE DEF b
    <2>2. b \notin Taken
      <3>1. ~(b < w.from) /\ ~(w.to <= b)
        BY <1>4, <2>1
      <3>2. QED
        BY <1>1, <3>1 DEF Taken, w
    <2>3. ASSUME NEW i \in DOMAIN writes' PROVE b < writes'[i].from \/ writes'[i].to <= b
      <3>1. CASE i \in 1..(W - 1)
        <4>1. i + 1 \in DOMAIN writes /\ i + 1 # 1 /\ writes'[i] = writes[i + 1]
          BY <1>2, <1>6, <3>1
        <4>2. w.to <= writes[i + 1].from \/ writes[i + 1].to <= w.from
          BY <1>7, <4>1
        <4>3. writes[i + 1].from \in Nat /\ writes[i + 1].to \in Nat
          BY <1>2, <4>1
        <4>4. QED
          BY <1>4, <2>1, <4>1, <4>2, <4>3
      <3>2. CASE i \notin 1..(W - 1)
        <4>1. writes'[i].from = w.from + n
          BY <1>6, <3>2
        <4>2. QED
          BY <2>1, <4>1
      <3>3. QED
        BY <3>1, <3>2
    <2>4. b \in Taken'
      BY <2>1, <2>3 DEF Taken
    <2>5. QED
      BY <2>2, <2>4 DEF b
  <1>11. QED
    BY <1>8, <1>9, <1>10 DEF w

LEMMA PlaceAtWrite ==
  ASSUME TypeOK, PlaceInv, NEW n \in Nat, n >= 1, Write(n)
  PROVE  PlaceInv'
  <1> DEFINE L == Len(wire)
             new(k) == writes[1].from + k - 1
  <1>1. /\ wire' \in Seq(Nat) /\ Len(wire') = L + n
        /\ \A k \in 1..L : wire'[k] = wire[k]
        /\ \A k \in 1..n : wire'[L + k] = new(k)
        /\ 1 \in DOMAIN writes
        /\ UNCHANGED <<partial, chunk, pos, delivered>>
    BY WriteEffect
  <1>2. /\ WritesInv' /\ Taken \subseteq Taken'
        /\ \A k \in 1..n : new(k) \notin Taken /\ new(k) \in Taken'
    BY TakenAtWrite DEF PlaceInv
  <1>3. /\ L \in Nat /\ DOMAIN wire = 1..L /\ DOMAIN wire' = 1..(L + n) /\ writes[1].from \in Nat
    BY <1>1, SequenceTypes, LenProperties
  <1> HIDE DEF new
  \* A byte on its way was there before, or is one of those written now.
  <1>4. ASSUME NEW i \in DOMAIN wire'
        PROVE  \/ i \in DOMAIN wire /\ wire'[i] = wire[i] /\ wire'[i] \in Taken
               \/ i \notin DOMAIN wire /\ i - L \in 1..n /\ wire'[i] = new(i - L) /\ wire'[i] \notin Taken
    <2>1. CASE i \in 1..L
      <3>1. wire'[i] = wire[i] /\ wire[i] \in Taken
        BY <1>1, <1>3, <2>1 DEF PlaceInv, WireInv
      <3>2. QED
        BY <1>3, <2>1, <3>1
    <2>2. CASE i \notin 1..L
      <3>1. i - L \in 1..n /\ i = L + (i - L)
        BY <1>3, <2>2
      <3>2. wire'[i] = new(i - L)
        BY <1>1, <3>1
      <3>3. QED
        BY <1>2, <1>3, <2>2, <3>1, <3>2
    <2>3. QED
      BY <2>1, <2>2
  <1>5. WireInv'
    <2>1. ASSUME NEW i \in DOMAIN wire' PROVE wire'[i] \in Taken'
      BY <1>2, <1>4
    <2>2. ASSUME NEW i \in DOMAIN wire', NEW j \in DOMAIN wire', wire'[i] = wire'[j]
          PROVE  i = j
      <3>1. CASE i \in DOMAIN wire /\ j \in DOMAIN wire
        BY <1>4, <2>2, <3>1 DEF PlaceInv, WireInv
      <3>2. CASE i \notin DOMAIN wire /\ j \notin DOMAIN wire
        <4>1. new(i - L) = new(j - L) /\ i - L \in 1..n /\ j - L \in 1..n
          BY <1>4, <2>2, <3>2
        <4>2. \A x, y \in 1..n : new(x) = new(y) => x = y
          BY <1>3 DEF new
        <4>3. i - L = j - L
          BY <4>1, <4>2
        <4>4. QED
          BY <1>3, <4>3
      <3>3. QED
        BY <1>4, <2>2, <3>1, <3>2
    <2>3. QED
      BY <2>1, <2>2 DEF WireInv
  <1>6. PartialInv' /\ RestInv'
    BY <1>1, <1>2, <1>4 DEF PlaceInv, PartialInv, RestInv, Rest
  <1>7. Got' = Got
    BY <1>1 DEF Got, Handed
  <1>8. GotInv' /\ GotOnce'
    BY <1>1, <1>2, <1>4, <1>7 DEF PlaceInv, GotInv, GotOnce, Rest
  <1>9. QED
    BY <1>2, <1>5, <1>6, <1>8 DEF PlaceInv

LEMMA PlaceAtSend ==
  ASSUME TypeOK, PlaceInv, NEW h \in HeaderSizes, NEW d \in DataSizes, SendData(h, d)
  PROVE  PlaceInv'
  <1>1. WritesInv' /\ Taken \subseteq Taken'
    BY TakenAtSend DEF PlaceInv
  <1>2. UNCHANGED <<wire, partial, chunk, pos, delivered>>
    BY SendEffect
  <1>3. Got' = Got
    BY <1>2 DEF Got, Handed
  <1>4. QED
    BY <1>1, <1>2, <1>3 DEF PlaceInv, WireInv, PartialInv, RestInv, GotInv, GotOnce, Rest

\* What is to be written stays, or is given up.
LEMMA SameTaken ==
  ASSUME UNCHANGED frames, writes' = writes \/ writes' = <<>>, WritesInv
  PROVE  WritesInv' /\ Taken \subseteq Taken'
  <1>1. NextByte' = NextByte
    BY SameFrames
  <1>2. CASE writes' = writes
    BY <1>1, <1>2 DEF Taken, WritesInv
  <1>3. CASE writes' = <<>>
    <2>1. DOMAIN writes' = {}
      BY <1>3
    <2>2. QED
      BY <1>1, <2>1 DEF Taken, WritesInv
  <1>4. QED
    BY <1>2, <1>3

LEMMA PlaceAtShort ==
  ASSUME TypeOK, PlaceInv, NEW n \in 1..Len(wire), ReadShort(n)
  PROVE  PlaceInv'
  <1>1. /\ wire' = SubSeq(wire, n + 1, Len(wire))
        /\ UNCHANGED <<frames, writes, partial, chunk, pos, delivered>>
    BY DEF ReadShort, Taking, sender
  <1>2. /\ wire' \in Seq(Nat) /\ Len(wire') = Len(wire) - n
        /\ \A k \in 1..(Len(wire) - n) : wire'[k] = wire[n + k]
    BY <1>1, ReadRest
  <1>3. Len(wire) \in Nat /\ DOMAIN wire = 1..Len(wire) /\ DOMAIN wire' = 1..(Len(wire) - n)
    BY <1>2, SequenceTypes, LenProperties
  <1>4. ASSUME NEW k \in DOMAIN wire' PROVE n + k \in DOMAIN wire /\ wire'[k] = wire[n + k]
    BY <1>2, <1>3
  <1>5. WritesInv' /\ Taken \subseteq Taken'
    BY <1>1, SameTaken DEF PlaceInv
  <1>6. WireInv'
    <2>1. ASSUME NEW k \in DOMAIN wire' PROVE wire'[k] \in Taken'
      BY <1>4, <1>5 DEF PlaceInv, WireInv
    <2>2. ASSUME NEW i \in DOMAIN wire', NEW j \in DOMAIN wire', wire'[i] = wire'[j]
          PROVE  i = j
      <3>1. n + i = n + j
        BY <1>4, <2>2 DEF PlaceInv, WireInv
      <3>2. QED
        BY <1>3, <3>1
    <2>3. QED
      BY <2>1, <2>2 DEF WireInv
  <1>7. Got' = Got
    BY <1>1 DEF Got, Handed
  <1>8. PartialInv' /\ RestInv' /\ GotInv' /\ GotOnce'
    BY <1>1, <1>4, <1>5, <1>7 DEF PlaceInv, PartialInv, RestInv, GotInv, GotOnce, Rest
  <1>9. QED
    BY <1>5, <1>6, <1>8 DEF PlaceInv

LEMMA PlaceAtRead ==
  ASSUME TypeOK, BufferInv, PlaceInv, NEW n \in 1..Len(wire), Read(n)
  PROVE  PlaceInv'
  <1> DEFINE P == Len(partial)
             L == Len(wire)
  <1>1. /\ wire' \in Seq(Nat) /\ Len(wire') = L - n
        /\ \A k \in 1..(L - n) : wire'[k] = wire[n + k]
        /\ chunk' \in Seq(Nat) /\ Len(chunk') = P + n
        /\ \A k \in 1..P : chunk'[k] = partial[k]
        /\ \A k \in 1..n : chunk'[P + k] = wire[k]
        /\ partial' = <<>> /\ pos' = 0
        /\ UNCHANGED <<frames, writes, delivered>>
    BY ReadEffect
  <1>2. /\ P \in Nat /\ DOMAIN partial = 1..P /\ L \in Nat /\ DOMAIN wire = 1..L
        /\ DOMAIN wire' = 1..(L - n) /\ DOMAIN partial' = {}
    BY <1>1, SequenceTypes, LenProperties
  <1>3. Rest' = 1..(P + n)
    BY <1>1, <1>2 DEF Rest
  <1>4. WritesInv' /\ Taken \subseteq Taken'
    BY <1>1, SameTaken DEF PlaceInv
  <1>5. Got' = Got
    BY <1>1 DEF Got, Handed
  <1>6. ASSUME NEW k \in DOMAIN wire'
        PROVE  n + k \in DOMAIN wire /\ n + k \notin 1..n /\ wire'[k] = wire[n + k]
    <2>1. k \in 1..(L - n) /\ L \in Nat
      BY <1>2
    <2>2. n + k \in 1..L /\ n + k \notin 1..n
      BY <2>1
    <2>3. QED
      BY <1>1, <1>2, <2>1, <2>2
  \* A byte worked on was kept, or has been read now.
  <1>7. ASSUME NEW i \in Rest'
        PROVE  \/ i \in DOMAIN partial /\ chunk'[i] = partial[i]
               \/ /\ i \notin DOMAIN partial /\ i - P \in 1..n /\ i - P \in DOMAIN wire
                  /\ chunk'[i] = wire[i - P]
    <2>1. CASE i \in 1..P
      BY <1>1, <1>2, <2>1
    <2>2. CASE i \notin 1..P
      <3>1. i - P \in 1..n /\ i = P + (i - P) /\ i - P \in 1..L
        BY <1>2, <1>3, <2>2
      <3>2. chunk'[i] = wire[i - P]
        BY <1>1, <3>1
      <3>3. QED
        BY <1>2, <2>2, <3>1, <3>2
    <2>3. QED
      BY <2>1, <2>2
  <1>8. WireInv'
    <2>1. ASSUME NEW k \in DOMAIN wire' PROVE wire'[k] \in Taken'
      BY <1>4, <1>6 DEF PlaceInv, WireInv
    <2>2. ASSUME NEW i \in DOMAIN wire', NEW j \in DOMAIN wire', wire'[i] = wire'[j]
          PROVE  i = j
      <3>1. n + i = n + j
        BY <1>6, <2>2 DEF PlaceInv, WireInv
      <3>2. QED
        BY <1>2, <3>1
    <2>3. QED
      BY <2>1, <2>2 DEF WireInv
  <1>9. PartialInv'
    BY <1>2 DEF PartialInv
  <1>10. RestInv'
    <2>1. ASSUME NEW i \in Rest' PROVE chunk'[i] \in Taken'
      BY <1>4, <1>7 DEF PlaceInv, WireInv, PartialInv
    <2>2. ASSUME NEW i \in Rest', NEW j \in Rest', chunk'[i] = chunk'[j]
          PROVE  i = j
      <3>1. CASE i \in DOMAIN partial /\ j \in DOMAIN partial
        BY <1>7, <2>2, <3>1 DEF PlaceInv, PartialInv
      <3>2. CASE i \notin DOMAIN partial /\ j \notin DOMAIN partial
        <4>1. i - P = j - P
          BY <1>7, <2>2, <3>2 DEF PlaceInv, WireInv
        <4>2. QED
          BY <1>2, <1>3, <4>1
      <3>3. CASE i \in DOMAIN partial /\ j \notin DOMAIN partial
        BY <1>7, <2>2, <3>3 DEF PlaceInv, PartialInv
      <3>4. CASE i \notin DOMAIN partial /\ j \in DOMAIN partial
        BY <1>7, <2>2, <3>4 DEF PlaceInv, PartialInv
      <3>5. QED
        BY <3>1, <3>2, <3>3, <3>4
    <2>3. ASSUME NEW i \in Rest', NEW j \in DOMAIN wire' PROVE chunk'[i] # wire'[j]
      <3>1. CASE i \in DOMAIN partial
        BY <1>6, <1>7, <3>1 DEF PlaceInv, PartialInv
      <3>2. CASE i \notin DOMAIN partial
        BY <1>6, <1>7, <3>2 DEF PlaceInv, WireInv
      <3>3. QED
        BY <3>1, <3>2
    <2>4. QED
      BY <2>1, <2>2, <2>3 DEF RestInv
  <1>11. GotInv' /\ GotOnce'
    BY <1>1, <1>2, <1>4, <1>5, <1>6, <1>7 DEF PlaceInv, GotInv, GotOnce
  <1>12. QED
    BY <1>4, <1>8, <1>9, <1>10, <1>11 DEF PlaceInv

\* The bytes of a packet that is handed over, where they were worked on.
LEMMA HandedBytes ==
  ASSUME TypeOK, NEW s \in Sizes, Fits(s)
  PROVE  LET h == pos + HeaderLen
             g == Handled(s).header \o Handled(s).data
         IN  /\ DOMAIN g = 1..(s.header + s.data)
             /\ \A k \in 1..(s.header + s.data) : g[k] = chunk[h + k] /\ h + k \in Rest
             /\ h \in Nat /\ s.header \in Nat /\ s.data \in Nat
             /\ h + s.header + s.data <= Len(chunk)
  <1> DEFINE h == pos + HeaderLen
             a == SubSeq(chunk, h + 1, h + s.header)
             b == SubSeq(chunk, h + s.header + 1, h + s.header + s.data)
             g == Handled(s).header \o Handled(s).data
  <1>1. /\ Handled(s).header = a /\ Handled(s).data = b
        /\ h \in Nat /\ s.header \in Nat /\ s.data \in Nat
        /\ h + s.header + s.data <= Len(chunk)
    BY HandledType
  <1>2. chunk \in Seq(Nat) /\ Len(chunk) \in Nat /\ pos \in Nat /\ HeaderLen \in Nat
    BY SequenceTypes, StreamAssumption DEF StreamAssumption
  <1>3. \A k \in 1..(s.header + s.data) : h + k \in Rest
    <2>1. ASSUME NEW k \in 1..(s.header + s.data)
          PROVE  pos + 1 <= h + k /\ h + k <= Len(chunk) /\ h + k \in Nat
      BY <1>1, <1>2
    <2>2. QED
      BY <1>2, <2>1 DEF Rest
  <1>0. /\ h \in Nat /\ s.header \in Nat /\ s.data \in Nat /\ Len(chunk) \in Nat
        /\ h + s.header + s.data <= Len(chunk)
    BY <1>1, <1>2
  <1> HIDE DEF h
  <1>4. /\ a \in Seq(Nat) /\ Len(a) = s.header
        /\ \A k \in 1..s.header : a[k] = chunk[h + k]
    <2>1. /\ h \in Nat /\ h + s.header \in Nat /\ h <= h + s.header
          /\ h + s.header <= Len(chunk) /\ (h + s.header) - h = s.header
      BY <1>0
    <2>2. /\ SubSeq(chunk, h + 1, h + s.header) \in Seq(Nat)
          /\ Len(SubSeq(chunk, h + 1, h + s.header)) = (h + s.header) - h
          /\ \A k \in 1..((h + s.header) - h) :
               SubSeq(chunk, h + 1, h + s.header)[k] = chunk[h + k]
      BY <1>2, <2>1, PartOf
    <2>3. QED
      BY <2>1, <2>2
  <1>5. /\ b \in Seq(Nat) /\ Len(b) = s.data
        /\ \A k \in 1..s.data : b[k] = chunk[h + s.header + k]
    <2> DEFINE d == h + s.header
               e == d + s.data
    <2>1. d \in Nat /\ e \in Nat /\ d <= e /\ e <= Len(chunk) /\ e - d = s.data
      <3>1. d \in Nat /\ s.data \in Nat /\ e = d + s.data
        BY <1>0
      <3>2. e <= Len(chunk)
        BY <1>0
      <3> HIDE DEF d, e
      <3>3. QED
        BY <3>1, <3>2
    <2> HIDE DEF d, e
    <2>2. /\ SubSeq(chunk, d + 1, e) \in Seq(Nat)
          /\ Len(SubSeq(chunk, d + 1, e)) = e - d
          /\ \A k \in 1..(e - d) : SubSeq(chunk, d + 1, e)[k] = chunk[d + k]
      BY <1>2, <2>1, PartOf
    <2>3. /\ SubSeq(chunk, d + 1, e) \in Seq(Nat)
          /\ Len(SubSeq(chunk, d + 1, e)) = s.data
          /\ \A k \in 1..s.data : SubSeq(chunk, d + 1, e)[k] = chunk[d + k]
      BY <2>1, <2>2
    <2>4. QED
      BY <2>3 DEF d, e
  <1>6. g = a \o b
    BY <1>1
  <1> HIDE DEF a, b, g
  <1>7. /\ g \in Seq(Nat) /\ Len(g) = s.header + s.data
        /\ \A k \in 1..s.header : g[k] = a[k]
        /\ \A k \in 1..s.data : g[s.header + k] = b[k]
    <2>1. /\ a \o b \in Seq(Nat) /\ Len(a \o b) = Len(a) + Len(b)
          /\ \A k \in 1..Len(a) : (a \o b)[k] = a[k]
          /\ \A k \in 1..Len(b) : (a \o b)[Len(a) + k] = b[k]
      BY <1>4, <1>5, Joined
    <2>2. QED
      BY <1>4, <1>5, <1>6, <2>1
  <1>8. ASSUME NEW k \in 1..(s.header + s.data) PROVE g[k] = chunk[h + k]
    <2>1. CASE k \in 1..s.header
      BY <1>4, <1>7, <2>1
    <2>2. CASE k \notin 1..s.header
      <3>1. PICK l \in 1..s.data : k = s.header + l
        <4>1. k - s.header \in 1..s.data /\ k = s.header + (k - s.header)
          BY <1>1, <2>2
        <4>2. QED
          BY <4>1
      <3>2. g[k] = chunk[h + s.header + l]
        BY <1>5, <1>7, <3>1
      <3>3. h + s.header + l = h + k
        BY <1>1, <3>1
      <3>4. QED
        BY <3>2, <3>3
    <2>3. QED
      BY <2>1, <2>2
  <1>9. DOMAIN g = 1..(s.header + s.data)
    BY <1>7, LenProperties
  <1>10. QED
    BY <1>1, <1>3, <1>8, <1>9 DEF g, h

LEMMA PlaceAtDeliver ==
  ASSUME TypeOK, PlaceInv, Deliver
  PROVE  PlaceInv'
  <1> DEFINE D == Len(delivered)
             h == pos + HeaderLen
  <1>1. UNCHANGED <<multipart, frames, writes, wire, partial>> /\ partial = <<>>
    BY DeliverEffect
  <1>2. PICK s \in Sizes :
          /\ Fits(s)
          /\ IF multipart
               THEN pos' = pos + HeaderLen + s.header + s.data /\ UNCHANGED <<chunk, pc>>
               ELSE chunk' = <<>> /\ pos' = 0 /\ pc' = "idle"
          /\ delivered' \in Seq(Packets) /\ Len(delivered') = D + 1
          /\ \A i \in 1..D : delivered'[i] = delivered[i]
          /\ delivered'[D + 1] = Handled(s)
    BY DeliverEffect
  <1> DEFINE g == Handled(s).header \o Handled(s).data
  <1>3. /\ DOMAIN g = 1..(s.header + s.data)
        /\ \A k \in 1..(s.header + s.data) : g[k] = chunk[h + k] /\ h + k \in Rest
        /\ h \in Nat /\ s.header \in Nat /\ s.data \in Nat
        /\ h + s.header + s.data <= Len(chunk)
    BY <1>2, HandedBytes
  <1>4. /\ D \in Nat /\ DOMAIN delivered = 1..D /\ Len(chunk) \in Nat /\ pos \in Nat
        /\ HeaderLen \in Nat
    BY SequenceTypes, StreamAssumption DEF StreamAssumption
  <1>5. DOMAIN delivered' = 1..(D + 1)
    BY <1>2, LenProperties
  <1>6. ASSUME NEW j \in 1..D PROVE j \in DOMAIN delivered /\ j # D + 1 /\ Got'[j] = Got[j]
    <2>1. j \in DOMAIN delivered /\ j \in DOMAIN delivered' /\ j # D + 1
      BY <1>4, <1>5
    <2>2. delivered'[j] = delivered[j]
      BY <1>2
    <2>3. Got[j] = delivered[j].header \o delivered[j].data
      BY <2>1 DEF Got, Handed
    <2>4. Got'[j] = delivered'[j].header \o delivered'[j].data
      BY <2>1 DEF Got, Handed
    <2>5. QED
      BY <2>1, <2>2, <2>3, <2>4
  <1>7. Got'[D + 1] = g
    <2>1. D + 1 \in DOMAIN delivered'
      BY <1>4, <1>5
    <2>2. Got'[D + 1] = delivered'[D + 1].header \o delivered'[D + 1].data
      BY <2>1 DEF Got, Handed
    <2>3. QED
      BY <1>2, <2>2
  <1> HIDE DEF g
  <1>8. WritesInv' /\ Taken \subseteq Taken'
    BY <1>1, SameTaken DEF PlaceInv
  \* What is still worked on lies behind the packet.
  <1>9. ASSUME NEW i \in Rest'
        PROVE  i \in Rest /\ chunk'[i] = chunk[i] /\ ~(i <= h + s.header + s.data)
    <2>1. CASE multipart
      <3>1. pos' = pos + HeaderLen + s.header + s.data /\ chunk' = chunk
        BY <1>2, <2>1
      <3>2. i \in (h + s.header + s.data + 1)..Len(chunk)
        BY <3>1 DEF Rest
      <3>3. i \in (pos + 1)..Len(chunk) /\ ~(i <= h + s.header + s.data)
        BY <1>3, <1>4, <3>2
      <3>4. QED
        BY <3>1, <3>3 DEF Rest
    <2>2. CASE ~multipart
      <3>1. chunk' = <<>> /\ pos' = 0
        BY <1>2, <2>2
      <3>2. Rest' = {}
        <4>1. Rest' = (0 + 1)..0
          BY <3>1 DEF Rest
        <4>2. QED
          BY <4>1
      <3>3. QED
        BY <3>2
    <2>3. QED
      BY <2>1, <2>2
  <1>10. ASSUME NEW k \in DOMAIN g
         PROVE  /\ h + k \in Rest /\ g[k] = chunk[h + k] /\ g[k] \in Taken /\ k \in Nat
                /\ h + k <= h + s.header + s.data
                /\ \A i \in DOMAIN wire : g[k] # wire[i]
    <2>1. h + k \in Rest /\ g[k] = chunk[h + k] /\ k \in Nat /\ k <= s.header + s.data
      BY <1>3
    <2>2. h + k <= h + s.header + s.data
      BY <1>3, <2>1
    <2>3. QED
      BY <2>1, <2>2 DEF PlaceInv, RestInv
  <1>11. WireInv'
    BY <1>1, <1>8 DEF PlaceInv, WireInv
  <1>12. PartialInv'
    BY <1>1, <1>8 DEF PlaceInv, PartialInv
  <1>13. RestInv'
    BY <1>1, <1>8, <1>9 DEF PlaceInv, RestInv
  <1>14. GotInv'
    <2>1. ASSUME NEW j \in DOMAIN delivered', NEW k \in DOMAIN Got'[j]
          PROVE  /\ Got'[j][k] \in Taken'
                 /\ \A i \in DOMAIN wire' : Got'[j][k] # wire'[i]
                 /\ \A i \in DOMAIN partial' : Got'[j][k] # partial'[i]
                 /\ \A i \in Rest' : Got'[j][k] # chunk'[i]
      <3>1. CASE j \in 1..D
        BY <1>1, <1>6, <1>8, <1>9, <3>1 DEF PlaceInv, GotInv
      <3>2. CASE j = D + 1
        <4>1. k \in DOMAIN g /\ Got'[j][k] = g[k]
          BY <1>7, <3>2
        <4>2. DOMAIN partial' = {}
          BY <1>1
        <4>3. ASSUME NEW i \in Rest' PROVE g[k] # chunk'[i]
          <5>1. h + k # i
            BY <1>9, <1>10, <4>1
          <5>2. QED
            BY <1>9, <1>10, <4>1, <5>1 DEF PlaceInv, RestInv
        <4>4. QED
          BY <1>1, <1>8, <1>10, <4>1, <4>2, <4>3
      <3>3. QED
        BY <1>4, <1>5, <3>1, <3>2
    <2>2. QED
      BY <2>1 DEF GotInv
  <1>15. GotOnce'
    <2>1. ASSUME NEW i \in DOMAIN delivered', NEW j \in DOMAIN delivered',
                 NEW k \in DOMAIN Got'[i], NEW l \in DOMAIN Got'[j], Got'[i][k] = Got'[j][l]
          PROVE  i = j /\ k = l
      <3>1. CASE i \in 1..D /\ j \in 1..D
        BY <1>6, <2>1, <3>1 DEF PlaceInv, GotOnce
      <3>2. CASE i \in 1..D /\ j = D + 1
        BY <1>6, <1>7, <1>10, <2>1, <3>2 DEF PlaceInv, GotInv
      <3>3. CASE i = D + 1 /\ j \in 1..D
        BY <1>6, <1>7, <1>10, <2>1, <3>3 DEF PlaceInv, GotInv
      <3>4. CASE i = D + 1 /\ j = D + 1
        <4>1. h + k = h + l
          BY <1>7, <1>10, <2>1, <3>4 DEF PlaceInv, RestInv
        <4>2. k \in Nat /\ l \in Nat
          BY <1>7, <1>10, <3>4
        <4>3. QED
          BY <1>3, <3>4, <4>1, <4>2
      <3>5. QED
        BY <1>4, <1>5, <3>1, <3>2, <3>3, <3>4
    <2>2. QED
      BY <2>1 DEF GotOnce
  <1>16. QED
    BY <1>8, <1>11, <1>12, <1>13, <1>14, <1>15 DEF PlaceInv

LEMMA PlaceAtIncomplete ==
  ASSUME TypeOK, PlaceInv, Incomplete
  PROVE  PlaceInv'
  <1>1. /\ partial = <<>> /\ partial' \in Seq(Nat)
        /\ multipart =>
             /\ Len(partial') = Len(chunk) - pos
             /\ \A k \in 1..(Len(chunk) - pos) : partial'[k] = chunk[pos + k]
        /\ ~multipart => partial' = <<>>
        /\ chunk' = <<>> /\ pos' = 0
        /\ UNCHANGED <<multipart, frames, writes, wire, delivered>>
    BY IncompleteEffect
  <1>2. pos \in Nat /\ Len(chunk) \in Nat
    BY SequenceTypes
  <1>3. ASSUME NEW k \in DOMAIN partial'
        PROVE  pos + k \in Rest /\ partial'[k] = chunk[pos + k] /\ k \in Nat
    <2>1. CASE multipart
      <3>1. k \in 1..(Len(chunk) - pos)
        BY <1>1, <2>1, LenProperties
      <3>2. pos + k \in (pos + 1)..Len(chunk)
        BY <1>2, <3>1
      <3>3. QED
        BY <1>1, <2>1, <3>1, <3>2 DEF Rest
    <2>2. CASE ~multipart
      <3>1. DOMAIN partial' = {}
        BY <1>1, <2>2
      <3>2. QED
        BY <3>1
    <2>3. QED
      BY <2>1, <2>2
  <1>4. Rest' = {}
    <2>1. Rest' = (0 + 1)..0
      BY <1>1 DEF Rest
    <2>2. QED
      BY <2>1
  <1>5. WritesInv' /\ Taken \subseteq Taken'
    BY <1>1, SameTaken DEF PlaceInv
  <1>6. WireInv'
    BY <1>1, <1>5 DEF PlaceInv, WireInv
  <1>7. PartialInv'
    <2>1. ASSUME NEW i \in DOMAIN partial'
          PROVE  partial'[i] \in Taken' /\ \A j \in DOMAIN wire' : partial'[i] # wire'[j]
      BY <1>1, <1>3, <1>5 DEF PlaceInv, RestInv
    <2>2. ASSUME NEW i \in DOMAIN partial', NEW j \in DOMAIN partial', partial'[i] = partial'[j]
          PROVE  i = j
      <3>1. pos + i = pos + j
        BY <1>3, <2>2 DEF PlaceInv, RestInv
      <3>2. QED
        BY <1>2, <1>3, <3>1
    <2>3. QED
      BY <2>1, <2>2 DEF PartialInv
  <1>8. RestInv'
    BY <1>4 DEF RestInv
  <1>9. Got' = Got
    BY <1>1 DEF Got, Handed
  <1>10. GotOnce'
    BY <1>1, <1>9 DEF PlaceInv, GotOnce
  <1>11. GotInv'
    <2>1. ASSUME NEW j \in DOMAIN delivered, NEW k \in DOMAIN Got[j]
          PROVE  /\ Got[j][k] \in Taken'
                 /\ \A i \in DOMAIN wire : Got[j][k] # wire[i]
                 /\ \A i \in DOMAIN partial' : Got[j][k] # partial'[i]
      <3>1. /\ Got[j][k] \in Taken /\ \A i \in DOMAIN wire : Got[j][k] # wire[i]
            /\ \A i \in Rest : Got[j][k] # chunk[i]
        BY DEF PlaceInv, GotInv
      <3>2. QED
        BY <1>3, <1>5, <3>1
    <2>2. QED
      BY <1>1, <1>4, <1>9, <2>1 DEF GotInv
  <1>12. QED
    BY <1>5, <1>6, <1>7, <1>8, <1>10, <1>11 DEF PlaceInv

LEMMA PlaceStep ==
  ASSUME TypeOK, BufferInv, PlaceInv, [Next]_vars
  PROVE  PlaceInv'
  <1>1. ASSUME SomeWrite PROVE PlaceInv'
    <2>1. PICK n \in 1..(IF writes = <<>> THEN 0 ELSE Head(writes).to - Head(writes).from) : Write(n)
      BY <1>1 DEF SomeWrite
    <2>2. n \in Nat /\ n >= 1
      BY <2>1
    <2>3. QED
      BY <2>1, <2>2, PlaceAtWrite
  <1>2. ASSUME ConnectionLost PROVE PlaceInv'
    <2>1. wire' = <<>> /\ writes' = <<>> /\ UNCHANGED <<frames, partial, chunk, pos, delivered>>
      BY <1>2 DEF ConnectionLost
    <2>2. DOMAIN wire' = {} /\ Got' = Got /\ Rest' = Rest
      BY <2>1 DEF Got, Handed, Rest
    <2>3. WritesInv' /\ Taken \subseteq Taken'
      BY <2>1, SameTaken DEF PlaceInv
    <2>4. QED
      BY <2>1, <2>2, <2>3 DEF PlaceInv, WireInv, PartialInv, RestInv, GotInv, GotOnce
  <1>3. ASSUME UNCHANGED vars \/ Register \/ Open PROVE PlaceInv'
    <2>1. UNCHANGED <<frames, writes, wire, partial, chunk, pos, delivered>>
      BY <1>3, OpenEffect DEF vars
    <2>2. Got' = Got /\ Rest' = Rest
      BY <2>1 DEF Got, Handed, Rest
    <2>3. WritesInv' /\ Taken \subseteq Taken'
      BY <2>1, SameTaken DEF PlaceInv
    <2>4. QED
      BY <2>1, <2>2, <2>3 DEF PlaceInv, WireInv, PartialInv, RestInv, GotInv, GotOnce
  <1>4. QED
    BY <1>1, <1>2, <1>3, PlaceAtSend, PlaceAtShort, PlaceAtRead, PlaceAtDeliver, PlaceAtIncomplete
       DEF Next, SomeRead

\* Whatever the stream goes through (writes cut and mixed, short reads dropped,
\* messages cut, sizes read out of step with the frames or not held by their
\* fields, the end of the connection), no byte the sender framed is handed to the application twice.
THEOREM BytesOnce == Spec => []NoByteTwice
  <1>1. Init => TypeOK /\ PlaceInv
    <2> SUFFICES ASSUME Init
                 PROVE  TypeOK /\ PlaceInv
      OBVIOUS
    <2>1. /\ writes = <<>> /\ wire = <<>> /\ partial = <<>> /\ chunk = <<>> /\ delivered = <<>>
          /\ pos = 0
      BY DEF Init
    <2>2. /\ DOMAIN writes = {} /\ DOMAIN wire = {} /\ DOMAIN partial = {} /\ DOMAIN delivered = {}
          /\ Len(chunk) = 0
      BY <2>1
    <2>3. Rest = {}
      <3>1. Rest = (0 + 1)..0
        BY <2>1, <2>2 DEF Rest
      <3>2. QED
        BY <3>1
    <2>4. QED
      BY <2>2, <2>3, StreamStart
         DEF PlaceInv, WritesInv, WireInv, PartialInv, RestInv, GotInv, GotOnce
  <1>2. TypeOK /\ BufferInv /\ PlaceInv /\ [Next]_vars => PlaceInv'
    BY PlaceStep
  <1>3. PlaceInv => NoByteTwice
    BY DEF PlaceInv, GotOnce, Got, NoByteTwice
  <1>4. QED
    BY <1>1, <1>2, <1>3, BuffersKept, PTL DEF Spec
===============================================================================
