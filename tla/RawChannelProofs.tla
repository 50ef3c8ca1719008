-------------------------- MODULE RawChannelProofs --------------------------
(***************************************************************************)
(* Proofs about RawChannel, for every size of the buffer, any sizes of     *)
(* datagrams that fit it, and any number of them.                          *)
(***************************************************************************)
EXTENDS RawChannel, SequenceTheorems, TLAPS

\* Only a receiver that is up reads, and what it reads with is there: from the
\* moment on_init is due until the client ends, the socket exists, a receiver's
\* is open, and a TCP channel's is connected.
SocketInv ==
  /\ receives > 0 \/ done # <<>> => start_receiver /\ on_init # "before"
  /\ on_init # "before" => pending = "none"
  /\ pending = "connect" => protocol = "tcp"
  /\ Running => failure = "none"
  /\ Running /\ pending = "connect" => socket = "open"
  /\ Running /\ on_init # "before" => socket # "null"
  /\ Running /\ on_init # "before" /\ start_receiver => socket = "open"
  /\ Running /\ on_init # "before" /\ protocol = "tcp" => "connected" \in state
  /\ SocketThereWhenUsed

AccountedInv ==
  /\ on_init = "before" => bursts = 0
  /\ Running => receives + Len(done) <= 1 + bursts
  /\ ReceivesAccountedFor

Quiet == Running /\ bursts = 0

\* The datagrams the socket no longer holds.
Taken == Len(arrived) - Len(inbox)

HandlerDue == done # <<>> /\ Head(done).kind = "data"

\* Before the first burst what was taken from the socket was handed on, but for
\* the datagram whose handler is due, which is whole at the front of the buffer.
OrderInv ==
  /\ Len(inbox) <= Len(arrived)
  /\ \A i \in DOMAIN inbox : inbox[i] = Taken + i
  /\ Quiet =>
       /\ bytes_read = 0
       /\ ~HandlerDue => Len(delivered) = Taken
       /\ HandlerDue =>
            /\ Taken = Len(delivered) + 1
            /\ Head(done).id = Taken
            /\ \A k \in 1..arrived[Taken] : buffer[k] = Taken

-----------------------------------------------------------------------------
(* Types *)

\* What a call of start_receiver does to the channel.
LEMMA StartReceiverEffect ==
  ASSUME TypeOK, NEW n \in Nat, NEW left \in Nat, StartReceiver(n, left)
  PROVE  /\ receives' \in {left, left + n}
         /\ socket' \in {"null", "closed", "open"}
         /\ failure' \in {failure, "null_pointer"}
         /\ socket # "null" => failure' = failure
         /\ failure' # failure => socket' = socket
         /\ socket = "open" => socket' = "open"
         /\ socket = "null" => socket' = "null"
         /\ socket = "open" /\ (protocol = "tcp" => "connected" \in state) =>
              receives' = left + n
  <1>1. protocol \in {"tcp", "udp"} /\ socket \in {"null", "closed", "open"}
    BY RawAssumption DEF RawAssumption, TypeOK
  <1>2. QED
    BY <1>1 DEF StartReceiver

\* The buffer from its front is a sequence of numbers of datagrams.
LEMMA FrontType ==
  ASSUME TypeOK, NEW n \in Nat
  PROVE  Front(n) \in Seq(0..MaxDatagrams)
  <1>1. \A k \in 1..n : (IF k <= BufferSize THEN buffer[k] ELSE 0) \in 0..MaxDatagrams
    <2>1. buffer \in [1..BufferSize -> 0..MaxDatagrams] /\ BufferSize \in Nat /\ MaxDatagrams \in Nat
      BY RawAssumption DEF RawAssumption, TypeOK
    <2>2. ASSUME NEW k \in 1..n PROVE (IF k <= BufferSize THEN buffer[k] ELSE 0) \in 0..MaxDatagrams
      <3>1. CASE k <= BufferSize
        <4>1. k \in 1..BufferSize
          BY <2>1, <3>1
        <4>2. QED
          BY <2>1, <3>1, <4>1
      <3>2. CASE ~(k <= BufferSize)
        BY <2>1, <3>2
      <3>3. QED
        BY <3>1, <3>2
    <2>3. QED
      BY <2>2
  <1>2. Front(n) \in [1..n -> 0..MaxDatagrams]
    BY <1>1 DEF Front
  <1>3. \A f \in [1..n -> 0..MaxDatagrams] : f \in Seq(0..MaxDatagrams)
    BY SeqDef, Zenon
  <1>4. QED
    BY <1>2, <1>3, Zenon

\* The size of an arrived datagram.
LEMMA SizeType ==
  ASSUME TypeOK, NEW n \in DOMAIN arrived
  PROVE  arrived[n] \in Nat /\ arrived[n] <= BufferSize /\ n \in 1..MaxDatagrams
  <1>1. arrived[n] \in Sizes
    BY DEF TypeOK
  <1>2. arrived[n] \in Nat /\ arrived[n] <= BufferSize
    <2>1. Sizes \subseteq 0..BufferSize /\ BufferSize \in Nat
      BY RawAssumption DEF RawAssumption
    <2>2. arrived[n] \in 0..BufferSize
      BY <1>1, <2>1
    <2>3. QED
      BY <2>1, <2>2
  <1>3. n \in 1..MaxDatagrams
    <2>1. arrived \in Seq(Sizes) /\ Len(arrived) <= MaxDatagrams /\ MaxDatagrams \in Nat
      BY RawAssumption DEF RawAssumption, TypeOK
    <2>2. n \in 1..Len(arrived) /\ Len(arrived) \in Nat
      BY <2>1
    <2>3. QED
      BY <2>1, <2>2
  <1>4. QED
    BY <1>2, <1>3

LEMMA AbortedType ==
  ASSUME TypeOK, Aborted
  PROVE  /\ done' \in Seq(Results) /\ receives' = 0 /\ inbox' = <<>>
         /\ Len(done') = Len(done) + receives
  <1> DEFINE aborted == [i \in 1..receives |-> Result("aborted")]
  <1>1. receives \in Nat /\ done \in Seq(Results)
    BY DEF TypeOK
  <1>2. aborted \in [1..receives -> Results]
    BY DEF Results
  <1>3. aborted \in Seq(Results) /\ Len(aborted) = receives
    BY <1>1, <1>2, SeqDef
  <1>4. done' = done \o aborted /\ receives' = 0 /\ inbox' = <<>>
    BY DEF Aborted
  <1> HIDE DEF aborted
  <1>5. QED
    BY <1>1, <1>3, <1>4, ConcatProperties

LEMMA TypeStep ==
  ASSUME TypeOK, [Next]_vars
  PROVE  TypeOK'
  <1> USE RawAssumption DEF RawAssumption, channel, network, reading
  <1>0. arrived' = arrived => Results' = Results
    BY DEF Results
  <1> DEFINE Loop ==
        /\ UNCHANGED <<protocol, start_receiver, state, owner, runner, pending, on_init, arrived>>
        /\ inbox' \in Seq(DOMAIN arrived) /\ done' \in Seq(Results)
        /\ socket' \in {"null", "closed", "open"} /\ failure' \in {failure, "null_pointer"}
        /\ receives' \in Nat /\ bytes_read' \in Nat /\ bursts' \in Nat /\ ended' \in BOOLEAN
        /\ buffer' \in [1..BufferSize -> 0..MaxDatagrams]
        /\ delivered' \in Seq(Seq(0..MaxDatagrams))
  <1>a. Loop => TypeOK'
    <2> SUFFICES ASSUME Loop PROVE TypeOK'
      OBVIOUS
    <2>1. done' \in Seq(Results')
      BY <1>0
    <2>2. inbox' \in Seq(DOMAIN arrived')
      OBVIOUS
    <2>3. arrived' \in Seq(Sizes) /\ Len(arrived') <= MaxDatagrams
      BY DEF TypeOK
    <2>4. failure' \in {"none", "null_pointer", "thrown"}
      BY DEF TypeOK
    <2>5. /\ protocol' \in Protocols /\ start_receiver' \in BOOLEAN
          /\ state' \subseteq {"initialised", "connected", "in_error"}
          /\ owner' \in {"init", "running", "closed", "torn", "over"}
          /\ runner' \in {"starting", "running", "stopped"}
          /\ pending' \in {"resolve", "connect", "none"}
          /\ on_init' \in {"before", "next", "over"}
      BY DEF TypeOK
    <2>6. QED
      BY <2>1, <2>2, <2>3, <2>4, <2>5, Zenon DEF TypeOK
  <1>b. /\ inbox \in Seq(DOMAIN arrived) /\ done \in Seq(Results) /\ receives \in Nat
        /\ socket \in {"null", "closed", "open"} /\ bytes_read \in Nat /\ bursts \in Nat
        /\ ended \in BOOLEAN /\ buffer \in [1..BufferSize -> 0..MaxDatagrams]
        /\ delivered \in Seq(Seq(0..MaxDatagrams))
    BY DEF TypeOK
  <1> HIDE DEF Loop
  <1>1. CASE UNCHANGED vars
    BY <1>0, <1>1 DEF vars, TypeOK
  <1>2. CASE RunnerStarts
    BY <1>0, <1>2 DEF RunnerStarts, TypeOK
  <1>3. CASE Stop
    BY <1>0, <1>3 DEF Stop, TypeOK
  <1>4. CASE InitReturns
    BY <1>0, <1>4 DEF InitReturns, TypeOK
  <1>5. CASE Refused
    BY <1>0, <1>5 DEF Refused, TypeOK
  <1>6. CASE Resolved
    BY <1>0, <1>6 DEF Resolved, TypeOK
  <1>7. CASE Connected
    BY <1>0, <1>7 DEF Connected, TypeOK
  <1>8. CASE OnInit
    BY <1>0, <1>8 DEF OnInit, TypeOK
  <1>9. CASE Send
    BY <1>0, <1>9 DEF Send, TypeOK
  <1>10. ASSUME NEW size \in Sizes, Arrive(size)
         PROVE  TypeOK'
    <2>1. /\ arrived' = Append(arrived, size) /\ Len(arrived) < MaxDatagrams
          /\ inbox' = Append(inbox, Len(arrived) + 1)
      BY <1>10 DEF Arrive
    <2>2. arrived' \in Seq(Sizes) /\ Len(arrived') = Len(arrived) + 1 /\ Len(arrived) \in Nat
      BY <2>1 DEF TypeOK
    <2>3. DOMAIN arrived = 1..Len(arrived) /\ DOMAIN arrived' = 1..(Len(arrived) + 1)
      BY <2>2 DEF TypeOK
    <2>4. inbox \in Seq(DOMAIN arrived') /\ Len(arrived) + 1 \in DOMAIN arrived'
      <3>1. DOMAIN arrived \subseteq DOMAIN arrived' /\ Len(arrived) + 1 \in DOMAIN arrived'
        BY <2>2, <2>3
      <3>2. inbox \in Seq(DOMAIN arrived)
        BY DEF TypeOK
      <3>3. QED
        BY <3>1, <3>2, SeqMonotonic
    <2>5. inbox' \in Seq(DOMAIN arrived')
      BY <2>1, <2>4, AppendProperties
    <2>6. Len(arrived') <= MaxDatagrams
      BY <2>1, <2>2
    <2>7. done' \in Seq(Results')
      <3>1. DOMAIN arrived \subseteq DOMAIN arrived'
        BY <2>2, <2>3
      <3>2. Results \subseteq Results'
        BY <3>1 DEF Results
      <3>3. done \in Seq(Results) /\ done' = done
        BY <1>10 DEF Arrive, TypeOK
      <3>4. QED
        BY <3>2, <3>3, SeqMonotonic
    <2>8. QED
      BY <1>10, <2>2, <2>5, <2>6, <2>7 DEF Arrive, TypeOK
  <1>11. CASE Fill
    <2>1. /\ receives > 0 /\ receives' = receives - 1
          /\ done' = Append(done, Data(Head(inbox))) /\ inbox' = Tail(inbox) /\ inbox # <<>>
      BY <1>11 DEF Fill
    <2>2. Head(inbox) \in DOMAIN arrived /\ inbox' \in Seq(DOMAIN arrived)
      BY <2>1, HeadTailProperties DEF TypeOK
    <2>3. Head(inbox) \in 1..MaxDatagrams
      BY <2>2, SizeType
    <2>4. done' \in Seq(Results)
      <3>1. Data(Head(inbox)) \in Results
        BY <2>2 DEF Results
      <3>2. QED
        BY <2>1, <3>1 DEF TypeOK
    <2>5. buffer' \in [1..BufferSize -> 0..MaxDatagrams]
      BY <1>11, <2>3 DEF Fill, TypeOK
    <2>6. receives' \in Nat
      BY <2>1 DEF TypeOK
    <2>7. QED
      BY <1>a, <1>b, <1>11, <2>2, <2>4, <2>5, <2>6 DEF Fill, Loop
  <1>12. ASSUME NEW kind \in {"error", "eof"}, ReadFails(kind)
         PROVE  TypeOK'
    <2>1. Result(kind) \in Results
      BY <1>12 DEF Results
    <2>2. done' \in Seq(Results) /\ receives' \in Nat
      BY <1>12, <2>1 DEF ReadFails, TypeOK
    <2>3. QED
      BY <1>0, <1>12, <2>2 DEF ReadFails, TypeOK
  <1>13. Handled => done' \in Seq(Results) /\ Head(done) \in Results
    BY HeadTailProperties DEF Handled, TypeOK
  <1>14. CASE HandleEnd
    BY <1>0, <1>13, <1>14 DEF HandleEnd, TypeOK
  <1>15. CASE HandleError
    <2>1. StartReceiver(1, receives) /\ Handled /\ receives \in Nat
      BY <1>15 DEF HandleError, TypeOK
    <2>2. QED
      <3>1. /\ receives' \in Nat /\ socket' \in {"null", "closed", "open"}
            /\ failure' \in {failure, "null_pointer"}
        BY <2>1, StartReceiverEffect
      <3>2. done' \in Seq(Results)
        BY <1>13, <2>1
      <3>3. UNCHANGED <<channel, state, owner, runner, pending, on_init, network, reading>>
        BY <1>15 DEF HandleError
      <3>4. QED
        BY <1>a, <1>b, <3>1, <3>2, <3>3 DEF Loop
  <1>16. ASSUME Handled, HandlerDue
         PROVE  /\ Head(done).id \in DOMAIN arrived
                /\ arrived[Head(done).id] \in Nat
    <2>1. Head(done).id \in DOMAIN arrived
      BY <1>13, <1>16 DEF HandlerDue, Results, Data, Result
    <2>2. QED
      BY <2>1, SizeType
  <1>17. CASE HandleChunk
    <2>1. /\ StartReceiver(1, receives) /\ Handled /\ HandlerDue /\ receives \in Nat
          /\ delivered' = Append(delivered, Front(arrived[Head(done).id]))
          /\ bytes_read' = 0 /\ done' \in Seq(Results)
      BY <1>13, <1>17 DEF HandleChunk, HandlerDue, Handled, TypeOK
    <2>2. receives' \in Nat /\ socket' \in {"null", "closed", "open"}
          /\ failure' \in {failure, "null_pointer"}
      BY <2>1, StartReceiverEffect
    <2>3. delivered' \in Seq(Seq(0..MaxDatagrams))
      <3>1. Front(arrived[Head(done).id]) \in Seq(0..MaxDatagrams)
        BY <1>16, <2>1, FrontType
      <3>2. delivered \in Seq(Seq(0..MaxDatagrams))
        BY DEF TypeOK
      <3>3. QED
        BY <2>1, <3>1, <3>2, AppendProperties
    <2>4. UNCHANGED <<channel, state, owner, runner, pending, on_init, network, buffer, bursts, ended>>
      BY <1>17 DEF HandleChunk
    <2>5. QED
      BY <1>a, <1>b, <2>1, <2>2, <2>3, <2>4 DEF Loop
  <1>18. CASE HandleDatagram
    <2> DEFINE n == bytes_read + arrived[Head(done).id]
    <2>1. /\ Handled /\ HandlerDue /\ receives \in Nat /\ done' \in Seq(Results)
          /\ UNCHANGED <<channel, state, owner, runner, pending, on_init, network, buffer, ended>>
      BY <1>13, <1>18 DEF HandleDatagram, HandlerDue, Handled, TypeOK
    <2>2. n \in Nat
      <3>1. bytes_read \in Nat
        BY DEF TypeOK
      <3>2. arrived[Head(done).id] \in Nat
        BY <1>16, <2>1
      <3>3. QED
        BY <3>1, <3>2
    <2>3. \/ /\ delivered' = Append(delivered, Front(n)) /\ bytes_read' = 0
             /\ StartReceiver(1, receives) /\ bursts' = bursts
          \/ /\ delivered' = delivered /\ bytes_read' = n
             /\ StartReceiver(2, receives) /\ bursts' = bursts + 1
      BY <1>18 DEF HandleDatagram
    <2> HIDE DEF n
    <2>4. /\ receives' \in Nat /\ socket' \in {"null", "closed", "open"}
          /\ failure' \in {failure, "null_pointer"}
      BY <2>1, <2>3, StartReceiverEffect
    <2>5. delivered' \in Seq(Seq(0..MaxDatagrams))
      <3>1. Front(n) \in Seq(0..MaxDatagrams)
        BY <2>2, FrontType
      <3>2. delivered \in Seq(Seq(0..MaxDatagrams))
        BY DEF TypeOK
      <3>3. Append(delivered, Front(n)) \in Seq(Seq(0..MaxDatagrams))
        BY <3>1, <3>2, AppendProperties
      <3>4. delivered' \in {delivered, Append(delivered, Front(n))}
        BY <2>3
      <3>5. QED
        BY <3>2, <3>3, <3>4
    <2>6. bytes_read' \in Nat /\ bursts' \in Nat
      BY <1>b, <2>2, <2>3
    <2>7. QED
      <3>1. UNCHANGED <<protocol, start_receiver, state, owner, runner, pending, on_init, arrived,
                        inbox, buffer, ended>>
        BY <2>1
      <3>2. done' \in Seq(Results)
        BY <2>1
      <3>3. QED
        BY <1>a, <1>b, <2>4, <2>5, <2>6, <3>1, <3>2 DEF Loop
  <1>19. CASE HandleWithoutSocket
    BY <1>0, <1>13, <1>19 DEF HandleWithoutSocket, TypeOK
  <1>20. ASSUME Aborted, arrived' = arrived
         PROVE  /\ done' \in Seq(Results') /\ receives' \in Nat
                /\ inbox' \in Seq(DOMAIN arrived')
    BY <1>0, <1>20, AbortedType
  <1>21. CASE Close
    <2>1. CASE Aborted
      BY <1>20, <1>21, <2>1 DEF Close, TypeOK
    <2>2. CASE UNCHANGED <<receives, done, inbox>>
      BY <1>0, <1>21, <2>2 DEF Close, TypeOK
    <2>3. QED
      BY <1>21, <2>1, <2>2 DEF Close
  <1>22. CASE Reset
    <2>1. Aborted /\ arrived' = arrived
      BY <1>22 DEF Reset
    <2>2. QED
      BY <1>20, <1>22, <2>1 DEF Reset, TypeOK
  <1>23. QED
    BY <1>1, <1>2, <1>3, <1>4, <1>5, <1>6, <1>7, <1>8, <1>9, <1>10, <1>11, <1>12, <1>14, <1>15,
       <1>17, <1>18, <1>19, <1>21, <1>22 DEF Next, Handler

-----------------------------------------------------------------------------
(* The socket, and what a receiver has in progress *)

\* What a step of the receive loop, after its call of start_receiver, keeps.
LEMMA LoopSocket ==
  ASSUME TypeOK, SocketInv, Handled, NEW n \in Nat, StartReceiver(n, receives),
         UNCHANGED <<channel, state, owner, pending, on_init>>
  PROVE  SocketInv' /\ (Running => receives' = receives + n)
  <1>1. /\ protocol \in {"tcp", "udp"} /\ receives \in Nat /\ failure = "none"
        /\ start_receiver /\ on_init # "before"
    BY RawAssumption DEF RawAssumption, TypeOK, Handled, CanHandle, Alive, SocketInv
  <1>2. /\ socket = "null" => socket' = "null"
        /\ socket # "null" => failure' = failure
        /\ socket = "open" => socket' = "open"
        /\ socket = "open" /\ (protocol = "tcp" => "connected" \in state) =>
              receives' = receives + n
    BY <1>1, StartReceiverEffect
  <1>3. UNCHANGED <<protocol, start_receiver, state, owner, pending, on_init>>
    BY DEF channel
  <1>4. Running' = Running
    BY <1>3 DEF Running
  <1>5. Running => socket = "open" /\ (protocol = "tcp" => "connected" \in state)
    BY <1>1 DEF SocketInv
  <1>6. Running => socket' = "open" /\ failure' = "none" /\ receives' = receives + n
    BY <1>1, <1>2, <1>5
  <1>7. SocketInv'
    BY <1>1, <1>3, <1>4, <1>6 DEF SocketInv, SocketThereWhenUsed
  <1>8. QED
    BY <1>6, <1>7

LEMMA SocketStep ==
  ASSUME TypeOK, SocketInv, [Next]_vars
  PROVE  SocketInv'
  <1> USE RawAssumption DEF RawAssumption, channel, network, reading, Alive, CanHandle, Running,
          SocketThereWhenUsed
  <1>0. protocol \in {"tcp", "udp"} /\ receives \in Nat
    BY DEF TypeOK
  <1>1. CASE UNCHANGED vars
    BY <1>1 DEF vars, SocketInv
  <1>2. CASE RunnerStarts
    BY <1>0, <1>2 DEF RunnerStarts, SocketInv
  <1>3. CASE Stop
    BY <1>0, <1>3 DEF Stop, SocketInv
  <1>4. CASE InitReturns
    BY <1>0, <1>4 DEF InitReturns, SocketInv
  <1>5. CASE Refused
    BY <1>0, <1>5 DEF Refused, SocketInv
  <1>6. CASE Resolved
    BY <1>0, <1>6 DEF Resolved, SocketInv
  <1>7. CASE Connected
    BY <1>0, <1>7 DEF Connected, SocketInv
  <1>8. CASE OnInit
    BY <1>0, <1>8 DEF OnInit, SocketInv
  <1>9. CASE Send
    BY <1>0, <1>9 DEF Send, SocketInv
  <1>10. CASE \E size \in Sizes : Arrive(size)
    BY <1>10 DEF Arrive, SocketInv
  <1>11. CASE Fill
    BY <1>0, <1>11 DEF Fill, SocketInv
  <1>12. CASE \E kind \in {"error", "eof"} : ReadFails(kind)
    BY <1>0, <1>12 DEF ReadFails, SocketInv
  <1>13. CASE HandleEnd
    BY <1>13 DEF HandleEnd, Handled, SocketInv
  <1>14. CASE HandleError
    BY <1>14, LoopSocket DEF HandleError
  <1>15. CASE HandleChunk
    BY <1>15, LoopSocket DEF HandleChunk
  <1>16. CASE HandleDatagram
    BY <1>16, LoopSocket DEF HandleDatagram
  <1>17. CASE HandleWithoutSocket
    BY <1>17 DEF HandleWithoutSocket, Handled, SocketInv
  <1>18. CASE Close
    <2>1. /\ owner' \in {"closed", "torn"} /\ failure = "none"
          /\ UNCHANGED <<protocol, start_receiver, state, on_init, pending>>
          /\ failure' # "none" => protocol = "udp"
      BY <1>18 DEF Close
    <2>2. receives' > 0 \/ done' # <<>> => start_receiver /\ on_init # "before"
      <3>1. CASE Aborted
        <4>1. receives' = 0 /\ Len(done') = Len(done) + receives /\ done' \in Seq(Results)
          BY <3>1, AbortedType
        <4>2. done' # <<>> => done # <<>> \/ receives > 0
          BY <1>0, <4>1
        <4>3. QED
          BY <4>1, <4>2 DEF SocketInv
      <3>2. CASE UNCHANGED <<receives, done, inbox>>
        BY <3>2 DEF SocketInv
      <3>3. QED
        BY <1>18, <3>1, <3>2 DEF Close
    <2>3. QED
      BY <2>1, <2>2 DEF SocketInv
  <1>19. CASE Reset
    <2>1. receives' = 0 /\ Len(done') = Len(done) + receives /\ done' \in Seq(Results)
      BY <1>19, AbortedType DEF Reset
    <2>2. done' # <<>> => done # <<>> \/ receives > 0
      BY <1>0, <2>1
    <2>3. QED
      BY <1>19, <2>1, <2>2 DEF Reset, SocketInv
  <1>20. QED
    BY <1>1, <1>2, <1>3, <1>4, <1>5, <1>6, <1>7, <1>8, <1>9, <1>10, <1>11, <1>12, <1>13,
       <1>14, <1>15, <1>16, <1>17, <1>18, <1>19 DEF Next, Handler

\* A step of the receive loop takes one result and starts n receives.
LEMMA LoopAccounted ==
  ASSUME TypeOK, SocketInv, AccountedInv, Handled, NEW n \in {1, 2}, StartReceiver(n, receives),
         bursts' = bursts + n - 1,
         UNCHANGED <<channel, state, owner, pending, on_init, ended>>
  PROVE  AccountedInv'
  <1>1. Running' = Running /\ start_receiver' = start_receiver
    BY DEF Running, channel
  <1>2. Running => receives' = receives + n
    BY LoopSocket
  <1>3. Len(done') = Len(done) - 1 /\ Len(done) \in Nat
    BY HeadTailProperties DEF Handled, TypeOK
  <1>4. receives \in Nat /\ bursts \in Nat
    BY DEF TypeOK
  <1>5. QED
    BY <1>1, <1>2, <1>3, <1>4 DEF AccountedInv, ReceivesAccountedFor, SocketInv, Handled

LEMMA AccountedStep ==
  ASSUME TypeOK, SocketInv, AccountedInv, [Next]_vars
  PROVE  AccountedInv'
  <1> USE DEF AccountedInv, ReceivesAccountedFor, channel, network, reading, Running
  <1>0. /\ protocol \in {"tcp", "udp"} /\ receives \in Nat /\ bursts \in Nat
        /\ Len(done) \in Nat
        /\ on_init = "before" => receives = 0 /\ done = <<>> /\ Len(done) = 0
    BY RawAssumption DEF RawAssumption, TypeOK, SocketInv
  <1>1. CASE UNCHANGED vars
    BY <1>1 DEF vars
  <1>2. CASE RunnerStarts
    BY <1>2 DEF RunnerStarts
  <1>3. CASE Stop
    BY <1>3 DEF Stop
  <1>4. CASE InitReturns
    BY <1>4 DEF InitReturns
  <1>5. CASE Refused
    BY <1>5 DEF Refused
  <1>6. CASE Send
    BY <1>6 DEF Send
  <1>7. CASE OnInit
    BY <1>7 DEF OnInit
  <1>8. CASE Resolved
    BY <1>0, <1>8 DEF Resolved, SocketInv
  <1>9. CASE Connected
    BY <1>0, <1>9 DEF Connected, SocketInv
  <1>10. CASE \E size \in Sizes : Arrive(size)
    BY <1>10 DEF Arrive
  <1>11. ASSUME NEW result, done' = Append(done, result), receives > 0, receives' = receives - 1,
               UNCHANGED <<start_receiver, owner, on_init, bursts, ended>>
        PROVE  AccountedInv'
    <2>1. Len(done') = Len(done) + 1
      BY <1>11 DEF TypeOK
    <2>2. QED
      BY <1>0, <1>11, <2>1
  <1>12. CASE Fill
    BY <1>11, <1>12 DEF Fill
  <1>13. CASE \E kind \in {"error", "eof"} : ReadFails(kind)
    BY <1>11, <1>13 DEF ReadFails
  <1>14. CASE HandleEnd
    <2>1. Len(done') = Len(done) - 1
      BY <1>14, HeadTailProperties DEF HandleEnd, Handled, TypeOK
    <2>2. QED
      BY <1>0, <1>14, <2>1 DEF HandleEnd
  <1>15. CASE HandleError
    BY <1>0, <1>15, LoopAccounted DEF HandleError
  <1>16. CASE HandleChunk
    BY <1>0, <1>16, LoopAccounted DEF HandleChunk
  <1>17. CASE HandleDatagram
    <2>1. CASE StartReceiver(1, receives) /\ bursts' = bursts
      BY <1>0, <1>17, <2>1, LoopAccounted DEF HandleDatagram
    <2>2. CASE StartReceiver(2, receives) /\ bursts' = bursts + 1
      BY <1>0, <1>17, <2>2, LoopAccounted DEF HandleDatagram
    <2>3. QED
      BY <1>17, <2>1, <2>2 DEF HandleDatagram
  <1>18. CASE HandleWithoutSocket
    <2>1. ~Running
      BY <1>0, <1>18 DEF HandleWithoutSocket, Handled, SocketInv
    <2>2. QED
      BY <1>18, <2>1 DEF HandleWithoutSocket
  <1>19. CASE Close
    BY <1>19 DEF Close
  <1>20. CASE Reset
    BY <1>20 DEF Reset
  <1>21. QED
    BY <1>1, <1>2, <1>3, <1>4, <1>5, <1>6, <1>7, <1>8, <1>9, <1>10, <1>12, <1>13, <1>14,
       <1>15, <1>16, <1>17, <1>18, <1>19, <1>20 DEF Next, Handler

-----------------------------------------------------------------------------
(* The order of the datagrams *)

\* Before the first burst there is one receive, in progress or with its handler
\* due.
LEMMA OneReceive ==
  ASSUME TypeOK, AccountedInv, Quiet
  PROVE  /\ receives > 0 => done = <<>>
         /\ done # <<>> => Len(done) = 1 /\ receives = 0 /\ Tail(done) = <<>>
  <1>1. receives \in Nat /\ done \in Seq(Results) /\ Len(done) \in Nat
    BY DEF TypeOK
  <1>2. receives + Len(done) <= 1
    BY <1>1 DEF AccountedInv, Quiet
  <1>3. done # <<>> => Len(done) >= 1
    BY <1>1
  <1>4. ASSUME done # <<>>, Len(done) = 1
        PROVE  Tail(done) = <<>>
    <2>1. Tail(done) \in Seq(Results) /\ Len(Tail(done)) = 0
      BY <1>1, <1>4, HeadTailProperties
    <2>2. QED
      BY <2>1, EmptySeq
  <1>5. receives > 0 => done = <<>>
    BY <1>1, <1>2, <1>3
  <1>6. Len(done) >= 1 => Len(done) = 1 /\ receives = 0
    <2>1. receives \in Nat /\ Len(done) \in Nat
      BY <1>1
    <2>2. \A m, n \in Nat : m + n <= 1 /\ n >= 1 => n = 1 /\ m = 0
      OBVIOUS
    <2>3. QED
      BY <1>2, <2>1, <2>2, Zenon
  <1>7. QED
    BY <1>3, <1>4, <1>5, <1>6, Zenon

LEMMA OrderStep ==
  ASSUME TypeOK, SocketInv, AccountedInv, OrderInv, [Next]_vars
  PROVE  OrderInv'
  <1> USE DEF channel, network, reading
  <1>0. /\ Len(inbox) \in Nat /\ Len(arrived) \in Nat /\ bursts \in Nat
        /\ DOMAIN inbox = 1..Len(inbox) /\ DOMAIN arrived = 1..Len(arrived)
    BY DEF TypeOK
  <1>1. Quiet' /\ UNCHANGED <<owner, bursts>> => Quiet
    BY DEF Quiet, Running
  <1>2. ASSUME UNCHANGED <<owner, done, arrived, inbox, buffer, bytes_read, delivered, bursts>>
        PROVE  OrderInv'
    BY <1>2 DEF OrderInv, Quiet, Running, Taken, HandlerDue
  <1>3. ASSUME UNCHANGED <<arrived, inbox>>, ~Quiet'
        PROVE  OrderInv'
    BY <1>3 DEF OrderInv, Taken
  <1>4. ASSUME inbox' = <<>>, UNCHANGED arrived, ~Quiet'
        PROVE  OrderInv'
    <2>1. Len(inbox') = 0 /\ DOMAIN inbox' = {}
      BY <1>4
    <2>2. QED
      BY <1>0, <1>4, <2>1 DEF OrderInv
  <1>5. CASE UNCHANGED vars
    BY <1>2, <1>5 DEF vars
  <1>6. CASE RunnerStarts
    BY <1>2, <1>6 DEF RunnerStarts
  <1>7. CASE Refused
    BY <1>2, <1>7 DEF Refused
  <1>8. CASE Resolved
    BY <1>2, <1>8 DEF Resolved
  <1>9. CASE Connected
    BY <1>2, <1>9 DEF Connected
  <1>10. CASE OnInit
    BY <1>2, <1>10 DEF OnInit
  <1>11. CASE Send
    BY <1>2, <1>11 DEF Send
  <1>12. CASE Stop
    BY <1>3, <1>12 DEF Stop, Quiet, Running
  <1>13. CASE InitReturns
    BY <1>13 DEF InitReturns, OrderInv, Quiet, Running, Taken, HandlerDue
  <1>14. ASSUME NEW size \in Sizes, Arrive(size)
        PROVE  OrderInv'
    <2>1. /\ arrived' = Append(arrived, size) /\ inbox' = Append(inbox, Len(arrived) + 1)
          /\ UNCHANGED <<owner, done, buffer, bytes_read, delivered, bursts>>
      BY <1>14 DEF Arrive
    <2>2. /\ Len(arrived') = Len(arrived) + 1 /\ Len(inbox') = Len(inbox) + 1
          /\ \A n \in 1..Len(arrived) : arrived'[n] = arrived[n]
          /\ \A n \in 1..Len(inbox) : inbox'[n] = inbox[n]
          /\ inbox'[Len(inbox) + 1] = Len(arrived) + 1
          /\ DOMAIN inbox' = 1..(Len(inbox) + 1)
      BY <2>1, AppendProperties DEF TypeOK
    <2>3. Taken' = Taken /\ Taken \in Nat /\ Taken + Len(inbox) = Len(arrived)
      <3>1. Len(arrived') = Len(arrived) + 1 /\ Len(inbox') = Len(inbox) + 1
        BY <2>2
      <3>2. Len(inbox) <= Len(arrived)
        BY DEF OrderInv
      <3>3. QED
        BY <1>0, <3>1, <3>2 DEF Taken
    <2>4. \A i \in DOMAIN inbox' : inbox'[i] = Taken' + i
      BY <1>0, <2>2, <2>3 DEF OrderInv
    <2>5. HandlerDue' = HandlerDue /\ Quiet' = Quiet
      BY <2>1 DEF HandlerDue, Quiet, Running
    <2>6. Quiet /\ HandlerDue => arrived'[Taken] = arrived[Taken]
      BY <1>0, <2>2, <2>3 DEF OrderInv, TypeOK
    <2>7. QED
      BY <1>0, <2>1, <2>2, <2>3, <2>4, <2>5, <2>6 DEF OrderInv
  <1>15. CASE Fill
    <2>1. /\ receives > 0 /\ inbox # <<>> /\ inbox' = Tail(inbox)
          /\ done' = Append(done, Data(Head(inbox)))
          /\ buffer' = [j \in 1..BufferSize |->
                          IF j <= arrived[Head(inbox)] THEN Head(inbox) ELSE buffer[j]]
          /\ UNCHANGED <<owner, arrived, bytes_read, delivered, bursts>>
      BY <1>15 DEF Fill
    <2>2. /\ Len(inbox') = Len(inbox) - 1 /\ Len(inbox) > 0
          /\ \A n \in 1..Len(inbox') : inbox'[n] = inbox[n + 1]
          /\ DOMAIN inbox' = 1..Len(inbox')
          /\ Head(inbox) = inbox[1]
      BY <2>1, HeadTailProperties DEF TypeOK
    <2>3. Taken' = Taken + 1 /\ Taken \in Nat
      <3>1. Len(arrived') = Len(arrived) /\ Len(inbox') = Len(inbox) - 1
        BY <2>1, <2>2
      <3>2. Len(inbox) <= Len(arrived)
        BY DEF OrderInv
      <3>3. QED
        BY <1>0, <3>1, <3>2 DEF Taken
    <2>4. \A n \in DOMAIN inbox' : inbox'[n] = Taken' + n
      <3>1. \A n \in 1..Len(inbox) : inbox[n] = Taken + n
        BY <1>0 DEF OrderInv
      <3>2. ASSUME NEW n \in 1..(Len(inbox) - 1)
            PROVE  inbox'[n] = Taken' + n
        <4>1. n + 1 \in 1..Len(inbox) /\ inbox'[n] = inbox[n + 1] /\ n \in Nat
          BY <1>0, <2>2
        <4>2. inbox[n + 1] = Taken + (n + 1)
          BY <3>1, <4>1
        <4>3. QED
          BY <2>3, <4>1, <4>2
      <3>3. QED
        BY <2>2, <3>2
    <2>5. Head(inbox) = Taken' /\ Taken' \in DOMAIN arrived
      <3>1. inbox[1] = Taken + 1
        <4>1. 1 \in DOMAIN inbox
          BY <1>0, <2>2
        <4>2. QED
          BY <4>1 DEF OrderInv
      <3>2. Taken + 1 \in 1..Len(arrived)
        BY <1>0, <2>2, <2>3 DEF Taken
      <3>3. QED
        BY <1>0, <2>2, <2>3, <3>1, <3>2
    <2>6. CASE Quiet
      <3>1. done = <<>> /\ ~HandlerDue
        BY <2>1, <2>6, OneReceive DEF HandlerDue
      <3>2. done' = <<Data(Taken')>>
        BY <2>1, <2>5, <3>1
      <3>3. HandlerDue' /\ Head(done').id = Taken'
        BY <3>2 DEF HandlerDue, Data
      <3>4. arrived[Taken'] \in Nat /\ arrived[Taken'] <= BufferSize
        BY <2>5, SizeType
      <3>5. \A j \in 1..arrived[Taken'] : buffer'[j] = Taken'
        BY <2>1, <2>5, <3>4, RawAssumption DEF RawAssumption
      <3>6. Taken' = Len(delivered) + 1 /\ bytes_read = 0
        BY <2>3, <2>6, <3>1 DEF OrderInv
      <3>7. Len(inbox') <= Len(arrived')
        BY <1>0, <2>1, <2>2 DEF OrderInv
      <3>8. Taken' = Len(delivered') + 1 /\ bytes_read' = 0 /\ arrived' = arrived
        BY <2>1, <3>6
      <3>9. QED
        BY <2>4, <3>3, <3>5, <3>7, <3>8 DEF OrderInv
    <2>7. CASE ~Quiet
      <3>1. ~Quiet'
        BY <1>1, <2>1, <2>7
      <3>2. QED
        BY <1>0, <2>1, <2>2, <2>4, <3>1 DEF OrderInv
    <2>8. QED
      BY <2>6, <2>7
  <1>16. ASSUME UNCHANGED <<owner, arrived, inbox, bytes_read, delivered, bursts>>,
               Quiet => ~HandlerDue /\ ~HandlerDue'
        PROVE  OrderInv'
    BY <1>1, <1>16 DEF OrderInv, Taken
  <1>17. CASE \E kind \in {"error", "eof"} : ReadFails(kind)
    <2>1. PICK kind \in {"error", "eof"} : ReadFails(kind)
      BY <1>17
    <2>2. ASSUME Quiet
          PROVE  ~HandlerDue /\ ~HandlerDue'
      <3>1. done = <<>> /\ done' = <<Result(kind)>>
        BY <2>1, <2>2, OneReceive DEF ReadFails
      <3>2. QED
        BY <3>1 DEF HandlerDue, Result
    <2>3. QED
      BY <1>16, <2>1, <2>2 DEF ReadFails
  <1>18. CASE HandleEnd \/ HandleError
    <2>1. ASSUME Quiet
          PROVE  ~HandlerDue /\ ~HandlerDue'
      <3>1. Tail(done) = <<>> /\ done' = Tail(done) /\ Head(done).kind # "data"
        BY <1>18, <2>1, OneReceive DEF HandleEnd, HandleError, Handled
      <3>2. QED
        BY <3>1 DEF HandlerDue
    <2>2. QED
      BY <1>16, <1>18, <2>1 DEF HandleEnd, HandleError
  <1>19. ASSUME NEW bytes, Handled, HandlerDue, delivered' = Append(delivered, bytes), bytes_read' = 0,
               UNCHANGED <<owner, arrived, inbox, bursts>>
        PROVE  OrderInv'
    <2>1. ASSUME Quiet
          PROVE  ~HandlerDue' /\ Len(delivered') = Taken
      <3>1. done' = <<>>
        BY <1>19, <2>1, OneReceive DEF Handled
      <3>2. Len(delivered') = Len(delivered) + 1
        BY <1>19 DEF TypeOK
      <3>3. QED
        BY <1>19, <2>1, <3>1, <3>2 DEF OrderInv, HandlerDue
    <2>2. QED
      BY <1>1, <1>19, <2>1 DEF OrderInv, Taken
  <1>20. CASE HandleChunk
    BY <1>19, <1>20 DEF HandleChunk, HandlerDue, Handled
  <1>21. CASE HandleDatagram
    <2>1. CASE bursts' = bursts + 1
      BY <1>0, <1>3, <1>21, <2>1 DEF HandleDatagram, Quiet
    <2>2. CASE bursts' = bursts
      <3>1. PICK bytes : delivered' = Append(delivered, bytes) /\ bytes_read' = 0
        BY <1>0, <1>21, <2>2 DEF HandleDatagram
      <3>2. Handled /\ HandlerDue /\ UNCHANGED <<owner, arrived, inbox>>
        BY <1>21 DEF HandleDatagram, HandlerDue, Handled
      <3>3. QED
        BY <1>19, <2>2, <3>1, <3>2
    <2>3. QED
      BY <1>21, <2>1, <2>2 DEF HandleDatagram
  <1>22. CASE HandleWithoutSocket
    <2>1. ~Running
      BY <1>22 DEF HandleWithoutSocket, Handled, SocketInv
    <2>2. QED
      BY <1>3, <1>22, <2>1 DEF HandleWithoutSocket, Quiet, Running
  <1>23. CASE Close
    BY <1>3, <1>4, <1>23 DEF Close, Aborted, Quiet, Running
  <1>24. CASE Reset
    BY <1>4, <1>24 DEF Reset, Aborted, Quiet, Running
  <1>25. QED
    BY <1>5, <1>6, <1>7, <1>8, <1>9, <1>10, <1>11, <1>12, <1>13, <1>14, <1>15, <1>17,
       <1>18, <1>20, <1>21, <1>22, <1>23, <1>24 DEF Next, Handler

-----------------------------------------------------------------------------
(* The promise of the stream *)

Accepted == [n \in DOMAIN arrived |-> Datagram(n)]
Broken == bursts > 0 \/ ~Running

LEMMA ListsAreSequences ==
  \A S : \A m \in Nat : \A f \in [1..m -> S] : f \in Seq(S)
  BY SeqDef, Zenon

AcceptedOK ==
  /\ Accepted \in Seq(Seq(Nat)) /\ Len(Accepted) = Len(arrived)
  /\ \A n \in 1..Len(arrived) : Accepted[n] = Datagram(n)
  /\ DOMAIN Accepted = 1..Len(arrived)

LEMMA AcceptedType == TypeOK => AcceptedOK
  <1> SUFFICES ASSUME TypeOK PROVE AcceptedOK
    OBVIOUS
  <1>1. DOMAIN arrived = 1..Len(arrived) /\ Len(arrived) \in Nat
    BY DEF TypeOK
  <1>2. ASSUME NEW n \in 1..Len(arrived)
        PROVE  Datagram(n) \in Seq(Nat)
    <2>1. arrived[n] \in Nat /\ n \in Nat
      BY <1>1, SizeType
    <2>2. Datagram(n) \in [1..arrived[n] -> Nat]
      BY <2>1 DEF Datagram
    <2>3. QED
      BY <2>1, <2>2, ListsAreSequences, Zenon
  <1>3. Accepted \in [1..Len(arrived) -> Seq(Nat)]
    BY <1>1, <1>2 DEF Accepted
  <1>4. Accepted \in Seq(Seq(Nat))
    BY <1>1, <1>3, ListsAreSequences, Zenon
  <1>5. DOMAIN Accepted = 1..Len(arrived)
    BY <1>1 DEF Accepted
  <1>6. Len(Accepted) = Len(arrived)
    <2>1. Len(Accepted) \in Nat /\ DOMAIN Accepted = 1..Len(Accepted)
      BY <1>4, LenProperties
    <2>2. \A m, n \in Nat : 1..m = 1..n => m = n
      OBVIOUS
    <2>3. QED
      BY <1>1, <1>5, <2>1, <2>2, Zenon
  <1>7. \A n \in 1..Len(arrived) : Accepted[n] = Datagram(n)
    BY <1>1 DEF Accepted
  <1>8. QED
    BY <1>4, <1>5, <1>6, <1>7 DEF AcceptedOK

\* What has arrived stays as it was.
LEMMA ArriveExtends ==
  ASSUME TypeOK, TypeOK', NEW size \in Sizes, Arrive(size)
  PROVE  Promise!Extends(Accepted, Accepted')
  <1>1. /\ Len(arrived) \in Nat /\ Len(arrived') = Len(arrived) + 1
        /\ \A n \in 1..Len(arrived) : arrived'[n] = arrived[n]
    BY AppendProperties DEF Arrive, TypeOK
  <1>2. /\ Accepted' \in Seq(Seq(Nat)) /\ Len(Accepted') = Len(arrived')
        /\ \A n \in 1..Len(arrived') : Accepted'[n] = Datagram(n)'
    <2>1. AcceptedOK'
      BY AcceptedType, PTL
    <2>2. QED
      BY <2>1 DEF AcceptedOK
  <1>3. ASSUME NEW n \in 1..Len(arrived)
        PROVE  Accepted'[n] = Accepted[n]
    <2>1. n \in 1..Len(arrived') /\ arrived'[n] = arrived[n]
      BY <1>1
    <2>2. Accepted'[n] = Datagram(n)' /\ Accepted[n] = Datagram(n)
      BY <1>2, <2>1, AcceptedType DEF AcceptedOK
    <2>3. QED
      BY <2>1, <2>2 DEF Datagram
  <1> DEFINE kept == SubSeq(Accepted', 1, Len(Accepted))
  <1>4. /\ kept \in Seq(Seq(Nat)) /\ Len(kept) = Len(Accepted)
        /\ \A n \in 1..Len(Accepted) : kept[n] = Accepted'[n]
    <2>1. \A n \in 1..Len(Accepted) : Accepted'[n] \in Seq(Nat)
      <3>1. Len(Accepted) = Len(arrived)
        BY AcceptedType DEF AcceptedOK
      <3>2. ASSUME NEW n \in 1..Len(arrived)
            PROVE  Accepted'[n] \in Seq(Nat)
        BY <1>3, AcceptedType, ElementOfSeq DEF AcceptedOK
      <3>3. QED
        BY <3>1, <3>2
    <2>2. Len(Accepted) \in Nat
      BY <1>1, AcceptedType DEF AcceptedOK
    <2>3. QED
      BY <2>1, <2>2, SubSeqProperties
  <1> HIDE DEF kept
  <1>5. kept = Accepted
    BY <1>1, <1>3, <1>4, AcceptedType, SeqEqual DEF AcceptedOK
  <1>6. QED
    BY <1>1, <1>2, <1>5, AcceptedType DEF AcceptedOK, kept, Promise!Extends

LEMMA ReadType ==
  ASSUME TypeOK, HandlerDue
  PROVE  arrived[Head(done).id] \in Nat
  <1>1. Head(done) \in Results /\ Head(done).kind = "data"
    BY HeadTailProperties DEF TypeOK, HandlerDue
  <1>2. Head(done).id \in DOMAIN arrived
    BY <1>1 DEF Results, Data, Result
  <1>3. QED
    BY <1>2, SizeType

\* What a handler hands on before the first burst is the next whole datagram.
LEMMA NextDatagram ==
  ASSUME TypeOK, OrderInv, Quiet, HandlerDue
  PROVE  /\ Len(delivered) < Len(arrived)
         /\ Front(arrived[Head(done).id]) = Accepted[Len(delivered) + 1]
         /\ bytes_read = 0 /\ arrived[Head(done).id] \in Nat
  <1>1. /\ bytes_read = 0 /\ Taken = Len(delivered) + 1 /\ Head(done).id = Taken
        /\ \A k \in 1..arrived[Taken] : buffer[k] = Taken
    BY DEF OrderInv
  <1>2. Taken \in 1..Len(arrived) /\ Len(delivered) < Len(arrived)
    <2>1. Len(arrived) \in Nat /\ Len(inbox) \in Nat /\ Len(delivered) \in Nat
      BY DEF TypeOK
    <2>2. Taken <= Len(arrived)
      BY <2>1 DEF Taken
    <2>3. QED
      BY <1>1, <2>1, <2>2
  <1>3. arrived[Taken] \in Nat /\ arrived[Taken] <= BufferSize
    <2>1. Taken \in DOMAIN arrived
      BY <1>2 DEF TypeOK
    <2>2. QED
      BY <2>1, SizeType
  <1>4. Front(arrived[Taken]) = Datagram(Taken)
    <2>1. \A k \in 1..arrived[Taken] : k <= BufferSize
      BY <1>3, RawAssumption DEF RawAssumption
    <2>2. QED
      BY <1>1, <2>1 DEF Front, Datagram
  <1>5. QED
    BY <1>1, <1>2, <1>3, <1>4, AcceptedType DEF AcceptedOK

\* Each step is a step of the promised stream, or none.
LEMMA StreamStep ==
  ASSUME TypeOK, TypeOK', SocketInv, AccountedInv, OrderInv, [Next]_vars
  PROVE  [Promise!Next]_(Promise!vars)
  <1> USE DEF channel, network, reading
  <1>1. ASSUME UNCHANGED <<arrived, delivered, bursts>>, Running' = Running
        PROVE  UNCHANGED Promise!vars
    BY <1>1 DEF Promise!vars, Datagram
  <1>2. ASSUME UNCHANGED <<arrived, delivered>>, Broken'
        PROVE  Promise!Next
    BY <1>2 DEF Promise!Next, Promise!Break, Datagram, Broken
  <1>3. ASSUME NEW n \in Nat, HandlerDue, delivered' = Append(delivered, Front(n)),
               Quiet => n = arrived[Head(done).id], UNCHANGED <<arrived, owner, bursts>>
        PROVE  Promise!Next
    <2>1. UNCHANGED <<Accepted, Broken>>
      BY <1>3 DEF Accepted, Broken, Datagram, Running
    <2>2. CASE Quiet
      <3>1. /\ Len(delivered) < Len(Accepted)
            /\ delivered' = Append(delivered, Accepted[Len(delivered) + 1])
        BY <1>3, <2>2, NextDatagram, AcceptedType DEF AcceptedOK
      <3>2. QED
        BY <2>1, <3>1 DEF Promise!Next, Promise!Deliver, Accepted, Broken
    <2>3. CASE ~Quiet
      <3>1. Broken
        BY <2>3 DEF Quiet, Broken, TypeOK
      <3>2. Promise!Extends(delivered, delivered')
        <4>1. delivered \in Seq(Seq(0..MaxDatagrams)) /\ Front(n) \in Seq(0..MaxDatagrams)
          BY FrontType DEF TypeOK
        <4>2. /\ delivered' \in Seq(Seq(0..MaxDatagrams)) /\ Len(delivered') = Len(delivered) + 1
              /\ \A i \in 1..Len(delivered) : delivered'[i] = delivered[i]
          BY <1>3, <4>1, AppendProperties
        <4>3. SubSeq(Append(delivered, Front(n)), 1, Len(delivered)) = delivered
          BY <4>1, HeadTailAppend, SubSeqOfConcat1, AppendIsConcat, SubSeqFull
        <4>4. QED
          BY <1>3, <4>2, <4>3 DEF Promise!Extends
      <3>3. QED
        BY <2>1, <3>1, <3>2 DEF Promise!Next, Promise!Garble, Accepted, Broken
    <2>4. QED
      BY <2>2, <2>3
  <1>4. CASE UNCHANGED vars
    BY <1>1, <1>4 DEF vars, Running
  <1>5. CASE RunnerStarts \/ Stop \/ InitReturns \/ Reset
    BY <1>1, <1>5 DEF RunnerStarts, Stop, InitReturns, Reset, Running
  <1>6. CASE Refused \/ Resolved \/ Connected \/ OnInit \/ Send
    BY <1>1, <1>6 DEF Refused, Resolved, Connected, OnInit, Send, Running
  <1>7. CASE HandleEnd \/ HandleError \/ HandleWithoutSocket
    BY <1>1, <1>7 DEF HandleEnd, HandleError, HandleWithoutSocket, Running
  <1>8. CASE Fill \/ \E kind \in {"error", "eof"} : ReadFails(kind)
    BY <1>1, <1>8 DEF Fill, ReadFails, Running
  <1>9. CASE Close
    BY <1>2, <1>9 DEF Close, Running, Broken
  <1>10. ASSUME NEW size \in Sizes, Arrive(size)
         PROVE  Promise!Next
    <2>1. Promise!Extends(Accepted, Accepted')
      BY <1>10, ArriveExtends
    <2>2. UNCHANGED <<delivered, Broken>>
      BY <1>10 DEF Arrive, Broken, Running
    <2>3. QED
      BY <2>1, <2>2 DEF Promise!Next, Promise!Accept, Accepted, Broken
  <1>11. CASE HandleChunk
    <2>1. HandlerDue
      BY <1>11 DEF HandleChunk, Handled, HandlerDue
    <2>2. arrived[Head(done).id] \in Nat
      BY <2>1, ReadType
    <2>3. QED
      BY <1>3, <1>11, <2>1, <2>2 DEF HandleChunk
  <1>12. CASE HandleDatagram
    <2> DEFINE n == bytes_read + arrived[Head(done).id]
    <2>1. HandlerDue
      BY <1>12 DEF HandleDatagram, Handled, HandlerDue
    <2>2. n \in Nat
      <3>1. bytes_read \in Nat /\ arrived[Head(done).id] \in Nat
        BY <2>1, ReadType DEF TypeOK
      <3>2. QED
        BY <3>1
    <2>3. Quiet => n = arrived[Head(done).id]
      BY <2>1, NextDatagram
    <2>4. CASE delivered' = Append(delivered, Front(n)) /\ bursts' = bursts
      <3> HIDE DEF n
      <3>1. UNCHANGED <<arrived, owner>>
        BY <1>12 DEF HandleDatagram
      <3>2. QED
        BY <1>3, <2>1, <2>2, <2>3, <2>4, <3>1
    <2>5. CASE delivered' = delivered /\ bursts' = bursts + 1
      <3>1. Broken' /\ UNCHANGED arrived
        BY <1>12, <2>5 DEF HandleDatagram, Broken, TypeOK
      <3>2. QED
        BY <1>2, <2>5, <3>1
    <2>6. QED
      BY <1>12, <2>4, <2>5 DEF HandleDatagram
  <1>13. QED
    BY <1>4, <1>5, <1>6, <1>7, <1>8, <1>9, <1>10, <1>11, <1>12 DEF Next, Handler

-----------------------------------------------------------------------------
(* The theorems *)

Inv == TypeOK /\ SocketInv /\ AccountedInv

LEMMA Initially == Init => Inv
  <1> SUFFICES ASSUME Init PROVE Inv
    OBVIOUS
  <1> USE DEF Init, ManagersReady, Created, Descriptor, Added
  <1>1. TypeOK
    <2>1. BufferSize \in Nat /\ MaxDatagrams \in Nat /\ 0 \in 0..MaxDatagrams
      BY RawAssumption DEF RawAssumption
    <2>2. buffer \in [1..BufferSize -> 0..MaxDatagrams]
      BY <2>1
    <2>3. done \in Seq(Results) /\ arrived \in Seq(Sizes) /\ Len(arrived) <= MaxDatagrams
      BY <2>1
    <2>4. inbox \in Seq(DOMAIN arrived) /\ delivered \in Seq(Seq(0..MaxDatagrams))
      OBVIOUS
    <2>5. QED
      BY <2>2, <2>3, <2>4 DEF TypeOK
  <1>2. SocketInv
    BY DEF SocketInv, SocketThereWhenUsed
  <1>3. AccountedInv
    BY DEF AccountedInv, ReceivesAccountedFor
  <1>4. QED
    BY <1>1, <1>2, <1>3 DEF Inv

LEMMA Invariance == Spec => []Inv
  <1>1. Inv /\ [Next]_vars => Inv'
    BY TypeStep, SocketStep, AccountedStep DEF Inv
  <1>2. QED
    BY <1>1, Initially, PTL DEF Spec

\* Every variable of a channel keeps its type, for every size of the buffer and
\* any number of datagrams.
THEOREM TypeCorrect == Spec => []TypeOK
  BY Invariance, PTL DEF Inv

\* The socket is there whenever init's handlers, the receive loop and send_data
\* use it, until the client ends.
THEOREM SocketStaysWhileRunning == Spec => []SocketThereWhenUsed
  <1>1. Inv => SocketThereWhenUsed
    BY DEF Inv, SocketInv
  <1>2. QED
    BY <1>1, Invariance, PTL

\* A receiver never stops listening before the end of the file, and each burst
\* adds exactly one receive.
THEOREM ReceiverKeepsListening == Spec => []ReceivesAccountedFor
  <1>1. Inv => ReceivesAccountedFor
    BY DEF Inv, AccountedInv
  <1>2. QED
    BY <1>1, Invariance, PTL

\* Until the first burst and while the client runs, what the receiver is handed is
\* what the network delivered: each datagram whole, once, in order, and with
\* nothing left over from the reads before.
THEOREM ImplementsStream == Spec => ReceiveSpec
  <1>1. Init => OrderInv /\ Promise!Init
    <2>1. ASSUME Init PROVE OrderInv
      BY <2>1 DEF Init, ManagersReady, Created, Descriptor, Added, OrderInv, Taken, HandlerDue
    <2>2. ASSUME Init PROVE Promise!Init
      BY <2>2 DEF Init, Added, Promise!Init, Running
    <2>3. QED
      BY <2>1, <2>2
  <1>2. Inv /\ OrderInv /\ [Next]_vars => OrderInv'
    BY OrderStep DEF Inv
  <1>3. Inv /\ Inv' /\ OrderInv /\ [Next]_vars => [Promise!Next]_(Promise!vars)
    BY StreamStep DEF Inv
  <1>4. QED
    BY <1>1, <1>2, <1>3, Invariance, PTL DEF Spec, ReceiveSpec, Promise!Spec
=============================================================================
