------------------------- MODULE PacketEscrowProofs -------------------------
(***************************************************************************)
(* Proofs about PacketEscrow, for every number of slots and of packets.    *)
(***************************************************************************)
EXTENDS PacketEscrow, TLAPS

-----------------------------------------------------------------------------
(* Two sending threads: the index stays inside packet_escrow *)

\* A thread whose next step returns or has returned the counter.
PassedTest(t) == pc[t] = "increment"
RereadsCounter(t) == pc[t] = "reload"

CounterType ==
  /\ counter \in Nat
  /\ pc \in [Threads -> {"idle", "increment", "reset", "reload", "store"}]
  /\ slot \in [Threads -> 0..(Slots - 1)]

\* Each thread that is past the test leaves one value less below the bound.
CounterBounded ==
  /\ \A t \in Threads : PassedTest(t) \/ RereadsCounter(t) => counter <= Slots - 1
  /\ \A t, u \in Threads :
       t # u /\ PassedTest(t) /\ (PassedTest(u) \/ RereadsCounter(u)) => counter <= Slots - 2

PacketType ==
  /\ packet \in [Threads -> Nat]
  /\ escrow \in [0..(Slots - 1) -> Nat \cup {Empty}]
  /\ held \subseteq [packet : Nat, slot : 0..(Slots - 1), transport : Transports, sent : BOOLEAN]
  /\ sends \in Nat
  /\ overlapped \in BOOLEAN

CounterInv == CounterType /\ CounterBounded /\ IndexInRange

LEMMA PacketStep ==
  ASSUME CounterType, PacketType, [Next]_vars
  PROVE  PacketType'
  <1> USE EscrowAssumption DEF EscrowAssumption, CounterType, PacketType
  <1>1. CASE UNCHANGED vars
    BY <1>1 DEF vars
  <1>2. ASSUME NEW t \in Threads, Begin(t)
        PROVE  PacketType'
    <2>1. /\ UNCHANGED <<escrow, held>> /\ sends' = sends + 1
          /\ packet' = [packet EXCEPT ![t] = sends]
          /\ overlapped' = (overlapped \/ \E u \in Threads \ {t} : pc[u] # "idle")
      BY <1>2 DEF Begin, BeginAt
    <2>2. overlapped' \in BOOLEAN
      BY <2>1, Zenon
    <2>3. QED
      BY <2>1, <2>2
  <1>3. ASSUME NEW t \in Threads, Increment(t) \/ Reset(t) \/ Reload(t)
        PROVE  PacketType'
    BY <1>3 DEF Increment, Reset, Reload
  <1>4. ASSUME NEW t \in Threads, Store(t)
        PROVE  PacketType'
    <2>1. PICK transport \in Transports :
            held' = held \cup {Send(packet[t], slot[t], transport, FALSE)}
      BY <1>4 DEF Store
    <2>2. /\ UNCHANGED <<packet, sends, overlapped>>
          /\ escrow' = [escrow EXCEPT ![slot[t]] = packet[t]]
      BY <1>4 DEF Store
    <2>3. Send(packet[t], slot[t], transport, FALSE)
            \in [packet : Nat, slot : 0..(Slots - 1), transport : Transports, sent : BOOLEAN]
      BY DEF Send
    <2>4. QED
      BY <2>1, <2>2, <2>3
  <1>5. ASSUME NEW o \in held, Transmit(o) \/ Complete(o)
        PROVE  PacketType'
    <2>1. Send(o.packet, o.slot, o.transport, TRUE)
            \in [packet : Nat, slot : 0..(Slots - 1), transport : Transports, sent : BOOLEAN]
      BY DEF Send
    <2>2. CASE Transmit(o)
      BY <2>1, <2>2 DEF Transmit
    <2>3. CASE Complete(o)
      BY <2>3 DEF Complete
    <2>4. QED
      BY <1>5, <2>2, <2>3
  <1>6. QED
    BY <1>1, <1>2, <1>3, <1>4, <1>5 DEF Next

LEMMA CounterStep ==
  ASSUME NEW a, NEW b, Threads = {a, b}, CounterInv, [Next]_vars
  PROVE  CounterInv'
  <1> USE EscrowAssumption DEF EscrowAssumption, CounterInv, CounterType, CounterBounded,
                               PassedTest, RereadsCounter, IndexInRange
  <1>1. CASE UNCHANGED vars
    BY <1>1 DEF vars
  <1>2. ASSUME NEW t \in Threads, Begin(t)
        PROVE  CounterInv'
    <2>1. /\ UNCHANGED <<counter, slot>>
          /\ pc' = [pc EXCEPT ![t] = IF counter < Slots - 1 THEN "increment" ELSE "reset"]
      BY <1>2 DEF Begin, BeginAt
    <2>2. CASE counter < Slots - 1
      BY <2>1, <2>2
    <2>3. CASE ~(counter < Slots - 1)
      BY <2>1, <2>3
    <2>4. QED
      BY <2>2, <2>3
  <1>3. ASSUME NEW t \in Threads, Increment(t)
        PROVE  CounterInv'
    <2>1. /\ pc[t] = "increment" /\ counter' = counter + 1
          /\ slot' = [slot EXCEPT ![t] = counter] /\ pc' = [pc EXCEPT ![t] = "store"]
      BY <1>3 DEF Increment
    <2>2. counter <= Slots - 1 /\ counter \in 0..(Slots - 1)
      BY <2>1
    <2>3. CounterType' /\ IndexInRange'
      BY <2>1, <2>2
    <2>4. \A u \in Threads : u # t /\ (pc[u] = "increment" \/ pc[u] = "reload") =>
            counter' <= Slots - 1
      BY <2>1
    <2>5. ASSUME NEW u \in Threads, PassedTest(u)' \/ RereadsCounter(u)'
          PROVE  u # t /\ counter' <= Slots - 1
      BY <2>1, <2>4, <2>5
    <2>6. ~(\E u, v \in Threads : u # v /\ PassedTest(u)' /\ (PassedTest(v)' \/ RereadsCounter(v)'))
      BY <2>5
    <2>7. QED
      BY <2>3, <2>5, <2>6
  <1>4. ASSUME NEW t \in Threads, Reset(t)
        PROVE  CounterInv'
    BY <1>4 DEF Reset
  <1>5. ASSUME NEW t \in Threads, Reload(t)
        PROVE  CounterInv'
    BY <1>5 DEF Reload
  <1>6. ASSUME NEW t \in Threads, Store(t)
        PROVE  CounterInv'
    BY <1>6 DEF Store
  <1>7. ASSUME NEW o \in held, Transmit(o) \/ Complete(o)
        PROVE  CounterInv'
    <2>1. UNCHANGED <<counter, slot, pc>>
      BY <1>7 DEF Transmit, Complete
    <2>2. QED
      BY <2>1
  <1>8. QED
    BY <1>1, <1>2, <1>3, <1>4, <1>5, <1>6, <1>7 DEF Next

\* With two sending threads no packet is written outside packet_escrow.
THEOREM TwoThreadsStayInRange ==
  ASSUME NEW a, NEW b, Threads = {a, b}
  PROVE  Spec => []IndexInRange
  <1>1. Init => CounterInv
    BY EscrowAssumption
       DEF Init, EscrowAssumption, CounterInv, CounterType, CounterBounded, PassedTest,
           RereadsCounter, IndexInRange
  <1>2. CounterInv /\ [Next]_vars => CounterInv'
    BY CounterStep
  <1>3. CounterInv => IndexInRange
    BY DEF CounterInv
  <1>4. QED
    BY <1>1, <1>2, <1>3, PTL DEF Spec

\* The types of the escrow's variables, with two sending threads.
THEOREM TwoThreadTypes ==
  ASSUME NEW a, NEW b, Threads = {a, b}
  PROVE  Spec => []TypeOK
  <1>1. Init => CounterInv /\ PacketType
    <2>1. Init => CounterInv
      BY EscrowAssumption
         DEF Init, EscrowAssumption, CounterInv, CounterType, CounterBounded, PassedTest,
             RereadsCounter, IndexInRange
    <2>2. Init => PacketType
      <3>1. Init => overlapped \in BOOLEAN
        BY Zenon DEF Init
      <3>2. QED
        BY <3>1, EscrowAssumption DEF Init, EscrowAssumption, PacketType
    <2>3. QED
      BY <2>1, <2>2
  <1>2. CounterInv /\ PacketType /\ [Next]_vars => CounterInv' /\ PacketType'
    BY CounterStep, PacketStep DEF CounterInv
  <1>3. CounterInv /\ PacketType => TypeOK
    BY DEF CounterInv, CounterType, PacketType, TypeOK
  <1>4. QED
    BY <1>1, <1>2, <1>3, PTL DEF Spec

-----------------------------------------------------------------------------
(* Threads that take their slots in turn: every slot but slot 0 keeps its   *)
(* packet                                                                   *)

Others(t) == \A u \in Threads \ {t} : pc[u] = "idle"

SingleType ==
  /\ counter \in 0..(Slots - 1)
  /\ pc \in [Threads -> {"idle", "increment", "reset", "reload", "store"}]
  /\ slot \in [Threads -> 0..(Slots - 1)]
  /\ packet \in [Threads -> Nat]
  /\ escrow \in [0..(Slots - 1) -> Nat \cup {Empty}]
  /\ held \subseteq [packet : Nat, slot : 0..(Slots - 1), transport : Transports, sent : BOOLEAN]
  /\ sends \in Nat

\* The number of the first packet of the counter's current round.
RoundStart(t) ==
  IF pc[t] \in {"increment", "reset"} THEN sends - 1 - counter ELSE sends - counter

\* Where the thread stands: the packet it is sending is the newest one, and
\* the slot it holds, unless that is slot 0, is the one before the counter.
ThreadInv(t) ==
  /\ pc[t] # "idle" => packet[t] = sends - 1
  /\ pc[t] = "increment" => counter < Slots - 1
  /\ pc[t] = "reset" => counter = Slots - 1
  /\ pc[t] = "reload" => counter = 0
  /\ pc[t] = "store" => slot[t] = 0 \/ slot[t] = counter - 1

\* A held packet is no more than a window old; off slot 0 its slot tells its
\* number, of this round or of the round before.
HeldInv(t) ==
  \A o \in held :
    /\ sends - 1 - o.packet < Window
    /\ o.packet < sends
    /\ pc[t] # "idle" => o.packet < sends - 1
    /\ o.slot # 0 =>
         \/ o.packet = RoundStart(t) + o.slot
         \/ o.packet = RoundStart(t) - Slots + o.slot

OffSlotZero == \A o \in held : o.slot # 0 => Intact(o)

SingleInv(t) ==
  /\ SingleType
  /\ ThreadInv(t)
  /\ HeldInv(t)
  /\ \A o, p \in held : o.packet = p.packet => o = p
  /\ OffSlotZero

Alone(t) == Begin(t) \/ Increment(t) \/ Reset(t) \/ Reload(t) \/ Store(t)

LEMMA SingleStep ==
  ASSUME NEW t \in Threads, Window <= Slots, SingleInv(t),
         Alone(t) \/ \E o \in held : Transmit(o) \/ Complete(o)
  PROVE  SingleInv(t)'
  <1> USE EscrowAssumption DEF EscrowAssumption, SingleInv
  <1>2. CASE Begin(t)
    <2>1. /\ UNCHANGED <<counter, slot, escrow, held>> /\ sends' = sends + 1
          /\ pc[t] = "idle" /\ packet' = [packet EXCEPT ![t] = sends]
          /\ pc' = [pc EXCEPT ![t] = IF counter < Slots - 1 THEN "increment" ELSE "reset"]
          /\ \A o \in held : sends - o.packet < Window
      BY <1>2 DEF Begin, BeginAt, MayBegin
    <2>2. pc'[t] = (IF counter < Slots - 1 THEN "increment" ELSE "reset") /\ packet'[t] = sends
      BY <2>1 DEF SingleType
    <2>3. SingleType' /\ ThreadInv(t)'
      BY <2>1, <2>2 DEF SingleType, ThreadInv
    <2>4. RoundStart(t)' = RoundStart(t)
      BY <2>1, <2>2 DEF SingleType, RoundStart
    <2>5. HeldInv(t)'
      BY <2>1, <2>2, <2>4 DEF SingleType, HeldInv
    <2>6. QED
      BY <2>1, <2>3, <2>5 DEF OffSlotZero, Intact
  <1>3. CASE Increment(t)
    <2>1. /\ UNCHANGED <<packet, escrow, held, sends>> /\ pc[t] = "increment"
          /\ counter' = counter + 1 /\ slot' = [slot EXCEPT ![t] = counter]
          /\ pc' = [pc EXCEPT ![t] = "store"]
      BY <1>3 DEF Increment
    <2>2. pc'[t] = "store" /\ slot'[t] = counter
      BY <2>1 DEF SingleType
    <2>3. SingleType' /\ ThreadInv(t)'
      BY <2>1, <2>2 DEF SingleType, ThreadInv
    <2>4. RoundStart(t)' = RoundStart(t)
      BY <2>1, <2>2 DEF SingleType, RoundStart
    <2>5. HeldInv(t)'
      BY <2>1, <2>2, <2>4 DEF SingleType, HeldInv
    <2>6. QED
      BY <2>1, <2>3, <2>5 DEF OffSlotZero, Intact
  <1>4. CASE Reset(t)
    <2>1. /\ UNCHANGED <<slot, packet, escrow, held, sends>> /\ pc[t] = "reset"
          /\ counter' = 0 /\ pc' = [pc EXCEPT ![t] = "reload"]
      BY <1>4 DEF Reset
    <2>2. pc'[t] = "reload"
      BY <2>1 DEF SingleType
    <2>3. SingleType' /\ ThreadInv(t)'
      BY <2>1, <2>2 DEF SingleType, ThreadInv
    <2>4. RoundStart(t)' = RoundStart(t) + Slots /\ RoundStart(t)' = sends
      BY <2>1, <2>2 DEF SingleType, ThreadInv, RoundStart
    <2>5. ASSUME NEW o \in held
          PROVE  /\ o.packet < sends - 1
                 /\ o.slot # 0 => o.packet = RoundStart(t)' - Slots + o.slot
      <3>1. o.packet \in Nat /\ o.slot \in 0..(Slots - 1) /\ sends \in Nat
        BY DEF SingleType
      <3>2. RoundStart(t) = sends - Slots
        BY <2>1, <3>1 DEF SingleType, ThreadInv, RoundStart
      <3>3. /\ sends - 1 - o.packet < Window /\ o.packet < sends - 1
            /\ o.slot # 0 => \/ o.packet = RoundStart(t) + o.slot
                             \/ o.packet = RoundStart(t) - Slots + o.slot
        BY <2>1 DEF HeldInv
      <3>4. o.packet # RoundStart(t) - Slots + o.slot
        BY <3>1, <3>2, <3>3
      <3>5. QED
        BY <2>4, <3>1, <3>2, <3>3, <3>4
    <2>6. HeldInv(t)'
      BY <2>1, <2>2, <2>5 DEF SingleType, HeldInv
    <2>7. QED
      BY <2>1, <2>3, <2>6 DEF OffSlotZero, Intact
  <1>5. CASE Reload(t)
    <2>1. /\ UNCHANGED <<counter, packet, escrow, held, sends>> /\ pc[t] = "reload"
          /\ slot' = [slot EXCEPT ![t] = counter] /\ pc' = [pc EXCEPT ![t] = "store"]
      BY <1>5 DEF Reload
    <2>2. pc'[t] = "store" /\ slot'[t] = counter
      BY <2>1 DEF SingleType
    <2>3. SingleType' /\ ThreadInv(t)'
      BY <2>1, <2>2 DEF SingleType, ThreadInv
    <2>4. RoundStart(t)' = RoundStart(t)
      BY <2>1, <2>2 DEF SingleType, RoundStart
    <2>5. HeldInv(t)'
      BY <2>1, <2>2, <2>4 DEF SingleType, HeldInv
    <2>6. QED
      BY <2>1, <2>3, <2>5 DEF OffSlotZero, Intact
  <1>6. CASE Store(t)
    <2>1. PICK transport \in Transports :
            held' = held \cup {Send(packet[t], slot[t], transport, FALSE)}
      BY <1>6 DEF Store
    <2> DEFINE new == Send(packet[t], slot[t], transport, FALSE)
    <2>2. /\ UNCHANGED <<counter, slot, packet, sends>> /\ pc[t] = "store"
          /\ escrow' = [escrow EXCEPT ![slot[t]] = packet[t]]
          /\ pc' = [pc EXCEPT ![t] = "idle"] /\ pc'[t] = "idle"
      BY <1>6 DEF Store, SingleType
    <2>3. /\ new.packet = packet[t] /\ new.slot = slot[t] /\ new.sent = FALSE
          /\ new \in [packet : Nat, slot : 0..(Slots - 1), transport : Transports, sent : BOOLEAN]
      BY DEF Send, SingleType
    <2> HIDE DEF new
    <2>4. held' = held \cup {new}
      BY <2>1 DEF new
    <2>5. SingleType' /\ ThreadInv(t)'
      BY <2>2, <2>3, <2>4 DEF SingleType, ThreadInv
    <2>6. RoundStart(t)' = RoundStart(t) /\ RoundStart(t) = sends - counter
      BY <2>2 DEF SingleType, RoundStart
    <2>7. packet[t] = sends - 1
      BY <2>2 DEF ThreadInv
    <2>8. HeldInv(t)'
      <3>1. ASSUME NEW o \in held
            PROVE  /\ sends - 1 - o.packet < Window /\ o.packet < sends
                   /\ o.slot # 0 => \/ o.packet = RoundStart(t) + o.slot
                                    \/ o.packet = RoundStart(t) - Slots + o.slot
        BY DEF HeldInv
      <3>2. new.slot # 0 => new.packet = RoundStart(t) + new.slot
        BY <2>2, <2>3, <2>6, <2>7 DEF SingleType, ThreadInv
      <3>3. sends - 1 - new.packet < Window /\ new.packet < sends
        BY <2>3, <2>7 DEF SingleType
      <3>4. QED
        BY <2>2, <2>4, <2>6, <3>1, <3>2, <3>3 DEF HeldInv
    <2>9. ASSUME NEW o \in held, o.slot # 0
          PROVE  o.slot # slot[t]
      <3>1. o.packet \in Nat /\ o.slot \in 0..(Slots - 1)
        BY DEF SingleType
      <3>2. /\ sends - 1 - o.packet < Window /\ o.packet < sends - 1
            /\ \/ o.packet = sends - counter + o.slot
               \/ o.packet = sends - counter - Slots + o.slot
        BY <2>2, <2>6, <2>9 DEF HeldInv
      <3>3. slot[t] = 0 \/ slot[t] = counter - 1
        BY <2>2 DEF ThreadInv
      <3>4. CASE slot[t] = 0
        BY <2>9, <3>4
      <3>5. CASE slot[t] = counter - 1 /\ o.slot = counter - 1
        <4>1. sends \in Nat /\ counter \in Nat /\ Slots \in Nat /\ Window <= Slots /\ Window \in Nat
          BY DEF SingleType
        <4>2. o.packet = sends - 1 \/ o.packet = sends - 1 - Slots
          BY <3>2, <3>5, <4>1
        <4>3. QED
          BY <3>1, <3>2, <4>1, <4>2
      <3>6. QED
        BY <3>3, <3>4, <3>5
    <2>10. (\A o, p \in held : o.packet = p.packet => o = p)'
      <3>1. \A o \in held : o.packet # new.packet
        BY <2>2, <2>3, <2>7 DEF HeldInv, SingleType
      <3>2. QED
        BY <2>4, <3>1
    <2>11. OffSlotZero'
      <3>1. ASSUME NEW o \in held, o.slot # 0
            PROVE  o.sent \/ escrow'[o.slot] = o.packet
        <4>1. o.sent \/ escrow[o.slot] = o.packet
          BY <3>1 DEF OffSlotZero, Intact
        <4>2. escrow'[o.slot] = escrow[o.slot]
          BY <2>2, <2>9, <3>1 DEF SingleType
        <4>3. QED
          BY <4>1, <4>2
      <3>2. escrow'[new.slot] = new.packet
        BY <2>2, <2>3 DEF SingleType
      <3>3. \A o \in held' : o.slot # 0 => o.sent \/ escrow'[o.slot] = o.packet
        BY <2>4, <3>1, <3>2
      <3>4. QED
        BY <3>3 DEF OffSlotZero, Intact
    <2>12. QED
      BY <2>5, <2>8, <2>10, <2>11
  <1>7. ASSUME NEW o \in held, Transmit(o)
        PROVE  SingleInv(t)'
    <2> DEFINE done == Send(o.packet, o.slot, o.transport, TRUE)
    <2>1. /\ UNCHANGED <<counter, pc, slot, packet, escrow, sends>>
          /\ held' \subseteq (held \ {o}) \cup {done}
      BY <1>7 DEF Transmit
    <2>2. /\ done.packet = o.packet /\ done.slot = o.slot /\ done.sent = TRUE
          /\ done \in [packet : Nat, slot : 0..(Slots - 1), transport : Transports, sent : BOOLEAN]
      BY DEF Send, SingleType
    <2> HIDE DEF done
    <2>3. SingleType' /\ ThreadInv(t)'
      BY <2>1, <2>2 DEF SingleType, ThreadInv
    <2>4. HeldInv(t)'
      BY <2>1, <2>2 DEF HeldInv, RoundStart
    <2>5. (\A p, q \in held : p.packet = q.packet => p = q)'
      BY <2>1, <2>2
    <2>6. OffSlotZero'
      BY <2>1, <2>2 DEF OffSlotZero, Intact
    <2>7. QED
      BY <2>3, <2>4, <2>5, <2>6
  <1>8. ASSUME NEW o \in held, Complete(o)
        PROVE  SingleInv(t)'
    <2>1. /\ UNCHANGED <<counter, pc, slot, packet, sends>>
          /\ held' = held \ {o} /\ escrow' = [escrow EXCEPT ![o.slot] = Empty]
      BY <1>8 DEF Complete
    <2>2. SingleType' /\ ThreadInv(t)'
      BY <2>1 DEF SingleType, ThreadInv
    <2>3. HeldInv(t)'
      BY <2>1 DEF HeldInv, RoundStart
    <2>4. ASSUME NEW p \in held \ {o}, p.slot # 0
          PROVE  p.slot # o.slot
      <3>1. /\ o.packet \in Nat /\ p.packet \in Nat /\ o.packet # p.packet
            /\ o.slot \in 0..(Slots - 1) /\ p.slot \in 0..(Slots - 1)
        BY DEF SingleType
      <3>2. /\ sends - 1 - o.packet < Window /\ sends - 1 - p.packet < Window
            /\ o.packet < sends /\ p.packet < sends
        BY DEF HeldInv
      <3>3. RoundStart(t) \in Int
        BY DEF RoundStart, SingleType
      <3>4. p.slot = o.slot =>
              /\ p.packet = RoundStart(t) + p.slot \/ p.packet = RoundStart(t) - Slots + p.slot
              /\ o.packet = RoundStart(t) + p.slot \/ o.packet = RoundStart(t) - Slots + p.slot
        BY <2>4 DEF HeldInv
      <3>5. ASSUME p.slot = o.slot
            PROVE  FALSE
        <4>1. p.packet = o.packet + Slots \/ o.packet = p.packet + Slots
          BY <3>1, <3>3, <3>4, <3>5
        <4>2. sends \in Nat /\ Window <= Slots /\ Slots \in Nat /\ Window \in Nat
          BY DEF SingleType
        <4>3. QED
          BY <3>1, <3>2, <4>1, <4>2
      <3>6. QED
        BY <3>5
    <2>5. OffSlotZero'
      BY <2>1, <2>4 DEF OffSlotZero, Intact, SingleType
    <2>6. QED
      BY <2>1, <2>2, <2>3, <2>5
  <1>9. QED
    BY <1>2, <1>3, <1>4, <1>5, <1>6, <1>7, <1>8 DEF Alone

\* The invariant of threads that take their slots in turn: it is what a single
\* thread keeps, said of the one that is at work.
SerialInv ==
  /\ overlapped \in BOOLEAN
  /\ ~overlapped => /\ \E t \in Threads : Others(t)
                    /\ \A t \in Threads : Others(t) => SingleInv(t)

LEMMA SerialStep ==
  ASSUME Window <= Slots, SerialInv, [Next]_vars
  PROVE  SerialInv'
  <1>1. CASE UNCHANGED vars
    <2>1. \A t \in Threads : Others(t)' = Others(t) /\ SingleInv(t)' = SingleInv(t)
      BY <1>1 DEF vars, Others, SingleInv, SingleType, ThreadInv, HeldInv, RoundStart,
                  OffSlotZero, Intact
    <2>2. QED
      BY <1>1, <2>1 DEF vars, SerialInv
  <1>2. ASSUME NEW t \in Threads, Alone(t)
        PROVE  SerialInv'
    <2>1. overlapped' \in BOOLEAN
      BY <1>2 DEF SerialInv, Alone, Begin, BeginAt, Increment, Reset, Reload, Store
    <2>2. SUFFICES ASSUME ~overlapped'
                   PROVE  /\ (\E u \in Threads : Others(u))'
                          /\ (\A u \in Threads : Others(u) => SingleInv(u))'
      BY <2>1 DEF SerialInv
    <2>3. ~overlapped /\ Others(t)
      <3>1. CASE Begin(t)
        BY <2>2, <3>1 DEF Begin, BeginAt, Others
      <3>2. CASE ~Begin(t)
        <4>1. overlapped' = overlapped /\ pc[t] # "idle"
          BY <1>2, <3>2 DEF Alone, Increment, Reset, Reload, Store
        <4>2. PICK u \in Threads : Others(u)
          BY <2>2, <4>1 DEF SerialInv
        <4>3. u = t
          BY <4>1, <4>2 DEF Others
        <4>4. QED
          BY <2>2, <4>1, <4>2, <4>3
      <3>3. QED
        BY <3>1, <3>2
    <2>4. SingleInv(t)
      BY <2>3 DEF SerialInv
    <2>5. SingleInv(t)'
      BY <1>2, <2>4, SingleStep
    <2>6. Others(t)'
      <3>1. \A u \in Threads \ {t} : pc'[u] = pc[u]
        BY <1>2, <2>4 DEF Alone, Begin, BeginAt, Increment, Reset, Reload, Store, SingleInv, SingleType
      <3>2. QED
        BY <2>3, <3>1 DEF Others
    <2>7. ASSUME NEW u \in Threads, Others(u)'
          PROVE  SingleInv(u)'
      <3>1. CASE u = t
        BY <2>5, <3>1
      <3>2. CASE u # t
        <4>1. (\A w \in Threads : pc[w] = "idle")'
          BY <2>6, <2>7, <3>2 DEF Others
        <4>2. QED
          BY <2>5, <4>1 DEF SingleInv, SingleType, ThreadInv, HeldInv, RoundStart, OffSlotZero, Intact
      <3>3. QED
        BY <3>1, <3>2
    <2>8. QED
      BY <2>6, <2>7
  <1>3. ASSUME NEW o \in held, Transmit(o) \/ Complete(o)
        PROVE  SerialInv'
    <2>1. UNCHANGED <<pc, overlapped>>
      BY <1>3 DEF Transmit, Complete
    <2>2. \A t \in Threads : Others(t)' = Others(t)
      BY <2>1 DEF Others
    <2>3. ASSUME NEW t \in Threads, SingleInv(t)
          PROVE  SingleInv(t)'
      BY <1>3, <2>3, SingleStep
    <2>4. QED
      BY <2>1, <2>2, <2>3 DEF SerialInv
  <1>4. QED
    BY <1>1, <1>2, <1>3 DEF Next, Alone

LEMMA SerialInit ==
  ASSUME Threads # {}, Init
  PROVE  SerialInv
  <1>1. ASSUME NEW t \in Threads
        PROVE  SingleInv(t)
    BY EscrowAssumption
       DEF EscrowAssumption, Init, SingleInv, SingleType, ThreadInv, HeldInv, OffSlotZero
  <1>2. \A t \in Threads : Others(t)
    BY DEF Init, Others
  <1>3. QED
    BY <1>1, <1>2 DEF Init, SerialInv

\* However many threads send, as long as no two of them are in
\* assign_or_override_slot together and at most MAX_SLOT_COUNT packets are in
\* escrow, a packet in any slot but slot 0 is there until it is transmitted.
THEOREM SerialSendsKeepPackets ==
  ASSUME Threads # {}, Window <= Slots
  PROVE  Spec => []IntactOffSlotZero
  <1>1. Init => SerialInv
    BY SerialInit
  <1>2. SerialInv /\ [Next]_vars => SerialInv'
    BY SerialStep
  <1>3. SerialInv => IntactOffSlotZero
    BY DEF SerialInv, SingleInv, OffSlotZero, IntactOffSlotZero
  <1>4. QED
    BY <1>1, <1>2, <1>3, PTL DEF Spec
=============================================================================
