------------------------ MODULE WebsocketManagerProofs ------------------------
(***************************************************************************)
(* Proofs about WebsocketManager, for any channels, any threads that send  *)
(* and any number of packets, with connections that fail or not.           *)
(***************************************************************************)
EXTENDS WebsocketManager, FiniteSetTheorems, FunctionTheorems,
        SequenceTheorems, TLAPS

Holds(t) == pc[t] \in {"event", "data"}

\* An event is about a channel that was initialised, and teardown was called
\* for it when it is to be closed; only a channel that was opened is sent on.
EventInv ==
  /\ \A i \in DOMAIN events :
       /\ wsi[events[i].channel] # "absent"
       /\ events[i].kind = "close" => events[i].channel \in torn
  /\ \A c \in ready : wsi[c] # "absent"
  /\ \A t \in Threads : pc[t] = "event" => job[t].channel \in ready

\* A packet is in one place.
PlaceInv ==
  /\ \A t \in Threads : Holds(t) => job[t].packet < sends /\ job[t].from = t
  /\ \A i \in DOMAIN data : data[i].packet < sends
  /\ \A i \in DOMAIN written : written[i].packet < sends
  /\ \A t, u \in Threads : Holds(t) /\ Holds(u) /\ t # u => job[t].packet # job[u].packet
  /\ \A i, j \in DOMAIN data : i # j => data[i].packet # data[j].packet
  /\ \A i, j \in DOMAIN written : i # j => written[i].packet # written[j].packet
  /\ \A i \in DOMAIN data, j \in DOMAIN written : data[i].packet # written[j].packet
  /\ \A t \in Threads : Holds(t) =>
       /\ \A i \in DOMAIN data : data[i].packet # job[t].packet
       /\ \A i \in DOMAIN written : written[i].packet # job[t].packet

\* And no packet is lost.
KeptInv ==
  \A p \in 0..(sends - 1) :
    \/ \E t \in Threads : Holds(t) /\ job[t].packet = p
    \/ \E i \in DOMAIN data : data[i].packet = p
    \/ \E i \in DOMAIN written : written[i].packet = p

\* A thread's packets are written before those in the queue, and these before
\* the one it is sending.
OrderInv ==
  /\ ThreadOrderKept
  /\ \A i, j \in DOMAIN data :
       i < j /\ data[i].from = data[j].from => data[i].packet < data[j].packet
  /\ \A i \in DOMAIN written, j \in DOMAIN data :
       written[i].from = data[j].from => written[i].packet < data[j].packet
  /\ \A t \in Threads : Holds(t) =>
       /\ \A i \in DOMAIN data : data[i].from = t => data[i].packet < job[t].packet
       /\ \A i \in DOMAIN written : written[i].from = t => written[i].packet < job[t].packet

-----------------------------------------------------------------------------
(* Types, and what events are about *)

Jobs == [packet : Nat, channel : Channels, from : Threads]
Events == [channel : Channels, kind : {"create", "send", "close"}]
Writes == [on : Channels, packet : Nat, channel : Channels, from : Threads]

\* The queue of events as one of its fields sees it.
LEMMA PushedEvent ==
  ASSUME TypeOK, EventInv, NEW c \in Channels, NEW kind \in {"create", "send", "close"},
         events' = Append(events, Event(c, kind)),
         wsi'[c] # "absent", kind = "close" => c \in torn',
         torn \subseteq torn', \A d \in Channels : wsi[d] # "absent" => wsi'[d] # "absent"
  PROVE  /\ events' \in Seq(Events)
         /\ \A i \in DOMAIN events' :
              /\ wsi'[events'[i].channel] # "absent"
              /\ events'[i].kind = "close" => events'[i].channel \in torn'
  <1>1. events \in Seq(Events) /\ Event(c, kind) \in Events
    BY DEF TypeOK, Events, Event
  <1>2. /\ events' \in Seq(Events) /\ Len(events') = Len(events) + 1 /\ Len(events) \in Nat
        /\ \A i \in 1..Len(events) : events'[i] = events[i]
        /\ events'[Len(events) + 1] = Event(c, kind)
    BY <1>1, AppendProperties, LenProperties
  <1>3. ASSUME NEW i \in DOMAIN events'
        PROVE  /\ wsi'[events'[i].channel] # "absent"
               /\ events'[i].kind = "close" => events'[i].channel \in torn'
    <2>1. i \in 1..Len(events) \/ i = Len(events) + 1
      BY <1>2
    <2>2. CASE i \in 1..Len(events)
      <3>1. events'[i] = events[i] /\ events[i] \in Events /\ i \in DOMAIN events
        BY <1>1, <1>2, <2>2
      <3>2. events[i].channel \in Channels
        BY <3>1 DEF Events
      <3>3. QED
        BY <3>1, <3>2 DEF EventInv
    <2>3. CASE i = Len(events) + 1
      BY <1>2, <2>3 DEF Event
    <2>4. QED
      BY <2>1, <2>2, <2>3
  <1>4. QED
    BY <1>2, <1>3

\* What is taken off the queue of events was in it.
LEMMA TakenEvent ==
  ASSUME TypeOK, EventInv, NEW c \in Channels, NEW kind \in {"create", "send", "close"},
         TakeEvent(c, kind)
  PROVE  /\ wsi[c] # "absent" /\ (kind = "close" => c \in torn)
         /\ events' \in Seq(Events)
         /\ \A i \in DOMAIN events' : \E j \in DOMAIN events : events'[i] = events[j]
  <1>1. events \in Seq(Events) /\ events # <<>> /\ Head(events) = Event(c, kind)
        /\ events' = Tail(events)
    BY DEF TypeOK, Events, TakeEvent
  <1>2. /\ events' \in Seq(Events) /\ Len(events') = Len(events) - 1
        /\ \A i \in 1..Len(events') : events'[i] = events[i + 1]
        /\ Len(events) \in Nat \ {0}
    BY <1>1, HeadTailProperties, EmptySeq
  <1>3. 1 \in DOMAIN events /\ events[1] = Event(c, kind)
    BY <1>1, <1>2
  <1>4. wsi[c] # "absent" /\ (kind = "close" => c \in torn)
    BY <1>3 DEF EventInv, Event
  <1>5. ASSUME NEW i \in DOMAIN events' PROVE \E j \in DOMAIN events : events'[i] = events[j]
    <2>1. i + 1 \in DOMAIN events /\ events'[i] = events[i + 1]
      BY <1>1, <1>2
    <2>2. QED
      BY <2>1
  <1>6. QED
    BY <1>2, <1>4, <1>5

LEMMA TypeStep ==
  ASSUME TypeOK, EventInv, [Next]_vars
  PROVE  TypeOK' /\ EventInv'
  <1> USE ManagerAssumption DEF ManagerAssumption
  <1>1. ASSUME NEW c \in Channels, Create(c)
        PROVE  TypeOK' /\ EventInv'
    <2>1. /\ wsi[c] = "absent" /\ wsi' = [wsi EXCEPT ![c] = "null"]
          /\ events' = Append(events, Event(c, "create"))
          /\ UNCHANGED <<data, ready, torn, closing, writable, woken, loop, pc, job, sends, written>>
      BY <1>1 DEF Create, sender
    <2>2. /\ wsi' \in [Channels -> {"absent", "null", "connecting", "open"}]
          /\ wsi'[c] = "null" /\ \A d \in Channels : wsi[d] # "absent" => wsi'[d] = wsi[d]
      BY <2>1 DEF TypeOK
    <2>3. /\ events' \in Seq(Events)
          /\ \A i \in DOMAIN events' :
               /\ wsi'[events'[i].channel] # "absent"
               /\ events'[i].kind = "close" => events'[i].channel \in torn'
      BY <2>1, <2>2, PushedEvent
    <2>4. writable' \subseteq {d \in Channels : wsi'[d] \in {"connecting", "open"}}
      BY <2>1, <2>2 DEF TypeOK
    <2>5. TypeOK'
      BY <2>1, <2>2, <2>3, <2>4 DEF TypeOK, Events
    <2>6. EventInv'
      BY <2>1, <2>2, <2>3 DEF EventInv, TypeOK
    <2>7. QED
      BY <2>5, <2>6
  <1>2. ASSUME NEW c \in Channels, Teardown(c)
        PROVE  TypeOK' /\ EventInv'
    <2>1. /\ wsi[c] # "absent" /\ torn' = torn \cup {c}
          /\ events' = Append(events, Event(c, "close"))
          /\ UNCHANGED <<data, wsi, ready, closing, writable, woken, loop, pc, job, sends, written>>
      BY <1>2 DEF Teardown, sender
    <2>2. /\ events' \in Seq(Events)
          /\ \A i \in DOMAIN events' :
               /\ wsi'[events'[i].channel] # "absent"
               /\ events'[i].kind = "close" => events'[i].channel \in torn'
      BY <2>1, PushedEvent
    <2>3. TypeOK'
      BY <2>1, <2>2 DEF TypeOK, Events
    <2>4. EventInv'
      BY <2>1, <2>2 DEF EventInv
    <2>5. QED
      BY <2>3, <2>4
  <1>3. ASSUME NEW c \in Channels, Established(c)
        PROVE  TypeOK' /\ EventInv'
    BY <1>3 DEF Established, TypeOK, EventInv, sender, InService, CanCallBack, DropClient, CanWrite, WriteFront
  <1>4. ASSUME NEW c \in Channels, ConnectionError(c)
        PROVE  TypeOK' /\ EventInv'
    BY <1>4 DEF ConnectionError, TypeOK, EventInv, sender, InService, CanCallBack, DropClient, CanWrite, WriteFront
  <1>5. ASSUME NEW c \in Channels, Received(c)
        PROVE  TypeOK' /\ EventInv'
    BY <1>5 DEF Received, TypeOK, EventInv, sender, InService, CanCallBack, DropClient, CanWrite, WriteFront
  <1>6. ASSUME NEW c \in Channels, Closed(c)
        PROVE  TypeOK' /\ EventInv'
    BY <1>6 DEF Closed, TypeOK, EventInv, sender, InService, CanCallBack, DropClient, CanWrite, WriteFront
  <1>7. ASSUME NEW c \in Channels, WriteableClosing(c)
        PROVE  TypeOK' /\ EventInv'
    BY <1>7 DEF WriteableClosing, TypeOK, EventInv, sender, InService, CanCallBack, DropClient, CanWrite, WriteFront
  <1>8. ASSUME NEW c \in Channels, Writeable(c)
        PROVE  TypeOK' /\ EventInv'
    <2>1. /\ data' = IF data = <<>> THEN data ELSE Tail(data)
          /\ loop' = "serving" /\ WriteFront(c)
          /\ UNCHANGED <<events, wsi, ready, torn, closing, writable, woken, pc, job, sends>>
      BY <1>8 DEF Writeable, sender
    <2>2. data' \in Seq(Jobs) /\ written' \in Seq(Writes)
      <3>1. data \in Seq(Jobs) /\ written \in Seq(Writes)
        BY DEF TypeOK, Jobs, Writes
      <3>2. CASE data = <<>>
        BY <2>1, <3>1, <3>2 DEF WriteFront
      <3>3. CASE data # <<>>
        <4>1. data' \in Seq(Jobs) /\ Head(data) \in Jobs
          BY <2>1, <3>1, <3>3, HeadTailProperties
        <4>2. [on |-> c, packet |-> Head(data).packet, channel |-> Head(data).channel,
               from |-> Head(data).from] \in Writes
          BY <4>1 DEF Jobs, Writes
        <4>3. QED
          BY <2>1, <3>1, <3>3, <4>1, <4>2, AppendProperties DEF WriteFront
      <3>4. QED
        BY <3>2, <3>3
    <2>3. TypeOK'
      BY <2>1, <2>2 DEF TypeOK, Jobs, Writes, InService
    <2>4. EventInv'
      BY <2>1 DEF EventInv
    <2>5. QED
      BY <2>3, <2>4
  <1>9. ASSUME NEW c \in Channels, CreateClient(c)
        PROVE  TypeOK' /\ EventInv'
    <2>1. /\ wsi[c] # "absent" /\ events' \in Seq(Events)
          /\ \A i \in DOMAIN events' : \E j \in DOMAIN events : events'[i] = events[j]
      BY <1>9, TakenEvent DEF CreateClient
    <2>2. /\ loop' = "wait"
          /\ wsi' = [wsi EXCEPT ![c] = "connecting"] /\ woken' = TRUE
          /\ UNCHANGED <<closing, writable>>
          /\ UNCHANGED <<data, ready, torn, pc, job, sends, written>>
      BY <1>9 DEF CreateClient, TakeEvent, sender
    <2>3. /\ wsi' \in [Channels -> {"absent", "null", "connecting", "open"}]
          /\ \A d \in Channels : wsi[d] # "absent" => wsi'[d] # "absent"
      BY <2>2 DEF TypeOK
    <2>4. closing' \subseteq torn /\ writable' \subseteq {d \in Channels : wsi'[d] \in {"connecting", "open"}}
      BY <2>1, <2>2, <2>3 DEF TypeOK
    <2>5. TypeOK'
      BY <2>1, <2>2, <2>3, <2>4 DEF TypeOK, Events, InService
    <2>6. EventInv'
      <3>1. ASSUME NEW i \in DOMAIN events'
            PROVE  /\ wsi'[events'[i].channel] # "absent"
                   /\ events'[i].kind = "close" => events'[i].channel \in torn'
        <4>1. PICK j \in DOMAIN events : events'[i] = events[j]
          BY <2>1
        <4>2. /\ wsi[events[j].channel] # "absent"
              /\ events[j].kind = "close" => events[j].channel \in torn
          BY DEF EventInv
        <4>3. events[j].channel \in Channels
          <5>1. events \in Seq(Events)
            BY DEF TypeOK, Events
          <5>2. events[j] \in Events
            BY <5>1
          <5>3. QED
            BY <5>2 DEF Events
        <4>4. QED
          BY <2>2, <2>3, <4>1, <4>2, <4>3
      <3>2. QED
        BY <2>2, <2>3, <3>1 DEF EventInv, TypeOK
    <2>7. QED
      BY <2>5, <2>6
  <1>10. ASSUME NEW c \in Channels, RequestWritable(c)
        PROVE  TypeOK' /\ EventInv'
    <2>1. /\ wsi[c] # "absent" /\ events' \in Seq(Events)
          /\ \A i \in DOMAIN events' : \E j \in DOMAIN events : events'[i] = events[j]
      BY <1>10, TakenEvent DEF RequestWritable
    <2>2. /\ IF wsi[c] = "null"
               THEN loop' \in {"wait", "dead"} /\ UNCHANGED writable
               ELSE loop' = "wait" /\ writable' = writable \cup {c}
          /\ UNCHANGED <<wsi, closing, woken>>
          /\ UNCHANGED <<data, ready, torn, pc, job, sends, written>>
      BY <1>10 DEF RequestWritable, TakeEvent, sender
    <2>3. /\ wsi' \in [Channels -> {"absent", "null", "connecting", "open"}]
          /\ \A d \in Channels : wsi[d] # "absent" => wsi'[d] # "absent"
      BY <2>2 DEF TypeOK
    <2>4. closing' \subseteq torn /\ writable' \subseteq {d \in Channels : wsi'[d] \in {"connecting", "open"}}
      BY <2>1, <2>2, <2>3 DEF TypeOK
    <2>5. TypeOK'
      BY <2>1, <2>2, <2>3, <2>4 DEF TypeOK, Events, InService
    <2>6. EventInv'
      <3>1. ASSUME NEW i \in DOMAIN events'
            PROVE  /\ wsi'[events'[i].channel] # "absent"
                   /\ events'[i].kind = "close" => events'[i].channel \in torn'
        <4>1. PICK j \in DOMAIN events : events'[i] = events[j]
          BY <2>1
        <4>2. /\ wsi[events[j].channel] # "absent"
              /\ events[j].kind = "close" => events[j].channel \in torn
          BY DEF EventInv
        <4>3. events[j].channel \in Channels
          <5>1. events \in Seq(Events)
            BY DEF TypeOK, Events
          <5>2. events[j] \in Events
            BY <5>1
          <5>3. QED
            BY <5>2 DEF Events
        <4>4. QED
          BY <2>2, <2>3, <4>1, <4>2, <4>3
      <3>2. QED
        BY <2>2, <2>3, <3>1 DEF EventInv, TypeOK
    <2>7. QED
      BY <2>5, <2>6
  <1>11. ASSUME NEW c \in Channels, RequestClose(c)
        PROVE  TypeOK' /\ EventInv'
    <2>1. /\ wsi[c] # "absent" /\ events' \in Seq(Events)
          /\ \A i \in DOMAIN events' : \E j \in DOMAIN events : events'[i] = events[j]
          /\ c \in torn
      BY <1>11, TakenEvent DEF RequestClose
    <2>2. /\ closing' = closing \cup {c} /\ loop' = "wait"
          /\ UNCHANGED <<wsi, writable, woken>>
          /\ UNCHANGED <<data, ready, torn, pc, job, sends, written>>
      BY <1>11 DEF RequestClose, TakeEvent, sender
    <2>3. /\ wsi' \in [Channels -> {"absent", "null", "connecting", "open"}]
          /\ \A d \in Channels : wsi[d] # "absent" => wsi'[d] # "absent"
      BY <2>2 DEF TypeOK
    <2>4. closing' \subseteq torn /\ writable' \subseteq {d \in Channels : wsi'[d] \in {"connecting", "open"}}
      BY <2>1, <2>2, <2>3 DEF TypeOK
    <2>5. TypeOK'
      BY <2>1, <2>2, <2>3, <2>4 DEF TypeOK, Events, InService
    <2>6. EventInv'
      <3>1. ASSUME NEW i \in DOMAIN events'
            PROVE  /\ wsi'[events'[i].channel] # "absent"
                   /\ events'[i].kind = "close" => events'[i].channel \in torn'
        <4>1. PICK j \in DOMAIN events : events'[i] = events[j]
          BY <2>1
        <4>2. /\ wsi[events[j].channel] # "absent"
              /\ events[j].kind = "close" => events[j].channel \in torn
          BY DEF EventInv
        <4>3. events[j].channel \in Channels
          <5>1. events \in Seq(Events)
            BY DEF TypeOK, Events
          <5>2. events[j] \in Events
            BY <5>1
          <5>3. QED
            BY <5>2 DEF Events
        <4>4. QED
          BY <2>2, <2>3, <4>1, <4>2, <4>3
      <3>2. QED
        BY <2>2, <2>3, <3>1 DEF EventInv, TypeOK
    <2>7. QED
      BY <2>5, <2>6
  <1>12. ASSUME NEW t \in Threads, PushEvent(t)
        PROVE  TypeOK' /\ EventInv'
    <2> DEFINE c == job[t].channel
    <2>1. /\ pc[t] = "event" /\ pc' = [pc EXCEPT ![t] = "data"]
          /\ events' = Append(events, Event(c, "send"))
          /\ UNCHANGED <<data, wsi, ready, torn, closing, writable, woken, loop, job, sends, written>>
      BY <1>12 DEF PushEvent
    <2>2. c \in Channels /\ wsi[c] # "absent"
      BY <2>1 DEF TypeOK, EventInv
    <2>3. /\ events' \in Seq(Events)
          /\ \A i \in DOMAIN events' :
               /\ wsi'[events'[i].channel] # "absent"
               /\ events'[i].kind = "close" => events'[i].channel \in torn'
      <3> HIDE DEF c
      <3> QED BY <2>1, <2>2, PushedEvent
    <2>4. TypeOK'
      BY <2>1, <2>3 DEF TypeOK, Events
    <2>5. EventInv'
      BY <2>1, <2>3 DEF EventInv, TypeOK
    <2>6. QED
      BY <2>4, <2>5
  <1>13. ASSUME NEW t \in Threads, PushData(t)
        PROVE  TypeOK' /\ EventInv'
    <2>1. /\ pc[t] = "data" /\ pc' = [pc EXCEPT ![t] = "nudge"]
          /\ data' = Append(data, job[t]) /\ job' = [job EXCEPT ![t] = NoJob(t)]
          /\ UNCHANGED <<events, wsi, ready, torn, closing, writable, woken, loop, sends, written>>
      BY <1>13 DEF PushData
    <2>2. data \in Seq(Jobs) /\ job \in [Threads -> Jobs] /\ NoJob(t) \in Jobs
      BY DEF TypeOK, Jobs, NoJob, Packet
    <2>3. data' \in Seq(Jobs)
      BY <2>1, <2>2, AppendProperties
    <2>4. TypeOK'
      BY <2>1, <2>2, <2>3 DEF TypeOK, Jobs
    <2>5. EventInv'
      BY <2>1 DEF EventInv, TypeOK
    <2>6. QED
      BY <2>4, <2>5
  <1>14. ASSUME NEW t \in Threads, Nudge(t)
        PROVE  TypeOK' /\ EventInv'
    BY <1>14 DEF Nudge, TypeOK, EventInv, sender, InService, CanCallBack, DropClient, CanWrite, WriteFront
  <1>15. ASSUME NEW t \in Threads, NEW c \in Channels, BeginSend(t, c)
        PROVE  TypeOK' /\ EventInv'
    BY <1>15 DEF BeginSend, TypeOK, EventInv, Packet
  <1>16. CASE NoEvent
    BY <1>16 DEF NoEvent, TypeOK, EventInv, sender, InService, CanCallBack
  <1>17. CASE Wake
    BY <1>17 DEF Wake, TypeOK, EventInv, sender, InService, CanCallBack
  <1>18. CASE Return
    BY <1>18 DEF Return, TypeOK, EventInv, sender, InService, CanCallBack
  <1>19. CASE UNCHANGED vars
    BY <1>19 DEF vars, TypeOK, EventInv
  <1>20. ASSUME NEW c \in Channels, CreateClientFails(c)
        PROVE  TypeOK' /\ EventInv'
    BY <1>20 DEF CreateClientFails, TypeOK, EventInv, sender, InService
  <1>21. QED
    BY <1>1, <1>2, <1>3, <1>4, <1>5, <1>6, <1>7, <1>8, <1>9, <1>10, <1>11, <1>12, <1>13, <1>14, <1>15, <1>16, <1>17, <1>18, <1>19, <1>20 DEF Next, Callback, Sending, Loop

-----------------------------------------------------------------------------
(* Where a step moves a packet *)

\* It moves none; a thread begins a send; it queues its packet; the front of the
\* queue is written.
Moves == UNCHANGED <<data, job, sends, written>> /\ \A t \in Threads : Holds(t)' <=> Holds(t)

Begins(t) ==
  /\ ~Holds(t) /\ sends' = sends + 1
  /\ job'[t].packet = sends /\ job'[t].from = t
  /\ \A u \in Threads : Holds(u)' <=> Holds(u) \/ u = t
  /\ \A u \in Threads \ {t} : job'[u] = job[u]
  /\ UNCHANGED <<data, written>>

Queues(t) ==
  /\ Holds(t)
  /\ \A u \in Threads : Holds(u)' <=> Holds(u) /\ u # t
  /\ \A u \in Threads \ {t} : job'[u] = job[u]
  /\ DOMAIN data' = 1..(Len(data) + 1)
  /\ \A i \in DOMAIN data : data'[i] = data[i]
  /\ data'[Len(data) + 1] = job[t]
  /\ UNCHANGED <<sends, written>>

WritesFront ==
  /\ 1 \in DOMAIN data
  /\ DOMAIN data' = 1..(Len(data) - 1)
  /\ \A i \in DOMAIN data' : data'[i] = data[i + 1]
  /\ DOMAIN written' = 1..(Len(written) + 1)
  /\ \A i \in DOMAIN written : written'[i] = written[i]
  /\ written'[Len(written) + 1].packet = data[1].packet
  /\ written'[Len(written) + 1].from = data[1].from
  /\ \A t \in Threads : Holds(t)' <=> Holds(t)
  /\ UNCHANGED <<job, sends>>

LEMMA SequenceTypes ==
  ASSUME TypeOK
  PROVE  /\ data \in Seq(Jobs) /\ DOMAIN data = 1..Len(data) /\ Len(data) \in Nat
         /\ written \in Seq(Writes) /\ DOMAIN written = 1..Len(written) /\ Len(written) \in Nat
         /\ \A i \in DOMAIN data : data[i].packet \in Nat /\ data[i].from \in Threads
         /\ \A i \in DOMAIN written : written[i].packet \in Nat /\ written[i].from \in Threads
         /\ \A t \in Threads : job[t].packet \in Nat
         /\ sends \in Nat
  <1>1. data \in Seq(Jobs) /\ written \in Seq(Writes) /\ job \in [Threads -> Jobs] /\ sends \in Nat
    BY DEF TypeOK, Jobs, Writes
  <1>2. /\ DOMAIN data = 1..Len(data) /\ Len(data) \in Nat
        /\ DOMAIN written = 1..Len(written) /\ Len(written) \in Nat
    BY <1>1
  <1>3. ASSUME NEW i \in DOMAIN data PROVE data[i].packet \in Nat /\ data[i].from \in Threads
    <2>1. data[i] \in Jobs
      BY <1>1
    <2>2. QED
      BY <2>1 DEF Jobs
  <1>4. ASSUME NEW i \in DOMAIN written
        PROVE  written[i].packet \in Nat /\ written[i].from \in Threads
    <2>1. written[i] \in Writes
      BY <1>1
    <2>2. QED
      BY <2>1 DEF Writes
  <1>5. ASSUME NEW t \in Threads PROVE job[t].packet \in Nat
    <2>1. job[t] \in Jobs
      BY <1>1
    <2>2. QED
      BY <2>1 DEF Jobs
  <1>6. QED
    BY <1>1, <1>2, <1>3, <1>4, <1>5

LEMMA StepMoves ==
  ASSUME TypeOK, [Next]_vars
  PROVE  \/ Moves
         \/ \E t \in Threads : Begins(t)
         \/ \E t \in Threads : Queues(t)
         \/ WritesFront
  <1> USE ManagerAssumption DEF ManagerAssumption
  <1>0. /\ data \in Seq(Jobs) /\ written \in Seq(Writes) /\ job \in [Threads -> Jobs]
        /\ pc \in [Threads -> {"idle", "event", "data", "nudge"}]
    BY DEF TypeOK, Jobs, Writes
  <1>1. CASE UNCHANGED <<data, pc, job, sends, written>>
    BY <1>1 DEF Moves, Holds
  <1>2. ASSUME NEW t \in Threads, PushEvent(t) \/ Nudge(t) PROVE Moves
    BY <1>0, <1>2 DEF PushEvent, Nudge, Moves, Holds
  <1>3. ASSUME NEW t \in Threads, NEW c \in Channels, BeginSend(t, c) PROVE Begins(t)
    BY <1>0, <1>3 DEF BeginSend, Begins, Holds, Packet
  <1>4. ASSUME NEW t \in Threads, PushData(t) PROVE Queues(t)
    <2>1. /\ pc[t] = "data" /\ pc' = [pc EXCEPT ![t] = "nudge"]
          /\ data' = Append(data, job[t]) /\ job' = [job EXCEPT ![t] = NoJob(t)]
          /\ UNCHANGED <<sends, written>>
      BY <1>4 DEF PushData
    <2>2. job[t] \in Jobs
      BY <1>0
    <2>3. /\ DOMAIN data' = 1..(Len(data) + 1) /\ DOMAIN data = 1..Len(data)
          /\ \A i \in 1..Len(data) : data'[i] = data[i]
          /\ data'[Len(data) + 1] = job[t]
      BY <1>0, <2>1, <2>2, AppendProperties, LenProperties
    <2>4. QED
      BY <1>0, <2>1, <2>3 DEF Queues, Holds
  <1>5. ASSUME NEW c \in Channels, Writeable(c)
        PROVE  UNCHANGED <<data, pc, job, sends, written>> \/ WritesFront
    <2>1. /\ data' = IF data = <<>> THEN data ELSE Tail(data)
          /\ WriteFront(c) /\ UNCHANGED <<pc, job, sends>>
      BY <1>5 DEF Writeable, sender
    <2>2. CASE data = <<>>
      BY <2>1, <2>2 DEF WriteFront
    <2>3. CASE data # <<>>
      <3> DEFINE w == [on |-> c, packet |-> Head(data).packet, channel |-> Head(data).channel,
                       from |-> Head(data).from]
      <3>1. /\ Head(data) \in Jobs /\ data' \in Seq(Jobs) /\ Len(data') = Len(data) - 1
            /\ \A i \in 1..Len(data') : data'[i] = data[i + 1]
            /\ Len(data) \in Nat \ {0} /\ Head(data) = data[1]
        BY <1>0, <2>1, <2>3, HeadTailProperties, EmptySeq
      <3>2. w \in Writes /\ w.packet = data[1].packet /\ w.from = data[1].from
        BY <3>1 DEF Jobs, Writes
      <3>3. written' = Append(written, w)
        BY <2>1, <2>3 DEF WriteFront
      <3> HIDE DEF w
      <3>4. /\ DOMAIN written' = 1..(Len(written) + 1) /\ DOMAIN written = 1..Len(written)
            /\ \A i \in 1..Len(written) : written'[i] = written[i]
            /\ written'[Len(written) + 1] = w
        BY <1>0, <3>2, <3>3, AppendProperties, LenProperties
      <3>5. DOMAIN data' = 1..(Len(data) - 1) /\ 1 \in DOMAIN data
        BY <1>0, <3>1
      <3>6. QED
        BY <2>1, <3>1, <3>2, <3>4, <3>5 DEF WritesFront, Holds
    <2>4. QED
      BY <2>2, <2>3
  <1>6. ASSUME NEW c \in Channels,
               \/ Create(c) \/ Teardown(c) \/ Established(c) \/ ConnectionError(c)
               \/ Received(c) \/ Closed(c) \/ WriteableClosing(c)
               \/ CreateClient(c) \/ CreateClientFails(c)
               \/ RequestWritable(c) \/ RequestClose(c)
        PROVE  UNCHANGED <<data, pc, job, sends, written>>
    BY <1>6 DEF Create, Teardown, Established, ConnectionError, Received, Closed,
         WriteableClosing, CreateClient, CreateClientFails, RequestWritable, RequestClose, TakeEvent, sender
  <1>7. CASE NoEvent \/ Wake \/ Return \/ UNCHANGED vars
    <2>1. UNCHANGED <<data, pc, job, sends, written>>
      BY <1>7 DEF NoEvent, Wake, Return, sender, vars
    <2>2. QED
      BY <1>1, <2>1
  <1>8. QED
    BY <1>1, <1>2, <1>3, <1>4, <1>5, <1>6, <1>7 DEF Next, Callback, Sending, Loop

LEMMA PlaceStep ==
  ASSUME TypeOK, PlaceInv, [Next]_vars
  PROVE  PlaceInv'
  <1>0. /\ DOMAIN data = 1..Len(data) /\ Len(data) \in Nat
        /\ DOMAIN written = 1..Len(written) /\ Len(written) \in Nat
        /\ \A i \in DOMAIN data : data[i].packet \in Nat /\ data[i].from \in Threads
        /\ \A i \in DOMAIN written : written[i].packet \in Nat /\ written[i].from \in Threads
        /\ \A t \in Threads : job[t].packet \in Nat
        /\ sends \in Nat
    BY SequenceTypes
  <1>1. CASE Moves
    BY <1>1 DEF Moves, PlaceInv
  <1>2. ASSUME NEW t \in Threads, Begins(t) PROVE PlaceInv'
    BY <1>0, <1>2 DEF Begins, PlaceInv
  <1>3. ASSUME NEW t \in Threads, Queues(t) PROVE PlaceInv'
    <2>0. /\ \A k \in DOMAIN data' : \/ k \in DOMAIN data /\ data'[k] = data[k]
                                     \/ k = Len(data) + 1 /\ data'[k] = job[t]
          /\ written' = written /\ sends' = sends /\ Holds(t)
          /\ \A u \in Threads : Holds(u)' => Holds(u) /\ u # t /\ job'[u] = job[u]
      BY <1>0, <1>3 DEF Queues
    <2>1. \A u \in Threads : Holds(u)' => job'[u].packet < sends' /\ job'[u].from = u
      BY <1>0, <2>0 DEF PlaceInv
    <2>2. \A i \in DOMAIN data' : data'[i].packet < sends'
      BY <1>0, <2>0 DEF PlaceInv
    <2>3. \A i \in DOMAIN written' : written'[i].packet < sends'
      BY <1>0, <2>0 DEF PlaceInv
    <2>4. \A u, v \in Threads :
            Holds(u)' /\ Holds(v)' /\ u # v => job'[u].packet # job'[v].packet
      BY <1>0, <2>0 DEF PlaceInv
    <2>5. \A i, j \in DOMAIN data' : i # j => data'[i].packet # data'[j].packet
      BY <1>0, <2>0 DEF PlaceInv
    <2>6. \A i, j \in DOMAIN written' : i # j => written'[i].packet # written'[j].packet
      BY <1>0, <2>0 DEF PlaceInv
    <2>7. \A i \in DOMAIN data', j \in DOMAIN written' :
            data'[i].packet # written'[j].packet
      BY <1>0, <2>0 DEF PlaceInv
    <2>8. \A u \in Threads : Holds(u)' => \A i \in DOMAIN data' :
            data'[i].packet # job'[u].packet
      BY <1>0, <2>0 DEF PlaceInv
    <2>9. \A u \in Threads : Holds(u)' => \A i \in DOMAIN written' :
            written'[i].packet # job'[u].packet
      BY <1>0, <2>0 DEF PlaceInv
    <2>10. QED
      BY <2>1, <2>2, <2>3, <2>4, <2>5, <2>6, <2>7, <2>8, <2>9 DEF PlaceInv
  <1>4. CASE WritesFront
    <2>0. /\ \A k \in DOMAIN data' : k + 1 \in DOMAIN data /\ k + 1 # 1 /\ data'[k] = data[k + 1]
          /\ \A k \in DOMAIN written' :
               \/ k \in DOMAIN written /\ written'[k] = written[k]
               \/ /\ k = Len(written) + 1
                  /\ written'[k].packet = data[1].packet /\ written'[k].from = data[1].from
          /\ 1 \in DOMAIN data /\ sends' = sends /\ job' = job
          /\ \A u \in Threads : Holds(u)' => Holds(u)
      BY <1>0, <1>4 DEF WritesFront
    <2>1. \A u \in Threads : Holds(u)' => job'[u].packet < sends' /\ job'[u].from = u
      BY <1>0, <2>0 DEF PlaceInv
    <2>2. \A i \in DOMAIN data' : data'[i].packet < sends'
      BY <1>0, <2>0 DEF PlaceInv
    <2>3. \A i \in DOMAIN written' : written'[i].packet < sends'
      BY <1>0, <2>0 DEF PlaceInv
    <2>4. \A u, v \in Threads :
            Holds(u)' /\ Holds(v)' /\ u # v => job'[u].packet # job'[v].packet
      BY <1>0, <2>0 DEF PlaceInv
    <2>5. ASSUME NEW i \in DOMAIN data', NEW j \in DOMAIN data', i # j
          PROVE  data'[i].packet # data'[j].packet
      <3>1. /\ i + 1 \in DOMAIN data /\ j + 1 \in DOMAIN data /\ i + 1 # j + 1
            /\ data'[i] = data[i + 1] /\ data'[j] = data[j + 1]
        <4>1. i \in Int /\ j \in Int
          BY <1>4 DEF WritesFront
        <4>2. QED
          BY <2>0, <2>5, <4>1
      <3>2. QED
        BY <3>1 DEF PlaceInv
    <2>6. \A i, j \in DOMAIN written' : i # j => written'[i].packet # written'[j].packet
      BY <1>0, <2>0 DEF PlaceInv
    <2>7. \A i \in DOMAIN data', j \in DOMAIN written' :
            data'[i].packet # written'[j].packet
      BY <1>0, <2>0 DEF PlaceInv
    <2>8. \A u \in Threads : Holds(u)' => \A i \in DOMAIN data' :
            data'[i].packet # job'[u].packet
      BY <1>0, <2>0 DEF PlaceInv
    <2>9. \A u \in Threads : Holds(u)' => \A i \in DOMAIN written' :
            written'[i].packet # job'[u].packet
      BY <1>0, <2>0 DEF PlaceInv
    <2>10. QED
      BY <2>1, <2>2, <2>3, <2>4, <2>5, <2>6, <2>7, <2>8, <2>9 DEF PlaceInv
  <1>5. QED
    BY <1>1, <1>2, <1>3, <1>4, StepMoves

LEMMA KeptStep ==
  ASSUME TypeOK, KeptInv, [Next]_vars
  PROVE  KeptInv'
  <1>0. /\ DOMAIN data = 1..Len(data) /\ Len(data) \in Nat
        /\ DOMAIN written = 1..Len(written) /\ Len(written) \in Nat
        /\ \A i \in DOMAIN data : data[i].packet \in Nat /\ data[i].from \in Threads
        /\ \A i \in DOMAIN written : written[i].packet \in Nat /\ written[i].from \in Threads
        /\ \A t \in Threads : job[t].packet \in Nat
        /\ sends \in Nat
    BY SequenceTypes
  <1>1. CASE Moves
    BY <1>1 DEF Moves, KeptInv
  <1>2. ASSUME NEW t \in Threads, Begins(t) PROVE KeptInv'
    BY <1>0, <1>2 DEF Begins, KeptInv
  <1>3. ASSUME NEW t \in Threads, Queues(t) PROVE KeptInv'
    <2>1. ASSUME NEW p \in 0..(sends' - 1)
          PROVE  \/ \E u \in Threads : Holds(u)' /\ job'[u].packet = p
                 \/ \E i \in DOMAIN data' : data'[i].packet = p
                 \/ \E i \in DOMAIN written' : written'[i].packet = p
      <3>1. /\ p \in 0..(sends - 1) /\ written' = written
            /\ \A i \in DOMAIN data : i \in DOMAIN data' /\ data'[i] = data[i]
            /\ Len(data) + 1 \in DOMAIN data' /\ data'[Len(data) + 1] = job[t]
            /\ \A u \in Threads \ {t} : Holds(u)' <=> Holds(u)
            /\ \A u \in Threads \ {t} : job'[u] = job[u]
        BY <1>0, <1>3, <2>1 DEF Queues
      <3>2. CASE \E u \in Threads : Holds(u) /\ job[u].packet = p
        BY <3>1, <3>2
      <3>3. CASE \E i \in DOMAIN data : data[i].packet = p
        BY <3>1, <3>3
      <3>4. CASE \E i \in DOMAIN written : written[i].packet = p
        BY <3>1, <3>4
      <3>5. QED
        BY <3>1, <3>2, <3>3, <3>4 DEF KeptInv
    <2>2. QED
      BY <2>1 DEF KeptInv
  <1>4. CASE WritesFront
    <2>1. ASSUME NEW p \in 0..(sends' - 1)
          PROVE  \/ \E u \in Threads : Holds(u)' /\ job'[u].packet = p
                 \/ \E i \in DOMAIN data' : data'[i].packet = p
                 \/ \E i \in DOMAIN written' : written'[i].packet = p
      <3>1. /\ p \in 0..(sends - 1) /\ job' = job
            /\ \A i \in DOMAIN written : i \in DOMAIN written' /\ written'[i] = written[i]
            /\ Len(written) + 1 \in DOMAIN written'
            /\ written'[Len(written) + 1].packet = data[1].packet
            /\ \A u \in Threads : Holds(u)' <=> Holds(u)
        BY <1>0, <1>4, <2>1 DEF WritesFront
      <3>2. CASE \E u \in Threads : Holds(u) /\ job[u].packet = p
        BY <3>1, <3>2
      <3>3. ASSUME NEW i \in DOMAIN data, data[i].packet = p
            PROVE  \/ \E k \in DOMAIN data' : data'[k].packet = p
                   \/ \E k \in DOMAIN written' : written'[k].packet = p
        <4>1. CASE i = 1
          BY <3>1, <3>3, <4>1
        <4>2. CASE i # 1
          <5>1. i - 1 \in DOMAIN data' /\ data'[i - 1] = data[i]
            <6>1. i - 1 \in DOMAIN data' /\ (i - 1) + 1 = i
              BY <1>0, <1>4, <4>2 DEF WritesFront
            <6>2. QED
              BY <1>4, <6>1 DEF WritesFront
          <5>2. QED
            BY <3>3, <5>1
        <4>3. QED
          BY <4>1, <4>2
      <3>4. CASE \E i \in DOMAIN written : written[i].packet = p
        BY <3>1, <3>4
      <3>5. QED
        BY <3>1, <3>2, <3>3, <3>4 DEF KeptInv
    <2>2. QED
      BY <2>1 DEF KeptInv
  <1>5. QED
    BY <1>1, <1>2, <1>3, <1>4, StepMoves

LEMMA OrderStep ==
  ASSUME TypeOK, PlaceInv, OrderInv, [Next]_vars
  PROVE  OrderInv'
  <1>0. /\ DOMAIN data = 1..Len(data) /\ Len(data) \in Nat
        /\ DOMAIN written = 1..Len(written) /\ Len(written) \in Nat
        /\ \A i \in DOMAIN data : data[i].packet \in Nat /\ data[i].from \in Threads
        /\ \A i \in DOMAIN written : written[i].packet \in Nat /\ written[i].from \in Threads
        /\ \A t \in Threads : job[t].packet \in Nat
        /\ sends \in Nat
    BY SequenceTypes
  <1>1. CASE Moves
    BY <1>1 DEF Moves, OrderInv, ThreadOrderKept
  <1>2. ASSUME NEW t \in Threads, Begins(t) PROVE OrderInv'
    <2>0. /\ data' = data /\ written' = written
          /\ \A u \in Threads : Holds(u)' => \/ Holds(u) /\ job'[u] = job[u]
                                             \/ u = t /\ job'[u].packet = sends
      BY <1>2 DEF Begins
    <2>1. \A i, j \in DOMAIN written' :
            i < j /\ written'[i].from = written'[j].from => written'[i].packet < written'[j].packet
      BY <1>0, <2>0 DEF OrderInv, ThreadOrderKept, PlaceInv
    <2>2. \A i, j \in DOMAIN data' :
            i < j /\ data'[i].from = data'[j].from => data'[i].packet < data'[j].packet
      BY <1>0, <2>0 DEF OrderInv, ThreadOrderKept, PlaceInv
    <2>3. \A i \in DOMAIN written', j \in DOMAIN data' :
            written'[i].from = data'[j].from => written'[i].packet < data'[j].packet
      BY <1>0, <2>0 DEF OrderInv, ThreadOrderKept, PlaceInv
    <2>4. \A u \in Threads : Holds(u)' => \A i \in DOMAIN data' :
            data'[i].from = u => data'[i].packet < job'[u].packet
      BY <1>0, <2>0 DEF OrderInv, ThreadOrderKept, PlaceInv
    <2>5. \A u \in Threads : Holds(u)' => \A i \in DOMAIN written' :
            written'[i].from = u => written'[i].packet < job'[u].packet
      BY <1>0, <2>0 DEF OrderInv, ThreadOrderKept, PlaceInv
    <2>6. QED
      BY <2>1, <2>2, <2>3, <2>4, <2>5 DEF OrderInv, ThreadOrderKept
  <1>3. ASSUME NEW t \in Threads, Queues(t) PROVE OrderInv'
    <2>0. /\ \A k \in DOMAIN data' : \/ k \in DOMAIN data /\ data'[k] = data[k]
                                     \/ k = Len(data) + 1 /\ data'[k] = job[t]
          /\ written' = written /\ sends' = sends /\ Holds(t)
          /\ \A u \in Threads : Holds(u)' => Holds(u) /\ u # t /\ job'[u] = job[u]
          /\ job[t].from = t
      BY <1>0, <1>3 DEF Queues, PlaceInv
    <2>1. \A i, j \in DOMAIN written' :
            i < j /\ written'[i].from = written'[j].from => written'[i].packet < written'[j].packet
      BY <1>0, <2>0 DEF OrderInv, ThreadOrderKept
    <2>2. \A i, j \in DOMAIN data' :
            i < j /\ data'[i].from = data'[j].from => data'[i].packet < data'[j].packet
      BY <1>0, <2>0 DEF OrderInv, ThreadOrderKept
    <2>3. \A i \in DOMAIN written', j \in DOMAIN data' :
            written'[i].from = data'[j].from => written'[i].packet < data'[j].packet
      BY <1>0, <2>0 DEF OrderInv, ThreadOrderKept
    <2>4. \A u \in Threads : Holds(u)' => \A i \in DOMAIN data' :
            data'[i].from = u => data'[i].packet < job'[u].packet
      BY <1>0, <2>0 DEF OrderInv, ThreadOrderKept
    <2>5. \A u \in Threads : Holds(u)' => \A i \in DOMAIN written' :
            written'[i].from = u => written'[i].packet < job'[u].packet
      BY <1>0, <2>0 DEF OrderInv, ThreadOrderKept
    <2>6. QED
      BY <2>1, <2>2, <2>3, <2>4, <2>5 DEF OrderInv, ThreadOrderKept
  <1>4. CASE WritesFront
    <2>0. /\ \A k \in DOMAIN data' : k + 1 \in DOMAIN data /\ k + 1 # 1 /\ data'[k] = data[k + 1]
          /\ \A k \in DOMAIN written' :
               \/ k \in DOMAIN written /\ written'[k] = written[k]
               \/ /\ k = Len(written) + 1
                  /\ written'[k].packet = data[1].packet /\ written'[k].from = data[1].from
          /\ 1 \in DOMAIN data /\ sends' = sends /\ job' = job
          /\ \A u \in Threads : Holds(u)' => Holds(u)
      BY <1>0, <1>4 DEF WritesFront
    <2>1. ASSUME NEW i \in DOMAIN written', NEW j \in DOMAIN written',
                 i < j, written'[i].from = written'[j].from
          PROVE  written'[i].packet < written'[j].packet
      <3>1. i \in DOMAIN written /\ written'[i] = written[i]
        BY <1>0, <1>4, <2>1 DEF WritesFront
      <3>2. CASE j \in DOMAIN written /\ written'[j] = written[j]
        BY <2>1, <3>1, <3>2 DEF OrderInv, ThreadOrderKept
      <3>3. CASE written'[j].packet = data[1].packet /\ written'[j].from = data[1].from
        BY <2>0, <2>1, <3>1, <3>3 DEF OrderInv
      <3>4. QED
        BY <2>0, <3>2, <3>3
    <2>2. ASSUME NEW i \in DOMAIN data', NEW j \in DOMAIN data',
                 i < j, data'[i].from = data'[j].from
          PROVE  data'[i].packet < data'[j].packet
      <3>1. /\ i + 1 \in DOMAIN data /\ j + 1 \in DOMAIN data /\ i + 1 < j + 1
            /\ data'[i] = data[i + 1] /\ data'[j] = data[j + 1]
        <4>1. i \in Int /\ j \in Int
          BY <1>4 DEF WritesFront
        <4>2. QED
          BY <2>0, <2>2, <4>1
      <3>2. QED
        BY <2>2, <3>1 DEF OrderInv
    <2>3. \A i \in DOMAIN written', j \in DOMAIN data' :
            written'[i].from = data'[j].from => written'[i].packet < data'[j].packet
      <3>1. \A i \in DOMAIN data' : /\ 1 < i + 1 /\ 1 \in DOMAIN data /\ i + 1 \in DOMAIN data
                                    /\ data'[i] = data[i + 1]
        BY <1>4, <2>0 DEF WritesFront
      <3>2. ASSUME NEW i \in DOMAIN written', NEW j \in DOMAIN data',
                   written'[i].from = data'[j].from
            PROVE  written'[i].packet < data'[j].packet
        <4>1. CASE i \in DOMAIN written /\ written'[i] = written[i]
          BY <3>1, <3>2, <4>1 DEF OrderInv
        <4>2. CASE written'[i].packet = data[1].packet /\ written'[i].from = data[1].from
          BY <3>1, <3>2, <4>2 DEF OrderInv
        <4>3. QED
          BY <2>0, <4>1, <4>2
      <3>3. QED
        BY <3>2
    <2>4. \A u \in Threads : Holds(u)' => \A i \in DOMAIN data' :
            data'[i].from = u => data'[i].packet < job'[u].packet
      BY <1>0, <2>0 DEF OrderInv, ThreadOrderKept
    <2>5. \A u \in Threads : Holds(u)' => \A i \in DOMAIN written' :
            written'[i].from = u => written'[i].packet < job'[u].packet
      BY <1>0, <2>0 DEF OrderInv, ThreadOrderKept
    <2>6. QED
      BY <2>1, <2>2, <2>3, <2>4, <2>5 DEF OrderInv, ThreadOrderKept
  <1>5. QED
    BY <1>1, <1>2, <1>3, <1>4, StepMoves

-----------------------------------------------------------------------------
(* Theorems *)

\* Packets written at different places are different, so there are as many as
\* places.
LEMMA WrittenCounted ==
  ASSUME TypeOK, PlaceInv
  PROVE  Cardinality(Written) = Len(written)
  <1> DEFINE f == [i \in 1..Len(written) |-> written[i].packet]
  <1>1. DOMAIN written = 1..Len(written) /\ Len(written) \in Nat
    BY SequenceTypes
  <1>2. Written = {written[i].packet : i \in 1..Len(written)}
    BY <1>1 DEF Written
  <1>3. f \in Bijection(1..Len(written), Written)
    <2>1. f \in [1..Len(written) -> Written]
      BY <1>2
    <2>2. \A i, j \in 1..Len(written) : f[i] = f[j] => i = j
      BY <1>1 DEF PlaceInv
    <2>3. \A p \in Written : \E i \in 1..Len(written) : f[i] = p
      BY <1>2
    <2> HIDE DEF f
    <2>4. QED
      BY <2>1, <2>2, <2>3, Fun_IsBij
  <1>4. ExistsBijection(1..Len(written), Written)
    BY <1>3 DEF ExistsBijection
  <1>5. QED
    BY <1>1, <1>4, FS_CountingElements

LEMMA PacketsOnce ==
  ASSUME TypeOK, PlaceInv, KeptInv
  PROVE  EachPacketOnce
  <1>0. /\ \A i \in DOMAIN data : data[i].packet \in Nat
        /\ \A i \in DOMAIN written : written[i].packet \in Nat
        /\ \A t \in Threads : job[t].packet \in Nat
        /\ sends \in Nat
    BY SequenceTypes
  <1> DEFINE InHands == UNION {InHand(t) : t \in Threads}
  <1>1. \A p : p \in InHands <=> \E t \in Threads : Holds(t) /\ job[t].packet = p
    BY DEF InHand, Holds
  <1>2. \A p : p \in Queued <=> \E i \in DOMAIN data : data[i].packet = p
    BY DEF Queued
  <1>3. \A p : p \in Written <=> \E i \in DOMAIN written : written[i].packet = p
    BY DEF Written
  <1> HIDE DEF InHands
  <1>4. ASSUME NEW p \in InHands \cup Queued \cup Written PROVE p \in 0..(sends - 1)
    BY <1>0, <1>1, <1>2, <1>3 DEF PlaceInv
  <1>5. ASSUME NEW p \in 0..(sends - 1) PROVE p \in InHands \cup Queued \cup Written
    BY <1>1, <1>2, <1>3 DEF KeptInv
  <1>6. InHands \cup Queued \cup Written = 0..(sends - 1)
    BY <1>4, <1>5
  <1>7. Queued \cap Written = {}
    BY <1>2, <1>3 DEF PlaceInv
  <1>8. QED
    BY <1>6, <1>7, WrittenCounted DEF EachPacketOnce, InHands

LEMMA ManagerInit ==
  ASSUME Init
  PROVE  TypeOK /\ EventInv /\ PlaceInv /\ KeptInv /\ OrderInv
  <1> USE ManagerAssumption DEF ManagerAssumption
  <1>1. TypeOK
    <2>1. job \in [Threads -> Jobs]
      BY DEF Init, Jobs, NoJob, Packet
    <2>2. writable \subseteq {c \in Channels : wsi[c] \in {"connecting", "open"}}
      BY DEF Init
    <2>3. /\ events \in Seq(Events) /\ data \in Seq(Jobs) /\ written \in Seq(Writes)
          /\ wsi \in [Channels -> {"absent", "null", "connecting", "open"}]
          /\ pc \in [Threads -> {"idle", "event", "data", "nudge"}]
      BY DEF Init, Running
    <2>4. QED
      BY <2>1, <2>2, <2>3 DEF Init, Running, TypeOK, Events, Jobs, Writes
  <1>2. EventInv
    BY DEF Init, Running, EventInv
  <1>3. /\ DOMAIN data = {} /\ DOMAIN written = {} /\ sends = 0
        /\ \A t \in Threads : ~Holds(t)
    BY DEF Init, Running, Holds
  <1>4. PlaceInv /\ KeptInv /\ OrderInv
    BY <1>3 DEF PlaceInv, KeptInv, OrderInv, ThreadOrderKept
  <1>5. QED
    BY <1>1, <1>2, <1>4

LEMMA ManagerInvariant ==
  Spec => [](TypeOK /\ EventInv /\ PlaceInv /\ KeptInv /\ OrderInv)
  <1>1. Init => TypeOK /\ EventInv /\ PlaceInv /\ KeptInv /\ OrderInv
    BY ManagerInit
  <1>2. TypeOK /\ EventInv /\ PlaceInv /\ KeptInv /\ OrderInv /\ [Next]_vars
          => TypeOK' /\ EventInv' /\ PlaceInv' /\ KeptInv' /\ OrderInv'
    BY TypeStep, PlaceStep, KeptStep, OrderStep
  <1>3. QED
    BY <1>1, <1>2, PTL DEF Spec

\* Every state the manager reaches is well typed: a WRITEABLE callback is only
\* waited for by a connection that exists, and a channel is only closed when
\* teardown was called for it, whatever events are still queued for it.
THEOREM TypeCorrect == Spec => []TypeOK
  BY ManagerInvariant, PTL

\* Whatever the order in which threads push on the two queues and callbacks
\* take off them, and whichever connections fail, no packet that send_data took
\* is lost on its way to lws_write, and none is written twice.
THEOREM PacketsAreKept == Spec => []EachPacketOnce
  <1>1. TypeOK /\ EventInv /\ PlaceInv /\ KeptInv /\ OrderInv => EachPacketOnce
    BY PacketsOnce
  <1>2. QED
    BY <1>1, ManagerInvariant, PTL

\* The packets of a thread are written in the order of its send_data calls,
\* although other threads' events may be served before its own packet is there.
THEOREM OrderIsKept == Spec => []ThreadOrderKept
  <1>1. TypeOK /\ EventInv /\ PlaceInv /\ KeptInv /\ OrderInv => ThreadOrderKept
    BY DEF OrderInv
  <1>2. QED
    BY <1>1, ManagerInvariant, PTL
===============================================================================
