-------------------------- MODULE WebsocketManager --------------------------
(***************************************************************************)
(* corelink_data_xchg_websocket_protocol_manager (src/core/corelink_data_  *)
(* xchg_websocket_proto_manager.cc): any thread pushes events and packets  *)
(* on two queues, one thread, the service thread, takes them off and runs  *)
(* libwebsockets, whose callbacks write the packets.                       *)
(*                                                                         *)
(* A call of lws_service waits for something to happen, runs the callbacks *)
(* that are due and returns.  Packets are numbered in the order in which   *)
(* their sends begin; the escrow that holds their bytes is PacketEscrow.   *)
(***************************************************************************)
EXTENDS Integers, Sequences, SequencesExt, FiniteSets

CONSTANTS
  Channels,        \* websocket channels
  Control,         \* the one the application creates; the service thread,
                   \* in a callback of it, creates the others
  Threads,         \* threads that send
  Service,         \* one of them: the thread of run(), inside a callback
  MaxPackets,      \* bound: packets sent in a behaviour
  ConnectionsFail, \* whether a connection can fail or be closed by the peer
  Teardowns        \* whether the application tears channels down

ASSUME ManagerAssumption ==
  /\ Control \in Channels
  /\ Service \in Threads
  /\ MaxPackets \in Nat
  /\ ConnectionsFail \in BOOLEAN
  /\ Teardowns \in BOOLEAN

VARIABLES
  events,   \* m_event_queue
  data,     \* m_data_queue
  wsi,      \* client_wsi of each channel, with the connection's progress
  ready,    \* the channels whose on_init has run: their users may send
  torn,     \* the channels teardown was called for
  closing,  \* the channels with initiate_client_connection_shutdown set
  writable, \* the wsis that wait for a WRITEABLE callback
  woken,    \* whether a lws_cancel_service is pending
  loop,     \* where the service thread stands
  pc,       \* where each thread stands in send_data
  job,      \* what it is sending, and on which channel
  sends,    \* how many sends have begun
  written   \* history: what lws_write wrote, and on which channel's wsi

vars == <<events, data, wsi, ready, torn, closing, writable, woken, loop, pc, job, sends,
          written>>
sender == <<pc, job, sends>>

Packet(p, c, t) == [packet |-> p, channel |-> c, from |-> t]
NoJob(t) == Packet(0, Control, t)
Event(c, kind) == [channel |-> c, kind |-> kind]

\* The process has not ended.
Alive == loop # "dead"

\* The service thread is in lws_service; in "callback", in the user's code that
\* an ESTABLISHED or RECEIVE callback calls.
InService == {"wait", "serving", "callback"}

TypeOK ==
  /\ events \in Seq([channel : Channels, kind : {"create", "send", "close"}])
  /\ data \in Seq([packet : Nat, channel : Channels, from : Threads])
  /\ wsi \in [Channels -> {"absent", "null", "connecting", "open"}]
  /\ ready \subseteq Channels
  /\ closing \subseteq torn /\ torn \subseteq Channels
  /\ writable \subseteq {c \in Channels : wsi[c] \in {"connecting", "open"}}
  /\ woken \in BOOLEAN
  /\ loop \in InService \cup {"check", "dead"}
  /\ pc \in [Threads -> {"idle", "event", "data", "nudge"}]
  /\ job \in [Threads -> [packet : Nat, channel : Channels, from : Threads]]
  /\ sends \in Nat
  /\ written \in Seq([on : Channels, packet : Nat, channel : Channels, from : Threads])

\* The manager was constructed and its thread started; run has made the context
\* (without one it returns, and nothing of what follows happens).
Running ==
  /\ events = <<>> /\ data = <<>>
  /\ woken = FALSE
  /\ loop = "check"

Init ==
  /\ Running
  /\ written = <<>>
  /\ wsi = [c \in Channels |-> "absent"]
  /\ ready = {} /\ torn = {} /\ closing = {} /\ writable = {}
  /\ pc = [t \in Threads |-> "idle"]
  /\ job = [t \in Threads |-> NoJob(t)]
  /\ sends = 0

-----------------------------------------------------------------------------
(* What the application and the callbacks call *)

\* add_and_init_channel, then init: an event, and no nudge.
Create(c) ==
  /\ Alive /\ wsi[c] = "absent"
  /\ c = Control \/ (loop = "callback" /\ pc[Service] = "idle")
  /\ wsi' = [wsi EXCEPT ![c] = "null"]
  /\ events' = Append(events, Event(c, "create"))
  /\ UNCHANGED <<data, ready, torn, closing, writable, woken, loop, sender, written>>

\* teardown, which the client's destructor calls for every channel: an event,
\* and no nudge.
Teardown(c) ==
  /\ Alive /\ Teardowns
  /\ wsi[c] # "absent" /\ c \notin torn
  /\ torn' = torn \cup {c}
  /\ events' = Append(events, Event(c, "close"))
  /\ UNCHANGED <<data, wsi, ready, closing, writable, woken, loop, sender, written>>

\* send_data: the channel is found and the packet goes into the escrow.
BeginSend(t, c) ==
  /\ Alive /\ pc[t] = "idle"
  /\ c \in ready
  /\ IF t = Service THEN loop = "callback" ELSE torn = {}
  /\ sends < MaxPackets
  /\ job' = [job EXCEPT ![t] = Packet(sends, c, t)]
  /\ sends' = sends + 1
  /\ pc' = [pc EXCEPT ![t] = "event"]
  /\ UNCHANGED <<events, data, wsi, ready, torn, closing, writable, woken, loop, written>>

PushEvent(t) ==
  /\ Alive /\ pc[t] = "event"
  /\ events' = Append(events, Event(job[t].channel, "send"))
  /\ pc' = [pc EXCEPT ![t] = "data"]
  /\ UNCHANGED <<data, wsi, ready, torn, closing, writable, woken, loop, job, sends, written>>

\* Defective variant of PushData: the newest packet is put first.
PushDataFirst(t) ==
  /\ Alive /\ pc[t] = "data"
  /\ data' = <<job[t]>> \o data
  /\ job' = [job EXCEPT ![t] = NoJob(t)]
  /\ pc' = [pc EXCEPT ![t] = "nudge"]
  /\ UNCHANGED <<events, wsi, ready, torn, closing, writable, woken, loop, sends, written>>

PushData(t) ==
  /\ Alive /\ pc[t] = "data"
  /\ data' = Append(data, job[t])
  /\ job' = [job EXCEPT ![t] = NoJob(t)]
  /\ pc' = [pc EXCEPT ![t] = "nudge"]
  /\ UNCHANGED <<events, wsi, ready, torn, closing, writable, woken, loop, sends, written>>

\* nudge: lws_cancel_service.
Nudge(t) ==
  /\ Alive /\ pc[t] = "nudge"
  /\ woken' = TRUE
  /\ pc' = [pc EXCEPT ![t] = "idle"]
  /\ UNCHANGED <<events, data, wsi, ready, torn, closing, writable, loop, job, sends, written>>

-----------------------------------------------------------------------------
(* run(): at most one event, then lws_service *)

NoEvent ==
  /\ loop = "check" /\ events = <<>>
  /\ loop' = "wait"
  /\ UNCHANGED <<events, data, wsi, ready, torn, closing, writable, woken, sender, written>>

TakeEvent(c, kind) ==
  /\ loop = "check" /\ events # <<>>
  /\ Head(events) = Event(c, kind)
  /\ events' = Tail(events)
  /\ UNCHANGED <<data, ready, torn, sender, written>>

\* lws_client_connect_via_info; a client that was created nudges the loop, so
\* that the events behind it are looked at.
CreateClient(c) ==
  /\ TakeEvent(c, "create")
  /\ loop' = "wait"
  /\ wsi' = [wsi EXCEPT ![c] = "connecting"]
  /\ woken' = TRUE
  /\ UNCHANGED <<closing, writable>>

\* A client that could not be created is reported with on_protocol_error, which
\* nothing sets: calling it throws, and the process ends before the pop.
CreateClientFails(c) ==
  /\ ConnectionsFail
  /\ loop = "check" /\ events # <<>> /\ Head(events) = Event(c, "create")
  /\ loop' = "dead"
  /\ UNCHANGED <<events, data, wsi, ready, torn, closing, writable, woken, sender, written>>

\* lws_callback_on_writable(client_wsi).  With a null wsi, what it does is
\* undefined: the process goes on or ends.
RequestWritable(c) ==
  /\ TakeEvent(c, "send")
  /\ IF wsi[c] = "null"
       THEN loop' \in {"wait", "dead"} /\ UNCHANGED writable
       ELSE loop' = "wait" /\ writable' = writable \cup {c}
  /\ UNCHANGED <<wsi, closing, woken>>

RequestClose(c) ==
  /\ TakeEvent(c, "close")
  /\ closing' = closing \cup {c}
  /\ loop' = "wait"
  /\ UNCHANGED <<wsi, writable, woken>>

-----------------------------------------------------------------------------
(* lws_service and event_callback *)

\* A callback runs when the service thread is in lws_service and no callback
\* before it is still in the user's code.
CanCallBack == loop \in InService /\ pc[Service] = "idle"

\* The pending lws_cancel_service makes lws_service return.
Wake ==
  /\ CanCallBack /\ woken
  /\ woken' = FALSE
  /\ loop' = "serving"
  /\ UNCHANGED <<events, data, wsi, ready, torn, closing, writable, sender, written>>

\* lws_service has run its callbacks; the loop begins again.
Return ==
  /\ CanCallBack /\ loop # "wait"
  /\ loop' = "check"
  /\ UNCHANGED <<events, data, wsi, ready, torn, closing, writable, woken, sender, written>>

\* LWS_CALLBACK_CLIENT_ESTABLISHED: the state is set, then on_init runs.
Established(c) ==
  /\ CanCallBack /\ wsi[c] = "connecting"
  /\ wsi' = [wsi EXCEPT ![c] = "open"]
  /\ ready' = ready \cup {c}
  /\ loop' = "callback"
  /\ UNCHANGED <<events, data, torn, closing, writable, woken, sender, written>>

\* LWS_CALLBACK_CLIENT_CONNECTION_ERROR.
ConnectionError(c) ==
  /\ CanCallBack /\ ConnectionsFail /\ wsi[c] = "connecting"
  /\ wsi' = [wsi EXCEPT ![c] = "null"]
  /\ writable' = writable \ {c}
  /\ loop' = "serving"
  /\ UNCHANGED <<events, data, ready, torn, closing, woken, sender, written>>

\* LWS_CALLBACK_CLIENT_RECEIVE: on_receive runs.
Received(c) ==
  /\ CanCallBack /\ wsi[c] = "open"
  /\ loop' = "callback"
  /\ UNCHANGED <<events, data, wsi, ready, torn, closing, writable, woken, sender, written>>

\* Defective variant of DropClient: client_wsi is left as it was.
DropClientDangling(c) ==
  /\ wsi' = [wsi EXCEPT ![c] = "freed"]
  /\ writable' = writable \ {c}

DropClient(c) ==
  /\ wsi' = [wsi EXCEPT ![c] = "null"]
  /\ writable' = writable \ {c}

\* LWS_CALLBACK_CLIENT_CLOSED, when the peer closes the connection.
Closed(c) ==
  /\ CanCallBack /\ ConnectionsFail /\ wsi[c] = "open"
  /\ DropClient(c)
  /\ loop' = "serving"
  /\ UNCHANGED <<events, data, ready, torn, closing, woken, sender, written>>

CanWrite(c) == CanCallBack /\ c \in writable /\ wsi[c] = "open"

\* LWS_CALLBACK_CLIENT_WRITEABLE of a channel that is shut down returns -1, and
\* the connection is closed.
WriteableClosing(c) ==
  /\ CanWrite(c) /\ c \in closing
  /\ DropClient(c)
  /\ loop' = "serving"
  /\ UNCHANGED <<events, data, ready, torn, closing, woken, sender, written>>

\* lws_write writes the queue's front on the wsi that became writable.
WriteFront(c) ==
  written' = IF data = <<>> THEN written
             ELSE Append(written, [on |-> c, packet |-> Head(data).packet,
                                   channel |-> Head(data).channel, from |-> Head(data).from])

\* Defective variants of Writeable: the packet is not popped; no further
\* callback is asked for.
WriteableKeeping(c) ==
  /\ CanWrite(c) /\ c \notin closing
  /\ WriteFront(c)
  /\ Len(written) < MaxPackets + 1
  /\ loop' = "serving"
  /\ UNCHANGED <<events, data, wsi, ready, torn, closing, writable, woken, sender>>

WriteableOnce(c) ==
  /\ CanWrite(c) /\ c \notin closing
  /\ WriteFront(c)
  /\ data' = IF data = <<>> THEN data ELSE Tail(data)
  /\ writable' = writable \ {c}
  /\ loop' = "serving"
  /\ UNCHANGED <<events, wsi, ready, torn, closing, woken, sender>>

\* LWS_CALLBACK_CLIENT_WRITEABLE: at most one packet is written and popped, and
\* the next callback is asked for whether one was or not.
Writeable(c) ==
  /\ CanWrite(c) /\ c \notin closing
  /\ WriteFront(c)
  /\ data' = IF data = <<>> THEN data ELSE Tail(data)
  /\ loop' = "serving"
  /\ UNCHANGED <<events, wsi, ready, torn, closing, writable, woken, sender>>

-----------------------------------------------------------------------------
Sending(t) == PushEvent(t) \/ PushData(t) \/ Nudge(t)

Loop ==
  \/ NoEvent \/ Wake \/ Return
  \/ \E c \in Channels :
       CreateClient(c) \/ CreateClientFails(c) \/ RequestWritable(c) \/ RequestClose(c)

Callback(c) ==
  \/ Established(c) \/ ConnectionError(c) \/ Received(c) \/ Closed(c)
  \/ WriteableClosing(c) \/ Writeable(c)

Next ==
  \/ \E c \in Channels : Create(c) \/ Teardown(c) \/ Callback(c)
  \/ \E t \in Threads : Sending(t) \/ \E c \in Channels : BeginSend(t, c)
  \/ Loop

Spec == Init /\ [][Next]_vars

\* A thread that has begun a send finishes it; the service thread runs; a
\* writable connection gets its callback (lws_service polls them all), however
\* often the loop leaves lws_service in between.
Fairness ==
  /\ \A t \in Threads : WF_vars(Sending(t))
  /\ WF_vars(Loop)
  /\ \A c \in Channels : SF_vars(Writeable(c))

FairSpec == Spec /\ Fairness

-----------------------------------------------------------------------------
(* Properties *)

InHand(t) == IF pc[t] \in {"event", "data"} THEN {job[t].packet} ELSE {}
Queued == {data[i].packet : i \in DOMAIN data}
Written == {written[i].packet : i \in DOMAIN written}

\* Whatever the order of the two queues' pushes and of the callbacks, a packet
\* is in one place: in its thread's hands, in m_data_queue or written, and it is
\* written once.
EachPacketOnce ==
  /\ (UNION {InHand(t) : t \in Threads}) \cup Queued \cup Written = 0..(sends - 1)
  /\ Cardinality(Written) = Len(written)
  /\ Queued \cap Written = {}

\* The packets of one thread are written in the order of its send_data calls.
ThreadOrderKept ==
  \A i, j \in DOMAIN written :
    i < j /\ written[i].from = written[j].from => written[i].packet < written[j].packet

\* A connection could not be made, is gone or is about to go; the process may
\* have ended with it.
Broken ==
  \/ loop = "dead" \/ torn # {}
  \/ \E c \in Channels : wsi[c] = "null" /\ Event(c, "create") \notin ToSet(events)

\* Unless a connection fails or is torn down, every packet is written: the event
\* that is pushed before the packet may be spent before the packet is there, so
\* the WRITEABLE callback that finds nothing has to ask for another one, and
\* nudges that are merged into one must not leave an event behind.
EveryPacketIsWritten ==
  \A p \in 0..(MaxPackets - 1) : (sends > p) ~> (p \in Written \/ Broken)

\* A packet is written on the channel it was sent on.
OwnChannel == \A i \in DOMAIN written : written[i].on = written[i].channel
=============================================================================
