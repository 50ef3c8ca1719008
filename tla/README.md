# rb_docker: a verification project for the Corelink bridge

The repository runs ROS 2 mapping in containers and bridges ROS topics to a
Corelink server. Its own program logic is the bridge node
(`src/src/bridge_node`) with the Corelink C++ client it vendors and builds on
(`src/src/bridge_node/corelink_cpp`). This directory holds TLA+ modules that
model that logic, the TLC configurations that check them on small instances,
and TLAPS proofs of what matters most about them. Paths below are relative to
`src/src/bridge_node`.

## The system

| Component | State | Operations | Talks to |
|---|---|---|---|
| Control channel (`corelink_cpp/include/core/corelink_client.hpp`) | `m_completion_handlers`, `m_outbound_control_msg_queue`, `channel_in_use`, `response_stream` | `request`, the `on_receive` of `add_control_channel` | the server over a websocket; response handlers; the application's completions |
| Functions of the server (`corelink_client_request_response_handlers.hpp`, its payload prototypes, `utils/json.hpp`) | the session's `auth_token`, in the control channel's descriptor | one request and one response handler per function; `append`, `get_int`, `get_str` | `request` and `on_receive` |
| Client channel table (same file) | `m_corelink_channels` | `add_control_channel`, `handle_create_sender`, `handle_create_receiver`, `send_data` | the protocol managers, from three threads |
| Protocol manager base (`corelink_data_xchg_ip_proto_base`) | `m_channel_descriptors`, state bits, default channel | `add_channel`, `add_and_init_channel`, `get_channel`, `teardown_all` | the client |
| Websocket manager (`corelink_data_xchg_websocket_proto_manager`) | `m_event_queue`, `m_data_queue`, each channel's `client_wsi` and shutdown flag | `init`, `teardown`, `send_data`, `run`, `event_callback` | libwebsockets on its service thread |
| TCP and UDP managers | socket, receive buffer, `bytes_read` | `init`, `teardown`, `send_data`, `start_receiver` | asio on its own thread |
| Packet escrow (`corelink_network_global_packet_hold`) and `concurrent_counter` | `packet_escrow`, `current_slot` | `assign_or_override_slot`, `get_packet`, `clear_packet` | `send_data` of all three managers |
| Context manager | asio context, running flag, thread | start, stop | TCP and UDP managers |
| Transport and node (`src/corelink_transport.cpp`, `src/bridge_node.cpp`) | `m_control_channel_id`, `m_data_channel_id`, local publisher and subscription | `connect`, `createSender`, `createReceiver`, `sendData`, `onLocalMessage`, `onCorelinkMessage` | the client; ROS |
| Fragments, system and random helpers, launch files, mapping scripts, teleoperation | none that is shared | | |

Three threads run the bridge: the ROS executor (the main thread), the websocket
service thread, on which every control channel callback runs, and the asio
thread of the TCP and UDP channels. `send_data` is called from all three.

What is hard here: callbacks that run before the call that caused them has
recorded its result; a claim on the control channel that several paths release;
two queues filled by several threads under two locks and drained by a third;
wake-ups that merge; a ring of slots whose counter is checked and stepped in
two operations; messages that are split and joined on their way. What makes
each part correct: the control channel keeps one request outstanding, and loses
and repeats none; every request made of a server that answers completes; a
packet in flight is not replaced; every packet is written once, in its thread's
order, on its own channel; a channel is known before it is used; nothing is
bridged before authentication; the server is asked for what the application
asked, in the session opened last, and the application is told what became of it.

## Modules

Each definition that models code is listed, with its lines, in `PROJECT.json`
under `map`.

**`RequestService`** is the abstract promise of the control channel: a request
is accepted, started when none is active, and retired; nothing else happens to
it.

**`ControlChannel`** is `request()` and `on_receive`. `response_stream` is the
sequence of complete messages the client has collected; `Receive(n)` joins any
number of arrived messages to it (zero for a read that completes none), `Serve`
takes one and looks its handler up, `Unserved` is the two early returns,
`CallbackReturns` and `CallbackThrows` end the handler, `Retire` erases the
entry and releases the claim, `Pump` is the peek, `request`, pop at the end.
`Request` may happen while a handler runs, since callbacks make requests. The
server (`Reply`, `Ignore`, `Spontaneous`) is external: answers in the order of
the requests it reads, events and messages nobody asked for, and, when
`ServerIgnores`, no answer at all.

**`ControlStream`** is the loop of `on_receive` that makes those messages out of
bytes. A byte opens a brace, closes one or is any other; `Ends` are the places
where the loop would cut, which depends on the index's width (`Cast` is the
`int16_t` cast of the stream's size); `Complete` is the string it parses, all of
the stream when the cast makes the end look like the last byte. `Split` ends the
read early when the message has no handler or a handler throws. It implements
`PacketStream`, with the messages sent for packets.

**`FunctionTable`** is the table of request and response handlers as data: for
each function the name it is sent by, which member of the document carries which
parameter, which members are left out when a parameter is not set, whether the
name and the token are in the document, what a missing `statusCode` becomes, and
whether the answer is handed on. JSON objects are functions; `WithMember`,
`WithMembers`, `GetInt` and `GetStr` are the operations of `json` on them.

**`FunctionCalls`** sends these documents: `Request` queues a call or makes its
document (`Document`, `Dispatch`), `Report` is the response handler with
`handle_authenticate`, `Return` what follows it, `Event` a message of the server's
own, with the turn of the queue it causes. The server (`OpenSession`, `Perform`,
`Refuse`, `Ignore`) is external: it opens sessions, acts on requests of a session
it opened, and answers with a `statusCode` that is a number, something else or
absent. One request is outstanding at a time, as `ControlChannel` shows, and
answers come out whole, as `ControlStream` shows. What a request should say is stated
apart from the table: `Concerning` is the parameters that concern a function, `Means`
what each member of a document may stand for. A parameter is the value of one call and
one field, so a member that carries another field's value is told apart. (`echo` of a
sender, which the transport sets at `corelink_transport.cpp:92`, has no member in its
request; `Concerning` takes it for a receiver's parameter.)

**`PacketEscrow`** splits `current_slot++` into the operations of
`concurrent_counter`: the check (`Begin`), `fetch_add` (`Increment`), or the
store and the reload of a reset (`Reset`, `Reload`). `Store` moves the packet
into the slot. `held` is the set of sends that refer to a slot; `Transmit`
reads it, `Complete` is the raw transports' `clear_packet`.

**`WebsocketManager`** is the service loop and the two queues. A sending thread
takes three steps (`PushEvent`, `PushData`, `Nudge`); the loop takes at most
one event and enters `lws_service` (`NoEvent`, `CreateClient`,
`RequestWritable`, `RequestClose`; a client that cannot be created ends the process in
`CreateClientFails`, whose `on_protocol_error` nothing sets), which calls back (`Established`,
`ConnectionError`, `Received`, `Closed`, `WriteableClosing`, `Writeable`) and
returns, woken or not (`Wake`, `Return`). `Writeable` writes at most the front
of `m_data_queue` on the connection that became writable.

**`BridgeSetup`** is the node from its constructor to its messages, with the
main, service and asio threads as three positions (`main`, `lws`, `stream`).
The control channel appears as the queue `requests`, answered in order, which
is what `ControlChannel` establishes; it opens, fails, or is closed later
(`ControlCloses`, which the node is not told of: what is requested then is never
answered). Lookups with `at()` that fail on a thread
that catches nothing end the process (`failure`).

**`PacketStream`** is the abstract promise of a data stream: the packets given
to `send_data` reach the handler as they were, once each and in order, until the
stream is broken, by what happens to it or by a packet it cannot carry.

**`DataStream`** is a TCP or websocket data stream from one client's `send_data`
to another's handler. Bytes are numbered, so a sequence of numbers says exactly
which bytes a buffer holds. It begins with the answer to create_receiver: the channel
is registered (`Register`) while its connection opens (`Open`, whose ping ends the
process when it comes first). `SendData` frames a packet unless it exceeds the MTU,
whether or not its size fields hold its sizes; `Write` puts a frame, or
a part of it, on the wire (the part that is left goes
behind the writes begun meanwhile, as the operations of one socket do); `Read`
and `ReadShort` are `on_receive` with any number of bytes: of a TCP stream any
part, of a websocket any part of one message, since the callback hands on whatever
fragment libwebsockets has. `Read` looks the channel up and drops the bytes when it is
not there. `Deliver` and `Incomplete` are the two branches of its loop. `disturbed`
records that bytes of a short read were dropped, bytes mixed, cut out of a websocket message or framed
under a size that its field does not hold; `spoilt` names the packets of the last two
kinds. `Sizes` is what the loop reads as
sizes: when the header lies past the end of the data, anything.

**`RawChannel`** is one channel of the TCP or UDP manager, from `init` to the end
of the client. The asio thread's handlers are one action each (`Resolved`,
`Connected`, `Refused`, `OnInit`, `HandleEnd`, `HandleError`, `HandleChunk`,
`HandleDatagram`, `HandleWithoutSocket`); a receive completes (`Fill`,
`ReadFails`, `Aborted`) before its handler runs, and several may be in progress.
The main thread returns from `init`, sends, tears the channel down in two steps
(`Close`, `Reset`) and stops the context (`Stop`), whose thread may not have run
yet (`RunnerStarts`).

**`ControlChannelProofs`, `PacketEscrowProofs`, `WebsocketManagerProofs`,
`BridgeSetupProofs`, `DataStreamProofs`, `RawChannelProofs`, `ControlStreamProofs`,
`FunctionCallsProofs`** hold the theorems. **`MCControlChannel`,
`MCPacketEscrow`, `MCWebsocketManager`, `MCControlStream`, `MCFunctionCalls`** name
instances and symmetries for TLC.

## Runs

| Run | Shows | Bounds |
|---|---|---|
| `control_requests` | types, one request outstanding, none lost or repeated, the claim held exactly while an answer is awaited, refinement of `RequestService`, whatever the server sends and handlers throw; until a message goes unserved, a handler throws or a request is ignored: every request completes, no read leaves a message in the stream, no queue is left behind a free channel | 3 requests, 2 kinds of event, 2 spontaneous messages |
| `control_stream` | messages are cut out of the stream whole, once and in order; a read leaves no whole one behind; every one is served; refinement of `PacketStream`; until a closing brace in a string comes in or the stream outgrows the index | 4 messages of 2, 4 and 5 bytes, an index of 12 values |
| `function_calls` | a request carries the token of the session opened last; what the server performs is what was asked, each parameter under a member that means it, but for the workspaces of `disconnect`; a completion handler that hears of success hears the truth, unless the answer has no `statusCode` and its handler takes that for success; every call is reported | 4 calls: two logins, one of any of the 29 functions with none or five of its parameters unset, one that names no function |
| `escrow_slots` | two threads never leave the array; while they take their slots in turn, with no more packets in flight than slots, packets outside slot 0 stay | 2 threads, 3 slots, window 3, 9 packets: the ring is filled twice over, and both threads wrap together |
| `escrow_wrap` | violated: slot 0 is given out twice in a row | |
| `websocket_sends` | a packet is in one place and written at most once, in its thread's order; with connections that last, all are written | 2 packets, 2 sending threads |
| `websocket_mixed` | violated: a packet is written on another channel's connection | 2 channels |
| `bridge_start` | authentication before streams, update handler before announcements, websocket streams registered before use; a control channel that opens in time gets the node its stream or a reported failure, unless it is closed meanwhile | both directions, three protocols, 2 updates and messages |
| `bridge_udp` | violated: a UDP stream is used before the client knows it | |
| `stream_frames` | however writes and reads cut the stream, packets come out whole, once, in order, and none is held back; refinement of `PacketStream`; every packet arrives; on a disturbed stream, too, no byte is handed on twice, and a websocket message that is cut, or whose sizes overflow, costs no other one | 2 packets, headers of 0 and 1, data of 0, 1 and 2 bytes, a header of 2 bytes, size fields that hold less than 2, an MTU of 4 |
| `stream_short` | violated: a read shorter than a frame's first part is dropped, and the stream is out of step | |
| `raw_receive` | the socket is there when it is used while the client runs; a receiver always listens, once more for each burst; until the first burst, refinement of `PacketStream`; every datagram is handed on | 3 datagrams of 0 to 3 bytes, a buffer of 3; names, connections and reads fail |

Bounds. Requests interfere in pairs (the outstanding one and the queue's head);
a third gives the queue a rotation that matters. The escrow's errors need one
wrap and two owners of a slot; the counter wraps twice in nine packets. Two
packets per run of the websocket model let an event be spent on the other's
packet, and two connections give every callback a wrong neighbour. Set-up is
finite but for announced senders and messages, whose counts only lengthen the
same loop. A frame's neighbours in the stream are the one before and the one
behind, and two frames cut at every byte put every cut into header, JSON and
data; the sizes scale 8 bytes and 16 bits down so that the MTU lets a packet through
whose data its size field does not hold, and stops the largest (the server announces
the MTU, and nothing keeps it below 64 KiB). Header and data of 1 and 2 bytes on top of
the header of 2 are above the MTU, so `SendData`'s refusal is taken.
Three datagrams are one before a burst, or a burst and one after it; a buffer of
3 bytes lets a burst hit the limit of `bytes_read` and pass it.

Four messages of at most 5 bytes pass half of the index's 12 values, where the
stream is no longer looked at, and all of them, where its size wraps. Two logins
with a call queued between, before and behind them put every call into the wrong
session once; the call of any function takes the place of each entry of the table
in turn.

Deadlock checking is off where the system stops: all requests served, all
packets sent, the process ended.

## Fairness

`ControlChannel!FairSpec`: the service thread goes on with a read it has begun
(weak fairness of its steps), a handler returns, bytes that have arrived are
read again and again (strong, since a read may carry an incomplete message) and
the server answers what it has read. `WebsocketManager!FairSpec`: a thread
finishes the send it began, the loop runs, and libwebsockets serves a
connection that stays writable however often the loop leaves `lws_service`
(it polls all descriptors, hence strong). `BridgeSetup!FairSpec`: the
service thread goes on with what it has begun, a data channel's connection is made or
fails, and the server answers as long as the control channel is open. Nothing is assumed
of the main thread, nor of the control channel's own connection: `init` queues its create
event without waking the service thread, so it may wait in `lws_service` for ever.
`DataStream!FairSpec`: the
asio threads at both ends run, so a write that can be made is made and bytes
that have arrived are read. `RawChannel!FairSpec`: the context's thread starts
and runs the handlers that are due, and a receive that finds data again and
again gets it (strong: a read may fail in between, but not for ever).
`ControlStream!FairSpec`: bytes that have arrived are read, and a read goes on.
`FunctionCalls!FairSpec`: the server answers a request it can tell the function
of, and the service thread reports an answer and returns. Nothing is
assumed of the application, of the server's events or of failures.

## Proofs

The proofs hold for every value of the constants under the assumptions named in
the modules.

*Control channel.* `TypeOK` and the properties are not inductive together. The
invariant adds that at most one entry is armed (`AtMostOneArmed`), that a
request on the wire is the armed one and is not answered yet
(`ServerConsistent`), and that an answer on its way or in the stream was
answered by the server (`ResponsesGenuine`). From it follow `OneOutstanding`,
`NoRequestLostOrDuplicated`, `InUseIffArmed`, and the refinement: `Request` maps
to Accept and Start, `Pump` to Start, `CallbackReturns` to Retire, all else to a
stutter.

`QueueNeverStalls` and `ReadsDrainTheStream` add what a read that has not ended
early keeps: a thread that is idle has emptied the stream, and a queue behind a
free channel is pumped before the thread is idle again. Both are stated until
the first unserved message or exception, which the model records in `faults`.

*Escrow.* `TwoThreadsStayInRange` holds for any number of slots and two threads:
the invariant bounds the counter by the threads that passed the check and have
not added yet. Two is what a bridge process has: it serves one direction, so the
service thread sends requests and either the executor (a sender) or the asio
thread (a receiver's ping) sends data. Three threads that pass the check together
do leave the array. `SerialSendsKeepPackets` holds for any number of threads, as long
as no two are in `assign_or_override_slot` together (`overlapped` records it)
and the window is no larger than the array: the packets in flight are numbered
within one window, and the slot of each is determined by how far the counter has
moved since (`SerialInv`).

*Websocket manager.* Any number of threads, channels and packets, any failures of the
connections. `PlaceInv` says that a packet is held by the thread that sends it, is
in `m_data_queue` or is written, and only one of these, once; `KeptInv` that every
packet `send_data` took is in one of them; `OrderInv` that a thread's written packets
come before its queued ones, and these before the one it holds. Only the three together
are inductive: a packet goes to the end of the queue because its thread holds no
earlier one, and `Writeable` writes the front. `EventInv` says what an event that is
still queued may be about (a channel that was initialised, or torn down), which the
types need. The properties follow for every interleaving of the two pushes with the
loop (`PacketsAreKept`, `OrderIsKept`). The channel a packet is written on is not
among them: `websocket_mixed` shows it may be the wrong one.

*Bridge.* `WebsocketStreamsRegistered` rests on the service thread: it
registers the channel before it can run that channel's on_init.
`SetUpIsOrdered` rests on `Ordered`: nothing
is requested before the control channel opens, authenticate is alone in the
queue, and a stream is asked for only with the update handler in place.

*Data stream.* Any sizes of header and data, any cuts by writes and reads, any number
of packets. `FramesInv` lays the frames end to end, and `FlowInv` says, until the
stream is disturbed, that the bytes delivered, kept, worked on, on the wire and to be
written are that line, cut into consecutive pieces, the first cut at the end of the
last packet delivered. So the sizes that `on_receive` reads are those of the next
frame, whenever its header is complete, and `Deliver` hands on that frame; its
fields hold them, which is part of `FramesInv`, because a packet for which they do not
disturbs the stream when it is sent. `CutInv`
says that what a read leaves is less than a packet: `NoneHeldBack` follows.
`ImplementsStream` maps `SendData` to Accept, `Deliver` to Deliver or, once disturbed,
to Garble; a dropped read, a write that mixes or a websocket message that is cut to
Break. Nothing is assumed of sizes, MTU or cuts. The lookup in `Read`
never fails (`BufferInv`): the ping of a receiver whose connection opens before its
channel is registered ends the process. `BytesOnce` holds of a stream that is out of step,
too: no byte is handed on twice. Its invariant (`PlaceInv`) gives each byte one
place, to be written, on the wire, kept, in the rest of the chunk or handed on, and
needs no order.

*Function calls.* Any calls of any of the 29 functions, with any of their optional
parameters unset, any number of sessions, any forms of answers. `TableOK` goes through
the table once: no member of a request has the name of one that `request` adds, every
parameter that concerns the function is sent by some member, each member carries a
parameter it means (all but one of `disconnect`'s, `Misplaced`), and one that is left out
is left out everywhere (`EntryOK`). `DocumentIs` and `SaysWhatIsAsked` conclude what
any document holds. `ReportsTrue` names its exceptions: an answer without a `statusCode`
for the handlers that take that for success, and the two create functions, which hand
on no response. The invariant says that a request on its way is the document of
the outstanding call with the token the client has now (`ChannelInv`), that this
is the token of the session granted last unless the answer that is on its way brings
a later one (`SessionInv`), that no call is sent twice, although events turn the queue
(`FreshInv`), and that the answer and what was reported of earlier calls agree with
what was performed (`AnswerInv`, `ReportedInv`). What it takes from the control channel
is that answers come back to the outstanding call.

*Raw channel.* Any size of the buffer, any sizes of datagrams that fit it, any
number of them. `SocketInv` says that only a receiver that is up reads, and that
what it reads with is there until the client ends. With it, every handler of the
receive loop gives back the receive it consumed, and one more for each burst
(`AccountedInv`): a receiver never stops listening before the end of the file.
Before the first burst that leaves one receive, so nothing overwrites the buffer
while a handler is due; `OrderInv` numbers the datagrams that left the socket,
and `ImplementsStream` concludes that each is handed on whole, once and in
order: `Arrive` maps to Accept, `HandleChunk` and `HandleDatagram` to Deliver or,
after a burst, to Garble; a burst and `Close` to Break.

*Control stream.* Any messages of at least one byte, any cuts, any width of the
index. The server's bytes are kept in a log with the place where each message
starts. `PendingInv` says that stream and wire are the end of the log, and
`AlignedInv`, while the stream is not broken, that what was taken out of it is a
number of whole messages, so that the next message starts where the stream does.
`CutBehindText` is the heart: a stream that begins with an object, as far as it
goes, is cut behind that object and nowhere else, because no brace count returns
to zero earlier; and it is cut there when the object is complete and the index can
count it. `ImplementsStream` maps `Send` to Accept, `Split` to Deliver (or to Garble
once broken) and `Receive` to a stutter or to Break; `LeavesNothingBehind` adds that
a read ends only when nothing more can be cut.

Every invariant and every refinement of a passing run is proved, but for
`SpoiltAlone` of the data stream, which is model-checked only. Liveness
(`EveryRequestCompletes`, `EveryPacketIsWritten`, `SetupSettles`,
`EveryPacketArrives`, `EveryDatagramHandedOn`, `EveryMessageServed`,
`EveryCallReported`) is model-checked only: its proofs need ENABLED and fairness, which
the provers do not handle.

## What disagrees with the source's own words

Four runs expect a violation; `PROJECT.json` quotes the lines. In short: slot 0 is
handed out twice per wrap; the websocket data queue is not per channel; a UDP or
TCP stream is announced to the node before the client has registered it; a short
TCP read is dropped though it continues a packet.

Others are in the exceptions the properties name. A message without a handler
stops the splitting of a read, and those behind it wait (`faults` in
`ControlChannel`, `cut` in `ControlStream`; `corelink_client.hpp:615-623` against the
comment at 578-580). A burst of datagrams is handed on as one, garbled (`bursts` in
`RawChannel`). A brace in a string, or a response of 32 KiB, puts the scanner out of
step (`broken` and `Indexed` in `ControlStream`). A packet whose sizes its fields do not
hold comes out wrong, and a websocket message that reaches `on_receive` in parts is
thrown away part by part, although the client knows of the same callback that data "is
not guaranteed to be the whole message" (`corelink_client.hpp:578-579`; both are
`disturbed` in `DataStream`, and `spoilt` there). A control channel that drops fails no
send on the data channel, though the comment at `corelink_transport.cpp:73-75` says that
sends then fail (`ControlCloses` in `BridgeSetup`). `create_sender` and `create_receiver`
are confirmed whatever the server answered, though `corelink_transport.cpp:111-113` takes
that for the server's acceptance (`NoResponse` in `FunctionCalls`).
`stream_info`, `unsubscribe` and `expire_user_session` send neither their name nor the
token, though the prototypes say of the first that "the client library silently inserts a
token value" (`corelink_client_request_response_payload_prototypes.hpp:245-246`;
`Unnamed` in `FunctionTable`). `disconnect` sends its types once more as its workspaces,
and its workspaces not at all (`Misplaced` and `Unsent` in `FunctionCalls`;
`corelink_client_request_response_handlers.hpp:1059`), and most response handlers take
an answer without a `statusCode` for success (`missing`).

## Not modelled

The parts of `utils/json.hpp` the client does not use (arrays as the root, remove,
clear, try_parse), the contents of answers beyond success, token and result,
data races on the standard containers (no
enumerable outcomes; `RawChannel` tears a channel down in two steps, what lies
between finer ones is undefined), a write of which the socket takes a part while
no other write waits (the reads cut the stream in any case), the default channel
of the channel table (no channel is ever removed, so no lookup by id falls back
on it; teardown_all's event for it is ignored, and the search by wsi casts it to
a descriptor it is not, which is undefined), the fragment stub (not built), launch files, scripts and teleoperation (one
sequential process each).

## Plan

Done: `RequestService`, `ControlChannel`, `PacketEscrow`, `WebsocketManager`,
`BridgeSetup`, `PacketStream`, `DataStream`, `RawChannel`, `ControlStream`,
`FunctionTable`, `FunctionCalls`. The order was that of importance: the control
channel decides whether anything works, the escrow and the queues carry every
packet, set-up joins the threads, the streams carry the data, the functions are
what the control channel carries. Next:

1. Composition: `ControlChannel` under `BridgeSetup` instead of its abstraction,
   `RawChannel`'s reads under `DataStream`, whose refinements meet in `PacketStream`.
2. The proof of `SpoiltAlone`: for a websocket the bytes that no read has taken are whole
   messages and the rest of one, so each unspoilt packet is one read.
