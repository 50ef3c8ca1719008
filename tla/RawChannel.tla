----------------------------- MODULE RawChannel -----------------------------
(***************************************************************************)
(* One channel of the TCP or the UDP protocol manager, from the init of    *)
(* add_and_init_channel to the end of the client: name resolution and      *)
(* connection, the receive loop on the asio thread, and destroy(), which   *)
(* tears the channels down on the main thread and then stops the context   *)
(* (src/core/corelink_data_xchg_{tcp,udp}_proto_manager.cc,                *)
(* corelink_data_xchg_raw_socket_protocol_context_manager.cc).             *)
(*                                                                         *)
(* Datagrams, and the chunks a TCP read returns, are numbered as they      *)
(* arrive.  Every receive starts at the front of receive_buffer, so a byte *)
(* of the buffer is told by its place and the number of its datagram.      *)
(***************************************************************************)
EXTENDS Naturals, Sequences

CONSTANTS
  Protocols,     \* a subset of {"tcp", "udp"}
  BufferSize,    \* the size of receive_buffer: 65535
  Sizes,         \* the sizes of datagrams
  MaxDatagrams,  \* bound: datagrams that arrive
  Ends,          \* may the client end?
  Fails          \* may resolution, connection and reads fail?

ASSUME RawAssumption ==
  /\ Protocols \subseteq {"tcp", "udp"}
  /\ BufferSize \in Nat /\ BufferSize >= 1
  /\ Sizes \subseteq 0..BufferSize
  /\ MaxDatagrams \in Nat
  /\ {Ends, Fails} \subseteq BOOLEAN

VARIABLES
  protocol, start_receiver,  \* what the channel is; a receiver has the flag set
  state,       \* m_channel_state
  socket,      \* "null", "closed" or "open"
  owner,       \* where the thread stands that begins and ends the channel
  runner,      \* the thread that runs the asio context
  pending,     \* the operation asked of asio: "resolve", "connect" or "none"
  on_init,     \* is on_init due, running next on the asio thread, or over?
  receives,    \* receives in progress
  done,        \* the results of completed receives whose handlers are to run
  arrived,     \* history: the sizes of the datagrams that arrived
  inbox,       \* those the socket holds
  buffer,      \* receive_buffer
  bytes_read,
  delivered,   \* history: what on_receive was called with
  bursts,      \* history: reads that found more data waiting
  ended,       \* history: did a read find the end of the file?
  failure      \* how the process ended: "none", "null_pointer", "thrown"

channel == <<protocol, start_receiver>>
network == <<arrived, inbox>>
reading == <<buffer, bytes_read, delivered, bursts, ended>>
vars == <<channel, state, socket, owner, runner, pending, on_init, receives, done,
          network, reading, failure>>

Data(n) == [kind |-> "data", id |-> n]
Result(kind) == [kind |-> kind, id |-> 0]
Results ==
  {Data(n) : n \in DOMAIN arrived} \cup {Result(kind) : kind \in {"eof", "error", "aborted"}}

TypeOK ==
  /\ protocol \in Protocols /\ start_receiver \in BOOLEAN
  /\ state \subseteq {"initialised", "connected", "in_error"}
  /\ socket \in {"null", "closed", "open"}
  /\ owner \in {"init", "running", "closed", "torn", "over"}
  /\ runner \in {"starting", "running", "stopped"}
  /\ pending \in {"resolve", "connect", "none"}
  /\ on_init \in {"before", "next", "over"}
  /\ receives \in Nat
  /\ done \in Seq(Results)
  /\ arrived \in Seq(Sizes) /\ Len(arrived) <= MaxDatagrams
  /\ inbox \in Seq(DOMAIN arrived)
  /\ buffer \in [1..BufferSize -> 0..MaxDatagrams]
  /\ bytes_read \in Nat
  /\ delivered \in Seq(Seq(0..MaxDatagrams))
  /\ bursts \in Nat
  /\ ended \in BOOLEAN
  /\ failure \in {"none", "null_pointer", "thrown"}

\* init_protocols has started the context manager; its thread may be yet to run.
ManagersReady == runner = "starting"

\* create_sender or create_receiver makes a channel of the stream's protocol,
\* with a receiver for create_receiver.
Created == protocol \in Protocols /\ start_receiver \in BOOLEAN

Descriptor ==
  /\ state = {} /\ socket = "null"
  /\ buffer = [k \in 1..BufferSize |-> 0] /\ bytes_read = 0

\* add_and_init_channel has entered the channel in the table, and init, which it
\* calls, has asked for the name resolution and not returned yet.
Added == owner = "init" /\ pending = "resolve" /\ on_init = "before"

Init ==
  /\ ManagersReady /\ Created /\ Descriptor /\ Added
  /\ receives = 0 /\ done = <<>>
  /\ arrived = <<>> /\ inbox = <<>>
  /\ delivered = <<>> /\ bursts = 0 /\ ended = FALSE
  /\ failure = "none"

Alive == failure = "none"
\* The asio thread can run a handler.
CanHandle == Alive /\ runner = "running" /\ on_init # "next"

-----------------------------------------------------------------------------
(* The context manager *)

\* The thread start_context_manager started sets the flag and runs the context.
RunnerStarts ==
  /\ Alive /\ runner = "starting"
  /\ runner' = "running"
  /\ UNCHANGED <<channel, state, socket, owner, pending, on_init, receives, done, network,
                 reading, failure>>

\* stop_context_manager does nothing when the flag is not set yet.
Stop ==
  /\ Alive /\ owner = "torn"
  /\ owner' = "over"
  /\ runner' = IF runner = "running" THEN "stopped" ELSE runner
  /\ UNCHANGED <<channel, state, socket, pending, on_init, receives, done, network, reading,
                 failure>>

-----------------------------------------------------------------------------
(* From init to on_init *)

\* init sets the state when the resolution has begun, and may come second.
InitReturns ==
  /\ Alive /\ owner = "init"
  /\ state' = state \cup {"initialised"}
  /\ owner' = "running"
  /\ UNCHANGED <<channel, socket, runner, pending, on_init, receives, done, network, reading,
                 failure>>

\* start_receiver called n times, with `left' receives still in progress.  UDP
\* opens a closed socket; TCP reports an error unless it is connected.
StartReceiver(n, left) ==
  \/ /\ socket = "null"
     /\ failure' = "null_pointer"
     /\ receives' = left
     /\ UNCHANGED socket
  \/ /\ socket # "null" /\ protocol = "udp"
     /\ socket' = "open"
     /\ receives' = left + n
     /\ UNCHANGED failure
  \/ /\ socket # "null" /\ protocol = "tcp"
     /\ receives' = IF socket = "open" /\ "connected" \in state THEN left + n ELSE left
     /\ UNCHANGED <<socket, failure>>

\* Resolution or connection failed: on_error is called.
Refused ==
  /\ Fails /\ CanHandle /\ pending # "none"
  /\ state' = state \cup {"in_error"}
  /\ pending' = "none"
  /\ UNCHANGED <<channel, socket, owner, runner, on_init, receives, done, network, reading,
                 failure>>

\* Defective variant of Resolved: on_init runs without waiting for the socket.
ResolvedLate ==
  /\ CanHandle /\ pending = "resolve"
  /\ pending' = "none" /\ on_init' = "next"
  /\ UNCHANGED <<channel, state, socket, owner, runner, receives, done, network, reading, failure>>

\* The handler of async_resolve creates the socket.  TCP goes on to connect; UDP
\* starts its receiver and is up.
Resolved ==
  /\ CanHandle /\ pending = "resolve"
  /\ \/ /\ protocol = "tcp"
        /\ socket' = "open"
        /\ pending' = "connect"
        /\ UNCHANGED <<on_init, receives>>
     \/ /\ protocol = "udp"
        /\ socket' = IF start_receiver THEN "open" ELSE "closed"
        /\ receives' = IF start_receiver THEN 1 ELSE 0
        /\ pending' = "none" /\ on_init' = "next"
  /\ UNCHANGED <<channel, state, owner, runner, done, network, reading, failure>>

\* The handler of async_connect.
Connected ==
  /\ CanHandle /\ pending = "connect"
  /\ state' = state \cup {"connected"}
  /\ receives' = IF start_receiver THEN 1 ELSE 0
  /\ pending' = "none" /\ on_init' = "next"
  /\ UNCHANGED <<channel, socket, owner, runner, done, network, reading, failure>>

\* on_init, the end of the same handler.  A receiver pings the server: send_data
\* looks at the socket, and UDP opens it.
OnInit ==
  /\ Alive /\ runner = "running" /\ on_init = "next"
  /\ on_init' = "over"
  /\ failure' = IF start_receiver /\ socket = "null" THEN "null_pointer" ELSE failure
  /\ socket' = IF start_receiver /\ protocol = "udp" /\ socket = "closed" THEN "open" ELSE socket
  /\ UNCHANGED <<channel, state, owner, runner, pending, receives, done, network, reading>>

\* The node's send_data, on a channel that is up.
Send ==
  /\ Alive /\ owner = "running" /\ on_init = "over"
  /\ failure' = IF socket = "null" THEN "null_pointer" ELSE failure
  /\ socket' = IF protocol = "udp" /\ socket = "closed" THEN "open" ELSE socket
  /\ UNCHANGED <<channel, state, owner, runner, pending, on_init, receives, done, network,
                 reading>>

-----------------------------------------------------------------------------
(* The receive loop *)

\* Data from the network reaches the open socket.
Arrive(size) ==
  /\ Alive /\ start_receiver /\ Len(arrived) < MaxDatagrams
  /\ socket = "open" /\ ~ended
  /\ protocol = "udp" \/ ("connected" \in state /\ size > 0)
  /\ arrived' = Append(arrived, size)
  /\ inbox' = Append(inbox, Len(arrived) + 1)
  /\ UNCHANGED <<channel, state, socket, owner, runner, pending, on_init, receives, done, reading,
                 failure>>

\* Defective variant of Fill: data is taken that no receive asked for.
FillUnasked ==
  /\ Alive /\ inbox # <<>>
  /\ buffer' = [k \in 1..BufferSize |-> IF k <= arrived[Head(inbox)] THEN Head(inbox) ELSE buffer[k]]
  /\ done' = Append(done, Data(Head(inbox)))
  /\ inbox' = Tail(inbox)
  /\ receives' = receives - 1
  /\ UNCHANGED <<channel, state, socket, owner, runner, pending, on_init, arrived, bytes_read,
                 delivered, bursts, ended, failure>>

\* A receive in progress gets it, at the front of the buffer.
Fill ==
  /\ Alive /\ receives > 0 /\ inbox # <<>>
  /\ buffer' = [k \in 1..BufferSize |-> IF k <= arrived[Head(inbox)] THEN Head(inbox) ELSE buffer[k]]
  /\ done' = Append(done, Data(Head(inbox)))
  /\ inbox' = Tail(inbox)
  /\ receives' = receives - 1
  /\ UNCHANGED <<channel, state, socket, owner, runner, pending, on_init, arrived, bytes_read,
                 delivered, bursts, ended, failure>>

\* A receive fails, or finds the end of the file (TCP, when all was read).
ReadFails(kind) ==
  /\ Fails /\ Alive /\ receives > 0
  /\ kind = "error" \/ (kind = "eof" /\ protocol = "tcp" /\ inbox = <<>>)
  /\ done' = Append(done, Result(kind))
  /\ receives' = receives - 1
  /\ UNCHANGED <<channel, state, socket, owner, runner, pending, on_init, network, reading, failure>>

Handled == CanHandle /\ done # <<>> /\ done' = Tail(done)

\* The buffer from its front; beyond its end the bytes are anything.
Front(n) == [k \in 1..n |-> IF k <= BufferSize THEN buffer[k] ELSE 0]

\* The end of the file: on_error, and nothing is read any more.
HandleEnd ==
  /\ Handled /\ Head(done).kind = "eof"
  /\ ended' = TRUE
  /\ UNCHANGED <<channel, state, socket, owner, runner, pending, on_init, receives, network,
                 buffer, bytes_read, delivered, bursts, failure>>

\* Defective variant of HandleError: the receiver is not started again.
HandleErrorSilently ==
  /\ Handled /\ Head(done).kind \in {"error", "aborted"}
  /\ UNCHANGED <<channel, state, socket, owner, runner, pending, on_init, receives, network,
                 reading, failure>>

\* Any other error, the abort of a receive included: on_error, and another try.
HandleError ==
  /\ Handled /\ Head(done).kind \in {"error", "aborted"}
  /\ StartReceiver(1, receives)
  /\ UNCHANGED <<channel, state, owner, runner, pending, on_init, network, reading>>

\* TCP hands on what was read, and reads on.
HandleChunk ==
  /\ Handled /\ Head(done).kind = "data" /\ protocol = "tcp"
  /\ delivered' = Append(delivered, Front(arrived[Head(done).id]))
  /\ bytes_read' = 0
  /\ StartReceiver(1, receives)
  /\ UNCHANGED <<channel, state, owner, runner, pending, on_init, network, buffer, bursts, ended>>

\* What available() says: the size of the next datagram.
Available == IF inbox = <<>> THEN 0 ELSE arrived[Head(inbox)]

\* Defective variant of HandleDatagram: bytes_read is not reset.
HandleDatagramCounting ==
  /\ Handled /\ Head(done).kind = "data" /\ protocol = "udp" /\ socket = "open"
  /\ bytes_read' = bytes_read + arrived[Head(done).id]
  /\ delivered' = Append(delivered, Front(bytes_read'))
  /\ StartReceiver(1, receives)
  /\ UNCHANGED <<channel, state, owner, runner, pending, on_init, network, buffer, bursts, ended>>

\* UDP waits for more when more is available, with one receive for that and one
\* for the loop; otherwise it hands on bytes_read bytes of the buffer.
HandleDatagram ==
  /\ Handled /\ Head(done).kind = "data" /\ protocol = "udp" /\ socket = "open"
  /\ LET n == bytes_read + arrived[Head(done).id] IN
       \/ /\ Available = 0 \/ n = BufferSize - 1
          /\ delivered' = Append(delivered, Front(n))
          /\ bytes_read' = 0
          /\ StartReceiver(1, receives)
          /\ UNCHANGED bursts
       \/ /\ Available # 0 /\ n # BufferSize - 1
          /\ bytes_read' = n
          /\ bursts' = bursts + 1
          /\ StartReceiver(2, receives)
          /\ UNCHANGED delivered
  /\ UNCHANGED <<channel, state, owner, runner, pending, on_init, network, buffer, ended>>

\* available() of a socket that was closed or taken away meanwhile.
HandleWithoutSocket ==
  /\ Handled /\ Head(done).kind = "data" /\ protocol = "udp" /\ socket # "open"
  /\ failure' = IF socket = "null" THEN "null_pointer" ELSE "thrown"
  /\ UNCHANGED <<channel, state, socket, owner, runner, pending, on_init, receives, network,
                 reading>>

-----------------------------------------------------------------------------
(* destroy() *)

\* Closing a socket aborts the receives in progress, and what it held is lost.
Aborted ==
  /\ done' = done \o [i \in 1..receives |-> Result("aborted")]
  /\ receives' = 0
  /\ inbox' = <<>>

\* teardown_all: TCP closes a connected socket only, UDP any.
Close ==
  /\ Ends /\ Alive /\ owner = "running"
  /\ \/ /\ protocol = "udp" /\ socket = "null"
        /\ failure' = "null_pointer" /\ owner' = "closed"
        /\ UNCHANGED <<socket, receives, done, inbox>>
     \/ /\ protocol = "udp" \/ ("connected" \in state /\ socket = "open")
        /\ socket # "null"
        /\ socket' = "closed" /\ Aborted
        /\ owner' = "closed"
        /\ UNCHANGED failure
     \/ /\ protocol = "tcp" /\ ~("connected" \in state /\ socket = "open")
        /\ owner' = "torn"
        /\ UNCHANGED <<failure, socket, receives, done, inbox>>
  /\ UNCHANGED <<channel, state, runner, pending, on_init, arrived, reading>>

\* The rest of teardown: socket.reset() and the state.
Reset ==
  /\ Alive /\ owner = "closed"
  /\ socket' = "null" /\ Aborted
  /\ state' = state \ {"initialised", "connected"}
  /\ owner' = "torn"
  /\ UNCHANGED <<channel, runner, pending, on_init, arrived, reading, failure>>

-----------------------------------------------------------------------------
Handler ==
  \/ Refused \/ Resolved \/ Connected \/ OnInit
  \/ HandleEnd \/ HandleError \/ HandleChunk \/ HandleDatagram \/ HandleWithoutSocket

Next ==
  \/ RunnerStarts \/ Stop
  \/ InitReturns \/ Close \/ Reset
  \/ Handler \/ Send
  \/ \E size \in Sizes : Arrive(size)
  \/ Fill
  \/ \E kind \in {"error", "eof"} : ReadFails(kind)

Spec == Init /\ [][Next]_vars

\* The asio thread runs, names are resolved, and a receive gets what has arrived:
\* errors do not come back for ever (strong fairness).
FairSpec == Spec /\ WF_vars(RunnerStarts) /\ WF_vars(Handler) /\ SF_vars(Fill)

-----------------------------------------------------------------------------
(* Properties *)

Running == owner \in {"init", "running"}

\* Whatever the order of resolution, connection, reads, failures and sends, the
\* socket is there when it is used, until the client ends; then only a receiver
\* or a UDP channel can find it gone.
SocketThereWhenUsed ==
  failure # "none" => ~Running /\ (start_receiver \/ protocol = "udp")

\* From the moment on_init is due there is always a receive in progress or its
\* handler to run: exactly one, and one more for every burst.
ReceivesAccountedFor ==
  start_receiver /\ Running /\ on_init # "before" /\ ~ended =>
    receives + Len(done) = 1 + bursts

Datagram(n) == [k \in 1..arrived[n] |-> n]

\* Until the first burst, and while the client runs, the receiver keeps the
\* promise of a stream: each call of on_receive gets one whole datagram, the
\* next one, and nothing of the reads before.
Promise ==
  INSTANCE PacketStream WITH
    accepted <- [n \in DOMAIN arrived |-> Datagram(n)], broken <- bursts > 0 \/ ~Running

ReceiveSpec == Promise!Spec

\* A datagram that arrives is handed on, unless it arrives in a burst or the
\* channel ends.
EveryDatagramHandedOn ==
  \A n \in 1..MaxDatagrams :
    Len(arrived) >= n ~> (Len(delivered) >= n \/ bursts > 0 \/ ended \/ ~Running \/ ~Alive)

=============================================================================
