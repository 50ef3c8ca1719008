---------------------------- MODULE BridgeSetup ----------------------------
(***************************************************************************)
(* The bridge node from its constructor to its first messages: BridgeNode  *)
(* and CorelinkTransport (src/bridge_node.cpp, src/corelink_transport.cpp) *)
(* with the parts of corelink_classic_client that create the control       *)
(* channel and the stream's data channel (core/corelink_client.hpp).       *)
(*                                                                         *)
(* Three threads run it: the main thread, which constructs the node and    *)
(* then executes its subscriptions; the websocket service thread, on which *)
(* all of the control channel's callbacks run; the asio thread, on which   *)
(* those of a UDP or TCP data channel run.  The control channel's requests *)
(* are answered one by one and in order (ControlChannel).                  *)
(***************************************************************************)
EXTENDS Integers, Sequences, SequencesExt

CONSTANTS
  Directions,       \* topic.direction: "to_corelink", "from_corelink"
  Protocols,        \* corelink.data_protocol: "udp", "tcp", "websocket"
  MaxUpdates,       \* bound: senders the server announces
  MaxUnknown,       \* bound: messages of the server without a handler
  MaxMessages       \* bound: messages bridged in each direction

ASSUME SetupAssumption ==
  /\ Directions \subseteq {"to_corelink", "from_corelink"} /\ Directions # {}
  /\ Protocols \subseteq {"udp", "tcp", "websocket"} /\ Protocols # {}
  /\ MaxUpdates \in Nat /\ MaxUnknown \in Nat /\ MaxMessages \in Nat

VARIABLES
  direction, protocol,  \* the parameters the node was started with
  main,          \* where the main thread stands
  control,       \* the control channel's connection
  controlId,     \* m_control_channel_id
  registered,    \* the keys of m_corelink_channels
  requests,      \* the functions requested and not answered yet
  lws,           \* where the service thread stands in handle_create_*
  stream,        \* the data channel, from resolution to the end of on_init
  dataId,        \* m_data_channel_id
  made,          \* which of the handler of "update", m_local_publisher and
                 \* m_local_subscription there are
  reports,       \* history: how each call of connect's on_ready reported
  failure,       \* what ended the process
  updates, unknown, sent, published  \* counters of messages

vars == <<direction, protocol, main, control, controlId, registered, requests, lws, stream,
          dataId, made, reports, failure, updates, unknown, sent, published>>
parameters == <<direction, protocol>>
node == <<dataId, made>>
messages == <<updates, unknown, sent, published>>

Functions == {"authenticate", "create", "subscribe"}

TypeOK ==
  /\ direction \in Directions /\ protocol \in Protocols
  /\ main \in {"connect", "insert", "assign", "spin"}
  /\ control \in {"none", "connecting", "open", "closed", "failed"}
  /\ controlId \in {"unset", "control"} /\ dataId \in {"unset", "data"}
  /\ registered \subseteq {"control", "data"}
  /\ requests \in Seq(Functions)
  /\ lws \in {"idle", "insert"}
  /\ stream \in {"none", "resolving", "connecting", "on_init", "assign", "subscribe",
                 "ready", "failed"}
  /\ made \subseteq {"update_handler", "publisher", "subscription"}
  /\ reports \in Seq({"ok", "failed"})
  /\ failure \in {"none", "control_lookup", "data_lookup", "null_publisher"}
  /\ updates \in 0..MaxUpdates /\ unknown \in 0..MaxUnknown
  /\ sent \in 0..MaxMessages /\ published \in 0..MaxMessages

Init ==
  /\ direction \in Directions /\ protocol \in Protocols
  /\ main = "connect" /\ control = "none" /\ lws = "idle" /\ stream = "none"
  /\ controlId = "unset" /\ dataId = "unset"
  /\ registered = {} /\ requests = <<>> /\ reports = <<>>
  /\ made = {} /\ failure = "none"
  /\ updates = 0 /\ unknown = 0 /\ sent = 0 /\ published = 0

Alive == failure = "none"

\* The service thread can run a callback: it is in none, and the data channel,
\* when it is a websocket, is not in its on_init, which that thread runs.
InOnInit == stream \in {"on_init", "assign", "subscribe"}
ServiceFree == Alive /\ lws = "idle" /\ (protocol = "websocket" => ~InOnInit)

\* The asio thread runs the data channel of TCP and UDP.
StreamThreadFree == IF protocol = "websocket" THEN ServiceFree ELSE Alive /\ ~InOnInit

-----------------------------------------------------------------------------
(* The main thread: connect *)

\* add_control_channel's add_and_init_channel: the connection is begun on the
\* service thread.
AddControl ==
  /\ Alive /\ main = "connect"
  /\ main' = "insert"
  /\ control' = "connecting"
  /\ UNCHANGED <<parameters, controlId, registered, requests, lws, stream, node,
                 reports, failure, messages>>

InsertControl ==
  /\ Alive /\ main = "insert"
  /\ main' = "assign"
  /\ registered' = registered \cup {"control"}
  /\ UNCHANGED <<parameters, control, controlId, requests, lws, stream, node,
                 reports, failure, messages>>

\* m_control_channel_id = ..., then the constructor returns and main spins.
AssignControl ==
  /\ Alive /\ main = "assign"
  /\ main' = "spin"
  /\ controlId' = "control"
  /\ UNCHANGED <<parameters, control, registered, requests, lws, stream, node,
                 reports, failure, messages>>

-----------------------------------------------------------------------------
(* The service thread: the control channel's callbacks *)

\* on_init: the handlers of the server's events are registered, and authenticate
\* is requested; request looks the channel up, and nothing catches the exception
\* when it is not there yet.
ControlEstablished ==
  /\ ServiceFree /\ control = "connecting"
  /\ control' = "open"
  /\ IF "control" \in registered
       THEN requests' = <<"authenticate">> /\ UNCHANGED failure
       ELSE failure' = "control_lookup" /\ UNCHANGED requests
  /\ UNCHANGED <<parameters, main, controlId, registered, lws, stream, node,
                 reports, messages>>

\* on_error reports every error of the control channel to on_ready.
ControlFails ==
  /\ ServiceFree /\ control = "connecting"
  /\ control' = "failed"
  /\ reports' = Append(reports, "failed")
  /\ UNCHANGED <<parameters, main, controlId, registered, requests, lws, stream,
                 node, failure, messages>>

\* on_uninit: the connection is gone, and nobody is told.  What is requested and
\* what comes later is lost; the data channel has a connection of its own.
ControlCloses ==
  /\ ServiceFree /\ control = "open"
  /\ control' = "closed"
  /\ UNCHANGED <<parameters, main, controlId, registered, requests, lws, stream,
                 node, reports, failure, messages>>

\* An answer comes.
AnswerTo(function) ==
  ServiceFree /\ control = "open" /\ requests # <<>> /\ Head(requests) = function

\* createReceiver comes after the local publisher, and registers the update
\* handler before it asks for the stream.
Prerequisites == IF direction = "from_corelink" THEN {"publisher", "update_handler"} ELSE {}

\* createSender's request, and createReceiver's.
CreateRequested == requests' = Append(Tail(requests), "create")

\* Defective variants of SetUp: the node sets up its stream whatever is
\* reported; the stream is not asked for.
SetUpAlways(outcome) ==
  /\ made' = Prerequisites
  /\ CreateRequested
  /\ reports' = Append(reports, outcome)

SetUpForgotten(outcome) ==
  /\ requests' = Tail(requests)
  /\ reports' = Append(reports, outcome)
  /\ UNCHANGED made

\* on_ready of connect, and setupToCorelink or setupFromCorelink: the publisher
\* first, then the update handler, then the request.  request looks
\* m_control_channel_id up; on_receive catches its exception and reports it.
SetUp(outcome) ==
  \/ /\ outcome = "ok" /\ controlId = "control"
     /\ made' = Prerequisites
     /\ CreateRequested
     /\ reports' = Append(reports, "ok")
  \/ /\ outcome = "ok" /\ controlId # "control"
     /\ made' = Prerequisites \ {"update_handler"}
     /\ requests' = Tail(requests)
     /\ reports' = reports \o <<"ok", "failed">>
  \/ /\ outcome = "failed"
     /\ requests' = Tail(requests)
     /\ reports' = Append(reports, "failed")
     /\ UNCHANGED made

\* The answer to authenticate, with its statusCode.
Authenticated(outcome) ==
  /\ AnswerTo("authenticate")
  /\ SetUp(outcome)
  /\ UNCHANGED <<parameters, main, control, controlId, registered, lws, stream, dataId,
                 failure, messages>>

\* Defective variant of StreamAnswered: on_init is run before the response
\* handler goes on.
StreamAnsweredSynchronously ==
  /\ AnswerTo("create")
  /\ requests' = Tail(requests)
  /\ stream' = IF protocol = "websocket" THEN "on_init" ELSE "resolving"
  /\ lws' = "insert"
  /\ UNCHANGED <<parameters, main, control, controlId, registered, node, reports,
                 failure, messages>>

\* The answer to create_sender or create_receiver, whatever its statusCode: the
\* data channel is added and its initialisation begun.
StreamAnswered ==
  /\ AnswerTo("create")
  /\ requests' = Tail(requests)
  /\ stream' = "resolving"
  /\ lws' = "insert"
  /\ UNCHANGED <<parameters, main, control, controlId, registered, node, reports,
                 failure, messages>>

\* ... then the channel is put in m_corelink_channels.
InsertStream ==
  /\ Alive /\ lws = "insert"
  /\ registered' = registered \cup {"data"}
  /\ lws' = "idle"
  /\ UNCHANGED <<parameters, main, control, controlId, requests, stream, node,
                 reports, failure, messages>>

\* The server announces a sender once it knows the receiver; the update handler
\* subscribes to it, unless it is of another stream_type.
UpdateReceived ==
  /\ ServiceFree /\ control = "open"
  /\ direction = "from_corelink"
  /\ stream # "none" \/ requests = <<"create">>
  /\ updates < MaxUpdates
  /\ updates' = updates + 1
  /\ IF "update_handler" \in made
       THEN requests' \in {requests, Append(requests, "subscribe")} /\ UNCHANGED reports
       ELSE reports' = Append(reports, "failed") /\ UNCHANGED requests
  /\ UNCHANGED <<parameters, main, control, controlId, registered, lws, stream,
                 node, failure, unknown, sent, published>>

SubscribeAnswered ==
  /\ AnswerTo("subscribe")
  /\ requests' = Tail(requests)
  /\ UNCHANGED <<parameters, main, control, controlId, registered, lws, stream,
                 node, reports, failure, messages>>

\* A message no handler is found for goes to on_error.
UnknownReceived ==
  /\ ServiceFree /\ control = "open"
  /\ unknown < MaxUnknown
  /\ unknown' = unknown + 1
  /\ reports' = Append(reports, "failed")
  /\ UNCHANGED <<parameters, main, control, controlId, registered, requests, lws,
                 stream, node, failure, updates, sent, published>>

-----------------------------------------------------------------------------
(* The data channel's callbacks: on the asio thread, or the service thread *)

StreamStep(from, to) ==
  /\ StreamThreadFree
  /\ stream = from
  /\ stream' = to
  /\ UNCHANGED <<parameters, main, control, controlId, registered, requests, lws,
                 node, reports, failure, messages>>

\* The endpoint is resolved; TCP connects to it, UDP is ready, and so is a
\* websocket once it is established.
Resolved == StreamStep("resolving", IF protocol = "tcp" THEN "connecting" ELSE "on_init")
Connected == StreamStep("connecting", "on_init")

\* The stream's on_error prints; on_ready is not told.
StreamFails == StreamStep("resolving", "failed") \/ StreamStep("connecting", "failed")

\* A receiver's on_init pings the server first; send_data looks the channel up,
\* and nothing catches the exception when it is not there yet.
Ping ==
  /\ Alive /\ stream = "on_init"
  /\ IF direction = "from_corelink" /\ "data" \notin registered
       THEN failure' = "data_lookup" /\ UNCHANGED stream
       ELSE stream' = "assign" /\ UNCHANGED failure
  /\ UNCHANGED <<parameters, main, control, controlId, registered, requests, lws,
                 node, reports, messages>>

\* Defective variant of Assign: the control channel's id is kept.
AssignControlId ==
  /\ Alive /\ stream = "assign"
  /\ dataId' = controlId
  /\ stream' = IF direction = "to_corelink" THEN "subscribe" ELSE "ready"
  /\ UNCHANGED <<parameters, main, control, controlId, registered, requests, lws,
                 made, reports, failure, messages>>

\* on_ready of the stream: m_data_channel_id, then the local subscription.
Assign ==
  /\ Alive /\ stream = "assign"
  /\ dataId' = "data"
  /\ stream' = IF direction = "to_corelink" THEN "subscribe" ELSE "ready"
  /\ UNCHANGED <<parameters, main, control, controlId, registered, requests, lws,
                 made, reports, failure, messages>>

Subscribe ==
  /\ Alive /\ stream = "subscribe"
  /\ made' = made \cup {"subscription"}
  /\ stream' = "ready"
  /\ UNCHANGED <<parameters, main, control, controlId, registered, requests, lws,
                 dataId, reports, failure, messages>>

-----------------------------------------------------------------------------
(* Messages *)

\* onLocalMessage, on the main thread: send_data looks m_data_channel_id up.
LocalMessage ==
  /\ Alive /\ main = "spin" /\ "subscription" \in made
  /\ sent < MaxMessages
  /\ IF dataId = "data" /\ "data" \in registered
       THEN sent' = sent + 1 /\ UNCHANGED failure
       ELSE failure' = "data_lookup" /\ UNCHANGED sent
  /\ UNCHANGED <<parameters, main, control, controlId, registered, requests, lws,
                 stream, node, reports, updates, unknown, published>>

\* on_receive drops what comes for a channel it does not find; otherwise
\* onCorelinkMessage publishes it.
CorelinkMessage ==
  /\ StreamThreadFree /\ direction = "from_corelink" /\ stream = "ready"
  /\ published < MaxMessages
  /\ "data" \in registered
  /\ IF "publisher" \in made
       THEN published' = published + 1 /\ UNCHANGED failure
       ELSE failure' = "null_publisher" /\ UNCHANGED published
  /\ UNCHANGED <<parameters, main, control, controlId, registered, requests, lws,
                 stream, node, reports, updates, unknown, sent>>

-----------------------------------------------------------------------------
Main == AddControl \/ InsertControl \/ AssignControl

ControlChanges == ControlEstablished \/ ControlFails \/ ControlCloses

Answered ==
  \/ \E outcome \in {"ok", "failed"} : Authenticated(outcome)
  \/ StreamAnswered \/ SubscribeAnswered

StreamProgress ==
  Resolved \/ Connected \/ StreamFails \/ Ping \/ Assign \/ Subscribe

Next ==
  \/ Main \/ ControlChanges \/ Answered \/ InsertStream \/ StreamProgress
  \/ UpdateReceived \/ UnknownReceived \/ LocalMessage \/ CorelinkMessage

Spec == Init /\ [][Next]_vars

\* The service thread goes on, a data channel's connection is made or fails.  The
\* one assumption about the server: it answers the requests, which come to it one
\* at a time, as long as the control channel is open.  Nothing is assumed of
\* the control channel's own connection: nothing wakes the service thread for it.
Fairness ==
  WF_vars(InsertStream) /\ SF_vars(Answered) /\ SF_vars(StreamProgress)

FairSpec == Spec /\ Fairness

-----------------------------------------------------------------------------
(* Properties *)

Reported(outcome) == Contains(reports, outcome)

\* No stream is asked for before the server has accepted the credentials, and
\* no message is bridged before that.  And a sender the server announces is never
\* reported as an error: the update handler is there before the server can know
\* of the receiver.
SetUpInOrder ==
  /\ Contains(requests, "create") \/ stream # "none" \/ "publisher" \in made
       \/ sent > 0 \/ published > 0
       => Reported("ok")
  /\ updates > 0 /\ unknown = 0 => ~Reported("failed")

\* A websocket stream is in m_corelink_channels before anything sends on it:
\* its initialisation waits for the thread that registers it.
WebsocketStreamsAreRegistered ==
  protocol = "websocket" => failure # "data_lookup"

\* A control channel that opens in time gets the node its stream, or the failure
\* of it is reported, to the node or to the stream's on_error; unless the control
\* channel is closed meanwhile, or the ping comes too early (StreamsAreRegistered).
\* The server is assumed to answer.
SetupSettles ==
  (Alive /\ control = "open")
    ~> \/ stream \in {"ready", "failed"} \/ Reported("failed")
       \/ control = "closed"
       \/ protocol # "websocket" /\ failure = "data_lookup"

\* The id given to the node is one that sendData and the ping can use: no
\* data channel is used before the client has registered it.
StreamsAreRegistered == failure # "data_lookup"
=============================================================================
