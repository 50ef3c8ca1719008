--------------------------- MODULE ControlChannel ---------------------------
(***************************************************************************)
(* The control channel of corelink_classic_client                          *)
(* (include/core/corelink_client.hpp): request() and the on_receive        *)
(* handler that add_control_channel installs, with the server at the other *)
(* end of a reliable ordered byte stream.                                  *)
(*                                                                         *)
(* request() sends a message only when no other request is outstanding and *)
(* queues it otherwise.  on_receive appends the bytes it gets to           *)
(* response_stream, serves every complete message in it, and then pumps    *)
(* the queue once.  It runs on the network thread with response_stream_sync*)
(* held, and the calls to request() that the bridge makes are made by that *)
(* same thread, from the channel's on_init or from the callbacks below.    *)
(***************************************************************************)
EXTENDS Naturals, Sequences, FiniteSets, Functions

CONSTANTS
  Requests,        \* identities of the requests the application makes
  EventKinds,      \* names of the server's callbacks ("update", "stale", ...)
  Preregistered,   \* the callbacks on_init registers before it authenticates
  MaxSpontaneous,  \* bound: messages the server sends beyond one reply each
  SendsUnknown,    \* may the server send what no handler is registered for?
  HandlersThrow,   \* may a response handler or completion handler throw?
  ServerIgnores    \* may the server drop a request without answering it?

ASSUME ConstantsAssumption ==
  /\ Preregistered \subseteq EventKinds
  /\ MaxSpontaneous \in Nat
  /\ SendsUnknown \in BOOLEAN
  /\ HandlersThrow \in BOOLEAN
  /\ ServerIgnores \in BOOLEAN

VARIABLES
  channel_in_use,       \* corelink_client_control_channel_descriptor
  completion_handlers,  \* the requests that have an entry in m_completion_handlers
  registered,           \* the server callbacks that have an entry there
  outbound,             \* m_outbound_control_msg_queue
  response_stream,      \* the complete messages received and not yet served
  pc,                   \* where on_receive stands
  current,              \* the message being served
  toServer,             \* requests on their way to the server
  toClient,             \* messages on their way to the client
  answered,             \* requests the server has answered
  spontaneous,          \* spontaneous messages the server has sent
  issued,               \* history: requests request() was called with
  completed,            \* history: requests whose handler entry was erased
  faults                \* history: what went wrong at the server or in a callback

clientVars == <<channel_in_use, completion_handlers, registered, outbound>>
handlerVars == <<response_stream, pc, current>>
serverVars == <<toClient, answered, spontaneous>>
historyVars == <<issued, completed>>
vars == <<clientVars, handlerVars, toServer, serverVars, historyVars, faults>>

Response(r) == [type |-> "response", of |-> r]
Event(e) == [type |-> "event", of |-> e]
\* A message with neither an ID nor a function, or that is not valid JSON.
Junk == [type |-> "junk"]

Message == {Response(r) : r \in Requests} \cup {Event(e) : e \in EventKinds} \cup {Junk}
NoMessage == [type |-> "none"]

TypeOK ==
  /\ channel_in_use \in BOOLEAN
  /\ completion_handlers \subseteq Requests
  /\ registered \subseteq EventKinds
  /\ outbound \in Seq(Requests)
  /\ response_stream \in Seq(Message)
  /\ pc \in {"idle", "parse", "callback"}
  /\ current \in Message \cup {NoMessage}
  /\ toServer \in Seq(Requests)
  /\ toClient \in Seq(Message)
  /\ answered \subseteq Requests
  /\ spontaneous \in 0..MaxSpontaneous
  /\ issued \subseteq Requests
  /\ completed \subseteq Requests
  /\ faults \subseteq {"unserved", "thrown", "ignored"}

Init ==
  /\ channel_in_use = FALSE
  /\ completion_handlers = {}
  /\ registered = Preregistered
  /\ outbound = <<>>
  /\ response_stream = <<>>
  /\ pc = "idle"
  /\ current = NoMessage
  /\ toServer = <<>>
  /\ toClient = <<>>
  /\ answered = {}
  /\ spontaneous = 0
  /\ issued = {}
  /\ completed = {}
  /\ faults = {}

-----------------------------------------------------------------------------
(* request() *)

\* The part of request() behind the channel_in_use test: claim the channel,
\* arm the completion handler and give the message to the protocol manager.
Dispatch(r) ==
  /\ channel_in_use' = TRUE
  /\ completion_handlers' = completion_handlers \cup {r}
  /\ toServer' = Append(toServer, r)

\* Defective variants of Request: channel_in_use is not looked at; the pack is
\* queued after it was moved from.
RequestUnserialised(r) ==
  /\ pc \in {"idle", "callback"}
  /\ r \notin issued
  /\ Dispatch(r)
  /\ issued' = issued \cup {r}
  /\ UNCHANGED <<registered, outbound, handlerVars, serverVars, completed, faults>>

RequestMovedFrom(r) ==
  /\ pc \in {"idle", "callback"}
  /\ r \notin issued
  /\ \/ channel_in_use /\ outbound' = Append(outbound, NoMessage)
        /\ UNCHANGED <<channel_in_use, completion_handlers, toServer>>
     \/ ~channel_in_use /\ Dispatch(r) /\ UNCHANGED outbound
  /\ issued' = issued \cup {r}
  /\ UNCHANGED <<registered, handlerVars, serverVars, completed, faults>>

\* request() called for a server function, from on_init or from a callback.
Request(r) ==
  /\ pc \in {"idle", "callback"}
  /\ r \notin issued
  /\ \/ /\ channel_in_use
        /\ outbound' = Append(outbound, r)
        /\ UNCHANGED <<channel_in_use, completion_handlers, toServer>>
     \/ /\ ~channel_in_use
        /\ Dispatch(r)
        /\ UNCHANGED outbound
  /\ issued' = issued \cup {r}
  /\ UNCHANGED <<registered, handlerVars, serverVars, completed, faults>>

\* request() called for one of the server_callback_* functions.
Register(e) ==
  /\ pc \in {"idle", "callback"}
  /\ e \notin registered
  /\ registered' = registered \cup {e}
  /\ UNCHANGED <<channel_in_use, completion_handlers, outbound, handlerVars,
                 toServer, serverVars, historyVars, faults>>

-----------------------------------------------------------------------------
(* The control channel's on_receive *)

\* A read returns the rest of n messages, and possibly the beginning of the
\* next one: with n = 0 no message becomes complete.
Receive(n) ==
  /\ pc = "idle"
  /\ toClient # <<>>
  /\ n \in 0..Len(toClient)
  /\ response_stream' = response_stream \o SubSeq(toClient, 1, n)
  /\ toClient' = SubSeq(toClient, n + 1, Len(toClient))
  /\ pc' = "parse"
  /\ UNCHANGED <<clientVars, current, toServer, answered, spontaneous, historyVars, faults>>

HandlerOf(m) ==
  \/ m.type = "response" /\ m.of \in completion_handlers
  \/ m.type = "event" /\ m.of \in registered

\* The message at the front is complete: it leaves the stream, its handler is
\* found, and the response handler and completion handler are called.
Serve ==
  /\ pc = "parse"
  /\ response_stream # <<>>
  /\ HandlerOf(Head(response_stream))
  /\ current' = Head(response_stream)
  /\ response_stream' = Tail(response_stream)
  /\ pc' = "callback"
  /\ UNCHANGED <<clientVars, toServer, serverVars, historyVars, faults>>

\* No ID and no function, no entry for it, or a parse error: the message has
\* left the stream, and on_receive returns without looking at what follows it
\* and without pumping the queue.
Unserved ==
  /\ pc = "parse"
  /\ response_stream # <<>>
  /\ ~HandlerOf(Head(response_stream))
  /\ response_stream' = Tail(response_stream)
  /\ pc' = "idle"
  /\ faults' = faults \cup {"unserved"}
  /\ UNCHANGED <<clientVars, current, toServer, serverVars, historyVars>>

\* Defective variants of Retire: the handler stays armed; the channel stays
\* claimed; a server event frees the channel too.
RetireUnerased(m) ==
  IF m.type = "response"
    THEN /\ channel_in_use' = FALSE
         /\ completed' = completed \cup {m.of}
         /\ UNCHANGED completion_handlers
    ELSE UNCHANGED <<completion_handlers, channel_in_use, completed>>

RetireUnreleased(m) ==
  IF m.type = "response"
    THEN /\ completion_handlers' = completion_handlers \ {m.of}
         /\ completed' = completed \cup {m.of}
         /\ UNCHANGED channel_in_use
    ELSE UNCHANGED <<completion_handlers, channel_in_use, completed>>

RetireAnyMessage(m) ==
  /\ channel_in_use' = FALSE
  /\ IF m.type = "response"
       THEN /\ completion_handlers' = completion_handlers \ {m.of}
            /\ completed' = completed \cup {m.of}
       ELSE UNCHANGED <<completion_handlers, completed>>

\* A message with an ID erases its handler and frees the channel; a server
\* event does neither.
Retire(m) ==
  IF m.type = "response"
    THEN /\ completion_handlers' = completion_handlers \ {m.of}
         /\ channel_in_use' = FALSE
         /\ completed' = completed \cup {m.of}
    ELSE UNCHANGED <<completion_handlers, channel_in_use, completed>>

\* Defective variant of CallbackReturns: one message is served per read.
CallbackReturnsBreaking ==
  /\ pc = "callback"
  /\ Retire(current)
  /\ current' = NoMessage
  /\ pc' = "idle"
  /\ UNCHANGED <<registered, outbound, response_stream, toServer, serverVars, issued, faults>>

\* The response handler and the completion handler return.
CallbackReturns ==
  /\ pc = "callback"
  /\ Retire(current)
  /\ current' = NoMessage
  /\ pc' = "parse"
  /\ UNCHANGED <<registered, outbound, response_stream, toServer, serverVars, issued, faults>>

\* The callbacks throw: on_error is called and on_receive returns, with the
\* handler still armed and the channel still in use.
CallbackThrows ==
  /\ HandlersThrow
  /\ pc = "callback"
  /\ current' = NoMessage
  /\ pc' = "idle"
  /\ faults' = faults \cup {"thrown"}
  /\ UNCHANGED <<clientVars, response_stream, toServer, serverVars, historyVars>>

\* Defective variants of Pump: the head is not popped after it was queued
\* again; the queue is not looked at.
PumpKeepingHead ==
  /\ pc = "parse"
  /\ response_stream = <<>>
  /\ \/ /\ outbound # <<>> /\ channel_in_use
        /\ outbound' = Append(outbound, Head(outbound))
        /\ UNCHANGED <<channel_in_use, completion_handlers, toServer>>
     \/ /\ outbound # <<>> /\ ~channel_in_use
        /\ Dispatch(Head(outbound))
        /\ outbound' = Tail(outbound)
     \/ /\ outbound = <<>>
        /\ UNCHANGED <<channel_in_use, completion_handlers, toServer, outbound>>
  /\ pc' = "idle"
  /\ UNCHANGED <<registered, response_stream, current, serverVars, historyVars, faults>>

PumpNothing ==
  /\ pc = "parse"
  /\ response_stream = <<>>
  /\ pc' = "idle"
  /\ UNCHANGED <<clientVars, response_stream, current, toServer, serverVars, historyVars, faults>>

\* No complete message is left: peek, request() and pop, and return.  When the
\* channel is in use request() pushes the head again, so the pop moves it to
\* the back.
Pump ==
  /\ pc = "parse"
  /\ response_stream = <<>>
  /\ \/ /\ outbound # <<>>
        /\ channel_in_use
        /\ outbound' = Append(Tail(outbound), Head(outbound))
        /\ UNCHANGED <<channel_in_use, completion_handlers, toServer>>
     \/ /\ outbound # <<>>
        /\ ~channel_in_use
        /\ Dispatch(Head(outbound))
        /\ outbound' = Tail(outbound)
     \/ /\ outbound = <<>>
        /\ UNCHANGED <<channel_in_use, completion_handlers, toServer, outbound>>
  /\ pc' = "idle"
  /\ UNCHANGED <<registered, response_stream, current, serverVars, historyVars, faults>>

-----------------------------------------------------------------------------
(* The server *)

Reply ==
  /\ toServer # <<>>
  /\ toClient' = Append(toClient, Response(Head(toServer)))
  /\ answered' = answered \cup {Head(toServer)}
  /\ toServer' = Tail(toServer)
  /\ UNCHANGED <<clientVars, handlerVars, spontaneous, historyVars, faults>>

Ignore ==
  /\ ServerIgnores
  /\ toServer # <<>>
  /\ toServer' = Tail(toServer)
  /\ faults' = faults \cup {"ignored"}
  /\ UNCHANGED <<clientVars, handlerVars, serverVars, historyVars>>

\* A server callback, an answer sent a second time or a message that names
\* nothing.
Spontaneous(m) ==
  /\ spontaneous < MaxSpontaneous
  /\ \/ m.type = "event" /\ (SendsUnknown \/ m.of \in registered)
     \/ m.type = "response" /\ SendsUnknown /\ m.of \in answered
     \/ m.type = "junk" /\ SendsUnknown
  /\ toClient' = Append(toClient, m)
  /\ spontaneous' = spontaneous + 1
  /\ UNCHANGED <<clientVars, handlerVars, toServer, answered, historyVars, faults>>

-----------------------------------------------------------------------------
ReceiveSome == \E n \in 1..Len(toClient) : Receive(n)

Next ==
  \/ \E r \in Requests : Request(r)
  \/ \E e \in EventKinds : Register(e)
  \/ \E n \in 0..Len(toClient) : Receive(n)
  \/ Serve
  \/ Unserved
  \/ CallbackReturns
  \/ CallbackThrows
  \/ Pump
  \/ Reply
  \/ Ignore
  \/ \E m \in Message : Spontaneous(m)

Spec == Init /\ [][Next]_vars

\* The network thread runs its handler to the end and comes back to its loop;
\* a message has finitely many bytes, so partial reads of it cannot go on for
\* ever; and the server answers.
Fairness ==
  /\ WF_vars(Serve \/ Unserved \/ Pump)
  /\ WF_vars(CallbackReturns)
  /\ SF_vars(ReceiveSome)
  /\ WF_vars(Reply)

FairSpec == Spec /\ Fairness

-----------------------------------------------------------------------------
(* Properties *)

\* At most one request is on its way to the server, and no request is sent
\* before the one outstanding was answered: the request-response discipline
\* the comment in request() describes, whatever the callbacks, the splitting
\* of the stream and the server's extra messages do.
OneOutstanding ==
  /\ Len(toServer) <= 1
  /\ Cardinality(completion_handlers) <= 1
  /\ \A i \in DOMAIN toServer : toServer[i] \in completion_handlers

\* A request handed to request() is in exactly one place - once in the queue,
\* armed, or completed - through every pump, re-queueing and early return of
\* on_receive.
NoRequestLostOrDuplicated ==
  /\ issued = Range(outbound) \cup completion_handlers \cup completed
  /\ Range(outbound) \cap (completion_handlers \cup completed) = {}
  /\ completion_handlers \cap completed = {}
  /\ \A i, j \in DOMAIN outbound : outbound[i] = outbound[j] => i = j

\* The channel is claimed exactly while a completion handler is armed: it
\* never looks busy with nothing outstanding, which would stop every later
\* request.
InUseIffArmed == channel_in_use <=> completion_handlers # {}

\* The control channel is an implementation of the request service.
Service ==
  INSTANCE RequestService WITH
    pending <- Range(outbound), active <- completion_handlers, retired <- completed

ServiceSpec == Service!Spec

\* on_receive has always run to its end.
NoEarlyReturn == faults \cap {"unserved", "thrown"} = {}

\* When on_receive is not running, requests wait only for one that is
\* outstanding: a free channel has an empty queue, until a read ends early.
NoStalledQueue == NoEarlyReturn /\ pc = "idle" /\ ~channel_in_use => outbound = <<>>

\* on_receive splits all it has received: when it returns, no complete
\* message is left behind in response_stream.
StreamDrained == pc = "idle" => response_stream = <<>>

\* It does so until a message has no handler or a handler throws.
StreamDrainedByReturn == NoEarlyReturn => StreamDrained

\* Every request handed to request() is completed, unless the server ignores
\* one, a message has no handler or a handler throws.
EveryRequestCompletes ==
  \A r \in Requests : r \in issued ~> (r \in completed \/ faults # {})
=============================================================================
