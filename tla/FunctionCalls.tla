---------------------------- MODULE FunctionCalls ----------------------------
(***************************************************************************)
(* The calls the application makes of the server's functions, as           *)
(* documents: what request() sends for each of them, with which session's  *)
(* token, and what the completion handler is told                          *)
(* (core/corelink_client.hpp, request() and on_receive, with the handlers  *)
(* of FunctionTable).  One request is on its way at a time, as             *)
(* ControlChannel establishes; a call made meanwhile waits in the queue    *)
(* with its parameters, and its document is made when it is sent.          *)
(***************************************************************************)
EXTENDS FunctionTable, Sequences, FiniteSets

CONSTANTS
  Calls,        \* identities of the calls the application makes
  Offered,      \* the functions a call may be one of
  StatusForms,  \* how an answer gives statusCode: "int", "string" or "absent"
  Kinds,        \* the events the server sends
  UnsetSizes,   \* bound: how many parameters a call leaves unset
  NoCall

ASSUME CallsAssumption ==
  /\ Offered \in [Calls -> SUBSET Functions]
  /\ StatusForms \subseteq {"int", "string", "absent"}
  /\ Kinds \subseteq {"update", "subscriber", "stale", "dropped"}
  /\ UnsetSizes \subseteq Nat
  /\ NoCall \notin Calls

VARIABLES
  auth_token,   \* of the control channel's descriptor, with client_ip; 0 when empty
  asked,        \* the function and the unset parameters of each call made
  waiting,      \* m_outbound_control_msg_queue
  outstanding,  \* the call that has a completion handler armed
  request,      \* the document on its way to the server
  answer,       \* the document on its way back
  pc,           \* where on_receive stands
  sessions,     \* the sessions the server has opened
  granted,      \* the last one it said was opened
  performed,    \* history: the documents the server acted on, by call
  unstated,     \* history: the calls answered without a statusCode that is a number
  reported,     \* history: what the completion handlers were told
  event         \* history: the last event, as sent and as handed on

clientVars == <<auth_token, waiting, outstanding>>
serverVars == <<sessions, granted, performed, unstated>>
vars == <<clientVars, asked, request, answer, pc, serverVars, reported, event>>

NoDocument == EmptyObject
NoEvent == [kind |-> "none", sent |-> 0, handed |-> 0]
Made == DOMAIN asked

Init ==
  /\ auth_token = 0 /\ waiting = <<>> /\ outstanding = NoCall
  /\ asked = EmptyObject
  /\ request = NoDocument /\ answer = NoDocument
  /\ pc = "idle"
  /\ sessions = 0 /\ granted = 0
  /\ performed = EmptyObject /\ unstated = {}
  /\ reported = EmptyObject /\ event = NoEvent

-----------------------------------------------------------------------------
(* request() *)

\* The members that say what the application asked for; a value is known by
\* the call and the parameter it belongs to.
Asking(c, call) ==
  [m \in Carried(call.function, call.unset) |-> <<c, Table[call.function].members[m]>>]

\* The request handler: the function's name and the token in a map, then the
\* other members; create_sender and create_receiver add the client's address.
Document(c, call, token) ==
  LET entry == Table[call.function]
      own == [function |-> entry.name, token |-> token, IP |-> token]
      given == (IF entry.named THEN {"function"} ELSE {})
                 \cup (IF entry.token THEN {"token"} ELSE {})
                 \cup (IF call.function \in Creates THEN {"IP"} ELSE {})
  IN  WithMember(WithMembers([m \in given |-> own[m]], Asking(c, call)), "ID", c)

\* Behind the channel_in_use test: the handler is armed, the document sent.
Dispatch(c, call) ==
  /\ outstanding' = c
  /\ request' = Document(c, call, auth_token)

\* Defective variant of Request: channel_in_use is not looked at.
RequestUnserialised(c, f, unset) ==
  /\ c \notin Made /\ f \in Offered[c]
  /\ LET call == [function |-> f, unset |-> unset] IN
       asked' = WithMember(asked, c, call) /\ Dispatch(c, call)
  /\ UNCHANGED <<auth_token, waiting, answer, pc, serverVars, reported, event>>

\* request(), called from on_init or from a completion handler.
Request(c, f, unset) ==
  /\ c \notin Made /\ f \in Offered[c]
  /\ LET call == [function |-> f, unset |-> unset] IN
       /\ asked' = WithMember(asked, c, call)
       /\ IF outstanding # NoCall
            THEN waiting' = Append(waiting, c) /\ UNCHANGED <<outstanding, request>>
            ELSE Dispatch(c, call) /\ UNCHANGED waiting
  /\ UNCHANGED <<auth_token, answer, pc, serverVars, reported, event>>

-----------------------------------------------------------------------------
(* The server (external) *)

Caller == request.ID
IsNamed(document) == "function" \in DOMAIN document

\* statusCode as the answer gives it.
Status(code, form) ==
  CASE form = "int" -> [statusCode |-> <<"int", code>>]
    [] form = "string" -> [statusCode |-> <<"string", code>>]
    [] form = "absent" -> EmptyObject

Answered(form) ==
  /\ request' = NoDocument
  /\ unstated' = IF form = "int" THEN unstated ELSE unstated \cup {Caller}
  /\ UNCHANGED <<clientVars, asked, pc, reported, event>>

\* It opens a session, and tells its token.
OpenSession(form) ==
  /\ IsNamed(request) /\ request.function = "auth"
  /\ Answered(form)
  /\ sessions' = sessions + 1
  /\ granted' = IF form = "int" THEN sessions' ELSE granted
  /\ performed' = WithMember(performed, Caller, request)
  /\ answer' = WithMembers(Status(0, form), [ID |-> Caller, token |-> <<"string", sessions'>>])

\* It acts on a request of a session it has opened.
Perform(form) ==
  /\ IsNamed(request) /\ request.function # "auth"
  /\ request.token \in 1..sessions
  /\ Answered(form)
  /\ performed' = WithMember(performed, Caller, request)
  /\ answer' = WithMembers(Status(0, form), [ID |-> Caller, result |-> <<"result", Caller>>])
  /\ UNCHANGED <<sessions, granted>>

\* It refuses: for a reason of its own, for the want of a session, or because
\* the request names no function.
Refuse(form) ==
  /\ request # NoDocument
  /\ Answered(form)
  /\ answer' = WithMembers(Status(1, form), [ID |-> Caller])
  /\ UNCHANGED <<sessions, granted, performed>>

\* It has nothing to answer to a request that names no function.
Ignore ==
  /\ request # NoDocument /\ ~IsNamed(request)
  /\ request' = NoDocument
  /\ UNCHANGED <<clientVars, asked, answer, pc, serverVars, reported, event>>

-----------------------------------------------------------------------------
(* on_receive *)

\* handle_create_sender and handle_create_receiver hand on no response.
NoResponse == [given |-> FALSE, status |-> 0, result |-> NoCall]

\* Defective variant of Response: an answer is taken for success.
ResponseAssumed(f, document) == [given |-> TRUE, status |-> 0, result |-> NoCall]

\* A response holds what the answer lists only when the call succeeded, or
\* holds the whole answer.
Response(f, document) ==
  LET status == GetInt(document, "statusCode", Table[f].missing)
      listed == Table[f].result /\ "result" \in DOMAIN document
                /\ (status = 0 \/ Table[f].missing = 0)
  IN  IF f \in Creates THEN NoResponse
      ELSE [given |-> TRUE, status |-> status,
            result |-> IF listed THEN document["result"][2] ELSE NoCall]

\* Defective variant of Report: the token is kept as long as there is one.
ReportFirstSession ==
  /\ pc = "idle" /\ answer # NoDocument
  /\ LET c == answer.ID
         f == asked[c].function
         response == Response(f, answer)
     IN  /\ reported' = WithMember(reported, c, response)
         /\ auth_token' = IF f = "authenticate" /\ response.status = 0 /\ auth_token = 0
                            THEN GetStr(answer, "token", 0) ELSE auth_token
  /\ answer' = NoDocument
  /\ pc' = "callback"
  /\ UNCHANGED <<asked, waiting, outstanding, request, serverVars, event>>

\* The answer's handler: handle_authenticate keeps the token of a session that
\* was opened; the completion handler is called.
Report ==
  /\ pc = "idle" /\ answer # NoDocument
  /\ LET c == answer.ID
         f == asked[c].function
         response == Response(f, answer)
     IN  /\ reported' = WithMember(reported, c, response)
         /\ auth_token' = IF f = "authenticate" /\ response.status = 0
                            THEN GetStr(answer, "token", 0) ELSE auth_token
  /\ answer' = NoDocument
  /\ pc' = "callback"
  /\ UNCHANGED <<asked, waiting, outstanding, request, serverVars, event>>

\* Defective variant of Return: the queue is not looked at.
ReturnOnly ==
  /\ pc = "callback" /\ pc' = "idle"
  /\ outstanding' = NoCall
  /\ UNCHANGED <<auth_token, waiting, asked, request, answer, serverVars, reported, event>>

\* The completion handler has returned: the entry is erased, the channel
\* released, and the next call of the queue is made.
Return ==
  /\ pc = "callback" /\ pc' = "idle"
  /\ IF waiting = <<>>
       THEN outstanding' = NoCall /\ UNCHANGED <<waiting, request>>
       ELSE Dispatch(Head(waiting), asked[Head(waiting)]) /\ waiting' = Tail(waiting)
  /\ UNCHANGED <<auth_token, asked, answer, serverVars, reported, event>>

\* on_subscribed takes the receiver's id as a number or as a string of digits;
\* on_update as a number only.
ReceiverId(kind, id) ==
  LET document == [receiverID |-> id]
      number == GetInt(document, "receiverID", IF kind = "subscriber" THEN -1 ELSE 0)
  IN  IF kind = "subscriber" /\ number = -1
        THEN GetStr(document, "receiverID", number)
        ELSE number

\* An event is handed on.  When it is alone in its read the pump follows: the
\* channel is claimed, so the first waiting call goes to the end of the queue.
Event(kind, id, alone) ==
  /\ pc = "idle"
  /\ event' = [kind |-> kind, sent |-> id[2], handed |-> ReceiverId(kind, id)]
  /\ waiting' = IF alone /\ waiting # <<>> THEN Append(Tail(waiting), Head(waiting)) ELSE waiting
  /\ UNCHANGED <<auth_token, outstanding, asked, request, answer, pc, serverVars, reported>>

-----------------------------------------------------------------------------
Ids == {<<"int", 7>>, <<"string", 7>>}

Unset(f) == {s \in SUBSET Optional(f) : Cardinality(s) \in UnsetSizes}

Answering == \E form \in StatusForms : OpenSession(form) \/ Perform(form) \/ Refuse(form)

Next ==
  \/ \E c \in Calls : \E f \in Offered[c] : \E unset \in Unset(f) : Request(c, f, unset)
  \/ Answering \/ Ignore
  \/ Report \/ Return
  \/ \E kind \in Kinds, id \in Ids, alone \in BOOLEAN : Event(kind, id, alone)

Spec == Init /\ [][Next]_vars

\* The server answers what it can tell the function of, and the service thread
\* goes on with what it has begun.
FairSpec ==
  Spec /\ WF_vars(Answering /\ IsNamed(request)) /\ WF_vars(Report) /\ WF_vars(Return)
-----------------------------------------------------------------------------
(* Properties *)

Call == [function : Functions, unset : SUBSET UNION {Parameters[p] : p \in DOMAIN Parameters}]

TypeOK ==
  /\ auth_token \in 0..sessions /\ granted \in 0..sessions
  /\ Made \subseteq Calls /\ \A c \in Made : asked[c] \in Call
  /\ waiting \in Seq(Made)
  /\ outstanding \in Made \cup {NoCall}
  /\ request # NoDocument => request.ID = outstanding /\ answer = NoDocument
  /\ answer # NoDocument => answer.ID = outstanding /\ pc = "idle"
  /\ pc \in {"idle", "callback"}
  /\ DOMAIN performed \subseteq Made /\ unstated \subseteq Made
  /\ DOMAIN reported \subseteq Made
  /\ \A c \in DOMAIN reported : reported[c].status \in -1..1
  /\ event.kind \in Kinds \cup {"none"}

\* A request that carries a token carries that of the session the server opened
\* last, however long the call waited and however often the queue was turned:
\* what is asked in a callback of authenticate, or queued behind it, is asked in
\* the session it opened.
LatestSessionCarried ==
  request # NoDocument /\ "token" \in DOMAIN request => request.token = granted

\* What the application means by a call: the parameters it sets, of those that
\* concern the function.  (echo is taken for a receiver's: a sender's request has
\* no member for it.)
Concerning(f) ==
  LET all == Parameters[Table[f].parameters]
  IN  CASE f = "change_password" -> {"password"}
        [] f = "remove_user" -> {"username"}
        [] f \in {"add_group", "remove_group"} -> {"group_name"}
        [] f = "create_sender" -> all \ {"echo"}
        [] OTHER -> all

\* What each member of a request says: the parameters it may stand for.
AccountMembers ==
  [username |-> {"username"}, password |-> {"password"}, first |-> {"first_name"},
   last |-> {"last_name"}, email |-> {"email_id"}, admin |-> {"admin"},
   group |-> {"group_name"}, user |-> {"username"}, functionName |-> {"function_name"}]

StreamMembers ==
  [workspace |-> {"workspace_name", "workspace"}, workspaces |-> {"workspaces", "workspace"},
   types |-> {"types"}, type |-> {"stream_type"}, meta |-> {"meta"}, proto |-> {"protocol"},
   alert |-> {"alert"}, echo |-> {"echo"}, from |-> {"forwarded_from_stream"},
   streamID |-> {"stream_id", "stream_ids"}, streamIDs |-> {"stream_ids", "streamIDs"},
   receiverID |-> {"receiver_id", "receiver_stream_id"}]

Means == WithMembers(AccountMembers, StreamMembers)

\* disconnect sends its types a second time, as its workspaces, and its workspaces
\* not at all.
Misplaced(f) == IF f = "disconnect" THEN {"workspaces"} ELSE {}
Unsent(f) == IF f = "disconnect" THEN {"workspace"} ELSE {}

\* The document the server acted on names the function that was called, and each
\* parameter that was set under a member that means it; and nothing else.
AsAsked(c) ==
  LET f == asked[c].function
      document == performed[c]
      members == DOMAIN document \ ({"function", "token", "IP", "ID"} \cup Misplaced(f))
      set == Concerning(f) \ asked[c].unset
  IN  /\ document.function = Table[f].name
      /\ \A m \in members : m \in DOMAIN Means /\ \E p \in Means[m] \cap set : document[m] = <<c, p>>
      /\ \A p \in set \ Unsent(f) : \E m \in members : document[m] = <<c, p>>

\* What the server does for a call is what was asked: the function, and every
\* parameter that was set, in the place of no other one; nothing of another call,
\* and nothing it was not given.  The exception is what disconnect says of
\* workspaces, which is not what it was asked (Misplaced, Unsent).
\* It says nothing of the functions whose requests do not name them: the server
\* never acts on these.
PerformedAsAsked == \A c \in DOMAIN performed : AsAsked(c)

\* When a completion handler hears of success, the server did what was asked; the
\* exceptions are the functions whose handlers take a missing statusCode for
\* success, when the answer has none that is a number.  When the server did it and
\* said so, the completion handler hears of success.  What is handed on is the
\* call's own, of an answer to what was done.  create_sender and create_receiver
\* report nothing.  And on_subscribed hands on the receiver's
\* id however the server writes it.
ReportsAreTrue ==
  /\ \A c \in DOMAIN reported :
       LET response == reported[c] IN
         /\ response.given /\ response.status = 0 =>
              \/ c \in DOMAIN performed
              \/ c \in unstated /\ Table[asked[c].function].missing = 0
         /\ response.given /\ c \in DOMAIN performed /\ c \notin unstated =>
              response.status = 0
         /\ response.result # NoCall => response.result = c /\ c \in DOMAIN performed
  /\ event.kind = "subscriber" => event.handed = event.sent

\* Every call is reported, or a request without a name is all that is waited for.
EveryCallReported ==
  \A c \in Calls :
    c \in Made ~> \/ c \in DOMAIN reported
                  \/ outstanding # NoCall /\ ~Table[asked[outstanding].function].named
=============================================================================
