------------------------- MODULE BridgeSetupProofs -------------------------
(***************************************************************************)
(* Proofs about BridgeSetup, for every set of directions and protocols and *)
(* every bound on the messages.                                            *)
(***************************************************************************)
EXTENDS BridgeSetup, TLAPS

-----------------------------------------------------------------------------
(* What a sequence contains *)

LEMMA ContainsAppend ==
  ASSUME NEW S, NEW q \in Seq(S), NEW x \in S
  PROVE  /\ Append(q, x) \in Seq(S)
         /\ \A y : Contains(Append(q, x), y) <=> Contains(q, y) \/ y = x
  <1> DEFINE a == Append(q, x)
  <1>1. a \in Seq(S) /\ Len(a) = Len(q) + 1 /\ Len(q) \in Nat
    OBVIOUS
  <1>2. a[Len(q) + 1] = x /\ \A i \in 1..Len(q) : a[i] = q[i]
    OBVIOUS
  <1>3. \A y : Contains(a, y) <=> Contains(q, y) \/ y = x
    <2> HIDE DEF a
    <2>1. QED
      BY <1>1, <1>2 DEF Contains
  <1>4. QED
    BY <1>1, <1>3

LEMMA ContainsTail ==
  ASSUME NEW S, NEW q \in Seq(S), q # <<>>
  PROVE  /\ Tail(q) \in Seq(S)
         /\ \A y : Contains(Tail(q), y) => Contains(q, y)
  <1> DEFINE t == Tail(q)
  <1>1. t \in Seq(S) /\ Len(t) = Len(q) - 1 /\ Len(q) \in Nat
    OBVIOUS
  <1>2. \A i \in 1..Len(t) : i + 1 \in 1..Len(q) /\ t[i] = q[i + 1]
    OBVIOUS
  <1>3. \A y : Contains(t, y) => Contains(q, y)
    <2> HIDE DEF t
    <2>1. QED
      BY <1>1, <1>2 DEF Contains
  <1>4. QED
    BY <1>1, <1>3

\* The sequences that SetUp and ControlEstablished leave.
LEMMA ContainsShort ==
  /\ \A y : ~Contains(<<>>, y)
  /\ \A x, y : Contains(<<x>>, y) <=> x = y
  BY DEF Contains

-----------------------------------------------------------------------------
(* Types *)

LEMMA TypeStep ==
  ASSUME TypeOK, [Next]_vars
  PROVE  TypeOK'
  <1> USE SetupAssumption DEF SetupAssumption, TypeOK
  <1>1. CASE UNCHANGED vars
    BY <1>1 DEF vars, parameters, node, messages
  <1>2. CASE Main
    <2>1. CASE AddControl
      BY <2>1 DEF AddControl, parameters, node, messages
    <2>2. CASE InsertControl
      BY <2>2 DEF InsertControl, parameters, node, messages
    <2>3. CASE AssignControl
      BY <2>3 DEF AssignControl, parameters, node, messages
    <2>4. QED
      BY <1>2, <2>1, <2>2, <2>3 DEF Main
  <1>3. CASE ControlChanges
    <2>1. CASE ControlEstablished
      <3>1. requests' \in Seq(Functions) /\ failure' \in {"none", "control_lookup"}
        <4>1. CASE "control" \in registered
          <5>1. requests' = <<"authenticate">> /\ failure' = "none"
            BY <2>1, <4>1 DEF ControlEstablished, ServiceFree, Alive
          <5>2. <<"authenticate">> \in Seq(Functions)
            BY DEF Functions
          <5>3. QED
            BY <5>1, <5>2
        <4>2. CASE "control" \notin registered
          <5>1. requests' = requests /\ failure' = "control_lookup"
            BY <2>1, <4>2 DEF ControlEstablished
          <5>2. QED
            BY <5>1
        <4>3. QED
          BY <4>1, <4>2
      <3>2. QED
        BY <2>1, <3>1 DEF ControlEstablished, parameters, node, messages
    <2>2. CASE ControlFails
      BY <2>2 DEF ControlFails, parameters, node, messages
    <2>3. CASE ControlCloses
      BY <2>3 DEF ControlCloses, parameters, node, messages
    <2>4. QED
      BY <1>3, <2>1, <2>2, <2>3 DEF ControlChanges
  <1>4. ASSUME NEW outcome \in {"ok", "failed"}, Authenticated(outcome)
        PROVE  TypeOK'
    <2>1. Tail(requests) \in Seq(Functions)
      BY <1>4 DEF Authenticated, AnswerTo
    <2>2. requests' \in Seq(Functions)
      <3>1. requests' \in {Tail(requests), Append(Tail(requests), "create")}
        BY <1>4 DEF Authenticated, SetUp, CreateRequested
      <3>2. ASSUME NEW s \in Seq(Functions)
            PROVE  Append(s, "create") \in Seq(Functions)
        <4>1. "create" \in Functions
          BY DEF Functions
        <4>2. QED
          BY <4>1
      <3>3. Append(Tail(requests), "create") \in Seq(Functions)
        BY <2>1, <3>2, Zenon
      <3>4. QED
        BY <2>1, <3>1, <3>3, Zenon
    <2>3. reports' \in Seq({"ok", "failed"})
      <3>1. reports' \in {Append(reports, "ok"), Append(reports, "failed"),
                          reports \o <<"ok", "failed">>}
        BY <1>4 DEF Authenticated, SetUp, CreateRequested
      <3>2. Append(reports, "ok") \in Seq({"ok", "failed"})
        OBVIOUS
      <3>3. Append(reports, "failed") \in Seq({"ok", "failed"})
        OBVIOUS
      <3>4. reports \o <<"ok", "failed">> \in Seq({"ok", "failed"})
        OBVIOUS
      <3>5. QED
        BY <3>1, <3>2, <3>3, <3>4
    <2>4. made' \subseteq {"update_handler", "publisher", "subscription"}
      BY <1>4 DEF Authenticated, SetUp, CreateRequested, Prerequisites
    <2>5. UNCHANGED <<parameters, main, control, controlId, registered, lws, stream, dataId,
                      failure, messages>>
      BY <1>4 DEF Authenticated
    <2>6. QED
      BY <2>2, <2>3, <2>4, <2>5 DEF parameters, messages
  <1>5. CASE StreamAnswered
    BY <1>5 DEF StreamAnswered, AnswerTo, parameters, node, messages
  <1>6. CASE SubscribeAnswered
    BY <1>6 DEF SubscribeAnswered, AnswerTo, parameters, node, messages
  <1>7. CASE InsertStream
    BY <1>7 DEF InsertStream, parameters, node, messages
  <1>8. CASE StreamProgress
    <2>1. CASE Resolved \/ Connected \/ StreamFails
      <3>1. stream' \in {"connecting", "on_init", "failed"}
        BY <2>1 DEF Resolved, Connected, StreamFails, StreamStep
      <3>2. /\ UNCHANGED <<parameters, main, control, controlId, registered, requests, lws>>
            /\ UNCHANGED <<node, reports, failure, messages>>
        BY <2>1 DEF Resolved, Connected, StreamFails, StreamStep
      <3>3. QED
        BY <3>1, <3>2 DEF parameters, node, messages
    <2>2. CASE Ping
      BY <2>2 DEF Ping, parameters, node, messages
    <2>3. CASE Assign
      BY <2>3 DEF Assign, parameters, node, messages
    <2>4. CASE Subscribe
      BY <2>4 DEF Subscribe, parameters, node, messages
    <2>5. QED
      BY <1>8, <2>1, <2>2, <2>3, <2>4 DEF StreamProgress
  <1>9. CASE UpdateReceived
    <2>1. Append(requests, "subscribe") \in Seq(Functions)
      BY DEF Functions
    <2>2. requests' \in {requests, Append(requests, "subscribe")}
      BY <1>9 DEF UpdateReceived
    <2>3. reports' \in {reports, Append(reports, "failed")}
      BY <1>9 DEF UpdateReceived
    <2>4. requests' \in Seq(Functions)
      BY <2>1, <2>2
    <2>5. reports' \in Seq({"ok", "failed"})
      <3>1. Append(reports, "failed") \in Seq({"ok", "failed"})
        OBVIOUS
      <3>2. QED
        BY <2>3, <3>1
    <2>6. QED
      BY <1>9, <2>4, <2>5 DEF UpdateReceived, parameters, node
  <1>10. CASE UnknownReceived
    BY <1>10 DEF UnknownReceived, parameters, node
  <1>11. CASE LocalMessage
    BY <1>11 DEF LocalMessage, parameters, node
  <1>12. CASE CorelinkMessage
    BY <1>12 DEF CorelinkMessage, parameters, node
  <1>13. QED
    BY <1>1, <1>2, <1>3, <1>4, <1>5, <1>6, <1>7, <1>8, <1>9, <1>10, <1>11, <1>12
       DEF Next, Answered

\* Every variable of the bridge keeps its type, through every interleaving of
\* the three threads.
THEOREM TypeCorrect == Spec => []TypeOK
  <1>1. Init => TypeOK
    BY SetupAssumption DEF SetupAssumption, Init, TypeOK
  <1>2. QED
    BY <1>1, TypeStep, PTL DEF Spec

-----------------------------------------------------------------------------
(* A websocket stream is registered before it is used *)

\* The stream's initialisation begins when the service thread is about to
\* register it; that of a websocket goes on when the thread has done so.
RegisteredInTime ==
  /\ stream # "none" => lws = "insert" \/ "data" \in registered
  /\ protocol = "websocket" /\ stream \in {"on_init", "assign", "subscribe", "ready"} =>
       "data" \in registered
  /\ stream = "subscribe" => dataId = "data"
  /\ "subscription" \in made => dataId = "data" /\ (protocol = "websocket" => "data" \in registered)
  /\ WebsocketStreamsAreRegistered

LEMMA RegisteredStep ==
  ASSUME TypeOK, RegisteredInTime, [Next]_vars
  PROVE  RegisteredInTime'
  <1> USE DEF TypeOK, RegisteredInTime, WebsocketStreamsAreRegistered, parameters, node
  <1>1. CASE UNCHANGED vars
    BY <1>1 DEF vars
  <1>2. CASE Main
    BY <1>2 DEF Main, AddControl, InsertControl, AssignControl
  <1>3. CASE ControlChanges
    BY <1>3 DEF ControlChanges, ControlEstablished, ControlFails, ControlCloses
  <1>4. CASE Answered
    BY <1>4 DEF Answered, Authenticated, SetUp, CreateRequested, Prerequisites, StreamAnswered,
      SubscribeAnswered, AnswerTo
  <1>5. CASE InsertStream
    BY <1>5 DEF InsertStream
  <1>6. CASE Resolved \/ Connected \/ StreamFails
    BY <1>6 DEF Resolved, Connected, StreamFails, StreamStep, StreamThreadFree, ServiceFree
  <1>7. CASE Ping \/ Assign \/ Subscribe
    BY <1>7 DEF Ping, Assign, Subscribe
  <1>8. CASE UpdateReceived \/ UnknownReceived
    BY <1>8 DEF UpdateReceived, UnknownReceived
  <1>9. CASE LocalMessage \/ CorelinkMessage
    BY <1>9 DEF LocalMessage, CorelinkMessage
  <1>10. QED
    BY <1>1, <1>2, <1>3, <1>4, <1>5, <1>6, <1>7, <1>8, <1>9 DEF Next, StreamProgress

\* With websocket data channels, neither the ping nor a local message is ever
\* sent on a channel the client does not know yet.
THEOREM WebsocketStreamsRegistered == Spec => []WebsocketStreamsAreRegistered
  <1>1. Init => RegisteredInTime
    BY DEF Init, RegisteredInTime, WebsocketStreamsAreRegistered
  <1>2. TypeOK /\ RegisteredInTime /\ [Next]_vars => RegisteredInTime'
    BY RegisteredStep
  <1>3. RegisteredInTime => WebsocketStreamsAreRegistered
    BY DEF RegisteredInTime
  <1>4. QED
    BY <1>1, <1>2, <1>3, TypeCorrect, PTL DEF Spec

-----------------------------------------------------------------------------
(* Authentication, then the update handler, then the stream *)

\* The stream was asked for: its request is on its way or was answered.
Asked == Contains(requests, "create") \/ stream # "none"

Ordered ==
  /\ main = "connect" => control = "none"
  /\ control \in {"none", "connecting"} => requests = <<>> /\ stream = "none" /\ reports = <<>>
  /\ Contains(requests, "authenticate") =>
       /\ requests = <<"authenticate">> /\ stream = "none" /\ updates = 0
       /\ unknown = 0 => reports = <<>>
  /\ Asked =>
       /\ Reported("ok")
       /\ direction = "from_corelink" => "update_handler" \in made
       /\ unknown = 0 => ~Reported("failed")
  /\ "publisher" \in made => Reported("ok")
  /\ updates > 0 => Asked
  /\ "subscription" \in made \/ sent > 0 \/ published > 0 => stream # "none"

LEMMA OrderedStep ==
  ASSUME TypeOK, Ordered, [Next]_vars
  PROVE  Ordered'
  <1> USE SetupAssumption DEF SetupAssumption, TypeOK, Ordered, Asked, Reported
  <1>1. CASE UNCHANGED vars
    BY <1>1 DEF vars, parameters, node, messages
  <1>2. CASE Main
    <2>1. /\ UNCHANGED <<direction, requests, stream, made, reports, updates, unknown, sent,
                         published>>
          /\ main' # "connect"
      BY <1>2 DEF Main, AddControl, InsertControl, AssignControl, parameters, node, messages
    <2>2. (control' = control) \/ (control' = "connecting" /\ control = "none")
      BY <1>2 DEF Main, AddControl, InsertControl, AssignControl
    <2>3. QED
      BY <2>1, <2>2
  <1>3. CASE ControlEstablished
    BY <1>3, ContainsShort DEF ControlEstablished, parameters, node, messages
  <1>4. CASE ControlFails
    BY <1>4, ContainsShort DEF ControlFails, parameters, node, messages
  <1>5. ASSUME NEW outcome \in {"ok", "failed"}, Authenticated(outcome)
        PROVE  Ordered'
    <2>1. requests = <<"authenticate">> /\ stream = "none" /\ updates = 0
      <3>1. Contains(requests, "authenticate")
        BY <1>5 DEF Authenticated, AnswerTo, Contains
      <3>2. QED
        BY <3>1
    <2>2. UNCHANGED <<direction, main, control, stream, updates, unknown, sent, published>>
      BY <1>5 DEF Authenticated, parameters, messages
    <2>3. control \notin {"none", "connecting"} /\ (unknown = 0 => reports = <<>>)
      BY <2>1, ContainsShort
    <2>4. "subscription" \notin made /\ "subscription" \notin Prerequisites
      BY <2>1 DEF Prerequisites
    <2>5. CASE outcome = "ok" /\ controlId = "control"
      <3>1. requests' = <<"create">> /\ made' = Prerequisites /\ reports' = Append(reports, "ok")
        BY <1>5, <2>1, <2>5 DEF Authenticated, SetUp, CreateRequested
      <3>2. Contains(reports', "ok")
        BY <3>1, ContainsAppend
      <3>3. unknown = 0 => ~Contains(reports', "failed")
        BY <2>3, <3>1, ContainsAppend, ContainsShort
      <3>4. QED
        BY <2>1, <2>2, <2>3, <2>4, <3>1, <3>2, <3>3, ContainsShort DEF Prerequisites
    <2>6. CASE ~(outcome = "ok" /\ controlId = "control")
      <3>1. requests' = <<>> /\ (made' = made \/ (outcome = "ok" /\ made' \subseteq Prerequisites))
        <4>0. Tail(requests) = <<>>
          <5>1. Tail(<<"authenticate">>) = <<>>
            OBVIOUS
          <5>2. QED
            BY <2>1, <5>1, Zenon
        <4>1. CASE outcome = "failed"
          <5>1. made' = made /\ requests' = Tail(requests)
            BY <1>5, <4>1 DEF Authenticated, SetUp, CreateRequested
          <5>2. QED
            BY <4>0, <5>1
        <4>2. CASE outcome = "ok" /\ controlId # "control"
          <5>1. made' = Prerequisites \ {"update_handler"} /\ requests' = Tail(requests)
            BY <1>5, <4>2 DEF Authenticated, SetUp, CreateRequested
          <5>2. requests' = <<>>
            BY <4>0, <5>1, Zenon
          <5>3. made' \subseteq Prerequisites
            BY <5>1
          <5>4. QED
            BY <4>2, <5>2, <5>3
        <4>3. QED
          BY <2>6, <4>1, <4>2
      <3>2. Contains(reports', "ok") \/ (outcome = "failed" /\ reports' = Append(reports, "failed"))
        <4>1. outcome = "ok" => reports' = reports \o <<"ok", "failed">>
          BY <1>5, <2>6 DEF Authenticated, SetUp, CreateRequested
        <4>2. LET r == reports \o <<"ok", "failed">>
              IN  Len(reports) + 1 \in 1..Len(r) /\ r[Len(reports) + 1] = "ok"
          OBVIOUS
        <4>3. outcome = "failed" => reports' = Append(reports, "failed")
          BY <1>5 DEF Authenticated, SetUp, CreateRequested
        <4>4. Contains(reports \o <<"ok", "failed">>, "ok")
          BY <4>2 DEF Contains
        <4>5. QED
          BY <4>1, <4>3, <4>4
      <3>3. outcome = "failed" => made' = made
        BY <1>5 DEF Authenticated, SetUp, CreateRequested
      <3>4. Contains(reports, "ok") => Contains(reports', "ok")
        <4>1. "failed" \in {"ok", "failed"} /\ reports \in Seq({"ok", "failed"})
          OBVIOUS
        <4>2. Contains(reports, "ok") => Contains(Append(reports, "failed"), "ok")
          BY <4>1, ContainsAppend
        <4>3. QED
          BY <3>2, <4>2
      <3>5. outcome = "ok" => Contains(reports', "ok")
        BY <3>2
      <3>6. "publisher" \in made' => Contains(reports', "ok")
        BY <3>1, <3>4, <3>5
      <3>7. QED
        BY <2>1, <2>2, <2>3, <2>4, <3>1, <3>6, ContainsShort
    <2>7. QED
      BY <2>5, <2>6
  <1>6. CASE StreamAnswered
    <2>1. Contains(requests, "create") /\ ~Contains(requests, "authenticate")
      <3>1. Contains(requests, "create")
        BY <1>6 DEF StreamAnswered, AnswerTo, Contains
      <3>2. QED
        BY <3>1, ContainsShort
    <2>2. ~Contains(requests', "authenticate")
      BY <1>6, <2>1, ContainsTail DEF StreamAnswered, AnswerTo
    <2>3. QED
      BY <1>6, <2>1, <2>2 DEF StreamAnswered, AnswerTo, parameters, node, messages
  <1>7. CASE SubscribeAnswered
    <2>1. \A f : Contains(requests', f) => Contains(requests, f)
      BY <1>7, ContainsTail DEF SubscribeAnswered, AnswerTo
    <2>2. Contains(requests, "create") => Contains(requests', "create")
      <3>1. requests' = Tail(requests) /\ requests # <<>> /\ requests[1] # "create"
        BY <1>7 DEF SubscribeAnswered, AnswerTo
      <3>2. ASSUME NEW i \in 1..Len(requests), requests[i] = "create"
            PROVE  Contains(Tail(requests), "create")
        <4>1. i - 1 \in 1..Len(Tail(requests)) /\ Tail(requests)[i - 1] = "create"
          BY <3>1, <3>2
        <4>2. QED
          BY <4>1 DEF Contains
      <3>3. QED
        BY <3>1, <3>2 DEF Contains
    <2>3. ~Contains(requests, "authenticate")
      BY <1>7, ContainsShort DEF SubscribeAnswered, AnswerTo
    <2>4. control \notin {"none", "connecting"}
      BY <1>7 DEF SubscribeAnswered, AnswerTo
    <2>5. QED
      BY <1>7, <2>1, <2>2, <2>3, <2>4 DEF SubscribeAnswered, AnswerTo, parameters, node, messages
  <1>8. CASE InsertStream
    BY <1>8 DEF InsertStream, parameters, node, messages
  <1>9. CASE StreamProgress
    <2>1. /\ UNCHANGED <<direction, main, control, requests, reports, updates, unknown, sent,
                         published>>
          /\ stream # "none" /\ stream' # "none"
          /\ made' \in {made, made \cup {"subscription"}}
      BY <1>9 DEF StreamProgress, Resolved, Connected, StreamFails, StreamStep, Ping, Assign,
                  Subscribe, parameters, node, messages
    <2>2. QED
      BY <2>1
  <1>10. CASE UpdateReceived
    <2>1. /\ direction = "from_corelink" /\ Asked
          /\ UNCHANGED <<direction, main, control, stream, made, unknown, sent, published>>
      BY <1>10, ContainsShort DEF UpdateReceived, parameters, node
    <2>2. "update_handler" \in made /\ ~Contains(requests, "authenticate")
      BY <2>1, ContainsShort
    <2>3. UNCHANGED reports /\ requests' \in {requests, Append(requests, "subscribe")}
      BY <1>10, <2>2 DEF UpdateReceived
    <2>4. \A f \in {"authenticate", "create"} : Contains(requests', f) <=> Contains(requests, f)
      <3>1. \A f : Contains(Append(requests, "subscribe"), f)
                     <=> Contains(requests, f) \/ f = "subscribe"
        BY ContainsAppend DEF Functions
      <3>2. QED
        BY <2>3, <3>1
    <2>5. control \notin {"none", "connecting"}
      BY <2>1, ContainsShort
    <2>6. QED
      BY <2>1, <2>2, <2>3, <2>4, <2>5
  <1>11. CASE UnknownReceived
    <2>1. /\ UNCHANGED <<direction, main, control, requests, stream, made, updates, sent, published>>
          /\ control = "open" /\ unknown' > 0 /\ reports' = Append(reports, "failed")
      BY <1>11 DEF UnknownReceived, parameters, node
    <2>2. Contains(reports, "ok") => Contains(reports', "ok")
      BY <2>1, ContainsAppend
    <2>3. QED
      BY <2>1, <2>2
  <1>12. CASE LocalMessage \/ CorelinkMessage
    BY <1>12 DEF LocalMessage, CorelinkMessage, parameters, node
  <1>13. CASE ControlCloses
    BY <1>13 DEF ControlCloses, parameters, node, messages
  <1>14. QED
    BY <1>1, <1>2, <1>3, <1>4, <1>5, <1>6, <1>7, <1>8, <1>9, <1>10, <1>11, <1>12, <1>13
       DEF Next, ControlChanges, Answered

LEMMA OrderedInit == Init => Ordered
  BY ContainsShort DEF Init, Ordered, Asked, Reported

\* The node asks for no stream, and bridges nothing, before the server has
\* accepted its credentials; and an announced sender finds its handler, whatever
\* the order in which the server's answers and announcements arrive.
THEOREM SetUpIsOrdered == Spec => []SetUpInOrder
  <1>1. Ordered => SetUpInOrder
    BY DEF Ordered, Asked, SetUpInOrder
  <1>2. TypeOK /\ Ordered /\ [Next]_vars => Ordered'
    BY OrderedStep
  <1>3. QED
    BY <1>1, <1>2, OrderedInit, TypeCorrect, PTL DEF Spec
=============================================================================
