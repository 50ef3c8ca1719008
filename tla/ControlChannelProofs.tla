------------------------ MODULE ControlChannelProofs ------------------------
(***************************************************************************)
(* Proofs about ControlChannel, for every set of requests and callbacks,   *)
(* every bound on the server's spontaneous messages, and with or without   *)
(* throwing handlers, unknown messages and ignored requests.               *)
(***************************************************************************)
EXTENDS ControlChannel, FiniteSetTheorems, TLAPS

-----------------------------------------------------------------------------
(* The queue *)

\* What push does to the elements of m_outbound_control_msg_queue.
LEMMA RangeAppend ==
  ASSUME NEW S, NEW q \in Seq(S), NEW x \in S
  PROVE  /\ Append(q, x) \in Seq(S)
         /\ Range(Append(q, x)) = Range(q) \cup {x}
  <1> DEFINE a == Append(q, x)
  <1>1. a \in Seq(S) /\ DOMAIN a = DOMAIN q \cup {Len(q) + 1}
    OBVIOUS
  <1>2. a[Len(q) + 1] = x /\ \A i \in DOMAIN q : a[i] = q[i]
    OBVIOUS
  <1>3. Range(a) = Range(q) \cup {x}
    <2> HIDE DEF a
    <2>1. QED
      BY <1>1, <1>2 DEF Range
  <1>4. QED
    BY <1>1, <1>3

\* What peek and pop do to them.
LEMMA RangeHeadTail ==
  ASSUME NEW S, NEW q \in Seq(S), q # <<>>
  PROVE  /\ Head(q) \in S
         /\ Tail(q) \in Seq(S)
         /\ Range(q) = {Head(q)} \cup Range(Tail(q))
  <1>1. Head(q) \in S /\ Tail(q) \in Seq(S)
    OBVIOUS
  <1>2. ASSUME NEW i \in DOMAIN q
        PROVE  q[i] = Head(q) \/ \E j \in DOMAIN Tail(q) : Tail(q)[j] = q[i]
    <2>1. CASE i = 1
      BY <2>1
    <2>2. CASE i # 1
      <3>1. i - 1 \in DOMAIN Tail(q) /\ Tail(q)[i - 1] = q[i]
        BY <2>2
      <3>2. QED
        BY <3>1
    <2>3. QED
      BY <2>1, <2>2
  <1>3. ASSUME NEW j \in DOMAIN Tail(q)
        PROVE  \E i \in DOMAIN q : q[i] = Tail(q)[j]
    <2>1. j + 1 \in DOMAIN q /\ q[j + 1] = Tail(q)[j]
      OBVIOUS
    <2>2. QED
      BY <2>1
  <1>4. 1 \in DOMAIN q /\ q[1] = Head(q)
    OBVIOUS
  <1>5. QED
    BY <1>1, <1>2, <1>3, <1>4 DEF Range

NoRepeat(q) == \A i, j \in DOMAIN q : q[i] = q[j] => i = j

\* Pushing a request that is not in the queue keeps it free of repetitions.
LEMMA NoRepeatAppend ==
  ASSUME NEW S, NEW q \in Seq(S), NEW x \in S, NoRepeat(q), x \notin Range(q)
  PROVE  NoRepeat(Append(q, x))
  BY DEF NoRepeat, Range

\* Popping keeps it so, and the popped request is not in it any more.
LEMMA NoRepeatTail ==
  ASSUME NEW S, NEW q \in Seq(S), q # <<>>, NoRepeat(q)
  PROVE  NoRepeat(Tail(q)) /\ Head(q) \notin Range(Tail(q))
  <1>1. \A j \in DOMAIN Tail(q) : j + 1 \in DOMAIN q /\ Tail(q)[j] = q[j + 1]
    OBVIOUS
  <1>2. DOMAIN Tail(q) \subseteq Nat \ {0} /\ 1 \in DOMAIN q /\ Head(q) = q[1]
    OBVIOUS
  <1>3. NoRepeat(Tail(q))
    BY <1>1, <1>2 DEF NoRepeat
  <1>4. Head(q) \notin Range(Tail(q))
    BY <1>1, <1>2 DEF NoRepeat, Range
  <1>5. QED
    BY <1>3, <1>4

-----------------------------------------------------------------------------
(* The inductive invariant *)

AtMostOneArmed == \A r, s \in completion_handlers : r = s

\* The request on its way to the server is the armed one, and was not
\* answered; whatever was answered has been dispatched.
ServerConsistent ==
  /\ Len(toServer) <= 1
  /\ \A i \in DOMAIN toServer : toServer[i] \in completion_handlers \ answered
  /\ answered \subseteq completion_handlers \cup completed

Answers(q) ==
  \A i \in DOMAIN q : q[i].type = "response" => q[i].of \in answered

\* Every response on its way was sent by the server, and the one being
\* served still has its handler.
ResponsesGenuine ==
  /\ Answers(toClient)
  /\ Answers(response_stream)
  /\ pc = "callback" =>
       /\ current \in Message
       /\ current.type = "response" => current.of \in completion_handlers \cap answered

IInv ==
  /\ TypeOK
  /\ InUseIffArmed
  /\ NoRequestLostOrDuplicated
  /\ AtMostOneArmed
  /\ ServerConsistent
  /\ ResponsesGenuine

LEMMA MessageShape ==
  /\ \A r \in Requests : Response(r) \in Message /\ Response(r).type = "response" /\ Response(r).of = r
  /\ \A m \in Message : m.type = "response" => m.of \in Requests
  /\ NoMessage.type = "none"
  BY DEF Message, Response, Event, Junk, NoMessage

\* Dispatching on a free channel a request the server has not answered keeps
\* one request outstanding.
LEMMA DispatchStep ==
  ASSUME TypeOK, InUseIffArmed, ServerConsistent, ~channel_in_use,
         NEW r \in Requests, r \notin answered,
         Dispatch(r), UNCHANGED <<answered, completed>>
  PROVE  /\ completion_handlers = {} /\ completion_handlers' = {r}
         /\ toServer' = <<r>>
         /\ InUseIffArmed'
         /\ AtMostOneArmed'
         /\ ServerConsistent'
  <1>1. completion_handlers = {}
    BY DEF InUseIffArmed
  <1>2. toServer = <<>>
    <2>1. toServer # <<>> => 1 \in DOMAIN toServer
      BY DEF TypeOK
    <2>2. QED
      BY <1>1, <2>1 DEF ServerConsistent
  <1>3. toServer' = <<r>> /\ completion_handlers' = {r} /\ channel_in_use' = TRUE
    BY <1>1, <1>2 DEF Dispatch
  <1>4. QED
    BY <1>1, <1>3 DEF InUseIffArmed, AtMostOneArmed, ServerConsistent

LEMMA InitIInv == Init => IInv
  <1> SUFFICES ASSUME Init PROVE IInv
    OBVIOUS
  <1>1. TypeOK
    <2>1. registered \subseteq EventKinds /\ spontaneous \in 0..MaxSpontaneous
      BY ConstantsAssumption DEF Init, ConstantsAssumption
    <2>2. response_stream \in Seq(Message) /\ toClient \in Seq(Message)
          /\ outbound \in Seq(Requests) /\ toServer \in Seq(Requests)
      BY DEF Init
    <2>3. QED
      BY <2>1, <2>2 DEF Init, TypeOK
  <1>2. InUseIffArmed /\ AtMostOneArmed
    BY DEF Init, InUseIffArmed, AtMostOneArmed
  <1>3. NoRequestLostOrDuplicated
    BY DEF Init, NoRequestLostOrDuplicated, Range
  <1>4. ServerConsistent /\ ResponsesGenuine
    BY DEF Init, ServerConsistent, ResponsesGenuine, Answers
  <1>5. QED
    BY <1>1, <1>2, <1>3, <1>4 DEF IInv

-----------------------------------------------------------------------------
(* Every action keeps it *)

LEMMA RequestStep ==
  ASSUME IInv, NEW r \in Requests, Request(r)
  PROVE  IInv'
  <1> USE DEF IInv
  <1>1. r \notin issued /\ issued' = issued \cup {r} /\ r \notin Range(outbound)
        /\ r \notin completion_handlers \cup completed \cup answered
    BY DEF Request, NoRequestLostOrDuplicated, ServerConsistent
  <1>2. UNCHANGED <<registered, handlerVars, serverVars, completed, faults>>
    BY DEF Request
  <1>3. CASE channel_in_use /\ outbound' = Append(outbound, r)
             /\ UNCHANGED <<channel_in_use, completion_handlers, toServer>>
    <2>1. outbound' \in Seq(Requests) /\ Range(outbound') = Range(outbound) \cup {r}
      BY <1>3, RangeAppend DEF TypeOK
    <2>2. NoRepeat(outbound')
      BY <1>1, <1>3, NoRepeatAppend DEF TypeOK, NoRequestLostOrDuplicated, NoRepeat
    <2>3. TypeOK'
      BY <1>1, <1>2, <1>3, <2>1 DEF TypeOK, handlerVars, serverVars
    <2>4. NoRequestLostOrDuplicated'
      BY <1>1, <1>2, <1>3, <2>1, <2>2 DEF NoRequestLostOrDuplicated, NoRepeat
    <2>5. QED
      BY <1>2, <1>3, <2>3, <2>4
         DEF InUseIffArmed, AtMostOneArmed, ServerConsistent, ResponsesGenuine, Answers,
             handlerVars, serverVars
  <1>4. CASE ~channel_in_use /\ Dispatch(r) /\ UNCHANGED outbound
    <2>1. /\ completion_handlers = {} /\ completion_handlers' = {r} /\ toServer' = <<r>>
          /\ InUseIffArmed' /\ AtMostOneArmed' /\ ServerConsistent'
      BY <1>1, <1>2, <1>4, DispatchStep DEF serverVars
    <2>2. TypeOK'
      BY <1>1, <1>2, <1>4, <2>1 DEF TypeOK, handlerVars, serverVars, Dispatch
    <2>3. NoRequestLostOrDuplicated'
      BY <1>1, <1>2, <1>4, <2>1 DEF NoRequestLostOrDuplicated
    <2>4. ResponsesGenuine'
      BY <1>2, <2>1 DEF ResponsesGenuine, Answers, handlerVars, serverVars
    <2>5. QED
      BY <2>1, <2>2, <2>3, <2>4
  <1>5. QED
    BY <1>3, <1>4 DEF Request

LEMMA RegisterStep ==
  ASSUME IInv, NEW e \in EventKinds, Register(e)
  PROVE  IInv'
  BY DEF IInv, Register, TypeOK, InUseIffArmed, NoRequestLostOrDuplicated, AtMostOneArmed,
         ServerConsistent, ResponsesGenuine, Answers, handlerVars, serverVars, historyVars

\* Reading moves messages from the socket to the stream.
LEMMA ReceiveStep ==
  ASSUME IInv, NEW n \in 0..Len(toClient), Receive(n)
  PROVE  IInv'
  <1> USE DEF IInv
  <1> DEFINE got == SubSeq(toClient, 1, n)
             left == SubSeq(toClient, n + 1, Len(toClient))
  <1>1. n \in Nat /\ n <= Len(toClient) /\ toClient \in Seq(Message)
        /\ response_stream \in Seq(Message)
    BY DEF TypeOK
  <1>2. /\ got \in Seq(Message) /\ Len(got) = n
        /\ \A i \in DOMAIN got : i \in DOMAIN toClient /\ got[i] = toClient[i]
    BY <1>1
  <1>3. /\ left \in Seq(Message) /\ Len(left) = Len(toClient) - n
        /\ \A i \in DOMAIN left : i + n \in DOMAIN toClient /\ left[i] = toClient[i + n]
    BY <1>1
  <1>4. response_stream' = response_stream \o got /\ toClient' = left /\ pc' = "parse"
        /\ UNCHANGED <<clientVars, current, toServer, answered, spontaneous, historyVars, faults>>
    BY DEF Receive
  <1> HIDE DEF got, left
  <1>5. response_stream' \in Seq(Message)
        /\ \A i \in DOMAIN response_stream' :
             \/ i \in DOMAIN response_stream /\ response_stream'[i] = response_stream[i]
             \/ i - Len(response_stream) \in DOMAIN got
                /\ response_stream'[i] = got[i - Len(response_stream)]
    BY <1>1, <1>2, <1>4
  <1>6. Answers(toClient)' /\ Answers(response_stream)'
    <2>1. UNCHANGED answered
      BY <1>4
    <2>2. Answers(toClient)'
      BY <1>3, <1>4, <2>1 DEF ResponsesGenuine, Answers
    <2>3. Answers(response_stream)'
      BY <1>2, <1>5, <2>1 DEF ResponsesGenuine, Answers
    <2>4. QED
      BY <2>2, <2>3
  <1>7. TypeOK'
    BY <1>3, <1>4, <1>5 DEF TypeOK, clientVars, historyVars
  <1>8. QED
    BY <1>4, <1>6, <1>7
       DEF InUseIffArmed, NoRequestLostOrDuplicated, AtMostOneArmed, ServerConsistent,
           ResponsesGenuine, clientVars, historyVars

\* Taking the first message off the stream leaves genuine responses in it.
LEMMA StreamTail ==
  ASSUME NEW q \in Seq(Message), q # <<>>, Answers(q)
  PROVE  /\ Head(q) \in Message /\ Tail(q) \in Seq(Message)
         /\ Head(q).type = "response" => Head(q).of \in answered
         /\ Answers(Tail(q))
  <1>1. Head(q) \in Message /\ Tail(q) \in Seq(Message) /\ 1 \in DOMAIN q /\ Head(q) = q[1]
    OBVIOUS
  <1>2. \A j \in DOMAIN Tail(q) : j + 1 \in DOMAIN q /\ Tail(q)[j] = q[j + 1]
    OBVIOUS
  <1>3. QED
    BY <1>1, <1>2 DEF Answers

LEMMA ServeStep ==
  ASSUME IInv, Serve
  PROVE  IInv'
  <1> USE DEF IInv
  <1>1. /\ response_stream \in Seq(Message) /\ response_stream # <<>>
        /\ Answers(response_stream) /\ HandlerOf(Head(response_stream))
        /\ current' = Head(response_stream) /\ response_stream' = Tail(response_stream)
        /\ UNCHANGED <<clientVars, toServer, serverVars, historyVars, faults>> /\ pc' = "callback"
    BY DEF Serve, TypeOK, ResponsesGenuine
  <1>2. /\ current' \in Message /\ response_stream' \in Seq(Message)
        /\ current'.type = "response" => current'.of \in answered
        /\ Answers(Tail(response_stream))
    BY <1>1, StreamTail
  <1>3. current'.type = "response" => current'.of \in completion_handlers
    BY <1>1 DEF HandlerOf
  <1>4. TypeOK'
    BY <1>1, <1>2 DEF TypeOK, clientVars, serverVars, historyVars
  <1>5. ResponsesGenuine'
    BY <1>1, <1>2, <1>3 DEF ResponsesGenuine, Answers, clientVars, serverVars
  <1>6. QED
    BY <1>1, <1>4, <1>5
       DEF InUseIffArmed, NoRequestLostOrDuplicated, AtMostOneArmed, ServerConsistent,
           clientVars, serverVars, historyVars

LEMMA UnservedStep ==
  ASSUME IInv, Unserved
  PROVE  IInv'
  <1> USE DEF IInv
  <1>1. /\ response_stream \in Seq(Message) /\ response_stream # <<>>
        /\ Answers(response_stream) /\ response_stream' = Tail(response_stream)
        /\ UNCHANGED <<clientVars, current, toServer, serverVars, historyVars>> /\ pc' = "idle"
        /\ faults' = faults \cup {"unserved"}
    BY DEF Unserved, TypeOK, ResponsesGenuine
  <1>2. response_stream' \in Seq(Message) /\ Answers(Tail(response_stream))
    BY <1>1, StreamTail
  <1>3. TypeOK'
    BY <1>1, <1>2 DEF TypeOK, clientVars, serverVars, historyVars
  <1>4. ResponsesGenuine'
    BY <1>1, <1>2 DEF ResponsesGenuine, Answers, clientVars, serverVars
  <1>5. QED
    BY <1>1, <1>3, <1>4
       DEF InUseIffArmed, NoRequestLostOrDuplicated, AtMostOneArmed, ServerConsistent,
           clientVars, serverVars, historyVars

\* A served response takes with it the only armed handler, which is no longer
\* on its way to the server.
LEMMA CallbackReturnsStep ==
  ASSUME IInv, CallbackReturns
  PROVE  IInv'
  <1> USE DEF IInv
  <1>1. /\ pc = "callback" /\ pc' = "parse" /\ current' = NoMessage
        /\ UNCHANGED <<registered, outbound, response_stream, toServer, serverVars, issued, faults>>
    BY DEF CallbackReturns, Retire
  <1>2. CASE current.type = "response"
    <2>1. /\ completion_handlers' = completion_handlers \ {current.of}
          /\ channel_in_use' = FALSE
          /\ completed' = completed \cup {current.of}
      BY <1>2 DEF CallbackReturns, Retire
    <2>2. current.of \in completion_handlers \cap answered /\ current.of \in Requests
      BY <1>1, <1>2, MessageShape DEF ResponsesGenuine
    <2>3. completion_handlers' = {}
      BY <2>1, <2>2 DEF AtMostOneArmed
    <2>4. DOMAIN toServer = {}
      BY <2>2 DEF ServerConsistent, AtMostOneArmed
    <2>5. TypeOK'
      BY <1>1, <2>1, <2>2 DEF TypeOK, serverVars
    <2>6. NoRequestLostOrDuplicated'
      BY <1>1, <2>1, <2>2 DEF NoRequestLostOrDuplicated
    <2>7. InUseIffArmed' /\ AtMostOneArmed'
      BY <2>1, <2>3 DEF InUseIffArmed, AtMostOneArmed
    <2>8. ServerConsistent'
      BY <1>1, <2>1, <2>2, <2>4 DEF ServerConsistent, serverVars
    <2>9. ResponsesGenuine'
      BY <1>1 DEF ResponsesGenuine, Answers, serverVars
    <2>10. QED
      BY <2>5, <2>6, <2>7, <2>8, <2>9
  <1>3. CASE current.type # "response"
    <2>1. UNCHANGED <<completion_handlers, channel_in_use, completed>>
      BY <1>3 DEF CallbackReturns, Retire
    <2>2. QED
      BY <1>1, <2>1
         DEF TypeOK, InUseIffArmed, NoRequestLostOrDuplicated, AtMostOneArmed,
             ServerConsistent, ResponsesGenuine, Answers, serverVars
  <1>4. QED
    BY <1>2, <1>3

LEMMA CallbackThrowsStep ==
  ASSUME IInv, CallbackThrows
  PROVE  IInv'
  BY DEF IInv, CallbackThrows, TypeOK, InUseIffArmed, NoRequestLostOrDuplicated,
         AtMostOneArmed, ServerConsistent, ResponsesGenuine, Answers, clientVars,
         serverVars, historyVars

\* The pump moves the head of the queue to its back or to the server.
LEMMA PumpStep ==
  ASSUME IInv, Pump
  PROVE  IInv'
  <1> USE DEF IInv
  <1> DEFINE r == Head(outbound)
             rest == Tail(outbound)
  <1>1. /\ pc' = "idle"
        /\ UNCHANGED <<registered, response_stream, current, serverVars, historyVars, faults>>
    BY DEF Pump
  <1>2. outbound # <<>> =>
          /\ r \in Requests /\ rest \in Seq(Requests)
          /\ Range(outbound) = {r} \cup Range(rest)
          /\ NoRepeat(rest) /\ r \notin Range(rest)
          /\ r \notin completion_handlers \cup completed \cup answered
    <2> SUFFICES ASSUME outbound # <<>> PROVE <1>2!2
      OBVIOUS
    <2>1. outbound \in Seq(Requests) /\ NoRepeat(outbound)
      BY DEF TypeOK, NoRequestLostOrDuplicated, NoRepeat
    <2>2. /\ r \in Requests /\ rest \in Seq(Requests)
          /\ Range(outbound) = {r} \cup Range(rest)
      BY <2>1, RangeHeadTail
    <2>3. NoRepeat(rest) /\ r \notin Range(rest)
      BY <2>1, NoRepeatTail
    <2>4. r \notin completion_handlers \cup completed \cup answered
      BY <2>2 DEF NoRequestLostOrDuplicated, ServerConsistent
    <2>5. QED
      BY <2>2, <2>3, <2>4
  <1> HIDE DEF r, rest
  <1>3. CASE outbound # <<>> /\ channel_in_use /\ outbound' = Append(rest, r)
             /\ UNCHANGED <<channel_in_use, completion_handlers, toServer>>
    <2>1. /\ outbound' \in Seq(Requests) /\ Range(outbound') = Range(outbound)
          /\ NoRepeat(outbound')
      <3>1. outbound' \in Seq(Requests) /\ Range(outbound') = Range(rest) \cup {r}
        BY <1>2, <1>3, RangeAppend
      <3>2. NoRepeat(outbound')
        BY <1>2, <1>3, NoRepeatAppend
      <3>3. QED
        BY <1>2, <1>3, <3>1, <3>2
    <2>2. TypeOK'
      BY <1>1, <1>3, <2>1 DEF TypeOK, serverVars, historyVars
    <2>3. NoRequestLostOrDuplicated'
      BY <1>1, <1>3, <2>1 DEF NoRequestLostOrDuplicated, NoRepeat, historyVars
    <2>4. QED
      BY <1>1, <1>3, <2>2, <2>3
         DEF InUseIffArmed, AtMostOneArmed, ServerConsistent, ResponsesGenuine, Answers,
             serverVars, historyVars
  <1>4. CASE outbound # <<>> /\ ~channel_in_use /\ Dispatch(r) /\ outbound' = rest
    <2>1. /\ completion_handlers = {} /\ completion_handlers' = {r} /\ toServer' = <<r>>
          /\ InUseIffArmed' /\ AtMostOneArmed' /\ ServerConsistent'
      BY <1>1, <1>2, <1>4, DispatchStep DEF serverVars, historyVars
    <2>2. TypeOK'
      BY <1>1, <1>2, <1>4, <2>1 DEF TypeOK, serverVars, historyVars, Dispatch
    <2>3. NoRequestLostOrDuplicated'
      BY <1>1, <1>2, <1>4, <2>1 DEF NoRequestLostOrDuplicated, NoRepeat, historyVars
    <2>4. ResponsesGenuine'
      BY <1>1 DEF ResponsesGenuine, Answers, serverVars
    <2>5. QED
      BY <2>1, <2>2, <2>3, <2>4
  <1>5. CASE UNCHANGED <<channel_in_use, completion_handlers, toServer, outbound>>
    BY <1>1, <1>5
       DEF TypeOK, InUseIffArmed, NoRequestLostOrDuplicated, AtMostOneArmed,
           ServerConsistent, ResponsesGenuine, Answers, serverVars, historyVars
  <1>6. QED
    BY <1>3, <1>4, <1>5 DEF Pump, r, rest

LEMMA AnswersAppend ==
  ASSUME NEW q \in Seq(Message), NEW m \in Message, Answers(q),
         m.type = "response" => m.of \in answered
  PROVE  Append(q, m) \in Seq(Message) /\ Answers(Append(q, m))
  BY DEF Answers

LEMMA ReplyStep ==
  ASSUME IInv, Reply
  PROVE  IInv'
  <1> USE DEF IInv
  <1> DEFINE r == Head(toServer)
  <1>1. /\ toClient' = Append(toClient, Response(r)) /\ answered' = answered \cup {r}
        /\ toServer' = Tail(toServer) /\ toServer # <<>>
        /\ UNCHANGED <<clientVars, handlerVars, spontaneous, historyVars, faults>>
    BY DEF Reply
  <1>2. r \in Requests /\ r = toServer[1] /\ 1 \in DOMAIN toServer /\ toServer' = <<>>
    BY <1>1 DEF TypeOK, ServerConsistent
  <1> HIDE DEF r
  <1>3. r \in completion_handlers
    BY <1>2 DEF ServerConsistent
  <1>4. /\ toClient' \in Seq(Message)
        /\ \A i \in DOMAIN toClient' :
             \/ i \in DOMAIN toClient /\ toClient'[i] = toClient[i]
             \/ toClient'[i] = Response(r)
    BY <1>1, <1>2, MessageShape DEF TypeOK
  <1>5. TypeOK'
    BY <1>1, <1>2, <1>4 DEF TypeOK, clientVars, handlerVars, historyVars
  <1>6. ServerConsistent'
    BY <1>1, <1>2, <1>3 DEF ServerConsistent, clientVars, historyVars
  <1>7. ResponsesGenuine'
    <2>1. Answers(toClient)'
      BY <1>1, <1>2, <1>4, MessageShape DEF ResponsesGenuine, Answers
    <2>2. QED
      BY <1>1, <2>1 DEF ResponsesGenuine, Answers, clientVars, handlerVars
  <1>8. QED
    BY <1>1, <1>5, <1>6, <1>7
       DEF InUseIffArmed, NoRequestLostOrDuplicated, AtMostOneArmed, clientVars, historyVars

LEMMA IgnoreStep ==
  ASSUME IInv, Ignore
  PROVE  IInv'
  <1>1. toServer \in Seq(Requests) /\ toServer # <<>> /\ Len(toServer) <= 1
        /\ toServer' = Tail(toServer)
        /\ UNCHANGED <<clientVars, handlerVars, serverVars, historyVars>>
        /\ faults' = faults \cup {"ignored"}
    BY DEF Ignore, IInv, TypeOK, ServerConsistent
  <1>2. toServer' = <<>>
    BY <1>1
  <1>3. QED
    BY <1>1, <1>2
       DEF IInv, TypeOK, InUseIffArmed, NoRequestLostOrDuplicated, AtMostOneArmed,
           ServerConsistent, ResponsesGenuine, Answers, clientVars, handlerVars, serverVars,
           historyVars

LEMMA SpontaneousStep ==
  ASSUME IInv, NEW m \in Message, Spontaneous(m)
  PROVE  IInv'
  <1> USE DEF IInv
  <1>1. /\ toClient' = Append(toClient, m) /\ spontaneous' = spontaneous + 1
        /\ spontaneous < MaxSpontaneous
        /\ m.type = "response" => m.of \in answered
        /\ UNCHANGED <<clientVars, handlerVars, toServer, answered, historyVars, faults>>
    BY DEF Spontaneous
  <1>2. toClient' \in Seq(Message) /\ Answers(Append(toClient, m))
    BY <1>1, AnswersAppend DEF TypeOK, ResponsesGenuine
  <1>3. TypeOK'
    BY <1>1, <1>2, ConstantsAssumption
       DEF TypeOK, ConstantsAssumption, clientVars, handlerVars, historyVars
  <1>4. ResponsesGenuine'
    BY <1>1, <1>2 DEF ResponsesGenuine, Answers, clientVars, handlerVars
  <1>5. QED
    BY <1>1, <1>3, <1>4
       DEF InUseIffArmed, NoRequestLostOrDuplicated, AtMostOneArmed, ServerConsistent,
           clientVars, handlerVars, historyVars

LEMMA NextIInv == IInv /\ [Next]_vars => IInv'
  <1> SUFFICES ASSUME IInv, [Next]_vars PROVE IInv'
    OBVIOUS
  <1>1. CASE UNCHANGED vars
    BY <1>1
       DEF vars, IInv, TypeOK, InUseIffArmed, NoRequestLostOrDuplicated, AtMostOneArmed,
           ServerConsistent, ResponsesGenuine, Answers, clientVars, handlerVars,
           serverVars, historyVars
  <1>2. CASE Next
    BY <1>2, RequestStep, RegisterStep, ReceiveStep, ServeStep, UnservedStep,
       CallbackReturnsStep, CallbackThrowsStep, PumpStep, ReplyStep, IgnoreStep,
       SpontaneousStep
       DEF Next
  <1>3. QED
    BY <1>1, <1>2

\* The invariant holds in every reachable state.
THEOREM Invariance == Spec => []IInv
  BY InitIInv, NextIInv, PTL DEF Spec

THEOREM TypeCorrect == Spec => []TypeOK
  BY Invariance, PTL DEF IInv

\* At most one request is outstanding, whatever the callbacks and the server do.
THEOREM RequestsAreSerialised == Spec => []OneOutstanding
  <1>1. IInv => OneOutstanding
    <2> SUFFICES ASSUME IInv PROVE OneOutstanding
      OBVIOUS
    <2>1. Cardinality(completion_handlers) <= 1
      <3>1. CASE completion_handlers = {}
        BY <3>1, FS_EmptySet
      <3>2. CASE completion_handlers # {}
        <4>1. PICK r : completion_handlers = {r}
          BY <3>2 DEF IInv, AtMostOneArmed
        <4>2. QED
          BY <4>1, FS_Singleton
      <3>3. QED
        BY <3>1, <3>2
    <2>2. QED
      BY <2>1 DEF IInv, ServerConsistent, OneOutstanding
  <1>2. QED
    BY <1>1, Invariance, PTL

\* No request disappears and none is queued, armed or completed twice.
THEOREM RequestsAreConserved == Spec => []NoRequestLostOrDuplicated
  BY Invariance, PTL DEF IInv

\* The channel is claimed exactly while a handler is armed.
THEOREM ChannelFreeWhenUnarmed == Spec => []InUseIffArmed
  BY Invariance, PTL DEF IInv

-----------------------------------------------------------------------------
(* A read that runs to its end leaves nothing behind *)

DrainInv == NoStalledQueue /\ StreamDrainedByReturn

\* Between reads only request() can touch the queue, and it queues behind a
\* claimed channel only; within a read, the one way to its end is the pump.
LEMMA DrainStep ==
  ASSUME DrainInv, [Next]_vars
  PROVE  DrainInv'
  <1> USE DEF DrainInv, NoStalledQueue, StreamDrainedByReturn, StreamDrained, NoEarlyReturn
  <1>1. CASE UNCHANGED vars
    BY <1>1 DEF vars, clientVars, handlerVars
  <1>2. ASSUME NEW r \in Requests, Request(r)
        PROVE  DrainInv'
    <2>1. UNCHANGED <<pc, response_stream, faults>>
      BY <1>2 DEF Request, handlerVars
    <2>2. CASE channel_in_use
      BY <1>2, <2>1, <2>2 DEF Request
    <2>3. CASE ~channel_in_use
      BY <1>2, <2>1, <2>3 DEF Request, Dispatch
    <2>4. QED
      BY <2>2, <2>3
  <1>3. ASSUME NEW e \in EventKinds, Register(e)
        PROVE  DrainInv'
    BY <1>3 DEF Register, handlerVars
  <1>4. ASSUME NEW n \in 0..Len(toClient), Receive(n)
        PROVE  DrainInv'
    BY <1>4 DEF Receive
  <1>5. CASE Serve \/ CallbackReturns
    BY <1>5 DEF Serve, CallbackReturns
  <1>6. CASE Unserved \/ CallbackThrows
    BY <1>6 DEF Unserved, CallbackThrows
  <1>7. CASE Pump
    BY <1>7 DEF Pump, Dispatch
  <1>8. CASE Reply \/ Ignore
    BY <1>8 DEF Reply, Ignore, clientVars, handlerVars
  <1>9. ASSUME NEW m \in Message, Spontaneous(m)
        PROVE  DrainInv'
    BY <1>9 DEF Spontaneous, clientVars, handlerVars
  <1>10. QED
    BY <1>1, <1>2, <1>3, <1>4, <1>5, <1>6, <1>7, <1>8, <1>9 DEF Next

LEMMA DrainInvariance == Spec => []DrainInv
  <1>1. Init => DrainInv
    BY DEF Init, DrainInv, NoStalledQueue, StreamDrainedByReturn, StreamDrained
  <1>2. QED
    BY <1>1, DrainStep, PTL DEF Spec

\* Until a read ends early, no request waits behind a free channel.
THEOREM QueueNeverStalls == Spec => []NoStalledQueue
  BY DrainInvariance, PTL DEF DrainInv

\* Until a read ends early, every complete message is served by the read that
\* completes it.
THEOREM ReadsDrainTheStream == Spec => []StreamDrainedByReturn
  BY DrainInvariance, PTL DEF DrainInv

-----------------------------------------------------------------------------
(* Refinement *)

\* Every step of the control channel is a step of the request service or
\* leaves it alone.
LEMMA ServiceStep == IInv /\ [Next]_vars => [Service!Next]_(Service!vars)
  <1> SUFFICES ASSUME IInv, [Next]_vars PROVE [Service!Next]_(Service!vars)
    OBVIOUS
  <1> USE DEF Service!vars
  <1>1. CASE UNCHANGED vars
    BY <1>1 DEF vars, clientVars, historyVars
  <1>2. ASSUME NEW r \in Requests, Request(r)
        PROVE  Service!Accept(r) \/ Service!Start(r)
    <2>1. /\ r \notin Range(outbound) \cup completion_handlers \cup completed
          /\ completed' = completed
      BY <1>2 DEF Request, IInv, NoRequestLostOrDuplicated
    <2>2. CASE channel_in_use /\ outbound' = Append(outbound, r)
               /\ UNCHANGED <<channel_in_use, completion_handlers, toServer>>
      <3>1. Range(outbound') = Range(outbound) \cup {r}
        BY <2>2, RangeAppend DEF IInv, TypeOK
      <3>2. completion_handlers # {}
        BY <2>2 DEF IInv, InUseIffArmed
      <3>3. QED
        BY <2>1, <2>2, <3>1, <3>2 DEF Service!Accept, Service!Known
    <2>3. CASE ~channel_in_use /\ Dispatch(r) /\ UNCHANGED outbound
      <3>1. completion_handlers = {} /\ completion_handlers' = {r}
        BY <2>3 DEF IInv, InUseIffArmed, Dispatch
      <3>2. Range(outbound') = Range(outbound) \ {r}
        BY <2>1, <2>3
      <3>3. QED
        BY <2>1, <3>1, <3>2 DEF Service!Start
    <2>4. QED
      BY <1>2, <2>2, <2>3 DEF Request
  <1>3. ASSUME CallbackReturns
        PROVE  (\E r \in Requests : Service!Retire(r)) \/ UNCHANGED Service!vars
    <2>1. outbound' = outbound /\ pc = "callback"
      BY <1>3 DEF CallbackReturns, Retire
    <2>2. CASE current.type = "response"
      <3>1. /\ completion_handlers' = completion_handlers \ {current.of}
            /\ completed' = completed \cup {current.of}
        BY <1>3, <2>2 DEF CallbackReturns, Retire
      <3>2. current.of \in completion_handlers /\ current.of \in Requests
        BY <2>1, <2>2, MessageShape DEF IInv, ResponsesGenuine
      <3>3. completion_handlers = {current.of}
        BY <3>2 DEF IInv, AtMostOneArmed
      <3>4. Service!Retire(current.of)
        BY <2>1, <3>1, <3>3 DEF Service!Retire
      <3>5. QED
        BY <3>2, <3>4
    <2>3. CASE current.type # "response"
      BY <1>3, <2>1, <2>3 DEF CallbackReturns, Retire
    <2>4. QED
      BY <2>2, <2>3
  <1>4. ASSUME Pump
        PROVE  (\E r \in Requests : Service!Start(r)) \/ UNCHANGED Service!vars
    <2> DEFINE r == Head(outbound)
               rest == Tail(outbound)
    <2>1. completed' = completed
      BY <1>4 DEF Pump, historyVars
    <2>2. outbound # <<>> =>
            /\ r \in Requests /\ rest \in Seq(Requests)
            /\ Range(outbound) = {r} \cup Range(rest)
            /\ r \notin Range(rest) /\ r \notin completion_handlers \cup completed
      <3> SUFFICES ASSUME outbound # <<>> PROVE <2>2!2
        OBVIOUS
      <3>1. outbound \in Seq(Requests) /\ NoRepeat(outbound)
        BY DEF IInv, TypeOK, NoRequestLostOrDuplicated, NoRepeat
      <3>2. /\ r \in Requests /\ rest \in Seq(Requests)
            /\ Range(outbound) = {r} \cup Range(rest)
        BY <3>1, RangeHeadTail
      <3>3. r \notin Range(rest)
        BY <3>1, NoRepeatTail
      <3>4. r \notin completion_handlers \cup completed
        BY <3>2 DEF IInv, NoRequestLostOrDuplicated
      <3>5. QED
        BY <3>2, <3>3, <3>4
    <2> HIDE DEF r, rest
    <2>3. CASE outbound # <<>> /\ channel_in_use /\ outbound' = Append(rest, r)
               /\ UNCHANGED <<channel_in_use, completion_handlers, toServer>>
      <3>1. Range(outbound') = Range(rest) \cup {r}
        BY <2>2, <2>3, RangeAppend
      <3>2. QED
        BY <2>1, <2>2, <2>3, <3>1
    <2>4. CASE outbound # <<>> /\ ~channel_in_use /\ Dispatch(r) /\ outbound' = rest
      <3>1. completion_handlers = {} /\ completion_handlers' = {r}
        BY <2>4 DEF IInv, InUseIffArmed, Dispatch
      <3>2. Range(outbound') = Range(outbound) \ {r}
        BY <2>2, <2>4
      <3>3. QED
        BY <2>1, <2>2, <2>4, <3>1, <3>2 DEF Service!Start
    <2>5. CASE UNCHANGED <<channel_in_use, completion_handlers, toServer, outbound>>
      BY <2>1, <2>5
    <2>6. QED
      BY <1>4, <2>3, <2>4, <2>5 DEF Pump, r, rest
  <1>5. CASE \/ \E e \in EventKinds : Register(e)
             \/ \E n \in 0..Len(toClient) : Receive(n)
             \/ Serve \/ Unserved \/ CallbackThrows \/ Reply \/ Ignore
             \/ \E m \in Message : Spontaneous(m)
    BY <1>5
       DEF Register, Receive, Serve, Unserved, CallbackThrows, Reply, Ignore, Spontaneous,
           clientVars, historyVars
  <1>6. QED
    BY <1>1, <1>2, <1>3, <1>4, <1>5 DEF Next, Service!Next

\* The control channel implements the request service.
THEOREM ImplementsService == Spec => ServiceSpec
  <1>1. Init => Service!Init
    BY DEF Init, Service!Init, Range
  <1>2. QED
    BY <1>1, ServiceStep, Invariance, PTL DEF Spec, ServiceSpec, Service!Spec
=============================================================================
