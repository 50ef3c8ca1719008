---------------------------- MODULE ControlStream ----------------------------
(***************************************************************************)
(* How the on_receive of a control channel takes the server's messages     *)
(* apart (core/corelink_client.hpp): the bytes of each read are appended   *)
(* to response_stream, and the stream is cut wherever as many braces have  *)
(* been closed as were opened.  The index into the stream and the size it  *)
(* is compared with are int16_t.  ControlChannel takes the stream as the   *)
(* sequence of messages that this module shows it to be.                   *)
(***************************************************************************)
EXTENDS Integers, Sequences, SequencesExt, FiniteSetsExt

CONSTANTS
  Texts,       \* the messages the server may send
  IndexRange,  \* the values of the index: 65536
  MaxSent      \* bound: messages sent

\* A brace that opens, one that closes, and any other byte.
Byte == {"open", "close", "other"}

ASSUME ScannerAssumption ==
  /\ Texts \subseteq Seq(Byte) \ {<<>>}
  /\ IndexRange \in Nat \ {0}
  /\ MaxSent \in Nat

VARIABLES
  sent,             \* history: the messages the server sent, and where they start
  log,              \* history: the bytes the server sent
  wire,             \* the bytes on their way
  response_stream,
  pc,               \* where on_receive stands
  complete,         \* history: the strings that were cut off and parsed
  cut,              \* the last on_receive ended early
  broken            \* history: a message with uneven braces may have come in, or
                    \* the stream has grown to the values of the index

vars == <<sent, log, wire, response_stream, pc, complete, cut, broken>>

TypeOK ==
  /\ sent \in Seq([text : Texts, start : Nat])
  /\ log \in Seq(Byte) /\ wire \in Seq(Byte)
  /\ response_stream \in Seq(Byte)
  /\ pc \in {"idle", "scan"} /\ {cut, broken} \subseteq BOOLEAN
  /\ complete \in Seq(Seq(Byte))
  /\ \A i \in DOMAIN complete : complete[i] # <<>>

Init ==
  /\ sent = <<>> /\ log = <<>> /\ wire = <<>> /\ response_stream = <<>>
  /\ pc = "idle" /\ complete = <<>> /\ cut = FALSE /\ broken = FALSE

-----------------------------------------------------------------------------
(* The scanner *)

\* static_cast<int16_t> of a size.
Cast(size) ==
  LET low == size % IndexRange
  IN  IF low < IndexRange \div 2 THEN low ELSE low - IndexRange

Count(s, i, byte) == Cardinality({j \in 1..i : s[j] = byte})

\* The braces that are open behind the first i bytes.
Open(s, i) == Count(s, i, "open") - Count(s, i, "close")

\* Defective variants of Ends: a brace is closed by the next one whatever was
\* opened in between; the comparison leaves the last byte out; the count is looked
\* at before the byte is counted.
EndsBefore(s) ==
  {i \in 0..Len(s) : i <= Cast(Len(s)) /\ Open(s, i) = 0 /\ "open" \in ToSet(s)}

EndsAtFirstBrace(s) == {i \in 1..Len(s) : i <= Cast(Len(s)) /\ s[i] = "close"}

EndsShort(s) ==
  {i \in 1..Len(s) : i < Cast(Len(s)) /\ Open(s, i) = 0 /\ "open" \in ToSet(s)}

\* Where a message may end: the bytes the index reaches behind which no brace
\* is open, once the stream holds a brace at all.
Ends(s) ==
  {i \in 1..Len(s) : i <= Cast(Len(s)) /\ Open(s, i) = 0 /\ "open" \in ToSet(s)}

\* What is parsed up to an end: the bytes before it, but all of the stream when
\* the end looks like the last of its bytes.
Complete(s, end) ==
  IF end - 1 = Cast(Len(s) - 1) THEN s ELSE SubSeq(s, 1, end)

-----------------------------------------------------------------------------
(* A message counts as an object when its braces are even at its end and nowhere    *)
(* before.  A brace in a string of the message counts as any other.              *)
Even(text) ==
  /\ Len(text) > 1 /\ Open(text, Len(text)) = 0
  /\ \A i \in 1..(Len(text) - 1) : Open(text, i) > 0

Uneven == \E i \in DOMAIN sent : ~Even(sent[i].text)
Overgrown(s) == Len(s) >= IndexRange

\* The server (external).
Send(text) ==
  /\ Len(sent) < MaxSent
  /\ sent' = Append(sent, [text |-> text, start |-> Len(log)])
  /\ log' = log \o text
  /\ wire' = wire \o text
  /\ UNCHANGED <<response_stream, pc, complete, cut, broken>>

\* Defective variant of Receive: the stream begins anew with each read.
ReceiveAnew(n) ==
  /\ pc = "idle" /\ n <= Len(wire)
  /\ response_stream' = SubSeq(wire, 1, n)
  /\ wire' = SubSeq(wire, n + 1, Len(wire))
  /\ pc' = "scan"
  /\ broken' = (broken \/ Overgrown(response_stream') \/ Uneven)
  /\ UNCHANGED <<sent, log, complete, cut>>

\* on_receive, with any number of bytes.
Receive(n) ==
  /\ pc = "idle" /\ n <= Len(wire)
  /\ response_stream' = response_stream \o SubSeq(wire, 1, n)
  /\ wire' = SubSeq(wire, n + 1, Len(wire))
  /\ pc' = "scan"
  /\ broken' = (broken \/ Overgrown(response_stream') \/ Uneven)
  /\ UNCHANGED <<sent, log, complete, cut>>

\* The string up to the first end is taken out and parsed; the index and the
\* count begin anew.  on_receive ends early when the message has no handler, or
\* when a handler throws.
Split(early) ==
  /\ pc = "scan" /\ Ends(response_stream) # {}
  /\ LET end == Min(Ends(response_stream)) IN
       /\ complete' = Append(complete, Complete(response_stream, end))
       /\ response_stream' = SubSeq(response_stream, end + 1, Len(response_stream))
  /\ pc' = IF early THEN "idle" ELSE "scan"
  /\ cut' = early
  /\ UNCHANGED <<sent, log, wire, broken>>

\* The index has reached the end it sees.
Finish ==
  /\ pc = "scan" /\ Ends(response_stream) = {}
  /\ pc' = "idle" /\ cut' = FALSE
  /\ UNCHANGED <<sent, log, wire, response_stream, complete, broken>>

-----------------------------------------------------------------------------
SomeReceive == \E n \in 1..Len(wire) : Receive(n)
Scan == Split(TRUE) \/ Split(FALSE) \/ Finish

Next == (\E text \in Texts : Send(text)) \/ SomeReceive \/ Scan

Spec == Init /\ [][Next]_vars

\* Bytes that have arrived are read, and the service thread goes on with a read.
FairSpec == Spec /\ WF_vars(SomeReceive) /\ WF_vars(Scan)

-----------------------------------------------------------------------------
(* Properties *)

Sent == [i \in DOMAIN sent |-> sent[i].text]

\* However reads cut and join them, messages come out whole, once each and in
\* order: until the server sends one whose braces are uneven, as one in a string
\* makes them, or the stream grows until its size wraps in the index.
Promise == INSTANCE PacketStream
             WITH accepted <- Sent, delivered <- complete, broken <- broken
StreamSpec == Promise!Spec

\* The size of the stream is below the values of the index.
Indexed == Len(response_stream) < IndexRange \div 2

\* A read that was not ended early, of a stream the index can count, leaves no
\* whole message behind: what is left is a part of the next one.
NothingLeftBehind ==
  pc = "idle" /\ ~cut /\ ~broken /\ Indexed =>
    IF Len(complete) = Len(sent) THEN response_stream = <<>>
    ELSE Len(response_stream) < Len(sent[Len(complete) + 1].text)

\* Every message is served, unless a read ends early, the braces are uneven, or
\* the stream outgrows the index; then it waits for what the server sends next.
EveryMessageServed ==
  \A k \in 1..MaxSent :
    Len(sent) >= k ~> Len(complete) >= k \/ cut \/ broken \/ ~Indexed
=============================================================================
