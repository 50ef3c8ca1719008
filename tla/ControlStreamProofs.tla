------------------------- MODULE ControlStreamProofs -------------------------
(***************************************************************************)
(* Proofs about ControlStream, for any messages, any number of them and    *)
(* any width of the index.                                                 *)
(***************************************************************************)
EXTENDS ControlStream, FiniteSetTheorems, SequenceTheorems, WellFoundedInduction,
        TLAPS

\* Where message i starts in the log; behind the last one is the end of the log.
Start(i) == IF i \in DOMAIN sent THEN sent[i].start ELSE Len(log)

\* The bytes that were taken out of the stream.
Taken == Len(log) - Len(response_stream) - Len(wire)

\* The log holds the messages one behind the other.
LogInv ==
  /\ Start(1) = 0
  /\ \A i \in DOMAIN sent :
       /\ Start(i + 1) = sent[i].start + Len(sent[i].text)
       /\ sent[i].start + Len(sent[i].text) <= Len(log)
       /\ \A k \in 1..Len(sent[i].text) : log[sent[i].start + k] = sent[i].text[k]

\* What is in the stream and on its way is the end of the log.
PendingInv ==
  /\ Taken >= 0
  /\ \A k \in 1..Len(response_stream) : response_stream[k] = log[Taken + k]
  /\ \A k \in 1..Len(wire) : wire[k] = log[Taken + Len(response_stream) + k]

\* While the stream is not broken, what was taken out of it is whole messages,
\* and all that was read of the others has even braces.
AlignedInv ==
  /\ Len(complete) <= Len(sent)
  /\ Taken = Start(Len(complete) + 1)
  /\ \A i \in DOMAIN complete : complete[i] = sent[i].text
  /\ \A i \in DOMAIN sent : sent[i].start < Taken + Len(response_stream) => Even(sent[i].text)
  /\ ~Overgrown(response_stream)

StreamInv ==
  /\ LogInv
  /\ PendingInv
  /\ ~broken => AlignedInv

-----------------------------------------------------------------------------
(* The scanner *)

\* A count of bytes is a number.
LEMMA CountType ==
  ASSUME NEW s, NEW i \in Nat, NEW b
  PROVE  Count(s, i, b) \in Nat
  <1> DEFINE Places == {j \in 1..i : s[j] = b}
  <1>1. IsFiniteSet(1..i)
    BY FS_Interval
  <1>2. IsFiniteSet(Places)
    BY <1>1, FS_Subset
  <1>3. Cardinality(Places) \in Nat
    <2> HIDE DEF Places
    <2> QED BY <1>2, FS_CardinalityType
  <1>4. QED
    BY <1>3 DEF Count

LEMMA OpenType ==
  ASSUME NEW s, NEW i \in Nat
  PROVE  Open(s, i) \in Int
  <1>1. Count(s, i, "open") \in Nat /\ Count(s, i, "close") \in Nat
    BY CountType
  <1>2. QED
    BY <1>1 DEF Open

\* Only the bytes that are counted matter.
LEMMA OpenSame ==
  ASSUME NEW s, NEW t, NEW i \in Nat, \A k \in 1..i : s[k] = t[k]
  PROVE  Open(s, i) = Open(t, i)
  <1>1. ASSUME NEW b PROVE Count(s, i, b) = Count(t, i, b)
    <2>1. {j \in 1..i : s[j] = b} = {j \in 1..i : t[j] = b}
      OBVIOUS
    <2>2. QED
      BY <2>1, Zenon DEF Count
  <1>2. QED
    BY <1>1 DEF Open

\* A text with even braces begins with one.
LEMMA EvenBegins ==
  ASSUME NEW t \in Seq(Byte), Even(t)
  PROVE  t[1] = "open"
  <1>1. Open(t, 1) > 0
    <2>1. Len(t) \in Nat /\ Len(t) > 1 /\ \A i \in 1..(Len(t) - 1) : Open(t, i) > 0
      BY DEF Even
    <2>2. 1 \in 1..(Len(t) - 1)
      BY <2>1
    <2>3. QED
      BY <2>1, <2>2
  <1>2. SUFFICES ASSUME t[1] # "open" PROVE FALSE
    OBVIOUS
  <1>3. {j \in 1..1 : t[j] = "open"} = {}
    BY <1>2
  <1>4. Count(t, 1, "open") = 0
    BY <1>3, FS_EmptySet DEF Count
  <1>5. Count(t, 1, "close") \in Nat
    BY CountType
  <1>6. QED
    BY <1>1, <1>4, <1>5 DEF Open

\* A set of numbers has a least member.
LEMMA MinIn ==
  ASSUME NEW S \in SUBSET Nat, S # {}
  PROVE  Min(S) \in S
  <1> DEFINE Less == {ss \in Nat \X Nat : ss[1] < ss[2]}
  <1>1. IsWellFoundedOn(Less, Nat)
    BY NatLessThanWellFounded DEF OpToRel
  <1>2. PICK x \in S : \A y \in S : <<y, x>> \notin Less
    <2> HIDE DEF Less
    <2> QED BY <1>1, WFMin
  <1>3. ASSUME NEW y \in S PROVE x <= y
    <2>1. x \in Nat /\ y \in Nat /\ <<y, x>> \in Nat \X Nat
      BY <1>2
    <2>2. ~(y < x)
      BY <1>2, <2>1
    <2>3. QED
      BY <2>1, <2>2
  <1>4. QED
    BY <1>3 DEF Min

LEMMA MinIs ==
  ASSUME NEW S \in SUBSET Int, NEW m \in S, \A e \in S : m <= e
  PROVE  Min(S) = m
  <1>1. \E x \in S : \A y \in S : x <= y
    OBVIOUS
  <1>2. Min(S) \in S /\ \A y \in S : Min(S) <= y
    BY <1>1 DEF Min
  <1>3. m <= Min(S) /\ Min(S) <= m
    BY <1>2
  <1>4. m \in Int /\ Min(S) \in Int
    BY <1>2
  <1>5. \A x, y \in Int : x <= y /\ y <= x => y = x
    OBVIOUS
  <1>6. QED
    BY <1>3, <1>4, <1>5, Zenon

\* A size below the values of the index is cast to itself or to a negative number.
LEMMA CastSmall ==
  ASSUME NEW n \in Nat, n < IndexRange
  PROVE  /\ n < IndexRange \div 2 => Cast(n) = n
         /\ ~(n < IndexRange \div 2) => Cast(n) < 0
  <1>1. IndexRange \in Nat \ {0}
    BY ScannerAssumption DEF ScannerAssumption
  <1>2. n % IndexRange = n
    BY <1>1
  <1>3. QED
    BY <1>1, <1>2 DEF Cast

\* A stream that begins with an even text, as far as it goes, is cut behind that
\* text and nowhere else; and it is cut when the text is all there.
LEMMA CutBehindText ==
  ASSUME NEW s \in Seq(Byte), NEW t \in Seq(Byte), Even(t), ~Overgrown(s),
         \A k \in 1..Len(t) : k <= Len(s) => s[k] = t[k]
  PROVE  /\ Ends(s) # {} =>
              /\ Len(t) <= Len(s)
              /\ Min(Ends(s)) = Len(t)
              /\ Complete(s, Len(t)) = SubSeq(s, 1, Len(t))
         /\ Len(t) <= Len(s) /\ Len(s) < IndexRange \div 2 => Ends(s) # {}
  <1>1. Len(s) \in Nat /\ Len(t) \in Nat /\ Len(t) > 1
    BY DEF Even
  <1>2. IndexRange \in Nat \ {0} /\ Len(s) < IndexRange
    BY <1>1, ScannerAssumption DEF ScannerAssumption, Overgrown
  <1>3. ASSUME NEW i \in 1..Len(t), i <= Len(s) PROVE Open(s, i) = Open(t, i)
    <2>1. \A k \in 1..i : s[k] = t[k]
      BY <1>1, <1>3
    <2>2. QED
      BY <2>1, OpenSame
  <1>4. ASSUME NEW e \in Ends(s) PROVE Len(t) <= e
    <2>1. e \in 1..Len(s) /\ Open(s, e) = 0
      BY DEF Ends
    <2>2. SUFFICES ASSUME ~(Len(t) <= e) PROVE FALSE
      OBVIOUS
    <2>3. e \in 1..Len(t) /\ e <= Len(s) /\ e \in 1..(Len(t) - 1)
      BY <1>1, <2>1, <2>2
    <2>4. Open(t, e) > 0
      BY <2>3 DEF Even
    <2>5. Open(s, e) = Open(t, e)
      BY <1>3, <2>3
    <2>6. QED
      BY <2>1, <2>4, <2>5
  <1>5. ASSUME Len(t) <= Len(s), Len(t) <= Cast(Len(s)) PROVE Len(t) \in Ends(s)
    <2>1. Len(t) \in 1..Len(t) /\ Len(t) \in 1..Len(s)
      BY <1>1, <1>5
    <2>2. Open(s, Len(t)) = 0
      BY <1>3, <1>5, <2>1 DEF Even
    <2>3. 1 \in DOMAIN s /\ s[1] = "open"
      BY <1>1, <1>5, EvenBegins
    <2>4. "open" \in ToSet(s)
      BY <2>3 DEF ToSet
    <2>5. QED
      BY <1>5, <2>1, <2>2, <2>4 DEF Ends
  <1>6. ASSUME Ends(s) # {}
        PROVE  /\ Len(t) <= Len(s)
               /\ Min(Ends(s)) = Len(t)
               /\ Complete(s, Len(t)) = SubSeq(s, 1, Len(t))
    <2>1. PICK e \in Ends(s) : TRUE
      BY <1>6
    <2>2. e \in 1..Len(s) /\ e <= Cast(Len(s)) /\ Len(t) <= e
      BY <2>1, <1>4 DEF Ends
    <2>3. Len(s) < IndexRange \div 2 /\ Cast(Len(s)) = Len(s)
      <3>1. /\ Len(s) < IndexRange \div 2 => Cast(Len(s)) = Len(s)
            /\ ~(Len(s) < IndexRange \div 2) => Cast(Len(s)) < 0
        BY <1>1, <1>2, CastSmall
      <3>2. ~(Cast(Len(s)) < 0)
        <4>1. Cast(Len(s)) \in Int
          BY <1>1, <1>2 DEF Cast
        <4>2. QED
          BY <1>1, <2>2, <4>1
      <3>3. QED
        BY <3>1, <3>2
    <2>4. Len(t) <= Len(s) /\ Len(t) \in Ends(s)
      BY <1>1, <1>5, <2>2, <2>3
    <2>5. Min(Ends(s)) = Len(t)
      <3>1. Ends(s) \in SUBSET Int
        BY DEF Ends
      <3>2. QED
        BY <1>4, <2>4, <3>1, MinIs
    <2>6. Complete(s, Len(t)) = SubSeq(s, 1, Len(t))
      <3>1. Cast(Len(s) - 1) = Len(s) - 1
        <4>1. Len(s) - 1 \in Nat /\ Len(s) - 1 < IndexRange /\ Len(s) - 1 < IndexRange \div 2
          BY <1>1, <1>2, <2>2, <2>3
        <4>2. QED
          BY <4>1, CastSmall
      <3>2. CASE Len(t) = Len(s)
        <4>1. s = SubSeq(s, 1, Len(s))
          BY SubSeqFull
        <4>2. Complete(s, Len(t)) = s
          BY <3>1, <3>2 DEF Complete
        <4>3. QED
          BY <3>2, <4>1, <4>2
      <3>3. CASE Len(t) # Len(s)
        <4>1. Len(t) - 1 # Len(s) - 1
          BY <1>1, <3>3
        <4>2. QED
          BY <3>1, <4>1 DEF Complete
      <3>4. QED
        BY <3>2, <3>3
    <2>7. QED
      BY <2>4, <2>5, <2>6
  <1>7. ASSUME Len(t) <= Len(s), Len(s) < IndexRange \div 2 PROVE Ends(s) # {}
    <2>1. Cast(Len(s)) = Len(s)
      BY <1>1, <1>2, <1>7, CastSmall
    <2>2. QED
      BY <1>5, <1>7, <2>1
  <1>8. QED
    BY <1>6, <1>7

-----------------------------------------------------------------------------
(* Types *)

LEMMA EndsIn ==
  ASSUME NEW s \in Seq(Byte), Ends(s) # {}
  PROVE  Min(Ends(s)) \in Ends(s)
  <1>1. Ends(s) \in SUBSET Nat
    BY DEF Ends
  <1>2. QED
    BY <1>1, MinIn

\* A sequence's first n elements, and those behind them.
LEMMA FrontOf ==
  ASSUME NEW s \in Seq(Byte), NEW n \in 1..Len(s)
  PROVE  /\ SubSeq(s, 1, n) \in Seq(Byte) /\ Len(SubSeq(s, 1, n)) = n
         /\ \A k \in 1..n : SubSeq(s, 1, n)[k] = s[k]
  <1>1. Len(s) \in Nat /\ \A i \in 1..n : s[i] \in Byte
    BY ElementOfSeq
  <1>2. /\ SubSeq(s, 1, n) \in Seq(Byte)
        /\ Len(SubSeq(s, 1, n)) = IF 1 <= n THEN n - 1 + 1 ELSE 0
        /\ \A k \in 1..(n - 1 + 1) : SubSeq(s, 1, n)[k] = s[1 + k - 1]
    BY <1>1, SubSeqProperties
  <1>3. n - 1 + 1 = n /\ 1 <= n /\ \A k \in 1..n : 1 + k - 1 = k
    BY <1>1
  <1>4. QED
    BY <1>2, <1>3

LEMMA RestOf ==
  ASSUME NEW s \in Seq(Byte), NEW n \in 1..Len(s)
  PROVE  /\ SubSeq(s, n + 1, Len(s)) \in Seq(Byte)
         /\ Len(SubSeq(s, n + 1, Len(s))) = Len(s) - n
         /\ \A k \in 1..(Len(s) - n) : SubSeq(s, n + 1, Len(s))[k] = s[n + k]
  <1> DEFINE m == Len(s)
             rest == SubSeq(s, n + 1, m)
  <1>1. m \in Nat /\ n \in Nat /\ n <= m /\ \A i \in (n + 1)..m : s[i] \in Byte
    BY ElementOfSeq
  <1>2. /\ rest \in Seq(Byte)
        /\ Len(rest) = IF n + 1 <= m THEN m - (n + 1) + 1 ELSE 0
        /\ \A k \in 1..(m - (n + 1) + 1) : rest[k] = s[(n + 1) + k - 1]
    BY <1>1, SubSeqProperties
  <1> HIDE DEF m, rest
  <1>3. m - (n + 1) + 1 = m - n /\ \A k \in 1..(m - n) : (n + 1) + k - 1 = n + k
    BY <1>1
  <1>4. (IF n + 1 <= m THEN m - (n + 1) + 1 ELSE 0) = m - n
    BY <1>1
  <1>5. rest \in Seq(Byte) /\ Len(rest) = m - n /\ \A k \in 1..(m - n) : rest[k] = s[n + k]
    BY <1>2, <1>3, <1>4
  <1>6. QED
    BY <1>5 DEF m, rest

\* What is cut off a stream is a string of at least one byte.
LEMMA CompleteType ==
  ASSUME NEW s \in Seq(Byte), NEW end \in Ends(s)
  PROVE  Complete(s, end) \in Seq(Byte) \ {<<>>}
  <1>1. Len(s) \in Nat /\ end \in 1..Len(s)
    BY DEF Ends
  <1>2. SubSeq(s, 1, end) \in Seq(Byte) /\ Len(SubSeq(s, 1, end)) = end
    BY <1>1, FrontOf
  <1>3. s # <<>> /\ SubSeq(s, 1, end) # <<>>
    BY <1>1, <1>2
  <1>4. QED
    BY <1>2, <1>3 DEF Complete

\* A read moves bytes from the front of the wire to the end of the stream.
LEMMA ReadMoves ==
  ASSUME TypeOK, NEW n \in 1..Len(wire), Receive(n)
  PROVE  /\ response_stream' \in Seq(Byte) /\ wire' \in Seq(Byte)
         /\ Len(response_stream') = Len(response_stream) + n
         /\ Len(wire') = Len(wire) - n
         /\ \A k \in 1..Len(response_stream) : response_stream'[k] = response_stream[k]
         /\ \A k \in 1..n : response_stream'[Len(response_stream) + k] = wire[k]
         /\ \A k \in 1..Len(wire') : wire'[k] = wire[n + k]
  <1> DEFINE front == SubSeq(wire, 1, n)
             read == response_stream \o front
  <1>1. wire \in Seq(Byte) /\ response_stream \in Seq(Byte)
    BY DEF TypeOK
  <1>2. front \in Seq(Byte) /\ Len(front) = n /\ \A k \in 1..n : front[k] = wire[k]
    BY <1>1, FrontOf
  <1>3. response_stream' = read /\ wire' = SubSeq(wire, n + 1, Len(wire))
    BY DEF Receive
  <1>4. /\ wire' \in Seq(Byte) /\ Len(wire') = Len(wire) - n
        /\ \A k \in 1..Len(wire') : wire'[k] = wire[n + k]
    BY <1>1, <1>3, RestOf
  <1> HIDE DEF front
  <1>5. /\ read \in Seq(Byte)
        /\ Len(read) = Len(response_stream) + Len(front)
        /\ \A i \in 1..(Len(response_stream) + Len(front)) :
             read[i] = IF i <= Len(response_stream) THEN response_stream[i]
                       ELSE front[i - Len(response_stream)]
    BY <1>1, <1>2, ConcatProperties
  <1> HIDE DEF read
  <1>6. Len(response_stream) \in Nat /\ n \in Nat
    BY <1>1
  <1>7. \A k \in 1..Len(response_stream) : read[k] = response_stream[k]
    BY <1>2, <1>5, <1>6
  <1>8. ASSUME NEW k \in 1..n PROVE read[Len(response_stream) + k] = wire[k]
    <2>1. /\ Len(response_stream) + k \in 1..(Len(response_stream) + n)
          /\ ~(Len(response_stream) + k <= Len(response_stream))
          /\ Len(response_stream) + k - Len(response_stream) = k
      BY <1>6
    <2>2. QED
      BY <1>2, <1>5, <2>1
  <1>9. QED
    BY <1>2, <1>3, <1>4, <1>5, <1>7, <1>8

THEOREM InitTypes == Init => TypeOK
  <1>1. /\ <<>> \in Seq([text : Texts, start : Nat])
        /\ <<>> \in Seq(Byte)
        /\ <<>> \in Seq(Seq(Byte))
    BY EmptySeq
  <1>2. DOMAIN <<>> = {}
    OBVIOUS
  <1>3. QED
    BY <1>1, <1>2 DEF Init, TypeOK

\* Every step keeps the types.
THEOREM StepTypes == TypeOK /\ [Next]_vars => TypeOK'
  <1> SUFFICES ASSUME TypeOK, [Next]_vars PROVE TypeOK'
    OBVIOUS
  <1>1. ASSUME NEW text \in Texts, Send(text) PROVE TypeOK'
    <2>1. text \in Seq(Byte)
      BY ScannerAssumption DEF ScannerAssumption
    <2>2. log' \in Seq(Byte) /\ wire' \in Seq(Byte)
      BY <1>1, <2>1, ConcatProperties DEF TypeOK, Send
    <2>3. [text |-> text, start |-> Len(log)] \in [text : Texts, start : Nat]
      BY LenProperties DEF TypeOK
    <2>4. sent' \in Seq([text : Texts, start : Nat])
      BY <1>1, <2>3, AppendProperties DEF TypeOK, Send
    <2>5. QED
      BY <1>1, <2>2, <2>4 DEF TypeOK, Send
  <1>2. ASSUME NEW n \in 1..Len(wire), Receive(n) PROVE TypeOK'
    <2>1. response_stream' \in Seq(Byte) /\ wire' \in Seq(Byte)
      BY <1>2, ReadMoves
    <2>2. broken' \in BOOLEAN
      BY <1>2 DEF Receive
    <2>3. QED
      BY <1>2, <2>1, <2>2 DEF TypeOK, Receive
  <1>3. ASSUME NEW early \in BOOLEAN, Split(early) PROVE TypeOK'
    <2> DEFINE end == Min(Ends(response_stream))
               string == Complete(response_stream, end)
    <2>1. response_stream \in Seq(Byte) /\ complete \in Seq(Seq(Byte))
      BY DEF TypeOK
    <2>2. end \in Ends(response_stream) /\ end \in 1..Len(response_stream)
      BY <1>3, <2>1, EndsIn DEF Split, Ends
    <2>3. string \in Seq(Byte) /\ string # <<>>
      BY <2>1, <2>2, CompleteType
    <2>4. response_stream' \in Seq(Byte)
      BY <1>3, <2>1, <2>2, RestOf DEF Split
    <2>5. complete' = Append(complete, string)
      BY <1>3 DEF Split
    <2> HIDE DEF string
    <2>6. /\ complete' \in Seq(Seq(Byte)) /\ Len(complete') = Len(complete) + 1
          /\ \A i \in 1..Len(complete) : complete'[i] = complete[i]
          /\ complete'[Len(complete) + 1] = string
      BY <2>1, <2>3, <2>5, AppendProperties
    <2>7. ASSUME NEW i \in DOMAIN complete' PROVE complete'[i] # <<>>
      <3>1. i \in 1..(Len(complete) + 1) /\ Len(complete) \in Nat /\ DOMAIN complete = 1..Len(complete)
        BY <2>1, <2>6, LenProperties
      <3>2. i \in DOMAIN complete \/ i = Len(complete) + 1
        BY <3>1
      <3>3. QED
        BY <2>3, <2>6, <3>1, <3>2 DEF TypeOK
    <2>8. QED
      BY <1>3, <2>4, <2>6, <2>7 DEF TypeOK, Split
  <1>4. CASE Finish
    BY <1>4 DEF TypeOK, Finish
  <1>5. CASE UNCHANGED vars
    BY <1>5 DEF TypeOK, vars
  <1>6. QED
    BY <1>1, <1>2, <1>3, <1>4, <1>5 DEF Next, SomeReceive, Scan

\* What is sent, on its way, in the stream and parsed has its type, whatever the
\* server sends.
THEOREM TypeCorrect == Spec => []TypeOK
  BY InitTypes, StepTypes, PTL DEF Spec

-----------------------------------------------------------------------------
(* The stream *)

LEMMA Lengths ==
  ASSUME TypeOK
  PROVE  /\ Len(sent) \in Nat /\ DOMAIN sent = 1..Len(sent)
         /\ Len(complete) \in Nat /\ DOMAIN complete = 1..Len(complete)
         /\ Len(log) \in Nat /\ Len(wire) \in Nat /\ Len(response_stream) \in Nat
         /\ \A i \in DOMAIN sent : /\ sent[i].text \in Seq(Byte) \ {<<>>}
                                   /\ Len(sent[i].text) \in Nat \ {0}
                                   /\ sent[i].start \in Nat
         /\ Taken \in Int
  <1>1. /\ sent \in Seq([text : Texts, start : Nat])
        /\ log \in Seq(Byte) /\ wire \in Seq(Byte) /\ response_stream \in Seq(Byte)
        /\ complete \in Seq(Seq(Byte))
    BY DEF TypeOK
  <1>2. /\ Len(sent) \in Nat /\ DOMAIN sent = 1..Len(sent)
        /\ Len(complete) \in Nat /\ DOMAIN complete = 1..Len(complete)
        /\ Len(log) \in Nat /\ Len(wire) \in Nat /\ Len(response_stream) \in Nat
    BY <1>1, LenProperties
  <1>3. ASSUME NEW i \in DOMAIN sent
        PROVE  /\ sent[i].text \in Seq(Byte) \ {<<>>}
               /\ Len(sent[i].text) \in Nat \ {0}
               /\ sent[i].start \in Nat
    <2>1. sent[i] \in [text : Texts, start : Nat]
      BY <1>1, <1>2, ElementOfSeq
    <2>2. sent[i].text \in Texts /\ sent[i].start \in Nat
      BY <2>1
    <2>3. sent[i].text \in Seq(Byte) /\ sent[i].text # <<>>
      BY <2>2, ScannerAssumption DEF ScannerAssumption
    <2>4. QED
      BY <2>2, <2>3, EmptySeq
  <1>4. QED
    BY <1>2, <1>3 DEF Taken

\* What Send does: a message is put behind those in the log and on the wire.
LEMMA SendAppends ==
  ASSUME TypeOK, NEW text \in Texts, Send(text)
  PROVE  /\ Len(sent') = Len(sent) + 1
         /\ \A i \in 1..Len(sent) : sent'[i] = sent[i]
         /\ sent'[Len(sent) + 1] = [text |-> text, start |-> Len(log)]
         /\ Len(log') = Len(log) + Len(text) /\ Len(wire') = Len(wire) + Len(text)
         /\ \A k \in 1..Len(log) : log'[k] = log[k]
         /\ \A k \in 1..Len(text) : log'[Len(log) + k] = text[k]
         /\ \A k \in 1..Len(wire) : wire'[k] = wire[k]
         /\ \A k \in 1..Len(text) : wire'[Len(wire) + k] = text[k]
         /\ Len(text) \in Nat
  <1>1. /\ text \in Seq(Byte) /\ log \in Seq(Byte) /\ wire \in Seq(Byte)
        /\ Len(text) \in Nat /\ Len(log) \in Nat /\ Len(wire) \in Nat
    BY ScannerAssumption DEF ScannerAssumption, TypeOK
  <1>2. log' = log \o text /\ wire' = wire \o text
    BY DEF Send
  <1>3. ASSUME NEW s \in Seq(Byte)
        PROVE  /\ Len(s \o text) = Len(s) + Len(text)
               /\ \A k \in 1..Len(s) : (s \o text)[k] = s[k]
               /\ \A k \in 1..Len(text) : (s \o text)[Len(s) + k] = text[k]
    <2>1. /\ Len(s \o text) = Len(s) + Len(text)
          /\ \A i \in 1..Len(s) + Len(text) :
               (s \o text)[i] = IF i <= Len(s) THEN s[i] ELSE text[i - Len(s)]
      BY <1>1, ConcatProperties
    <2>2. Len(s) \in Nat
      OBVIOUS
    <2>3. \A k \in 1..Len(s) : k \in 1..Len(s) + Len(text) /\ k <= Len(s)
      BY <1>1, <2>2
    <2>4. \A k \in 1..Len(text) : /\ Len(s) + k \in 1..Len(s) + Len(text)
                                  /\ ~(Len(s) + k <= Len(s))
                                  /\ Len(s) + k - Len(s) = k
      BY <1>1, <2>2
    <2>5. QED
      BY <2>1, <2>3, <2>4
  <1>4. /\ Len(log') = Len(log) + Len(text) /\ Len(wire') = Len(wire) + Len(text)
        /\ \A k \in 1..Len(log) : log'[k] = log[k]
        /\ \A k \in 1..Len(text) : log'[Len(log) + k] = text[k]
        /\ \A k \in 1..Len(wire) : wire'[k] = wire[k]
        /\ \A k \in 1..Len(text) : wire'[Len(wire) + k] = text[k]
    BY <1>1, <1>2, <1>3
  <1>5. /\ Len(sent') = Len(sent) + 1
        /\ \A i \in 1..Len(sent) : sent'[i] = sent[i]
        /\ sent'[Len(sent) + 1] = [text |-> text, start |-> Len(log)]
    <2>1. [text |-> text, start |-> Len(log)] \in [text : Texts, start : Nat]
      BY <1>1
    <2>2. sent \in Seq([text : Texts, start : Nat])
      BY DEF TypeOK
    <2>3. QED
      BY <2>1, <2>2, AppendProperties DEF Send
  <1>6. QED
    BY <1>1, <1>4, <1>5

\* While the stream is not broken, where it is cut is the end of the next message.
LEMMA CutsMessage ==
  ASSUME TypeOK, StreamInv, ~broken
  PROVE  LET m == Len(complete) + 1 IN
         /\ Ends(response_stream) # {} =>
              /\ m \in DOMAIN sent
              /\ Len(sent[m].text) <= Len(response_stream)
              /\ Min(Ends(response_stream)) = Len(sent[m].text)
              /\ Complete(response_stream, Len(sent[m].text)) = sent[m].text
         /\ m \in DOMAIN sent /\ Len(sent[m].text) <= Len(response_stream) /\ Indexed =>
              Ends(response_stream) # {}
  <1> DEFINE m == Len(complete) + 1
             s == response_stream
             t == sent[m].text
  <1>1. AlignedInv /\ LogInv /\ PendingInv
    BY DEF StreamInv
  <1>2. /\ Len(sent) \in Nat /\ DOMAIN sent = 1..Len(sent)
        /\ Len(log) \in Nat /\ Len(wire) \in Nat /\ Len(s) \in Nat /\ s \in Seq(Byte)
        /\ m \in Nat \ {0} /\ m <= Len(sent) + 1 /\ Taken \in Int
        /\ Taken = Len(log) - Len(s) - Len(wire)
    BY <1>1, Lengths DEF AlignedInv, Taken, TypeOK
  <1>3. ASSUME m \in DOMAIN sent, Len(s) > 0
        PROVE  /\ t \in Seq(Byte) /\ Even(t) /\ Len(t) \in Nat
               /\ \A k \in 1..Len(t) : k <= Len(s) => s[k] = t[k]
    <2>1. Taken = sent[m].start
      BY <1>1, <1>3 DEF AlignedInv, Start
    <2>2. t \in Seq(Byte) /\ Len(t) \in Nat
      BY <1>3, Lengths
    <2>3. Even(t)
      BY <1>1, <1>2, <1>3, <2>1 DEF AlignedInv
    <2>4. ASSUME NEW k \in 1..Len(t), k <= Len(s) PROVE s[k] = t[k]
      <3>1. log[sent[m].start + k] = t[k]
        BY <1>1, <1>3 DEF LogInv
      <3>2. k \in 1..Len(s)
        BY <1>2, <2>2, <2>4
      <3>3. s[k] = log[Taken + k]
        BY <1>1, <3>2 DEF PendingInv
      <3>4. QED
        BY <2>1, <3>1, <3>3
    <2>5. QED
      BY <2>2, <2>3, <2>4
  <1>4. ~Overgrown(s)
    BY <1>1 DEF AlignedInv
  <1>5. ASSUME Ends(s) # {}
        PROVE  /\ m \in DOMAIN sent
               /\ Len(t) <= Len(s)
               /\ Min(Ends(s)) = Len(t)
               /\ Complete(s, Len(t)) = t
    <2>1. Len(s) > 0
      BY <1>2, <1>5 DEF Ends
    <2>2. m \in DOMAIN sent
      <3>1. CASE m \in DOMAIN sent
        BY <3>1
      <3>2. CASE m \notin DOMAIN sent
        <4>1. Taken = Len(log)
          BY <1>1, <3>2 DEF AlignedInv, Start
        <4>2. QED
          BY <1>2, <2>1, <4>1
      <3>3. QED
        BY <3>1, <3>2
    <2>3. /\ t \in Seq(Byte) /\ Even(t) /\ Len(t) \in Nat
          /\ \A k \in 1..Len(t) : k <= Len(s) => s[k] = t[k]
      BY <1>3, <2>1, <2>2
    <2> HIDE DEF s, t, m
    <2>4. Len(t) <= Len(s) /\ Min(Ends(s)) = Len(t) /\ Complete(s, Len(t)) = SubSeq(s, 1, Len(t))
      BY <1>2, <1>4, <1>5, <2>3, CutBehindText
    <2>5. SubSeq(s, 1, Len(t)) = t
      <3>1. Len(t) \in 1..Len(s)
        BY <1>2, <2>3, <2>4 DEF Even
      <3>2. /\ SubSeq(s, 1, Len(t)) \in Seq(Byte) /\ Len(SubSeq(s, 1, Len(t))) = Len(t)
            /\ \A k \in 1..Len(t) : SubSeq(s, 1, Len(t))[k] = s[k]
        BY <1>2, <3>1, FrontOf
      <3>3. \A k \in 1..Len(t) : SubSeq(s, 1, Len(t))[k] = t[k]
        BY <1>2, <2>3, <2>4, <3>2
      <3>4. QED
        BY <2>3, <3>2, <3>3, SeqEqual
    <2>6. QED
      BY <2>2, <2>4, <2>5
  <1>6. ASSUME m \in DOMAIN sent, Len(t) <= Len(s), Len(s) < IndexRange \div 2
        PROVE  Ends(s) # {}
    <2>1. Len(s) > 0
      BY <1>2, <1>6, Lengths
    <2>2. /\ t \in Seq(Byte) /\ Even(t) /\ Len(t) \in Nat
          /\ \A k \in 1..Len(t) : k <= Len(s) => s[k] = t[k]
      BY <1>3, <1>6, <2>1
    <2> HIDE DEF s, t, m
    <2>3. QED
      BY <1>2, <1>4, <1>6, <2>2, CutBehindText
  <1>7. QED
    BY <1>5, <1>6 DEF Indexed

THEOREM InitStream == Init => StreamInv
  <1> SUFFICES ASSUME Init PROVE StreamInv
    OBVIOUS
  <1>1. /\ DOMAIN sent = {} /\ DOMAIN complete = {} /\ Len(sent) = 0 /\ Len(complete) = 0
        /\ Len(log) = 0 /\ Len(wire) = 0 /\ Len(response_stream) = 0
    BY DEF Init
  <1>2. Taken = 0 /\ \A i : Start(i) = 0
    BY <1>1 DEF Taken, Start
  <1>3. ~Overgrown(response_stream)
    BY <1>1, ScannerAssumption DEF ScannerAssumption, Overgrown
  <1>4. QED
    BY <1>1, <1>2, <1>3 DEF StreamInv, LogInv, PendingInv, AlignedInv

LEMMA SendKeepsStream ==
  ASSUME TypeOK, StreamInv, NEW text \in Texts, Send(text)
  PROVE  StreamInv'
  <1>0. PICK n, c : n = Len(sent) /\ c = Len(complete)
    OBVIOUS
  <1>1. /\ n \in Nat /\ DOMAIN sent = 1..n
        /\ Len(log) \in Nat /\ Len(wire) \in Nat /\ Len(response_stream) \in Nat
        /\ Taken \in Int
    BY <1>0, Lengths
  <1>2. /\ Len(sent') = n + 1
        /\ \A i \in 1..n : sent'[i] = sent[i]
        /\ sent'[n + 1] = [text |-> text, start |-> Len(log)]
        /\ Len(log') = Len(log) + Len(text) /\ Len(wire') = Len(wire) + Len(text)
        /\ \A k \in 1..Len(log) : log'[k] = log[k]
        /\ \A k \in 1..Len(text) : log'[Len(log) + k] = text[k]
        /\ \A k \in 1..Len(wire) : wire'[k] = wire[k]
        /\ \A k \in 1..Len(text) : wire'[Len(wire) + k] = text[k]
        /\ Len(text) \in Nat
    BY <1>0, SendAppends
  <1>3. DOMAIN sent' = 1..(n + 1)
    <2>1. TypeOK'
      BY StepTypes DEF Next
    <2>2. sent' \in Seq([text : Texts, start : Nat])
      BY <2>1 DEF TypeOK
    <2>3. QED
      BY <1>2, <2>2, LenProperties
  <1>4. UNCHANGED <<response_stream, complete, broken>>
    BY DEF Send
  <1>5. \A i \in 1..(n + 1) : Start(i)' = Start(i)
    <2>1. ASSUME NEW i \in 1..n PROVE Start(i)' = Start(i)
      BY <1>1, <1>2, <1>3 DEF Start
    <2>2. Start(n + 1)' = Len(log)
      <3>1. n + 1 \in 1..(n + 1)
        BY <1>1
      <3>2. QED
        BY <1>2, <1>3, <3>1 DEF Start
    <2>3. Start(n + 1) = Len(log)
      <3>1. n + 1 \notin 1..n
        BY <1>1
      <3>2. QED
        BY <1>1, <3>1 DEF Start
    <2>4. \A i \in 1..(n + 1) : i \in 1..n \/ i = n + 1
      BY <1>1
    <2>5. QED
      BY <2>1, <2>2, <2>3, <2>4
  <1>6. Start(n + 2)' = Len(log) + Len(text)
    <2>1. n + 2 \notin 1..(n + 1)
      BY <1>1
    <2>2. QED
      BY <1>2, <1>3, <2>1 DEF Start
  <1>7. Taken' = Taken
    BY <1>1, <1>2, <1>4 DEF Taken
  <1>8. LogInv'
    <2>1. Start(1)' = 0
      BY <1>1, <1>5 DEF StreamInv, LogInv
    <2>2. ASSUME NEW i \in 1..n
          PROVE  /\ Start(i + 1)' = sent'[i].start + Len(sent'[i].text)
                 /\ sent'[i].start + Len(sent'[i].text) <= Len(log')
                 /\ \A k \in 1..Len(sent'[i].text) : log'[sent'[i].start + k] = sent'[i].text[k]
      <3>1. /\ Start(i + 1) = sent[i].start + Len(sent[i].text)
            /\ sent[i].start + Len(sent[i].text) <= Len(log)
            /\ \A k \in 1..Len(sent[i].text) : log[sent[i].start + k] = sent[i].text[k]
        BY <1>1 DEF StreamInv, LogInv
      <3>2. sent'[i] = sent[i] /\ sent[i].start \in Nat /\ Len(sent[i].text) \in Nat
        BY <1>1, <1>2, Lengths
      <3>3. i + 1 \in 1..(n + 1)
        BY <1>1
      <3>4. Start(i + 1)' = Start(i + 1)
        BY <1>5, <3>3
      <3>5. \A k \in 1..Len(sent[i].text) : sent[i].start + k \in 1..Len(log)
        BY <1>1, <3>1, <3>2
      <3>6. sent[i].start + Len(sent[i].text) <= Len(log')
        BY <1>1, <1>2, <3>1, <3>2
      <3>7. \A k \in 1..Len(sent[i].text) : log'[sent[i].start + k] = sent[i].text[k]
        BY <1>2, <3>1, <3>5
      <3>8. QED
        BY <3>1, <3>2, <3>4, <3>6, <3>7
    <2>3. /\ Start((n + 1) + 1)' = sent'[n + 1].start + Len(sent'[n + 1].text)
          /\ sent'[n + 1].start + Len(sent'[n + 1].text) <= Len(log')
          /\ \A k \in 1..Len(sent'[n + 1].text) :
               log'[sent'[n + 1].start + k] = sent'[n + 1].text[k]
      <3>1. (n + 1) + 1 = n + 2 /\ Len(log) + Len(text) <= Len(log')
        BY <1>1, <1>2
      <3>2. sent'[n + 1].start = Len(log) /\ sent'[n + 1].text = text
        BY <1>2
      <3>3. Start((n + 1) + 1)' = Len(log) + Len(text)
        BY <1>6, <3>1
      <3>4. \A k \in 1..Len(text) : log'[Len(log) + k] = text[k]
        BY <1>2
      <3>5. QED
        BY <3>1, <3>2, <3>3, <3>4
    <2>4. \A i \in DOMAIN sent' : i \in 1..n \/ i = n + 1
      BY <1>1, <1>3
    <2>5. QED
      BY <2>1, <2>2, <2>3, <2>4 DEF LogInv
  <1>9. PendingInv'
    <2>1. /\ Taken >= 0 /\ Taken = Len(log) - Len(response_stream) - Len(wire)
          /\ \A k \in 1..Len(response_stream) : response_stream[k] = log[Taken + k]
          /\ \A k \in 1..Len(wire) : wire[k] = log[Taken + Len(response_stream) + k]
      BY DEF StreamInv, PendingInv, Taken
    <2>2. \A k \in 1..Len(response_stream) : Taken + k \in 1..Len(log)
      BY <1>1, <2>1
    <2>3. \A k \in 1..Len(wire) : Taken + Len(response_stream) + k \in 1..Len(log)
      BY <1>1, <2>1
    <2>4. \A k \in 1..Len(response_stream) : response_stream[k] = log'[Taken + k]
      BY <1>2, <2>1, <2>2
    <2>5. ASSUME NEW k \in 1..Len(wire') PROVE wire'[k] = log'[Taken + Len(response_stream) + k]
      <3>1. CASE k \in 1..Len(wire)
        BY <1>2, <2>1, <2>3, <3>1
      <3>2. CASE k \notin 1..Len(wire)
        <4>1. k - Len(wire) \in 1..Len(text) /\ Len(wire) + (k - Len(wire)) = k
          BY <1>1, <1>2, <3>2
        <4>2. Taken + Len(response_stream) + k = Len(log) + (k - Len(wire))
          BY <1>1, <1>2, <2>1
        <4>3. wire'[k] = text[k - Len(wire)]
          BY <1>2, <4>1
        <4>4. log'[Len(log) + (k - Len(wire))] = text[k - Len(wire)]
          BY <1>2, <4>1
        <4>5. QED
          BY <4>2, <4>3, <4>4
      <3>3. QED
        BY <3>1, <3>2
    <2>6. QED
      BY <1>4, <1>7, <2>1, <2>4, <2>5 DEF PendingInv
  <1>10. ASSUME ~broken' PROVE AlignedInv'
    <2>1. AlignedInv
      BY <1>4, <1>10 DEF StreamInv
    <2>2. /\ c <= n /\ c \in Nat
          /\ Taken = Start(c + 1)
          /\ \A i \in DOMAIN complete : complete[i] = sent[i].text
          /\ DOMAIN complete = 1..c
      BY <1>0, <2>1, Lengths DEF AlignedInv
    <2>3. c + 1 \in 1..(n + 1) /\ c <= n + 1
          /\ \A i \in DOMAIN complete : i \in 1..n
      BY <1>1, <2>2
    <2>4. Taken' = Start(c + 1)'
      BY <1>5, <1>7, <2>2, <2>3
    <2>5. \A i \in DOMAIN complete : complete[i] = sent'[i].text
      BY <1>2, <2>2, <2>3
    <2>6. ASSUME NEW i \in DOMAIN sent', sent'[i].start < Taken + Len(response_stream)
          PROVE  Even(sent'[i].text)
      <3>1. CASE i \in 1..n
        <4>1. sent'[i] = sent[i] /\ i \in DOMAIN sent
          BY <1>1, <1>2, <3>1
        <4>2. QED
          BY <2>1, <2>6, <4>1 DEF AlignedInv
      <3>2. CASE i \notin 1..n
        <4>1. i = n + 1
          BY <1>1, <1>3, <3>2
        <4>2. sent'[i].start = Len(log)
          BY <1>2, <4>1
        <4>3. ~(Len(log) < Taken + Len(response_stream))
          BY <1>1 DEF Taken
        <4>4. QED
          BY <2>6, <4>2, <4>3
      <3>3. QED
        BY <3>1, <3>2
    <2>7. ~Overgrown(response_stream')
      BY <1>4, <2>1 DEF AlignedInv
    <2>8. Len(complete') <= Len(sent')
      BY <1>0, <1>2, <1>4, <2>3
    <2>9. Len(complete') = c
      BY <1>0, <1>4
    <2>10. QED
      BY <1>4, <1>7, <2>4, <2>5, <2>6, <2>7, <2>8, <2>9 DEF AlignedInv
  <1>11. QED
    BY <1>8, <1>9, <1>10 DEF StreamInv

LEMMA ReceiveKeepsStream ==
  ASSUME TypeOK, StreamInv, NEW n \in 1..Len(wire), Receive(n)
  PROVE  StreamInv'
  <1>1. /\ Len(log) \in Nat /\ Len(wire) \in Nat /\ Len(response_stream) \in Nat
        /\ Taken \in Int /\ n \in Nat /\ Taken = Len(log) - Len(response_stream) - Len(wire)
    BY Lengths DEF Taken
  <1>2. /\ Len(response_stream') = Len(response_stream) + n
        /\ Len(wire') = Len(wire) - n
        /\ \A k \in 1..Len(response_stream) : response_stream'[k] = response_stream[k]
        /\ \A k \in 1..n : response_stream'[Len(response_stream) + k] = wire[k]
        /\ \A k \in 1..Len(wire') : wire'[k] = wire[n + k]
    BY ReadMoves
  <1>3. UNCHANGED <<sent, log, complete>>
    BY DEF Receive
  <1>4. Taken' = Taken
    BY <1>1, <1>2, <1>3 DEF Taken
  <1>5. ASSUME NEW i PROVE Start(i)' = Start(i)
    BY <1>3 DEF Start
  <1>6. LogInv'
    BY <1>3, <1>5 DEF StreamInv, LogInv
  <1>7. PendingInv'
    <2>1. /\ Taken >= 0
          /\ \A k \in 1..Len(response_stream) : response_stream[k] = log[Taken + k]
          /\ \A k \in 1..Len(wire) : wire[k] = log[Taken + Len(response_stream) + k]
      BY DEF StreamInv, PendingInv
    <2>2. ASSUME NEW k \in 1..Len(response_stream') PROVE response_stream'[k] = log[Taken + k]
      <3>1. CASE k \in 1..Len(response_stream)
        BY <1>2, <2>1, <3>1
      <3>2. CASE k \notin 1..Len(response_stream)
        <4> DEFINE j == k - Len(response_stream)
        <4>1. /\ j \in 1..n /\ j \in 1..Len(wire)
              /\ Len(response_stream) + j = k
              /\ Taken + Len(response_stream) + j = Taken + k
          BY <1>1, <1>2, <3>2
        <4> HIDE DEF j
        <4>2. response_stream'[k] = wire[j]
          BY <1>2, <4>1
        <4>3. wire[j] = log[Taken + k]
          BY <2>1, <4>1
        <4>4. QED
          BY <4>2, <4>3
      <3>3. QED
        BY <3>1, <3>2
    <2>3. ASSUME NEW k \in 1..Len(wire')
          PROVE  wire'[k] = log[Taken + Len(response_stream') + k]
      <3>1. n + k \in 1..Len(wire)
        BY <1>1, <1>2
      <3>2. wire'[k] = log[Taken + Len(response_stream) + (n + k)]
        BY <1>2, <2>1, <3>1
      <3>3. Taken + Len(response_stream) + (n + k) = Taken + Len(response_stream') + k
        BY <1>1, <1>2
      <3>4. QED
        BY <3>2, <3>3
    <2>4. QED
      BY <1>3, <1>4, <2>1, <2>2, <2>3 DEF PendingInv
  <1>8. ASSUME ~broken' PROVE AlignedInv'
    <2>1. ~broken /\ ~Overgrown(response_stream') /\ ~Uneven
      BY <1>8 DEF Receive
    <2>2. \A i \in DOMAIN sent : Even(sent[i].text)
      BY <2>1 DEF Uneven
    <2>3. AlignedInv
      BY <2>1 DEF StreamInv
    <2>4. QED
      BY <1>3, <1>4, <1>5, <2>1, <2>2, <2>3 DEF AlignedInv
  <1>9. QED
    BY <1>6, <1>7, <1>8 DEF StreamInv

\* What Split takes out of the stream.
LEMMA SplitTakes ==
  ASSUME TypeOK, NEW early \in BOOLEAN, Split(early)
  PROVE  LET end == Min(Ends(response_stream)) IN
         /\ end \in 1..Len(response_stream)
         /\ complete' = Append(complete, Complete(response_stream, end))
         /\ Len(complete') = Len(complete) + 1
         /\ \A i \in 1..Len(complete) : complete'[i] = complete[i]
         /\ complete'[Len(complete) + 1] = Complete(response_stream, end)
         /\ Len(response_stream') = Len(response_stream) - end
         /\ \A k \in 1..Len(response_stream') : response_stream'[k] = response_stream[end + k]
  <1> DEFINE end == Min(Ends(response_stream))
             string == Complete(response_stream, end)
  <1>1. response_stream \in Seq(Byte) /\ complete \in Seq(Seq(Byte))
    BY DEF TypeOK
  <1>2. end \in Ends(response_stream) /\ end \in 1..Len(response_stream)
    BY <1>1, EndsIn DEF Split, Ends
  <1>3. string \in Seq(Byte)
    BY <1>1, <1>2, CompleteType
  <1>4. /\ complete' = Append(complete, string)
        /\ response_stream' = SubSeq(response_stream, end + 1, Len(response_stream))
    BY DEF Split
  <1>5. /\ Len(response_stream') = Len(response_stream) - end
        /\ \A k \in 1..(Len(response_stream) - end) :
             response_stream'[k] = response_stream[end + k]
    BY <1>1, <1>2, <1>4, RestOf
  <1> HIDE DEF string
  <1>6. /\ Len(complete') = Len(complete) + 1
        /\ \A i \in 1..Len(complete) : complete'[i] = complete[i]
        /\ complete'[Len(complete) + 1] = string
    BY <1>1, <1>3, <1>4, AppendProperties
  <1>7. QED
    BY <1>2, <1>4, <1>5, <1>6 DEF string

LEMMA SplitKeepsStream ==
  ASSUME TypeOK, StreamInv, NEW early \in BOOLEAN, Split(early)
  PROVE  StreamInv'
  <1>0. PICK end, c : end = Min(Ends(response_stream)) /\ c = Len(complete)
    OBVIOUS
  <1>1. /\ Len(log) \in Nat /\ Len(wire) \in Nat /\ Len(response_stream) \in Nat
        /\ Taken \in Int /\ Taken = Len(log) - Len(response_stream) - Len(wire)
        /\ c \in Nat /\ Len(sent) \in Nat /\ DOMAIN sent = 1..Len(sent)
        /\ DOMAIN complete = 1..c
    BY <1>0, Lengths DEF Taken
  <1>2. /\ end \in 1..Len(response_stream)
        /\ Len(complete') = c + 1
        /\ \A i \in 1..c : complete'[i] = complete[i]
        /\ complete'[c + 1] = Complete(response_stream, end)
        /\ Len(response_stream') = Len(response_stream) - end
        /\ \A k \in 1..Len(response_stream') : response_stream'[k] = response_stream[end + k]
    BY <1>0, SplitTakes
  <1>3. UNCHANGED <<sent, log, wire, broken>>
    BY DEF Split
  <1>4. Taken' = Taken + end /\ Taken' + Len(response_stream') = Taken + Len(response_stream)
    BY <1>1, <1>2, <1>3 DEF Taken
  <1>5. ASSUME NEW i PROVE Start(i)' = Start(i)
    BY <1>3 DEF Start
  <1>6. LogInv'
    BY <1>3, <1>5 DEF StreamInv, LogInv
  <1>7. PendingInv'
    <2>1. /\ Taken >= 0
          /\ \A k \in 1..Len(response_stream) : response_stream[k] = log[Taken + k]
          /\ \A k \in 1..Len(wire) : wire[k] = log[Taken + Len(response_stream) + k]
      BY DEF StreamInv, PendingInv
    <2>2. ASSUME NEW k \in 1..Len(response_stream') PROVE response_stream'[k] = log[Taken' + k]
      <3>1. end + k \in 1..Len(response_stream) /\ Taken + (end + k) = Taken' + k
        BY <1>1, <1>2, <1>4
      <3>2. QED
        BY <1>2, <2>1, <3>1
    <2>3. Taken' >= 0
      BY <1>1, <1>2, <1>4, <2>1
    <2>4. \A k \in 1..Len(wire) : wire[k] = log[Taken' + Len(response_stream') + k]
      BY <1>4, <2>1
    <2>5. QED
      BY <1>3, <2>2, <2>3, <2>4 DEF PendingInv
  <1>8. ASSUME ~broken' PROVE AlignedInv'
    <2>1. ~broken /\ Ends(response_stream) # {}
      BY <1>3, <1>8 DEF Split
    <2>2. AlignedInv
      BY <2>1 DEF StreamInv
    <2>3. /\ c + 1 \in DOMAIN sent
          /\ end = Len(sent[c + 1].text)
          /\ Complete(response_stream, end) = sent[c + 1].text
      BY <1>0, <2>1, CutsMessage
    <2>4. Taken' = Start((c + 1) + 1)
      <3>1. Taken = Start(c + 1)
        BY <1>0, <2>2 DEF AlignedInv
      <3>2. Start(c + 1) = sent[c + 1].start
        BY <2>3 DEF Start
      <3>3. Start((c + 1) + 1) = sent[c + 1].start + Len(sent[c + 1].text)
        BY <2>3 DEF StreamInv, LogInv
      <3>4. QED
        BY <1>4, <2>3, <3>1, <3>2, <3>3
    <2>5. ASSUME NEW i \in 1..(c + 1) PROVE complete'[i] = sent[i].text
      <3>1. CASE i \in 1..c
        BY <1>1, <1>2, <2>2, <3>1 DEF AlignedInv
      <3>2. CASE i \notin 1..c
        <4>1. i = c + 1
          BY <1>1, <3>2
        <4>2. QED
          BY <1>2, <2>3, <4>1
      <3>3. QED
        BY <3>1, <3>2
    <2>6. DOMAIN complete' = 1..(c + 1)
      <3>1. TypeOK'
        BY StepTypes DEF Next, Scan
      <3>2. complete' \in Seq(Seq(Byte))
        BY <3>1 DEF TypeOK
      <3>3. QED
        BY <1>2, <3>2, LenProperties
    <2>7. \A i \in DOMAIN sent : sent[i].start < Taken' + Len(response_stream') => Even(sent[i].text)
      BY <1>4, <2>2 DEF AlignedInv
    <2>8. ~Overgrown(response_stream')
      BY <1>1, <1>2, <2>2, ScannerAssumption DEF AlignedInv, Overgrown, ScannerAssumption
    <2>9. Len(complete') <= Len(sent)
      BY <1>1, <1>2, <2>3
    <2>10. Taken' = Start((c + 1) + 1)'
      BY <1>5, <2>4
    <2>11. QED
      BY <1>2, <1>3, <2>5, <2>6, <2>7, <2>8, <2>9, <2>10 DEF AlignedInv
  <1>9. QED
    BY <1>6, <1>7, <1>8 DEF StreamInv

THEOREM StepStream == TypeOK /\ StreamInv /\ [Next]_vars => StreamInv'
  <1> SUFFICES ASSUME TypeOK, StreamInv, [Next]_vars PROVE StreamInv'
    OBVIOUS
  <1>1. ASSUME UNCHANGED <<sent, log, wire, response_stream, complete, broken>>
        PROVE  StreamInv'
    <2>1. ASSUME NEW i PROVE Start(i)' = Start(i)
      BY <1>1 DEF Start
    <2>2. Taken' = Taken
      BY <1>1 DEF Taken
    <2>3. LogInv'
      BY <1>1, <2>1 DEF StreamInv, LogInv
    <2>4. PendingInv'
      BY <1>1, <2>2 DEF StreamInv, PendingInv
    <2>5. ~broken' => AlignedInv'
      BY <1>1, <2>1, <2>2 DEF StreamInv, AlignedInv
    <2>6. QED
      BY <2>3, <2>4, <2>5 DEF StreamInv
  <1>2. CASE Finish
    BY <1>1, <1>2 DEF Finish
  <1>3. CASE UNCHANGED vars
    BY <1>1, <1>3 DEF vars
  <1>4. ASSUME NEW early \in BOOLEAN, Split(early) PROVE StreamInv'
    BY <1>4, SplitKeepsStream
  <1>5. ASSUME NEW n \in 1..Len(wire), Receive(n) PROVE StreamInv'
    BY <1>5, ReceiveKeepsStream
  <1>6. ASSUME NEW text \in Texts, Send(text) PROVE StreamInv'
    BY <1>6, SendKeepsStream
  <1>7. QED
    BY <1>2, <1>3, <1>4, <1>5, <1>6 DEF Next, SomeReceive, Scan

THEOREM StreamInvariant == Spec => []StreamInv
  BY InitTypes, StepTypes, InitStream, StepStream, PTL DEF Spec

-----------------------------------------------------------------------------
(* Nothing is left behind *)

\* A stream that cannot be cut holds less than the next message.
LEMMA UncutIsPartial ==
  ASSUME TypeOK, StreamInv, ~broken, Indexed, Ends(response_stream) = {}
  PROVE  IF Len(complete) = Len(sent) THEN response_stream = <<>>
         ELSE Len(response_stream) < Len(sent[Len(complete) + 1].text)
  <1> DEFINE m == Len(complete) + 1
  <1>1. /\ Len(sent) \in Nat /\ DOMAIN sent = 1..Len(sent)
        /\ Len(complete) \in Nat
        /\ Len(log) \in Nat /\ Len(wire) \in Nat /\ Len(response_stream) \in Nat
    BY Lengths
  <1>2. AlignedInv
    BY DEF StreamInv
  <1>3. CASE Len(complete) = Len(sent)
    <2>1. m \notin DOMAIN sent
      BY <1>1, <1>3
    <2>2. Taken = Len(log)
      BY <1>2, <2>1 DEF AlignedInv, Start
    <2>3. Len(response_stream) = 0
      BY <1>1, <2>2 DEF Taken
    <2>4. response_stream \in Seq(Byte)
      BY DEF TypeOK
    <2>5. response_stream = <<>>
      BY <2>3, <2>4, EmptySeq
    <2>6. QED
      BY <1>3, <2>5
  <1>4. CASE Len(complete) # Len(sent)
    <2>1. m \in DOMAIN sent
      BY <1>1, <1>2, <1>4 DEF AlignedInv
    <2>2. Len(sent[m].text) \in Nat
      BY <2>1, Lengths
    <2>3. ~(Len(sent[m].text) <= Len(response_stream))
      BY <2>1, CutsMessage
    <2>4. Len(response_stream) < Len(sent[m].text)
      BY <1>1, <2>2, <2>3
    <2>5. QED
      BY <1>4, <2>4
  <1>5. QED
    BY <1>3, <1>4

THEOREM InitLeaves == Init => NothingLeftBehind
  BY DEF Init, NothingLeftBehind

THEOREM StepLeaves ==
  TypeOK /\ StreamInv /\ NothingLeftBehind /\ [Next]_vars => NothingLeftBehind'
  <1> SUFFICES ASSUME TypeOK, StreamInv, NothingLeftBehind, [Next]_vars,
                      pc' = "idle", ~cut', ~broken', Indexed'
               PROVE  (IF Len(complete) = Len(sent) THEN response_stream = <<>>
                       ELSE Len(response_stream) < Len(sent[Len(complete) + 1].text))'
    BY DEF NothingLeftBehind
  <1>1. ASSUME NEW text \in Texts, Send(text)
        PROVE  (IF Len(complete) = Len(sent) THEN response_stream = <<>>
                ELSE Len(response_stream) < Len(sent[Len(complete) + 1].text))'
    <2>1. UNCHANGED <<response_stream, pc, complete, cut, broken>>
      BY <1>1 DEF Send
    <2>2. ~broken /\ Indexed
      BY <2>1 DEF Indexed
    <2>3. IF Len(complete) = Len(sent) THEN response_stream = <<>>
          ELSE Len(response_stream) < Len(sent[Len(complete) + 1].text)
      BY <2>1, <2>2 DEF NothingLeftBehind
    <2>4. /\ Len(sent) \in Nat /\ Len(complete) \in Nat /\ Len(complete) <= Len(sent)
      BY <2>2, Lengths DEF StreamInv, AlignedInv
    <2>5. /\ Len(sent') = Len(sent) + 1
          /\ \A i \in 1..Len(sent) : sent'[i] = sent[i]
          /\ sent'[Len(sent) + 1] = [text |-> text, start |-> Len(log)]
      BY <1>1, SendAppends
    <2>6. Len(complete) # Len(sent')
      BY <2>4, <2>5
    <2>7. Len(response_stream) < Len(sent'[Len(complete) + 1].text)
      <3>1. CASE Len(complete) = Len(sent)
        <4>1. response_stream = <<>> /\ sent'[Len(complete) + 1].text = text
          BY <2>3, <2>5, <3>1
        <4>2. Len(text) \in Nat \ {0}
          BY ScannerAssumption, EmptySeq DEF ScannerAssumption
        <4>3. Len(response_stream) = 0
          BY <4>1
        <4>4. QED
          BY <4>1, <4>2, <4>3
      <3>2. CASE Len(complete) # Len(sent)
        <4>1. Len(complete) + 1 \in 1..Len(sent)
          BY <2>4, <3>2
        <4>2. QED
          BY <2>3, <2>5, <3>2, <4>1
      <3>3. QED
        BY <3>1, <3>2
    <2>8. QED
      BY <2>1, <2>6, <2>7
  <1>2. ASSUME NEW n \in 1..Len(wire), Receive(n) PROVE FALSE
    BY <1>2 DEF Receive
  <1>3. ASSUME NEW early \in BOOLEAN, Split(early) PROVE FALSE
    BY <1>3 DEF Split
  <1>4. CASE Finish
    <2>1. /\ Ends(response_stream) = {}
          /\ UNCHANGED <<sent, complete, response_stream, broken>>
      BY <1>4 DEF Finish
    <2>2. ~broken /\ Indexed
      BY <2>1 DEF Indexed
    <2>3. QED
      BY <2>1, <2>2, UncutIsPartial
  <1>5. CASE UNCHANGED vars
    BY <1>5 DEF vars, NothingLeftBehind, Indexed
  <1>6. QED
    BY <1>1, <1>2, <1>3, <1>4, <1>5 DEF Next, SomeReceive, Scan

\* For any messages and any width of the index: a read that was not ended early
\* leaves no whole message in the stream.
THEOREM LeavesNothingBehind == Spec => []NothingLeftBehind
  BY InitTypes, StepTypes, InitStream, StepStream, InitLeaves, StepLeaves, PTL DEF Spec

-----------------------------------------------------------------------------
(* ControlStream implements PacketStream *)

LEMMA ListsAreSequences ==
  \A S : \A m \in Nat : \A f \in [1..m -> S] : f \in Seq(S)
  BY SeqDef, Zenon

LEMMA OneMore ==
  ASSUME NEW S, NEW s \in Seq(S), NEW t \in Seq(S), Len(t) = Len(s) + 1,
         \A i \in 1..Len(s) : t[i] = s[i]
  PROVE  Promise!Extends(s, t)
  <1> DEFINE kept == SubSeq(t, 1, Len(s))
  <1>1. Len(s) \in Nat /\ \A i \in 1..Len(s) : t[i] \in S
    BY ElementOfSeq
  <1>2. kept \in Seq(S) /\ Len(kept) = Len(s) /\ \A i \in 1..Len(s) : kept[i] = t[i]
    BY <1>1, SubSeqProperties
  <1> HIDE DEF kept
  <1>3. kept = s
    BY <1>2, SeqEqual
  <1>4. QED
    BY <1>3 DEF kept, Promise!Extends

SentOK ==
  /\ Sent \in Seq(Seq(Byte)) /\ Len(Sent) = Len(sent)
  /\ \A i \in 1..Len(sent) : Sent[i] = sent[i].text

LEMMA SentType == TypeOK => SentOK
  <1> SUFFICES ASSUME TypeOK PROVE SentOK
    OBVIOUS
  <1>1. Len(sent) \in Nat /\ DOMAIN sent = 1..Len(sent)
    BY Lengths
  <1>2. DOMAIN Sent = 1..Len(sent) /\ \A i \in 1..Len(sent) : Sent[i] = sent[i].text
    BY <1>1 DEF Sent
  <1>3. Sent \in Seq(Seq(Byte))
    <2>1. \A i \in 1..Len(sent) : sent[i].text \in Seq(Byte)
      BY <1>1, Lengths
    <2>2. Sent \in [1..Len(sent) -> Seq(Byte)]
      BY <1>1, <2>1 DEF Sent
    <2>3. QED
      BY <1>1, <2>2, ListsAreSequences, Zenon
  <1>4. Len(Sent) = Len(sent)
    <2>1. Len(Sent) \in Nat /\ DOMAIN Sent = 1..Len(Sent)
      BY <1>3, LenProperties
    <2>2. \A m, n \in Nat : 1..m = 1..n => m = n
      OBVIOUS
    <2>3. QED
      BY <1>1, <1>2, <2>1, <2>2, Zenon
  <1>5. QED
    BY <1>2, <1>3, <1>4 DEF SentOK

THEOREM InitImplements == Init => Promise!Init
  <1> SUFFICES ASSUME Init PROVE Promise!Init
    OBVIOUS
  <1>1. SentOK
    BY InitTypes, SentType
  <1>2. Sent = <<>>
    BY <1>1, EmptySeq DEF SentOK, Init
  <1>3. QED
    BY <1>2 DEF Init, Promise!Init

THEOREM StepImplements ==
  TypeOK /\ StreamInv /\ [Next]_vars => [Promise!Next]_(Promise!vars)
  <1> SUFFICES ASSUME TypeOK, StreamInv, [Next]_vars
               PROVE  Promise!Next \/ UNCHANGED <<Sent, complete, broken>>
    BY DEF Promise!vars
  <1>0. TypeOK'
    BY StepTypes
  <1>1. ASSUME NEW text \in Texts, Send(text) PROVE Promise!Accept
    <2>1. UNCHANGED <<complete, broken>>
      BY <1>1 DEF Send
    <2>2. SentOK
      BY SentType
    <2>3. SentOK'
      BY <1>0, SentType, PTL
    <2>4. Len(sent') = Len(sent) + 1 /\ \A i \in 1..Len(sent) : sent'[i] = sent[i]
      BY <1>1, SendAppends
    <2>5. \A i \in 1..Len(sent) : Sent'[i] = Sent[i]
      <3>1. \A i \in 1..Len(sent) : i \in 1..Len(sent')
        BY <2>4, Lengths
      <3>2. QED
        BY <2>2, <2>3, <2>4, <3>1 DEF SentOK
    <2>6. Promise!Extends(Sent, Sent')
      <3>1. /\ Sent \in Seq(Seq(Byte)) /\ Sent' \in Seq(Seq(Byte))
            /\ Len(Sent') = Len(Sent) + 1 /\ \A i \in 1..Len(Sent) : Sent'[i] = Sent[i]
        BY <2>2, <2>3, <2>4, <2>5 DEF SentOK
      <3>2. QED
        BY <3>1, OneMore
    <2>7. QED
      BY <2>1, <2>6 DEF Promise!Accept
  <1>2. ASSUME NEW n \in 1..Len(wire), Receive(n)
        PROVE  Promise!Break \/ UNCHANGED <<Sent, complete, broken>>
    <2>1. UNCHANGED <<Sent, complete>>
      BY <1>2 DEF Receive, Sent
    <2>2. broken \in BOOLEAN /\ broken' \in BOOLEAN /\ (broken => broken')
      BY <1>2 DEF Receive, TypeOK
    <2>3. broken' = broken \/ broken' = TRUE
      BY <2>2
    <2>4. QED
      BY <2>1, <2>3 DEF Promise!Break
  <1>3. ASSUME NEW early \in BOOLEAN, Split(early)
        PROVE  Promise!Deliver \/ Promise!Garble
    <2> DEFINE string == Complete(response_stream, Min(Ends(response_stream)))
    <2>1. UNCHANGED <<sent, Sent, broken>>
      BY <1>3 DEF Split, Sent
    <2>2. /\ complete' = Append(complete, string)
          /\ Len(complete') = Len(complete) + 1
          /\ \A i \in 1..Len(complete) : complete'[i] = complete[i]
      BY <1>3, SplitTakes
    <2> HIDE DEF string
    <2>3. CASE broken
      <3>1. Promise!Extends(complete, complete')
        BY <1>0, <2>2, OneMore DEF TypeOK
      <3>2. QED
        BY <2>1, <2>3, <3>1 DEF Promise!Garble
    <2>4. CASE ~broken
      <3>1. /\ Len(complete) + 1 \in DOMAIN sent
            /\ string = sent[Len(complete) + 1].text
        BY <1>3, <2>4, CutsMessage DEF string, Split
      <3>2. SentOK /\ Len(sent) \in Nat /\ Len(complete) \in Nat /\ DOMAIN sent = 1..Len(sent)
        BY SentType, Lengths
      <3>3. Len(complete) < Len(Sent) /\ Sent[Len(complete) + 1] = string
        BY <3>1, <3>2 DEF SentOK
      <3>4. QED
        BY <2>1, <2>2, <3>3 DEF Promise!Deliver
    <2>5. QED
      BY <2>3, <2>4
  <1>4. CASE Finish
    BY <1>4 DEF Finish, Sent
  <1>5. CASE UNCHANGED vars
    BY <1>5 DEF vars, Sent
  <1>6. QED
    BY <1>1, <1>2, <1>3, <1>4, <1>5 DEF Next, SomeReceive, Scan, Promise!Next

\* For any messages, any cuts and any width of the index: until one with uneven
\* braces comes in or the stream grows until its size wraps, messages are parsed
\* whole, once and in order.
THEOREM ImplementsStream == Spec => StreamSpec
  BY InitTypes, StepTypes, InitStream, StepStream, InitImplements, StepImplements, PTL
  DEF Spec, StreamSpec, Promise!Spec
=============================================================================
