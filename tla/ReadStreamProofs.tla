-------------------------- MODULE ReadStreamProofs --------------------------
(***************************************************************************)
(* Theorems about ReadStream: its types, and that nothing is ever sent on  *)
(* a closed channel, for any number of streams and readings and channels   *)
(* of any capacity.                                                        *)
(***************************************************************************)
EXTENDS ReadStream, SequenceTheorems, TLAPS

Step(s) == Turn(s) \/ SendToStream(s) \/ Open(s) \/ Disconnect(s) \/ Listen(s) \/ Serve(s)

USE DEF dispatchVars, channelVars, stopVars, listenVars, history

-----------------------------------------------------------------------------
(* Who may use the channels of a stream.                                   *)

Closing == {"draining", "drainOne"}

\* A dispatch serves registered streams only, and has a reading to send.
DispatchInv ==
  /\ due \subseteq streams
  /\ target \in streams \cup {NoStream}
  /\ ~StreamLockFree => reading # << >>

\* A stream is registered from the start of its handler until removeStream, and
\* its channels are closed by the last step of the handler.
HandlerInv ==
  \A s \in Streams :
    /\ s \in streams <=> handler[s] \in {"serving", "removing"}
    /\ streamClosed[s] <=> handler[s] = "done"
    /\ readingsClosed[s] <=> handler[s] = "done"
    /\ closed[s] <=> handler[s] \in Closing \cup {"done"}

\* The listener forwards, and the handler closes, under stopLock.
LockInv ==
  \A s \in Streams :
    /\ listener[s] = "forward" => stopLock[s] = "listener" /\ ~closed[s]
    /\ handler[s] \in Closing <=> stopLock[s] = "handler"

\* The inductive invariant.
Inv == TypeOK /\ DispatchInv /\ HandlerInv /\ LockInv

-----------------------------------------------------------------------------
LEMMA InvInit == Init => Inv
<1> SUFFICES ASSUME Init PROVE Inv
  OBVIOUS
<1> USE DEF Init
<1>1. ChannelTypes
  BY EmptySeq DEF ChannelTypes
<1>2. Bounded
  BY StreamAssumption DEF Bounded
<1>3. ControlTypes
  BY DEF ControlTypes
<1>4. DispatchInv
  BY DEF DispatchInv, StreamLockFree
<1>5. HandlerInv /\ LockInv
  BY DEF HandlerInv, LockInv, Closing
<1> QED
  BY <1>1, <1>2, <1>3, <1>4, <1>5 DEF Inv, TypeOK

\* The channels and histories hold readings.
LEMMA ChannelStep ==
  ASSUME Inv, NEW s \in Streams, Step(s)
  PROVE  ChannelTypes' /\ Bounded'
<1> USE DEF Inv, TypeOK, ChannelTypes, Bounded
<1>1. CASE SendToStream(s)
  <2>1. reading[Len(reading)] \in Readings
    <3>1. reading # << >>
      BY <1>1, StreamAssumption DEF SendToStream, DispatchInv, StreamLockFree
    <3> QED
      BY <3>1, EmptySeq, ElementOfSeq
  <2> QED
    BY <1>1, <2>1, StreamAssumption DEF SendToStream, Room
<1>2. CASE Receive(s)
  <2>1. Head(stream[s]) \in Readings /\ Tail(stream[s]) \in Seq(Readings)
        /\ Len(Tail(stream[s])) <= Capacity
    BY <1>2, StreamAssumption DEF Receive
  <2>2. << Head(stream[s]) >> \in Seq(Readings) /\ Len(<< Head(stream[s]) >>) = 1
    BY <2>1
  <2> QED
    BY <1>2, <2>1, <2>2 DEF Receive
<1>3. CASE Forward(s)
  <2>1. readings[s] \o inHand[s] \in Seq(Readings)
        /\ Len(readings[s] \o inHand[s]) <= Capacity
    BY <1>3, StreamAssumption DEF Forward, Room
  <2> QED
    BY <1>3, <2>1, EmptySeq DEF Forward
<1>4. CASE SendToClient(s)
  <2>1. Head(readings[s]) \in Readings /\ Tail(readings[s]) \in Seq(Readings)
        /\ Len(Tail(readings[s])) <= Capacity
    BY <1>4, StreamAssumption DEF SendToClient
  <2>2. Append(delivered[s], Head(readings[s])) \in Seq(Readings)
    BY <2>1
  <2>3. delivered' \in [Streams -> Seq(Readings)]
    BY <1>4, <2>2 DEF SendToClient
  <2>4. readings' = [readings EXCEPT ![s] = Tail(readings[s])]
        /\ UNCHANGED <<reading, stream, inHand, sent>>
    BY <1>4 DEF SendToClient
  <2> QED
    BY <2>1, <2>3, <2>4
<1>5. CASE DropReading(s)
  <2>1. Tail(stream[s]) \in Seq(Readings) /\ Len(Tail(stream[s])) <= Capacity
    BY <1>5, StreamAssumption DEF DropReading
  <2> QED
    BY <1>5, <2>1 DEF DropReading
<1>6. CASE FinishClose(s)
  BY <1>6, StreamAssumption, EmptySeq DEF FinishClose
<1>7. CASE UNCHANGED <<reading, stream, readings, inHand, sent, delivered>>
  BY <1>7
<1> QED
  BY <1>1, <1>2, <1>3, <1>4, <1>5, <1>6, <1>7
     DEF Step, Listen, Serve, Turn, Open, Disconnect, LookClosed, ReceiveClosed,
         LockToForward, RemoveStream, LockToClose, FindReading

\* What the dispatch does leaves handlers, listeners and their lock alone.
LEMMA TurnStep ==
  ASSUME Inv, NEW s \in Streams, Turn(s) \/ SendToStream(s)
  PROVE  (ControlTypes /\ DispatchInv /\ HandlerInv /\ LockInv)'
<1> USE DEF Inv, TypeOK
<1>1. ControlTypes'
  BY DEF Turn, SendToStream, ControlTypes
<1>2. DispatchInv'
  BY StreamAssumption DEF Turn, SendToStream, DispatchInv, StreamLockFree
<1>3. HandlerInv' /\ LockInv'
  BY DEF Turn, SendToStream, HandlerInv, LockInv
<1> QED
  BY <1>1, <1>2, <1>3

\* The listener.
LEMMA ListenStep ==
  ASSUME Inv, NEW s \in Streams, Listen(s)
  PROVE  (ControlTypes /\ DispatchInv /\ HandlerInv /\ LockInv)'
<1> USE DEF Inv, TypeOK, Listen, LookClosed, Receive, ReceiveClosed, LockToForward,
            MayForward, Forward, ReleaseStop
<1>1. ControlTypes'
  BY DEF ControlTypes
<1>2. DispatchInv' /\ HandlerInv'
  BY DEF DispatchInv, HandlerInv, StreamLockFree
<1>3. LockInv'
  <2> SUFFICES ASSUME NEW z \in Streams
               PROVE  /\ listener'[z] = "forward" => stopLock'[z] = "listener" /\ ~closed'[z]
                      /\ handler'[z] \in Closing <=> stopLock'[z] = "handler"
    BY DEF LockInv
  <2> USE DEF LockInv, ControlTypes, Closing
  <2>1. CASE z # s
    <3>1. listener'[z] = listener[z] /\ stopLock'[z] = stopLock[z]
      BY <2>1, ZenonT(40)
    <3>2. UNCHANGED <<closed, handler>>
      OBVIOUS
    <3> QED
      BY <3>1, <3>2
  <2>2. CASE z = s /\ (LookClosed(s) \/ Receive(s) \/ ReceiveClosed(s))
    BY <2>2
  <2>3. CASE z = s /\ LockToForward(s)
    BY <2>3
  <2>4. CASE z = s /\ Forward(s)
    BY <2>4
  <2> QED
    BY <2>1, <2>2, <2>3, <2>4
<1> QED
  BY <1>1, <1>2, <1>3

\* The handler, from addStream to close.
LEMMA HandlerStep ==
  ASSUME Inv, NEW s \in Streams, Open(s) \/ Disconnect(s) \/ Serve(s)
  PROVE  (ControlTypes /\ DispatchInv /\ HandlerInv /\ LockInv)'
<1> USE DEF Inv, TypeOK, Open, Disconnect, Serve, SendToClient, RemoveStream, LockToClose,
            FindReading, DropReading, FinishClose, CloseStream
<1>1. ControlTypes'
  BY DEF ControlTypes
<1>2. DispatchInv'
  BY DEF DispatchInv, StreamLockFree
<1>3. HandlerInv'
  BY DEF HandlerInv, ControlTypes, Closing
<1>4. LockInv'
  BY DEF LockInv, HandlerInv, ControlTypes, Closing
<1> QED
  BY <1>1, <1>2, <1>3, <1>4

LEMMA InvNext == Inv /\ [Next]_vars => Inv'
<1> SUFFICES ASSUME Inv, [Next]_vars PROVE Inv'
  OBVIOUS
<1>1. ASSUME NEW d \in Devices, Dispatch(d) PROVE Inv'
  <2>1. Len(reading) + 1 \in 1..MaxReadings
    BY <1>1, StreamAssumption DEF Inv, TypeOK, ChannelTypes, Dispatch
  <2> DEFINE r == [number |-> Len(reading) + 1, device |-> d]
  <2>2. r \in Readings
    BY <1>1, <2>1 DEF Readings
  <2>3. reading \in Seq(Readings) /\ reading' = Append(reading, r)
    BY <1>1 DEF Inv, TypeOK, ChannelTypes, Dispatch
  <2> HIDE DEF r
  <2>4. reading' \in Seq(Readings) /\ reading' # << >>
    BY <2>2, <2>3
  <2> QED
    BY <1>1, <2>4 DEF Inv, TypeOK, ChannelTypes, Bounded, ControlTypes, DispatchInv,
                      HandlerInv, LockInv, Dispatch, StreamLockFree
<1>2. ASSUME NEW s \in Streams, Step(s) PROVE Inv'
  BY <1>2, ChannelStep, TurnStep, ListenStep, HandlerStep DEF Step, Inv, TypeOK
<1>3. CASE UNCHANGED vars
  BY <1>3 DEF vars, Inv, TypeOK, ChannelTypes, Bounded, ControlTypes, DispatchInv,
              HandlerInv, LockInv, StreamLockFree
<1> QED
  BY <1>1, <1>2, <1>3 DEF Next, Step

LEMMA Invariance == Spec => []Inv
BY InvInit, InvNext, PTL DEF Spec

-----------------------------------------------------------------------------
(* The properties.                                                         *)

\* Every variable keeps its type, and no channel holds more than its capacity.
THEOREM TypeCorrect == Spec => []TypeOK
<1>1. Inv => TypeOK
  BY DEF Inv
<1> QED
  BY <1>1, Invariance, PTL

\* Neither the dispatch nor the listener ever sends on a channel that the handler
\* has closed, though a client may disconnect at any time.
THEOREM OpenWhenUsed == Spec => []NoSendOnClosed
<1>1. Inv => NoSendOnClosed
  <2> SUFFICES ASSUME Inv, NEW s \in Streams
               PROVE  /\ target = s \/ s \in due => ~streamClosed[s]
                      /\ listener[s] = "forward" => ~readingsClosed[s]
    BY DEF NoSendOnClosed
  <2>1. target = s \/ s \in due => s \in streams
    BY StreamAssumption DEF Inv, DispatchInv
  <2> QED
    BY <2>1 DEF Inv, HandlerInv, LockInv, Closing
<1> QED
  BY <1>1, Invariance, PTL

-----------------------------------------------------------------------------
(* What a stream passes on.                                                *)

Increasing(q) == \A i, j \in 1..Len(q) : i < j => q[i].number < q[j].number

\* The reading that is dispatched is newer than all before it.
Numbered == \A i \in 1..Len(reading) : reading[i].number = i

\* What was sent to a stream does not go beyond the last reading, nor up to it while the
\* stream is still to be served, which it is once.
SentBefore ==
  /\ target \notin due
  /\ \A s \in Streams : \A r \in Elements(sent[s]) :
       /\ r.number <= Len(reading)
       /\ target = s \/ s \in due => r.number < Len(reading)

\* A listener has a reading in hand from its filter to the second channel.
InHand ==
  \A s \in Streams :
    /\ handler[s] = "none" => listener[s] = "none" /\ sent[s] = << >> /\ stream[s] = << >> /\ Passed(s) = << >>
    /\ listener[s] \in {"none", "top", "receive"} => inHand[s] = << >>

\* The readings that were sent to a stream and that it wants are those it has passed or has
\* yet to filter.
Way(s) ==
  /\ Increasing(Passed(s) \o stream[s])
  /\ \A r \in Elements(Passed(s)) : Wanted(s, r)
  /\ Elements(Passed(s) \o stream[s]) \subseteq Elements(sent[s])
  /\ \A r \in Elements(sent[s]) : Wanted(s, r) => r \in Elements(Passed(s) \o stream[s])

Faithful == \A s \in Streams : handler[s] = "serving" /\ s \notin gone => Way(s)

\* What was appended and what was there.
LEMMA ElementsOfAppend ==
  ASSUME NEW q \in Seq(Readings), NEW r \in Readings
  PROVE  Elements(Append(q, r)) = Elements(q) \cup {r}
<1>1. /\ Len(Append(q, r)) = Len(q) + 1 /\ Len(q) \in Nat
      /\ \A i \in 1..Len(q) : Append(q, r)[i] = q[i]
      /\ Append(q, r)[Len(q) + 1] = r
  BY AppendProperties, LenProperties
<1> QED
  BY <1>1 DEF Elements

LEMMA ElementsOfConcat ==
  ASSUME NEW p \in Seq(Readings), NEW q \in Seq(Readings)
  PROVE  Elements(p \o q) = Elements(p) \cup Elements(q)
<1>1. /\ Len(p \o q) = Len(p) + Len(q) /\ Len(p) \in Nat /\ Len(q) \in Nat
      /\ \A i \in 1 .. Len(p) + Len(q) : (p \o q)[i] = IF i <= Len(p) THEN p[i] ELSE q[i - Len(p)]
  BY ConcatProperties, LenProperties
<1>2. ASSUME NEW j \in 1..Len(q) PROVE q[j] \in Elements(p \o q)
  <2>1. Len(p) + j \in 1 .. Len(p) + Len(q) /\ ~(Len(p) + j <= Len(p)) /\ Len(p) + j - Len(p) = j
    BY <1>1
  <2> QED
    BY <1>1, <2>1 DEF Elements
<1>3. ASSUME NEW i \in 1..Len(p) PROVE p[i] \in Elements(p \o q)
  <2>1. i \in 1 .. Len(p) + Len(q) /\ i <= Len(p)
    BY <1>1
  <2> QED
    BY <1>1, <2>1 DEF Elements
<1>4. ASSUME NEW i \in 1 .. Len(p) + Len(q) PROVE (p \o q)[i] \in Elements(p) \cup Elements(q)
  <2>1. CASE i <= Len(p)
    BY <1>1, <2>1 DEF Elements
  <2>2. CASE ~(i <= Len(p))
    <3>1. i - Len(p) \in 1..Len(q)
      BY <1>1, <2>2
    <3> QED
      BY <1>1, <2>2, <3>1 DEF Elements
  <2> QED
    BY <2>1, <2>2
<1>5. Elements(p) \subseteq Elements(p \o q) /\ Elements(q) \subseteq Elements(p \o q)
  BY <1>2, <1>3 DEF Elements
<1>6. Elements(p \o q) \subseteq Elements(p) \cup Elements(q)
  BY <1>1, <1>4 DEF Elements
<1> QED
  BY <1>5, <1>6

LEMMA Associative == \A p, q, r \in Seq(Readings) : (p \o q) \o r = p \o (q \o r)
BY ConcatAssociative, SMTT(20)

\* The head of the second sequence moves to the end of the first.
LEMMA HeadMoves ==
  ASSUME NEW p \in Seq(Readings), NEW q \in Seq(Readings), q # << >>
  PROVE  Append(p, Head(q)) \o Tail(q) = p \o q
<1>1. Head(q) \in Readings /\ Tail(q) \in Seq(Readings)
  BY HeadTailProperties
<1>2. Append(p, Head(q)) = p \o <<Head(q)>>
  BY <1>1, AppendIsConcat
<1>3. q = <<Head(q)>> \o Tail(q)
  BY <1>1
<1>4. <<Head(q)>> \in Seq(Readings)
  BY <1>1
<1> QED
  BY <1>1, <1>2, <1>3, <1>4, ConcatAssociative

\* The head of the second sequence is dropped.
LEMMA HeadDrops ==
  ASSUME NEW p \in Seq(Readings), NEW q \in Seq(Readings), q # << >>, Increasing(p \o q)
  PROVE  /\ Increasing(p \o Tail(q))
         /\ Elements(p \o q) = Elements(p \o Tail(q)) \cup {Head(q)}
<1> DEFINE t == Tail(q)
<1>1. /\ t \in Seq(Readings) /\ Len(t) = Len(q) - 1 /\ \A i \in 1..Len(t) : t[i] = q[i + 1]
      /\ Head(q) = q[1] /\ Len(q) \in Nat \ {0} /\ Len(p) \in Nat /\ Len(t) \in Nat
  BY HeadTailProperties, LenProperties, EmptySeq
<1> HIDE DEF t
<1>2. /\ Len(p \o q) = Len(p) + Len(q)
      /\ \A i \in 1 .. Len(p) + Len(q) : (p \o q)[i] = IF i <= Len(p) THEN p[i] ELSE q[i - Len(p)]
  BY ConcatProperties
<1>3. /\ Len(p \o t) = Len(p) + Len(t)
      /\ \A i \in 1 .. Len(p) + Len(t) : (p \o t)[i] = IF i <= Len(p) THEN p[i] ELSE t[i - Len(p)]
  BY <1>1, ConcatProperties
<1> DEFINE At(i) == IF i <= Len(p) THEN i ELSE i + 1
<1>4. \A i \in 1..Len(p \o t) : At(i) \in 1..Len(p \o q) /\ (p \o t)[i] = (p \o q)[At(i)]
  <2> SUFFICES ASSUME NEW i \in 1..Len(p \o t)
               PROVE  At(i) \in 1..Len(p \o q) /\ (p \o t)[i] = (p \o q)[At(i)]
    OBVIOUS
  <2>1. CASE i <= Len(p)
    BY <1>1, <1>2, <1>3, <2>1
  <2>2. CASE ~(i <= Len(p))
    <3>1. i - Len(p) \in 1..Len(t) /\ i + 1 - Len(p) = i - Len(p) + 1 /\ i + 1 \in 1 .. Len(p) + Len(q)
      BY <1>1, <1>3, <2>2
    <3>2. (p \o t)[i] = q[i - Len(p) + 1]
      BY <1>1, <1>3, <2>2, <3>1
    <3> QED
      BY <1>1, <1>2, <2>2, <3>1, <3>2
  <2> QED
    BY <2>1, <2>2
<1>5. Increasing(p \o t)
  <2>1. \A i, j \in 1..Len(p \o t) : i < j => At(i) < At(j)
    BY <1>1, <1>3
  <2> QED
    BY <1>4, <2>1 DEF Increasing
<1>6. Elements(p \o q) = Elements(p) \cup Elements(q) /\ Elements(p \o t) = Elements(p) \cup Elements(t)
  BY <1>1, ElementsOfConcat
<1>7. Elements(q) = Elements(t) \cup {Head(q)}
  <2>1. \A i \in 1..Len(q) : i = 1 \/ (i - 1 \in 1..Len(t) /\ q[i] = t[i - 1])
    BY <1>1
  <2>2. \A i \in 1..Len(t) : i + 1 \in 1..Len(q) /\ t[i] = q[i + 1]
    BY <1>1
  <2> QED
    BY <1>1, <2>1, <2>2 DEF Elements
<1> QED
  BY <1>5, <1>6, <1>7 DEF t

\* A new reading at the end.
LEMMA IncreasingAppend ==
  ASSUME NEW q \in Seq(Readings), NEW r \in Readings, Increasing(q),
         \A x \in Elements(q) : x.number < r.number
  PROVE  Increasing(Append(q, r))
<1>1. /\ Len(Append(q, r)) = Len(q) + 1 /\ Len(q) \in Nat
      /\ \A i \in 1..Len(q) : Append(q, r)[i] = q[i] /\ q[i] \in Elements(q)
      /\ Append(q, r)[Len(q) + 1] = r
  BY AppendProperties, LenProperties DEF Elements
<1> SUFFICES ASSUME NEW i \in 1..Len(q) + 1, NEW j \in 1..Len(q) + 1, i < j
             PROVE  Append(q, r)[i].number < Append(q, r)[j].number
  BY <1>1 DEF Increasing
<1>2. CASE j = Len(q) + 1
  BY <1>1, <1>2
<1>3. CASE j \in 1..Len(q)
  BY <1>1, <1>3 DEF Increasing
<1> QED
  BY <1>1, <1>2, <1>3

-----------------------------------------------------------------------------
(* Every step keeps the order.                                             *)

Order == Numbered /\ SentBefore /\ InHand /\ Faithful

\* The types of the sequences of one stream.
LEMMA StreamTypes ==
  ASSUME TypeOK, NEW s \in Streams
  PROVE  /\ delivered[s] \in Seq(Readings) /\ readings[s] \in Seq(Readings) /\ inHand[s] \in Seq(Readings)
         /\ stream[s] \in Seq(Readings) /\ sent[s] \in Seq(Readings) /\ Passed(s) \in Seq(Readings)
         /\ Passed(s) \o stream[s] \in Seq(Readings)
<1>1. /\ delivered[s] \in Seq(Readings) /\ readings[s] \in Seq(Readings) /\ inHand[s] \in Seq(Readings)
      /\ stream[s] \in Seq(Readings) /\ sent[s] \in Seq(Readings)
  BY DEF TypeOK, ChannelTypes
<1> QED
  BY <1>1 DEF Passed

LEMMA OrderInit == Init => Order
<1> SUFFICES ASSUME Init PROVE Order
  OBVIOUS
<1>1. Numbered /\ SentBefore /\ Faithful
  BY DEF Init, Numbered, SentBefore, Faithful, Elements
<1>2. InHand
  BY DEF Init, InHand, Passed
<1> QED
  BY <1>1, <1>2 DEF Order

\* A stream for which nothing has changed is as faithful as before.
LEMMA Untouched ==
  ASSUME Faithful, NEW z \in Streams,
         filter'[z] = filter[z], delivered'[z] = delivered[z], readings'[z] = readings[z],
         inHand'[z] = inHand[z], stream'[z] = stream[z], sent'[z] = sent[z],
         handler'[z] = "serving" /\ z \notin gone' => handler[z] = "serving" /\ z \notin gone
  PROVE  handler'[z] = "serving" /\ z \notin gone' => Way(z)'
<1>1. Passed(z)' = Passed(z)
  BY DEF Passed
<1>2. (Passed(z) \o stream[z])' = Passed(z) \o stream[z]
  BY <1>1
<1>3. /\ Increasing(Passed(z) \o stream[z])' <=> Increasing(Passed(z) \o stream[z])
      /\ Elements(Passed(z) \o stream[z])' = Elements(Passed(z) \o stream[z])
      /\ Elements(Passed(z))' = Elements(Passed(z))
      /\ Elements(sent[z])' = Elements(sent[z])
  BY <1>1, <1>2 DEF Increasing, Elements
<1>4. \A r : Wanted(z, r)' <=> Wanted(z, r)
  BY DEF Wanted
<1>5. Way(z)' <=> Way(z)
  BY <1>3, <1>4 DEF Way
<1> QED
  BY <1>5 DEF Faithful

\* A new reading is newer than all that were sent.
LEMMA DispatchOrder ==
  ASSUME Inv, Order, NEW d \in Devices, Dispatch(d)
  PROVE  Order'
<1>1. Len(reading) + 1 \in 1..MaxReadings
  BY StreamAssumption DEF Inv, TypeOK, ChannelTypes, Dispatch
<1> DEFINE r == [number |-> Len(reading) + 1, device |-> d]
<1>2. r \in Readings /\ r.number = Len(reading) + 1
  BY <1>1 DEF Readings
<1>3. reading \in Seq(Readings) /\ reading' = Append(reading, r)
  BY DEF Inv, TypeOK, ChannelTypes, Dispatch
<1> HIDE DEF r
<1>4. /\ Len(reading') = Len(reading) + 1 /\ Len(reading) \in Nat
      /\ \A i \in 1..Len(reading) : reading'[i] = reading[i]
      /\ reading'[Len(reading) + 1] = r
  BY <1>2, <1>3, AppendProperties, LenProperties
<1>5. Numbered'
  BY <1>2, <1>4 DEF Order, Numbered
<1>6. SentBefore'
  <2>1. UNCHANGED sent /\ target' = NoStream /\ due' = streams
    BY DEF Dispatch, StreamLockFree
  <2>2. ASSUME NEW z \in Streams, NEW x \in Elements(sent[z]) PROVE x.number \in Nat /\ x.number <= Len(reading)
    <3>1. x \in Readings
      BY <2>2, StreamTypes, ElementOfSeq DEF Inv, Elements
    <3> QED
      BY <2>2, <3>1, StreamAssumption DEF Order, SentBefore, Readings
  <2>3. NoStream \notin streams
    BY StreamAssumption DEF Inv, TypeOK, ControlTypes
  <2> QED
    BY <1>4, <2>1, <2>2, <2>3 DEF SentBefore, Elements
<1>7. InHand' /\ Faithful'
  <2>1. UNCHANGED <<handler, listener, sent, stream, inHand, delivered, readings, filter, gone>>
    BY DEF Dispatch
  <2> QED
    BY <2>1, Untouched DEF Order, InHand, Passed, Faithful
<1> QED
  BY <1>5, <1>6, <1>7 DEF Order

\* No other step takes a reading, and only the dispatch sends one.
LEMMA StepNumbers ==
  ASSUME Inv, Order, NEW s \in Streams, Step(s)
  PROVE  Numbered' /\ SentBefore'
<1>1. UNCHANGED reading
  BY DEF Step, Turn, SendToStream, Open, Disconnect, Listen, Serve, LookClosed, Receive, ReceiveClosed,
         LockToForward, Forward, SendToClient, RemoveStream, LockToClose, FindReading, DropReading, FinishClose
<1>2. CASE SendToStream(s)
  <2> DEFINE r == reading[Len(reading)]
  <2>1. reading \in Seq(Readings) /\ reading # << >>
    BY <1>2, StreamAssumption DEF Inv, TypeOK, ChannelTypes, DispatchInv, SendToStream, StreamLockFree
  <2>2. r \in Readings /\ r.number = Len(reading) /\ Len(reading) \in Nat
    BY <2>1, EmptySeq, ElementOfSeq DEF Order, Numbered
  <2>3. sent'[s] = Append(sent[s], r) /\ \A z \in Streams \ {s} : sent'[z] = sent[z]
    BY <1>2 DEF SendToStream, Inv, TypeOK, ChannelTypes
  <2>4. target = s /\ target' = NoStream /\ due' = due /\ NoStream \notin due /\ s \notin due
    BY <1>2, StreamAssumption DEF SendToStream, Order, SentBefore, Inv, TypeOK, ControlTypes
  <2> HIDE DEF r
  <2>5. Elements(sent'[s]) = Elements(sent[s]) \cup {r}
    BY <2>2, <2>3, StreamTypes, ElementsOfAppend DEF Inv
  <2>6. \A z \in Streams \ {s} : Elements(sent'[z]) = Elements(sent[z])
    BY <2>3
  <2>7. NoStream \notin Streams
    BY StreamAssumption
  <2>8. ASSUME NEW z \in Streams, NEW x \in Elements(sent'[z])
        PROVE  /\ x.number <= Len(reading)
               /\ target' = z \/ z \in due' => x.number < Len(reading)
    <3>1. CASE z = s
      BY <2>2, <2>4, <2>5, <2>7, <2>8, <3>1 DEF Order, SentBefore
    <3>2. CASE z # s
      BY <2>4, <2>6, <2>7, <2>8, <3>2 DEF Order, SentBefore
    <3> QED
      BY <3>1, <3>2
  <2>9. SentBefore'
    BY <1>1, <2>4, <2>8 DEF SentBefore, Elements
  <2> QED
    BY <1>1, <2>9 DEF Order, Numbered
<1>3. CASE Turn(s)
  BY <1>1, <1>3 DEF Turn, Order, Numbered, SentBefore, Elements, Inv, TypeOK, ControlTypes
<1>4. CASE UNCHANGED <<sent, target, due>>
  BY <1>1, <1>4 DEF Order, Numbered, SentBefore, Elements
<1> QED
  BY <1>2, <1>3, <1>4
     DEF Step, Open, Disconnect, Listen, Serve, LookClosed, Receive, ReceiveClosed,
         LockToForward, Forward, SendToClient, RemoveStream, LockToClose, FindReading, DropReading, FinishClose

\* What a listener has in hand, and what there is before a handler begins.
LEMMA StepInHand ==
  ASSUME Inv, Order, NEW s \in Streams, Step(s)
  PROVE  InHand'
<1> SUFFICES ASSUME NEW z \in Streams
             PROVE  /\ handler'[z] = "none" => listener'[z] = "none" /\ sent'[z] = << >> /\ stream'[z] = << >>
                                               /\ Passed(z)' = << >>
                    /\ listener'[z] \in {"none", "top", "receive"} => inHand'[z] = << >>
  BY DEF InHand
<1> USE DEF Inv, TypeOK, ControlTypes, ChannelTypes, Order, InHand
<1>1. CASE Turn(s) \/ Disconnect(s) \/ RemoveStream(s) \/ FindReading(s)
           \/ ReceiveClosed(s) \/ LookClosed(s) \/ LockToForward(s) \/ LockToClose(s)
  <2>1. UNCHANGED <<sent, stream, delivered, readings, inHand>>
    BY <1>1 DEF Turn, Disconnect, RemoveStream, FindReading, ReceiveClosed, LookClosed, LockToForward, LockToClose
  <2>2. Passed(z)' = Passed(z)
    BY <2>1 DEF Passed
  <2>3. handler'[z] = "none" => handler[z] = "none"
    BY <1>1 DEF Turn, Disconnect, RemoveStream, FindReading, ReceiveClosed, LookClosed, LockToForward, LockToClose
  <2>4. /\ listener[z] = "none" => listener'[z] = "none"
        /\ listener'[z] \in {"none", "top", "receive"} => listener[z] \in {"none", "top", "receive"}
    BY <1>1 DEF Turn, Disconnect, RemoveStream, FindReading, ReceiveClosed, LookClosed, LockToForward, LockToClose
  <2> QED
    BY <2>1, <2>2, <2>3, <2>4
<1>2. CASE Open(s)
  <2>1. UNCHANGED <<sent, stream, delivered, readings, inHand>>
    BY <1>2 DEF Open
  <2>2. Passed(z)' = Passed(z)
    BY <2>1 DEF Passed
  <2> QED
    BY <1>2, <2>1, <2>2 DEF Open
<1>3. CASE z # s
  <2>1. /\ handler'[z] = handler[z] /\ listener'[z] = listener[z] /\ sent'[z] = sent[z] /\ stream'[z] = stream[z]
        /\ delivered'[z] = delivered[z] /\ readings'[z] = readings[z] /\ inHand'[z] = inHand[z]
    BY <1>3 DEF Step, Turn, SendToStream, Open, Disconnect, Listen, Serve, LookClosed, Receive, ReceiveClosed,
         LockToForward, Forward, SendToClient, RemoveStream, LockToClose, FindReading, DropReading, FinishClose
  <2>2. Passed(z)' = Passed(z)
    BY <2>1 DEF Passed
  <2> QED
    BY <2>1, <2>2
<1>4. CASE z = s /\ SendToStream(s)
  <2>1. handler[s] # "none"
    BY <1>4, StreamAssumption DEF SendToStream, DispatchInv, HandlerInv
  <2> QED
    BY <1>4, <2>1 DEF SendToStream
<1>5. CASE z = s /\ (Receive(s) \/ Forward(s))
  <2>1. handler[s] # "none" /\ handler' = handler
    BY <1>5 DEF Receive, Forward
  <2>2. listener'[s] \in {"none", "top", "receive"} => inHand'[s] = << >>
    BY <1>5 DEF Receive, Forward
  <2> QED
    BY <1>5, <2>1, <2>2
<1>6. CASE z = s /\ (SendToClient(s) \/ DropReading(s) \/ FinishClose(s))
  BY <1>6 DEF SendToClient, DropReading, FinishClose
<1> QED
  BY <1>1, <1>2, <1>3, <1>4, <1>5, <1>6 DEF Step, Listen, Serve

\* A reading that is sent comes last.
LEMMA SendKeepsWay ==
  ASSUME Inv, Order, NEW s \in Streams, SendToStream(s), Way(s)
  PROVE  Way(s)'
<1> DEFINE r == reading[Len(reading)]
<1> DEFINE way == Passed(s) \o stream[s]
<1>1. reading \in Seq(Readings) /\ reading # << >>
  BY StreamAssumption DEF Inv, TypeOK, ChannelTypes, DispatchInv, SendToStream, StreamLockFree
<1>2. r \in Readings /\ r.number = Len(reading)
  BY <1>1, EmptySeq, ElementOfSeq DEF Order, Numbered
<1>3. stream'[s] = Append(stream[s], r) /\ sent'[s] = Append(sent[s], r) /\ Passed(s)' = Passed(s)
      /\ filter' = filter
  BY DEF SendToStream, Passed, Inv, TypeOK, ChannelTypes
<1>4. \A x \in Elements(sent[s]) : x.number < r.number
  BY <1>2 DEF SendToStream, Order, SentBefore
<1> HIDE DEF r
<1>5. /\ Passed(s) \in Seq(Readings) /\ stream[s] \in Seq(Readings) /\ sent[s] \in Seq(Readings)
      /\ way \in Seq(Readings)
  BY StreamTypes DEF Inv
<1>6. (Passed(s) \o stream[s])' = Append(way, r)
  <2>1. (Passed(s) \o stream[s])' = Passed(s) \o Append(stream[s], r)
    BY <1>3
  <2>2. Append(stream[s], r) = stream[s] \o <<r>> /\ <<r>> \in Seq(Readings)
    BY <1>2, <1>5, AppendIsConcat
  <2>3. Passed(s) \o (stream[s] \o <<r>>) = way \o <<r>>
    <3>1. Passed(s) \in Seq(Readings) /\ stream[s] \in Seq(Readings)
      BY <1>5
    <3>2. (Passed(s) \o stream[s]) \o <<r>> = Passed(s) \o (stream[s] \o <<r>>)
      BY <2>2, <3>1, Associative
    <3> QED
      BY <3>2
  <2> HIDE DEF way
  <2>4. Append(way, r) = way \o <<r>>
    BY <1>2, <1>5, AppendIsConcat
  <2> QED
    BY <2>1, <2>2, <2>3, <2>4
<1>7. Increasing(Append(way, r))
  <2>1. \A x \in Elements(way) : x.number < r.number
    BY <1>4 DEF Way
  <2>2. Increasing(way)
    BY DEF Way
  <2> HIDE DEF way
  <2> QED
    BY <1>2, <1>5, <2>1, <2>2, IncreasingAppend
<1>8. Elements(way) \subseteq Elements(sent[s]) /\ (\A x \in Elements(sent[s]) : Wanted(s, x) => x \in Elements(way))
      /\ \A x \in Elements(Passed(s)) : Wanted(s, x)
  BY DEF Way
<1> HIDE DEF way
<1>9. Elements(Append(way, r)) = Elements(way) \cup {r} /\ Elements(Append(sent[s], r)) = Elements(sent[s]) \cup {r}
  BY <1>2, <1>5, ElementsOfAppend
<1>10. \A x : Wanted(s, x)' <=> Wanted(s, x)
  BY <1>3 DEF Wanted
<1>11. Increasing(Passed(s) \o stream[s])'
  BY <1>6, <1>7 DEF Increasing
<1>12. /\ Elements(Passed(s) \o stream[s])' = Elements(Append(way, r))
       /\ Elements(sent[s])' = Elements(Append(sent[s], r))
       /\ Elements(Passed(s))' = Elements(Passed(s))
  BY <1>3, <1>6 DEF Elements
<1> QED
  BY <1>8, <1>9, <1>10, <1>11, <1>12 DEF Way

\* A reading that passes moves on; another one is dropped.
LEMMA ReceiveKeepsWay ==
  ASSUME Inv, Order, NEW s \in Streams, Receive(s), Way(s)
  PROVE  Way(s)'
<1> DEFINE r == Head(stream[s])
<1> DEFINE way == Passed(s) \o stream[s]
<1>1. /\ Passed(s) \in Seq(Readings) /\ stream[s] \in Seq(Readings) /\ way \in Seq(Readings)
      /\ stream[s] # << >> /\ delivered[s] \in Seq(Readings) /\ readings[s] \in Seq(Readings)
  BY StreamTypes DEF Inv, Receive
<1>2. r \in Readings /\ Tail(stream[s]) \in Seq(Readings)
  BY <1>1, HeadTailProperties
<1>3. stream'[s] = Tail(stream[s]) /\ sent' = sent /\ filter' = filter /\ delivered' = delivered /\ readings' = readings
      /\ inHand'[s] = (IF Passes(s, r) THEN <<r>> ELSE inHand[s]) /\ inHand[s] = << >>
  BY DEF Receive, Inv, TypeOK, ChannelTypes, Order, InHand
<1>4. Wanted(s, r) <=> Passes(s, r)
  <2>1. r.device \in Devices
    BY <1>2 DEF Readings
  <2> QED
    BY <2>1 DEF Wanted, Passes
<1>5. Passed(s)' = (IF Wanted(s, r) THEN Append(Passed(s), r) ELSE Passed(s))
  <2>1. CASE Wanted(s, r)
    <3> DEFINE got == delivered[s] \o readings[s]
    <3>1. Passed(s)' = got \o <<r>> /\ Passed(s) = got \o << >>
      BY <1>3, <1>4, <2>1 DEF Passed
    <3>2. got \in Seq(Readings)
      BY <1>1, ConcatProperties
    <3> HIDE DEF got
    <3>3. Passed(s) = got /\ Append(got, r) = got \o <<r>>
      BY <1>2, <3>1, <3>2, ConcatEmptySeq, AppendIsConcat
    <3> QED
      BY <2>1, <3>1, <3>3
  <2>2. CASE ~Wanted(s, r)
    BY <1>3, <1>4, <2>2 DEF Passed
  <2> QED
    BY <2>1, <2>2
<1>6. /\ Increasing(way) /\ \A x \in Elements(Passed(s)) : Wanted(s, x)
      /\ Elements(way) \subseteq Elements(sent[s])
      /\ \A x \in Elements(sent[s]) : Wanted(s, x) => x \in Elements(way)
  BY DEF Way
<1>7. \A x : Wanted(s, x)' <=> Wanted(s, x)
  BY <1>3 DEF Wanted
<1>8. Elements(sent[s])' = Elements(sent[s])
  BY <1>3 DEF Elements
<1>9. CASE Wanted(s, r)
  <2>1. (Passed(s) \o stream[s])' = way
    BY <1>1, <1>3, <1>5, <1>9, HeadMoves
  <2>2. Elements(Passed(s))' = Elements(Passed(s)) \cup {r}
    <3>1. Elements(Append(Passed(s), r)) = Elements(Passed(s)) \cup {r}
      BY <1>1, <1>2, ElementsOfAppend
    <3> QED
      BY <1>5, <1>9, <3>1 DEF Elements
  <2>3. Increasing(Passed(s) \o stream[s])' /\ Elements(Passed(s) \o stream[s])' = Elements(way)
    BY <1>6, <2>1 DEF Increasing, Elements
  <2> QED
    BY <1>6, <1>7, <1>8, <1>9, <2>2, <2>3 DEF Way
<1>10. CASE ~Wanted(s, r)
  <2>1. (Passed(s) \o stream[s])' = Passed(s) \o Tail(stream[s])
    BY <1>3, <1>5, <1>10
  <2>2. /\ Increasing(Passed(s) \o Tail(stream[s]))
        /\ Elements(way) = Elements(Passed(s) \o Tail(stream[s])) \cup {r}
    BY <1>1, <1>6, HeadDrops
  <2>3. /\ Increasing(Passed(s) \o stream[s])'
        /\ Elements(Passed(s) \o stream[s])' = Elements(Passed(s) \o Tail(stream[s]))
        /\ Elements(Passed(s))' = Elements(Passed(s))
    BY <1>5, <1>10, <2>1, <2>2 DEF Increasing, Elements
  <2> QED
    BY <1>6, <1>7, <1>8, <1>10, <2>2, <2>3 DEF Way
<1> QED
  BY <1>9, <1>10

\* Between the filter and the client, readings only move on.
LEMMA PassedMoves ==
  ASSUME Inv, Order, NEW s \in Streams, Forward(s) \/ SendToClient(s), s \notin gone
  PROVE  Passed(s)' = Passed(s)
<1>1. /\ delivered[s] \in Seq(Readings) /\ readings[s] \in Seq(Readings) /\ inHand[s] \in Seq(Readings)
  BY StreamTypes DEF Inv
<1>2. CASE Forward(s)
  <2>1. delivered'[s] = delivered[s] /\ readings'[s] = readings[s] \o inHand[s] /\ inHand'[s] = << >>
    BY <1>2 DEF Forward, Inv, TypeOK, ChannelTypes
  <2> DEFINE more == readings[s] \o inHand[s]
  <2>2. more \in Seq(Readings) /\ Passed(s) = delivered[s] \o more
    <3>1. more \in Seq(Readings)
      BY <1>1, ConcatProperties
    <3>2. (delivered[s] \o readings[s]) \o inHand[s] = delivered[s] \o (readings[s] \o inHand[s])
      BY <1>1, Associative
    <3> QED
      BY <3>1, <3>2 DEF Passed
  <2>3. Passed(s)' = (delivered[s] \o more) \o << >>
    BY <2>1 DEF Passed
  <2> HIDE DEF more
  <2>4. delivered[s] \o more \in Seq(Readings)
    BY <1>1, <2>2, ConcatProperties
  <2> QED
    BY <2>2, <2>3, <2>4, ConcatEmptySeq
<1>3. CASE SendToClient(s)
  <2>1. /\ delivered'[s] = Append(delivered[s], Head(readings[s])) /\ readings'[s] = Tail(readings[s])
        /\ inHand'[s] = inHand[s] /\ readings[s] # << >>
    BY <1>3 DEF SendToClient, Inv, TypeOK, ChannelTypes
  <2>2. Append(delivered[s], Head(readings[s])) \o Tail(readings[s]) = delivered[s] \o readings[s]
    BY <1>1, <2>1, HeadMoves
  <2> QED
    BY <2>1, <2>2 DEF Passed
<1> QED
  BY <1>2, <1>3

\* A stream that serves stays faithful.
LEMMA StepFaithful ==
  ASSUME Inv, Order, NEW s \in Streams, Step(s)
  PROVE  Faithful'
<1> SUFFICES ASSUME NEW z \in Streams, handler'[z] = "serving", z \notin gone'
             PROVE  Way(z)'
  BY DEF Faithful
<1>1. CASE z = s /\ (SendToStream(s) \/ Receive(s))
  <2>1. handler[s] = "serving" /\ s \notin gone
    BY <1>1 DEF SendToStream, Receive
  <2> QED
    BY <1>1, <2>1, SendKeepsWay, ReceiveKeepsWay DEF Order, Faithful
<1>2. CASE z = s /\ (Forward(s) \/ SendToClient(s))
  <2>1. handler[s] = "serving" /\ s \notin gone /\ UNCHANGED <<stream, sent, filter>>
    BY <1>2 DEF Forward, SendToClient
  <2>2. Passed(s)' = Passed(s)
    BY <1>2, <2>1, PassedMoves
  <2>3. (Passed(s) \o stream[s])' = Passed(s) \o stream[s]
    BY <2>1, <2>2
  <2>4. /\ Increasing(Passed(s) \o stream[s])' <=> Increasing(Passed(s) \o stream[s])
        /\ Elements(Passed(s) \o stream[s])' = Elements(Passed(s) \o stream[s])
        /\ Elements(Passed(s))' = Elements(Passed(s))
        /\ Elements(sent[s])' = Elements(sent[s])
    BY <2>1, <2>2, <2>3 DEF Increasing, Elements
  <2>5. \A r : Wanted(s, r)' <=> Wanted(s, r)
    BY <2>1 DEF Wanted
  <2>6. Way(s)' <=> Way(s)
    BY <2>4, <2>5 DEF Way
  <2> QED
    BY <1>2, <2>1, <2>6 DEF Order, Faithful
<1>3. CASE z = s /\ Open(s)
  <2>1. sent'[s] = << >> /\ stream'[s] = << >> /\ Passed(s)' = << >>
    BY <1>3 DEF Open, Order, InHand, Passed
  <2>2. (Passed(s) \o stream[s])' = << >>
    BY <2>1
  <2> QED
    BY <1>3, <2>1, <2>2 DEF Way, Increasing, Elements
<1>4. CASE z = s /\ (RemoveStream(s) \/ LockToClose(s) \/ FindReading(s) \/ DropReading(s) \/ FinishClose(s))
  BY <1>4 DEF Inv, TypeOK, ControlTypes, RemoveStream, LockToClose, FindReading, DropReading, FinishClose
<1>5. CASE z = s /\ (Turn(s) \/ Disconnect(s) \/ LookClosed(s) \/ ReceiveClosed(s) \/ LockToForward(s))
  <2>1. /\ UNCHANGED <<filter, delivered, readings, inHand, stream, sent, handler>>
        /\ z \notin gone
    BY <1>5 DEF Turn, Disconnect, LookClosed, ReceiveClosed, LockToForward
  <2> QED
    BY <2>1, Untouched DEF Order
<1>6. CASE z # s
  <2>1. filter' = filter /\ handler'[z] = handler[z] /\ z \notin gone
    BY <1>6 DEF Inv, TypeOK, ControlTypes, ChannelTypes, Step, Turn, SendToStream, Open, Disconnect, Listen, Serve, LookClosed, Receive, ReceiveClosed,
         LockToForward, Forward, SendToClient, RemoveStream, LockToClose, FindReading, DropReading, FinishClose
  <2>2. /\ sent'[z] = sent[z] /\ stream'[z] = stream[z]
        /\ delivered'[z] = delivered[z] /\ readings'[z] = readings[z] /\ inHand'[z] = inHand[z]
    BY <1>6 DEF Inv, TypeOK, ControlTypes, ChannelTypes, Step, Turn, SendToStream, Open, Disconnect, Listen, Serve, LookClosed, Receive, ReceiveClosed,
         LockToForward, Forward, SendToClient, RemoveStream, LockToClose, FindReading, DropReading, FinishClose
  <2> QED
    BY <2>1, <2>2, Untouched DEF Order
<1> QED
  BY <1>1, <1>2, <1>3, <1>4, <1>5, <1>6 DEF Step, Listen, Serve

LEMMA OrderNext == Inv /\ Order /\ [Next]_vars => Order'
<1> SUFFICES ASSUME Inv, Order, [Next]_vars PROVE Order'
  OBVIOUS
<1>1. ASSUME NEW d \in Devices, Dispatch(d) PROVE Order'
  BY <1>1, DispatchOrder
<1>2. ASSUME NEW s \in Streams, Step(s) PROVE Order'
  BY <1>2, StepNumbers, StepInHand, StepFaithful DEF Order
<1>3. CASE UNCHANGED vars
  <2>1. UNCHANGED <<filter, gone, reading, due, target, stream, readings, listener, inHand, handler, sent, delivered>>
    BY <1>3 DEF vars
  <2>2. Numbered' /\ SentBefore'
    BY <2>1 DEF Order, Numbered, SentBefore, Elements
  <2>3. InHand'
    BY <2>1 DEF Order, InHand, Passed
  <2>4. Faithful'
    BY <2>1, Untouched DEF Order, Faithful
  <2> QED
    BY <2>2, <2>3, <2>4 DEF Order
<1> QED
  BY <1>1, <1>2, <1>3 DEF Next, Step

\* A stream loses, repeats and reorders nothing that its client wants, through two
\* channels of any capacity and a filter, until the client disconnects.
THEOREM NothingLost == Spec => []StreamFaithful
<1>1. Order => StreamFaithful
  <2> SUFFICES ASSUME Faithful, NEW s \in Streams, handler[s] = "serving", s \notin gone
               PROVE  LET way == Passed(s) \o stream[s] IN
                      /\ \A i, j \in 1..Len(way) : i < j => way[i].number < way[j].number
                      /\ \A r \in Elements(Passed(s)) : Wanted(s, r)
                      /\ {r \in Elements(way) : Wanted(s, r)} = {r \in Elements(sent[s]) : Wanted(s, r)}
    BY DEF Order, StreamFaithful
  <2>1. Way(s)
    BY DEF Faithful
  <2> QED
    BY <2>1 DEF Way, Increasing
<1> QED
  BY <1>1, Invariance, OrderInit, OrderNext, PTL DEF Spec

=============================================================================
