----------------------------- MODULE ReadStream -----------------------------
(***************************************************************************)
(* Streaming of readings to clients.  The goroutine of updateReadings      *)
(* dispatches every reading to all registered streams.  A stream has a     *)
(* listener goroutine, which filters its readings, and the handler of the  *)
(* ReadStream RPC, which sends them to the client and, once a send fails,  *)
(* unregisters and closes the stream.                                      *)
(*                                                                         *)
(* streamLock guards the registered streams: it is held over a whole       *)
(* dispatch, and else only within one step.  Each stream has a stopLock,   *)
(* taken by its listener around every reading and by close.                *)
(***************************************************************************)
EXTENDS Naturals, Sequences, FiniteSets

CONSTANTS
  Streams,       \* the ReadStream RPCs that clients may make
  Devices,
  Filters,       \* the sets of devices that selectors may choose, {} for none
  NoStream,      \* "no stream"
  Capacity,      \* capacity of the two channels of a stream, 128 in the code
  MaxReadings    \* bound: how many readings are ever dispatched

ASSUME StreamAssumption ==
  /\ Filters \subseteq SUBSET Devices
  /\ NoStream \notin Streams
  /\ Capacity \in Nat \ {0}
  /\ MaxReadings \in Nat

\* The readings are numbered in the order in which they are taken from readChan.
Readings == [number : 1..MaxReadings, device : Devices]

VARIABLES
  filter,        \* the devices a stream selects
  gone,          \* the streams whose client has disconnected
  streams,       \* stateManager.streams
  reading,       \* the readings that updateReadings has taken
  due, target,   \* dispatchToStreams: streams still to serve, the one in turn
  stream,        \* the channel from the dispatch to the listener
  streamClosed,
  readings,      \* the channel from the listener to the handler
  readingsClosed,
  closed,        \* ReadStream.closed
  stopLock,      \* who holds ReadStream.stopLock
  listener,      \* where ReadStream.listen is
  inHand,        \* the reading that the listener has received
  handler,       \* where the handler of the RPC is
  sent,          \* history: what was dispatched to the stream
  delivered      \* history: what the client received

dispatchVars == <<reading, due, target>>
channelVars == <<stream, streamClosed, readings, readingsClosed>>
stopVars == <<closed, stopLock>>
listenVars == <<listener, inHand>>
history == <<sent, delivered>>
vars == <<filter, gone, streams, dispatchVars, channelVars, stopVars,
          listenVars, handler, history>>

ChannelTypes ==
  /\ reading \in Seq(Readings)
  /\ stream \in [Streams -> Seq(Readings)]
  /\ readings \in [Streams -> Seq(Readings)]
  /\ inHand \in [Streams -> Seq(Readings)]
  /\ sent \in [Streams -> Seq(Readings)]
  /\ delivered \in [Streams -> Seq(Readings)]

\* What fits into the channels, and into the hand of the listener.
Bounded ==
  \A s \in Streams :
    Len(stream[s]) <= Capacity /\ Len(readings[s]) <= Capacity /\ Len(inHand[s]) <= 1

ControlTypes ==
  /\ filter \in [Streams -> Filters]
  /\ gone \in SUBSET Streams
  /\ streams \in SUBSET Streams
  /\ due \in SUBSET Streams
  /\ target \in Streams \cup {NoStream}
  /\ streamClosed \in [Streams -> BOOLEAN]
  /\ readingsClosed \in [Streams -> BOOLEAN]
  /\ closed \in [Streams -> BOOLEAN]
  /\ stopLock \in [Streams -> {"free", "listener", "handler"}]
  /\ listener \in [Streams -> {"none", "top", "receive", "lock", "forward", "ended"}]
  /\ handler \in [Streams -> {"none", "serving", "removing", "closing", "draining",
                              "drainOne", "done"}]

\* The types: no channel of a stream ever holds more than its capacity.
TypeOK == ChannelTypes /\ Bounded /\ ControlTypes

Init ==
  /\ filter \in [Streams -> Filters]
  /\ gone = {} /\ streams = {}
  /\ reading = << >> /\ due = {} /\ target = NoStream
  /\ stream = [s \in Streams |-> << >>]
  /\ streamClosed = [s \in Streams |-> FALSE]
  /\ readings = [s \in Streams |-> << >>]
  /\ readingsClosed = [s \in Streams |-> FALSE]
  /\ closed = [s \in Streams |-> FALSE]
  /\ stopLock = [s \in Streams |-> "free"]
  /\ listener = [s \in Streams |-> "none"]
  /\ inHand = [s \in Streams |-> << >>]
  /\ handler = [s \in Streams |-> "none"]
  /\ sent = [s \in Streams |-> << >>]
  /\ delivered = [s \in Streams |-> << >>]

-----------------------------------------------------------------------------
(* updateReadings.                                                         *)

\* A dispatch holds streamLock from its first stream to its last.
StreamLockFree == due = {} /\ target = NoStream

Room_OneMore(channel) == Len(channel) <= Capacity     \* faulty
Room(channel) == Len(channel) < Capacity

\* A reading is taken from readChan; the map of streams is locked.
Dispatch(d) ==
  /\ StreamLockFree
  /\ Len(reading) < MaxReadings
  /\ reading' = Append(reading, [number |-> Len(reading) + 1, device |-> d])
  /\ due' = streams
  /\ UNCHANGED <<filter, gone, streams, target, channelVars, stopVars, listenVars,
                 handler, history>>

\* The range over the map comes to a stream, in any order.
Turn(s) ==
  /\ target = NoStream
  /\ s \in due
  /\ target' = s
  /\ due' = due \ {s}
  /\ UNCHANGED <<filter, gone, streams, reading, channelVars, stopVars, listenVars,
                 handler, history>>

\* The send blocks the dispatch, with the lock, until the channel has room.
SendToStream(s) ==
  LET r == reading[Len(reading)] IN
  /\ target = s
  /\ Room(stream[s])
  /\ stream' = [stream EXCEPT ![s] = Append(@, r)]
  /\ sent' = [sent EXCEPT ![s] = Append(@, r)]
  /\ target' = NoStream
  /\ UNCHANGED <<filter, gone, streams, reading, due, streamClosed, readings,
                 readingsClosed, stopVars, listenVars, handler, delivered>>

-----------------------------------------------------------------------------
(* listen.                                                                 *)

\* closed is looked at without the lock.
LookClosed(s) ==
  /\ listener[s] = "top"
  /\ listener' = [listener EXCEPT ![s] = IF closed[s] THEN "ended" ELSE "receive"]
  /\ UNCHANGED <<filter, gone, streams, dispatchVars, channelVars, stopVars, inHand,
                 handler, history>>

\* A stream without selectors passes every reading.
Passes_Listed(s, r) == r.device \in filter[s]     \* faulty
Passes(s, r) == filter[s] = {} \/ r.device \in filter[s]

Receive(s) ==
  LET r == Head(stream[s]) IN
  /\ listener[s] = "receive"
  /\ stream[s] # << >>
  /\ stream' = [stream EXCEPT ![s] = Tail(@)]
  /\ inHand' = [inHand EXCEPT ![s] = IF Passes(s, r) THEN <<r>> ELSE @]
  /\ listener' = [listener EXCEPT ![s] = IF Passes(s, r) THEN "lock" ELSE "top"]
  /\ UNCHANGED <<filter, gone, streams, dispatchVars, streamClosed, readings,
                 readingsClosed, stopVars, handler, history>>

\* Receiving from the closed and empty channel ends the listener.
ReceiveClosed(s) ==
  /\ listener[s] = "receive"
  /\ stream[s] = << >> /\ streamClosed[s]
  /\ listener' = [listener EXCEPT ![s] = "ended"]
  /\ UNCHANGED <<filter, gone, streams, dispatchVars, channelVars, stopVars, inHand,
                 handler, history>>

MayForward_Always(s) == TRUE     \* faulty
MayForward(s) == ~closed[s]

\* Under stopLock closed is looked at again; if it is set the listener returns,
\* and nobody releases the lock.
LockToForward(s) ==
  /\ listener[s] = "lock"
  /\ stopLock[s] = "free"
  /\ stopLock' = [stopLock EXCEPT ![s] = "listener"]
  /\ listener' = [listener EXCEPT ![s] = IF MayForward(s) THEN "forward" ELSE "ended"]
  /\ UNCHANGED <<filter, gone, streams, dispatchVars, channelVars, closed, inHand,
                 handler, history>>

ReleaseStop_Never(s) == UNCHANGED stopLock     \* faulty
ReleaseStop(s) == stopLock' = [stopLock EXCEPT ![s] = "free"]

\* The send blocks the listener, with the lock, until the channel has room.
Forward(s) ==
  /\ listener[s] = "forward"
  /\ Room(readings[s])
  /\ readings' = [readings EXCEPT ![s] = @ \o inHand[s]]
  /\ inHand' = [inHand EXCEPT ![s] = << >>]
  /\ ReleaseStop(s)
  /\ listener' = [listener EXCEPT ![s] = "top"]
  /\ UNCHANGED <<filter, gone, streams, dispatchVars, stream, streamClosed,
                 readingsClosed, closed, handler, history>>

-----------------------------------------------------------------------------
(* The handler of ReadStream.                                              *)

\* addStream, then the listener is started.
Open(s) ==
  /\ handler[s] = "none"
  /\ StreamLockFree
  /\ streams' = streams \cup {s}
  /\ listener' = [listener EXCEPT ![s] = "top"]
  /\ handler' = [handler EXCEPT ![s] = "serving"]
  /\ UNCHANGED <<filter, gone, dispatchVars, channelVars, stopVars, inHand, history>>

Disconnect(s) ==
  /\ handler[s] = "serving"
  /\ s \notin gone
  /\ gone' = gone \cup {s}
  /\ UNCHANGED <<filter, streams, dispatchVars, channelVars, stopVars, listenVars,
                 handler, history>>

\* A reading is sent to the client, or the send fails and the handler returns.
SendToClient(s) ==
  /\ handler[s] = "serving"
  /\ readings[s] # << >>
  /\ readings' = [readings EXCEPT ![s] = Tail(@)]
  /\ IF s \in gone
     THEN /\ handler' = [handler EXCEPT ![s] = "removing"]
          /\ UNCHANGED delivered
     ELSE /\ delivered' = [delivered EXCEPT ![s] = Append(@, Head(readings[s]))]
          /\ UNCHANGED handler
  /\ UNCHANGED <<filter, gone, streams, dispatchVars, stream, streamClosed,
                 readingsClosed, stopVars, listenVars, sent>>

\* The deferred removeStream.
RemoveStream(s) ==
  /\ handler[s] = "removing"
  /\ StreamLockFree
  /\ streams' = streams \ {s}
  /\ handler' = [handler EXCEPT ![s] = "closing"]
  /\ UNCHANGED <<filter, gone, dispatchVars, channelVars, stopVars, listenVars, history>>

-----------------------------------------------------------------------------
(* close.                                                                  *)

LockToClose(s) ==
  /\ handler[s] = "closing"
  /\ stopLock[s] = "free"
  /\ stopLock' = [stopLock EXCEPT ![s] = "handler"]
  /\ closed' = [closed EXCEPT ![s] = TRUE]
  /\ handler' = [handler EXCEPT ![s] = "draining"]
  /\ UNCHANGED <<filter, gone, streams, dispatchVars, channelVars, listenVars, history>>

\* The length of the channel is looked at ...
FindReading(s) ==
  /\ handler[s] = "draining"
  /\ stream[s] # << >>
  /\ handler' = [handler EXCEPT ![s] = "drainOne"]
  /\ UNCHANGED <<filter, gone, streams, dispatchVars, channelVars, stopVars,
                 listenVars, history>>

\* ... and then a reading is received, once there is one.
DropReading(s) ==
  /\ handler[s] = "drainOne"
  /\ stream[s] # << >>
  /\ stream' = [stream EXCEPT ![s] = Tail(@)]
  /\ handler' = [handler EXCEPT ![s] = "draining"]
  /\ UNCHANGED <<filter, gone, streams, dispatchVars, streamClosed, readings,
                 readingsClosed, stopVars, listenVars, history>>

CloseStream_Open(s) == UNCHANGED streamClosed     \* faulty
CloseStream(s) == streamClosed' = [streamClosed EXCEPT ![s] = TRUE]

\* Both channels are closed, the drained stream and readings, which nobody else
\* uses while the handler has the lock.
FinishClose(s) ==
  /\ handler[s] = "draining"
  /\ stream[s] = << >>
  /\ CloseStream(s)
  /\ readings' = [readings EXCEPT ![s] = << >>]
  /\ readingsClosed' = [readingsClosed EXCEPT ![s] = TRUE]
  /\ stopLock' = [stopLock EXCEPT ![s] = "free"]
  /\ handler' = [handler EXCEPT ![s] = "done"]
  /\ UNCHANGED <<filter, gone, streams, dispatchVars, stream, closed, listenVars, history>>

-----------------------------------------------------------------------------
Listen(s) ==
  LookClosed(s) \/ Receive(s) \/ ReceiveClosed(s) \/ LockToForward(s) \/ Forward(s)

Serve(s) ==
  \/ SendToClient(s) \/ RemoveStream(s)
  \/ LockToClose(s) \/ FindReading(s) \/ DropReading(s) \/ FinishClose(s)

Next ==
  \/ \E d \in Devices : Dispatch(d)
  \/ \E s \in Streams :
       Turn(s) \/ SendToStream(s) \/ Open(s) \/ Disconnect(s) \/ Listen(s) \/ Serve(s)

Spec == Init /\ [][Next]_vars

\* Goroutines that can take a step do so.  Clients and devices owe nothing.
Fairness ==
  /\ WF_vars(\E s \in Streams : Turn(s) \/ SendToStream(s))
  /\ \A s \in Streams : WF_vars(Listen(s)) /\ WF_vars(Serve(s))

FairSpec == Spec /\ Fairness

-----------------------------------------------------------------------------
(* What streaming guarantees.                                              *)

\* Nothing is sent on a closed channel, which would panic: a stream that is being
\* dispatched to is open, and so is the channel the listener is about to use.
NoSendOnClosed ==
  \A s \in Streams :
    /\ target = s \/ s \in due => ~streamClosed[s]
    /\ listener[s] = "forward" => ~readingsClosed[s]

Wanted(s, r) == r.device \in (IF filter[s] = {} THEN Devices ELSE filter[s])

\* The readings of a sequence that a client has asked for.
Selected(s, sequence) == SelectSeq(sequence, LAMBDA r : Wanted(s, r))
Elements(sequence) == {sequence[i] : i \in 1..Len(sequence)}

\* What has passed the filter of a stream, up to its client.
Passed(s) == delivered[s] \o readings[s] \o inHand[s]

\* A stream loses, repeats and reorders nothing that its filter passes: what the
\* client got and what is under way are, in the order of their numbers, the readings it
\* wants of those dispatched since it connected; what it does not want stays behind.
StreamFaithful ==
  \A s \in Streams :
    handler[s] = "serving" /\ s \notin gone =>
      LET way == Passed(s) \o stream[s] IN
      /\ \A i, j \in 1..Len(way) : i < j => way[i].number < way[j].number
      /\ \A r \in Elements(Passed(s)) : Wanted(s, r)
      /\ {r \in Elements(way) : Wanted(s, r)} = {r \in Elements(sent[s]) : Wanted(s, r)}

\* As long as no client disconnects, every reading that a stream selects reaches
\* its client, however full the channels are.
ClientServed ==
  \A s \in Streams : \A n \in 1..MaxReadings :
    Len(Selected(s, sent[s])) >= n ~> Len(delivered[s]) >= n \/ gone # {}

\* No listener is left behind by a handler that has closed its stream.
ListenerEnds ==
  \A s \in Streams : handler[s] = "done" ~> listener[s] = "ended"

-----------------------------------------------------------------------------
(* What a test of the code says, and streaming does not do.                 *)

\* "Close the stream when the stream channel is not fully drained": close, once
\* it has begun, drains the channel and comes to its end.
DrainEnds == \A s \in Streams : handler[s] = "draining" ~> handler[s] = "done"
=============================================================================
