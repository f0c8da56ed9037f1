---------------------------- MODULE ReadingState ----------------------------
(***************************************************************************)
(* The readings that the state manager keeps, and the calls that get them. *)
(* updateReadings stores each reading as the current one of its device,    *)
(* under readingsLock, and in the cache, in the list of the second it is   *)
(* stamped with.  Read takes the current readings; for ReadCache a         *)
(* goroutine dumps the cache, or else the current readings, into a channel *)
(* that the handler empties.  The dump goes over the lists without a lock, *)
(* while updateReadings appends to them.                                   *)
(***************************************************************************)
EXTENDS Integers, Sequences, FiniteSets, SequencesExt

CONSTANTS
  Devices,
  Setups,        \* a setting, the readings that arrive, and the calls: see below
  Unbounded,     \* an empty timestamp
  Malformed,     \* a timestamp that does not parse
  TTL,           \* Settings.Cache.TTL, in seconds
  Capacity,      \* of the channel of a dump: 128 in the code
  Room,          \* the room of the array of a slice that grew to a length one by one
  MaxTime,       \* bound: seconds that pass
  MaxReadings    \* bound: readings that arrive

Times == 1..MaxTime

ASSUME BoundAssumption ==
  /\ TTL \in Nat \ {0} /\ Capacity \in Nat \ {0} /\ MaxTime \in Nat \ {0} /\ MaxReadings \in Nat
  /\ Unbounded # Malformed /\ {Unbounded, Malformed} \cap Times = {}

\* Readings are numbered as they arrive.  What a racing dump may find instead is
\* memory that is not yet written, or that belongs to something else.
Numbers == 1..MaxReadings
Nil == 0
Torn == MaxReadings + 1

\* Settings.Cache.Enabled, the device of each reading, the bounds that ReadCache and
\* the devices that Read is called with.
ASSUME SetupAssumption ==
  Setups \subseteq
    [enabled : BOOLEAN, device : [Numbers -> Devices], selected : SUBSET Devices,
     window : [start : Times \cup {Unbounded, Malformed}, end : Times \cup {Unbounded, Malformed}]]

ASSUME RoomAssumption == Room \in [Numbers -> Nat] /\ \A n \in Numbers : Room[n] >= n

VARIABLES
  setup,
  time,          \* the second it is
  arrived,       \* how many readings have
  readings,      \* the current reading of each device, or Nil
  updater,       \* where updateReadings is
  stamps,        \* the time it has read for each reading
  target,        \* the list it appends to
  lists,         \* the lists ever made: their elements, and the length of the slice
  cache,         \* per second the list, if any, and when it expires
  reader,        \* the devices that a Read call has yet to look up, or << >> outside one
  handler,       \* where the handler of ReadCache is
  dump,          \* where its goroutine is
  todo,          \* the lists, or current readings, yet to be dumped
  slice,         \* the slice being dumped: its list, the room of its array, its length
  next,          \* index of the next element
  item,          \* the element that is sent
  channel,
  received,      \* what the client got
  known,         \* of the cache and the clock when ReadCache was called
  crashed        \* the process has panicked

updateVars == <<arrived, readings, updater, stamps, target, lists, cache>>
dumpVars == <<dump, todo, slice, next, item>>
callVars == <<handler, received, known>>
vars == <<setup, time, updateVars, reader, callVars, dumpVars, channel, crashed>>

NoSlice == [list |-> 0, room |-> 0, length |-> 0]
NoList == [list |-> 0, expires |-> 0]

TypeOK ==
  /\ setup \in Setups /\ crashed \in BOOLEAN
  /\ time \in Times
  /\ arrived \in 0..MaxReadings
  /\ readings \in [Devices -> {Nil} \cup Numbers]
  /\ updater \in {"take", "store", "dispatch", "stuck", "stamp", "get", "grow", "write"}
  /\ stamps \in Seq(Times) /\ target \in 0..Len(lists)
  /\ lists \in Seq([items : Seq(Numbers), length : Numbers])
  /\ \A l \in 1..Len(lists) : lists[l].length - Len(lists[l].items) \in 0..1
  /\ cache \in [Times -> [list : 0..Len(lists), expires : 0..(MaxTime + TTL)]]
  /\ reader \in {<<d>> : d \in SUBSET Devices} \cup {<< >>}
  /\ handler \in {"idle", "receive", "answered", "gone"}
  /\ dump \in {"off", "parse", "list", "header", "range", "send", "current", "closed"}
  /\ todo \subseteq Numbers
  /\ slice \in [list : 0..Len(lists), room : Nat, length : 0..MaxReadings]
  /\ next \in 1..(MaxReadings + 1)
  /\ item \in Nil..Torn
  /\ channel \in Seq(Nil..Torn) /\ Len(channel) <= Capacity
  /\ received \in Seq(Nil..Torn)
  /\ known \in [cached : SUBSET Numbers, arrived : 0..MaxReadings, since : Times]

-----------------------------------------------------------------------------
Init ==
  /\ setup \in Setups /\ crashed = FALSE
  /\ time = 1
  /\ arrived = 0 /\ readings = [d \in Devices |-> Nil]
  /\ updater = "take" /\ stamps = << >> /\ target = 0
  /\ lists = << >> /\ cache = [t \in Times |-> NoList]
  /\ reader = << >>
  /\ handler = "idle"
  /\ dump = "off" /\ todo = {} /\ slice = NoSlice /\ next = 1 /\ item = Nil
  /\ channel = << >> /\ received = << >>
  /\ known = [cached |-> {}, arrived |-> 0, since |-> 1]

Tick ==
  /\ time < MaxTime
  /\ time' = time + 1
  /\ UNCHANGED <<setup, updateVars, reader, callVars, dumpVars, channel, crashed>>

-----------------------------------------------------------------------------
(* updateReadings.                                                         *)

restOfUpdate == <<setup, time, reader, callVars, dumpVars, channel, crashed>>

Take ==
  /\ updater = "take"
  /\ arrived < MaxReadings
  /\ arrived' = arrived + 1
  /\ updater' = "store"
  /\ UNCHANGED <<readings, stamps, target, lists, cache, restOfUpdate>>

\* readingsLock is held for this alone.
ReadingsLocked_Dispatch == updater \in {"store", "dispatch", "stuck"}     \* faulty
ReadingsLocked == updater = "store"

Store ==
  /\ updater = "store"
  /\ readings' = [readings EXCEPT ![setup.device[arrived]] = arrived]
  /\ updater' = "dispatch"
  /\ UNCHANGED <<arrived, stamps, target, lists, cache, restOfUpdate>>

\* dispatchToStreams, which returns unless a stream is stuck.
Dispatch ==
  /\ updater = "dispatch"
  /\ updater' = IF setup.enabled THEN "stamp" ELSE "take"
  /\ UNCHANGED <<arrived, readings, stamps, target, lists, cache, restOfUpdate>>

StreamSticks ==
  /\ updater = "dispatch"
  /\ updater' = "stuck"
  /\ UNCHANGED <<arrived, readings, stamps, target, lists, cache, restOfUpdate>>

\* addReadingToCache reads the clock before it looks at the cache.
Stamp ==
  /\ updater = "stamp"
  /\ stamps' = Append(stamps, time)
  /\ updater' = "get"
  /\ UNCHANGED <<arrived, readings, target, lists, cache, restOfUpdate>>

\* What the cache returns and lists: what is there and has not expired.
Live(t) == cache[t].list # 0 /\ time <= cache[t].expires

Get ==
  /\ updater = "get"
  /\ Live(Last(stamps))
  /\ target' = cache[Last(stamps)].list
  /\ updater' = "grow"
  /\ UNCHANGED <<arrived, readings, stamps, lists, cache, restOfUpdate>>

Set ==
  /\ updater = "get"
  /\ ~Live(Last(stamps))
  /\ lists' = Append(lists, [items |-> <<arrived>>, length |-> 1])
  /\ cache' = [cache EXCEPT ![Last(stamps)] = [list |-> Len(lists) + 1, expires |-> time + TTL]]
  /\ updater' = "take"
  /\ UNCHANGED <<arrived, readings, stamps, target, restOfUpdate>>

\* The append in place: the length of the slice grows, then the element is written.
Grow ==
  /\ updater = "grow"
  /\ lists' = [lists EXCEPT ![target].length = @ + 1]
  /\ updater' = "write"
  /\ UNCHANGED <<arrived, readings, stamps, target, cache, restOfUpdate>>

Write ==
  /\ updater = "write"
  /\ lists' = [lists EXCEPT ![target].items = Append(@, arrived)]
  /\ updater' = "take"
  /\ UNCHANGED <<arrived, readings, stamps, target, cache, restOfUpdate>>

-----------------------------------------------------------------------------
(* Read.                                                                   *)

Ask ==
  /\ reader = << >>
  /\ setup.selected # {}
  /\ reader' = <<setup.selected>>
  /\ UNCHANGED <<setup, time, updateVars, callVars, dumpVars, channel, crashed>>

\* GetReadingsForDevice, under the lock, and the answer for the device.
LookUp ==
  /\ reader # << >>
  /\ \/ reader[1] = {} /\ reader' = << >>
     \/ ~ReadingsLocked /\ \E d \in reader[1] : reader' = <<reader[1] \ {d}>>
  /\ UNCHANGED <<setup, time, updateVars, callVars, dumpVars, channel, crashed>>

-----------------------------------------------------------------------------
(* The goroutine of ReadCache.                                             *)

restOfDump == <<setup, time, updateVars, reader, callVars, crashed>>

AfterStart(t) == setup.window.start = Unbounded \/ t >= setup.window.start
BeforeEnd_Never(t) == TRUE     \* faulty
BeforeEnd(t) == setup.window.end = Unbounded \/ t <= setup.window.end

InWindow_Open(t) == AfterStart(t) /\ setup.window.start # t /\ BeforeEnd(t)     \* faulty
InWindow(t) == AfterStart(t) /\ BeforeEnd(t)

\* The channel is closed by a deferred call, whatever the goroutine returns for.
Closed_Unparsed == IF Malformed \in {setup.window.start, setup.window.end} THEN "off" ELSE "closed"     \* faulty
Closed == "closed"

\* A list of the cache, or a copy of the current readings, made under the lock.
Parse ==
  /\ dump = "parse"
  /\ \/ /\ Malformed \in {setup.window.start, setup.window.end}
        /\ dump' = Closed
        /\ UNCHANGED todo
     \/ /\ Malformed \notin {setup.window.start, setup.window.end}
        /\ setup.enabled
        /\ todo' = {cache[t].list : t \in {u \in Times : Live(u) /\ InWindow(u)}}
        /\ dump' = "list"
     \/ /\ Malformed \notin {setup.window.start, setup.window.end}
        /\ ~setup.enabled
        /\ ~ReadingsLocked
        /\ todo' = {readings[d] : d \in Devices} \ {Nil}
        /\ dump' = "current"
  /\ UNCHANGED <<slice, next, item, channel, restOfDump>>

DumpEnds ==
  /\ dump \in {"list", "current"}
  /\ todo = {}
  /\ dump' = Closed
  /\ UNCHANGED <<todo, slice, next, item, channel, restOfDump>>

\* In any order, each list: first the array of the slice is read, then its length.
RangeOver ==
  /\ dump = "list"
  /\ \E l \in todo :
       /\ slice' = [list |-> l, room |-> Room[lists[l].length], length |-> 0]
       /\ todo' = todo \ {l}
  /\ dump' = "header"
  /\ UNCHANGED <<next, item, channel, restOfDump>>

ReadLength ==
  /\ dump = "header"
  /\ slice' = [slice EXCEPT !.length = lists[slice.list].length]
  /\ next' = 1
  /\ dump' = "range"
  /\ UNCHANGED <<todo, item, channel, restOfDump>>

\* What is found at an index: past the end of the array, something else; before the
\* element is written, nothing.
Element(i) ==
  LET items == lists[slice.list].items IN
  IF i > slice.room THEN Torn ELSE IF i > Len(items) THEN Nil ELSE items[i]

LoadElement ==
  /\ dump = "range"
  /\ IF next <= slice.length
     THEN dump' = "send" /\ item' = Element(next) /\ next' = next + 1
     ELSE dump' = "list" /\ UNCHANGED <<item, next>>
  /\ UNCHANGED <<todo, slice, channel, restOfDump>>

Value_Live(n) == readings[setup.device[n]]     \* faulty
Value(n) == n

LoadCurrent ==
  /\ dump = "current"
  /\ \E n \in todo : item' = Value(n) /\ todo' = todo \ {n}
  /\ dump' = "send"
  /\ UNCHANGED <<slice, next, channel, restOfDump>>

HasRoom_OneMore == Len(channel) <= Capacity     \* faulty
HasRoom == Len(channel) < Capacity

SendItem ==
  /\ dump = "send"
  /\ HasRoom
  /\ channel' = Append(channel, item)
  /\ dump' = IF setup.enabled THEN "range" ELSE "current"
  /\ UNCHANGED <<todo, slice, next, item, restOfDump>>

-----------------------------------------------------------------------------
(* The handler of ReadCache.                                               *)

\* The readings in the cache, and the second of the next append to it.
Cached == UNION {ToSet(lists[cache[t].list].items) : t \in {u \in Times : Live(u)}}
Since == IF updater \in {"get", "grow", "write"} THEN Last(stamps) ELSE time

Call ==
  /\ handler = "idle"
  /\ known' = [cached |-> Cached, since |-> Since,
               arrived |-> IF updater = "store" THEN arrived - 1 ELSE arrived]
  /\ handler' = "receive"
  /\ dump' = "parse"
  /\ UNCHANGED <<setup, time, updateVars, reader, todo, slice, next, item, channel,
                 received, crashed>>

\* The reading is sent to the client, who may have gone: then the handler returns.
\* Memory that is not a reading ends the process, or is sent for one.
Receive ==
  /\ handler = "receive"
  /\ channel # << >>
  /\ channel' = Tail(channel)
  /\ \/ /\ Head(channel) # Nil
        /\ received' = Append(received, Head(channel))
        /\ UNCHANGED <<handler, crashed>>
     \/ /\ Head(channel) \in Numbers
        /\ handler' = "gone"
        /\ UNCHANGED <<received, crashed>>
     \/ /\ Head(channel) \in {Nil, Torn}
        /\ crashed' = TRUE
        /\ UNCHANGED <<handler, received>>
  /\ UNCHANGED <<setup, time, updateVars, reader, known, dumpVars>>

Answer ==
  /\ handler = "receive"
  /\ channel = << >> /\ dump = "closed"
  /\ handler' = "answered"
  /\ UNCHANGED <<setup, time, updateVars, reader, received, known, dumpVars, channel, crashed>>

-----------------------------------------------------------------------------
Update == Take \/ Store \/ Dispatch \/ Stamp \/ Get \/ Set \/ Grow \/ Write

Dump ==
  Parse \/ DumpEnds \/ RangeOver \/ ReadLength \/ LoadElement \/ LoadCurrent \/ SendItem

Handle == Receive \/ Answer

Next == ~crashed /\ (Tick \/ Update \/ StreamSticks \/ Ask \/ LookUp \/ Call \/ Handle \/ Dump)

Spec == Init /\ [][Next]_vars

\* Goroutines that can take a step do so; streams owe nothing.
Fairness ==
  /\ WF_vars(~crashed /\ Update) /\ WF_vars(~crashed /\ LookUp)
  /\ WF_vars(~crashed /\ Dump) /\ WF_vars(~crashed /\ Handle)

FairSpec == Spec /\ Fairness

-----------------------------------------------------------------------------
(* What a client may rely on.                                              *)

Inside(t) ==
  /\ setup.window.start = Unbounded \/ setup.window.start <= t
  /\ setup.window.end = Unbounded \/ t <= setup.window.end

Got == ToSet(received) \cap Numbers

\* The current readings after n readings have been stored: of each device the last.
CurrentAt(n) == {i \in 1..n : \A j \in i + 1 .. n : setup.device[j] # setup.device[i]}

Answered == handler = "answered" /\ Malformed \notin {setup.window.start, setup.window.end}

\* An answer from the cache has every reading of the window that was cached when the
\* call came and has not expired since, none twice, and none of another time.
CacheDumpExact ==
  setup.enabled /\ Answered =>
    /\ \A i, j \in 1..Len(received) : received[i] = received[j] /\ received[i] \in Numbers => i = j
    /\ \A n \in Got : Inside(stamps[n])
    /\ {n \in known.cached \cap Cached : Inside(stamps[n])} \subseteq Got

\* An answer without a cache has the readings that were current at one moment of the
\* call, though others arrive while it is given.
CurrentDumpAtOnce ==
  ~setup.enabled /\ Answered =>
    /\ IsInjective(received)
    /\ \E n \in known.arrived..arrived : ToSet(received) = CurrentAt(n)

\* A dump finds memory that is not a reading only in the list of a second that was
\* not over, for the cache, when the call came: a window that ended before is safe.
PastWindowsSafe ==
  crashed \/ Torn \in ToSet(received) => setup.window.end = Unbounded \/ setup.window.end >= known.since

\* Every Read is answered, though a stream may be stuck.
ReadAnswered == reader # << >> ~> reader = << >> \/ crashed

\* Every ReadCache ends with its goroutine, unless its client goes: then the
\* goroutine ends or is left, with a full channel, for ever.
ReadCacheEnds ==
  handler = "receive" ~>
    \/ crashed
    \/ handler = "answered" /\ dump = "closed"
    \/ handler = "gone" /\ (dump = "closed" \/ (dump = "send" /\ Len(channel) = Capacity))
=============================================================================
