------------------------- MODULE ReadingStateProofs -------------------------
(***************************************************************************)
(* Theorems about ReadingState: its types, that a window of the past is    *)
(* safe from the race between a dump and an append, and what an answer     *)
(* from the cache or from the current readings contains, for any number of *)
(* devices and readings, any window, any expiry and any growth of arrays.  *)
(***************************************************************************)
EXTENDS ReadingState, SequenceTheorems, TLAPS

USE DEF updateVars, dumpVars, callVars, restOfUpdate, restOfDump

-----------------------------------------------------------------------------
(* The readings, and the lists of the cache.                               *)

Unstamped == {"store", "dispatch", "stuck", "stamp"}
Caching == {"get", "grow", "write"}

\* How many readings are the current ones of their devices, are in the lists with their
\* element, and are counted in the lists.
Stored == IF updater = "store" THEN arrived - 1 ELSE arrived
Written == IF updater \in Unstamped \cup Caching THEN arrived - 1 ELSE arrived
Counted == IF updater \in Unstamped \cup {"get", "grow"} THEN arrived - 1 ELSE arrived

\* Readings are stamped one by one, when there is a cache.
Stamping ==
  /\ updater # "take" => arrived >= 1
  /\ ~setup.enabled => updater \notin Caching \cup {"stamp"} /\ lists = << >>
  /\ setup.enabled => Len(stamps) = IF updater \in Unstamped THEN arrived - 1 ELSE arrived

\* Time goes on.
Clock ==
  /\ \A i \in 1..Len(stamps) : stamps[i] <= time
  /\ \A i, j \in 1..Len(stamps) : i <= j => stamps[i] <= stamps[j]

Items(l) == lists[l].items
Holds(l, n) == \E i \in 1..Len(Items(l)) : Items(l)[i] = n

\* A list holds readings in their order, all of one time, and is as long as its slice says
\* but in the middle of an append.
OneList(l) ==
  /\ Items(l) # << >>
  /\ \A i \in 1..Len(Items(l)) : Items(l)[i] \in 1..Written /\ stamps[Items(l)[i]] = stamps[Items(l)[1]]
  /\ \A i, j \in 1..Len(Items(l)) : i < j => Items(l)[i] < Items(l)[j]
  /\ lists[l].length = IF updater = "write" /\ l = target THEN Len(Items(l)) + 1 ELSE Len(Items(l))
  /\ lists[l].length <= Counted

ListTime(l) == stamps[Items(l)[1]]

\* Every list is in the cache under its time at most, no reading is in two lists, and
\* the reading that is being cached is appended to the list of its time.
Lists ==
  /\ Len(lists) <= Counted
  /\ \A l \in 1..Len(lists) : OneList(l)
  /\ \A l, m \in 1..Len(lists), n \in Numbers : Holds(l, n) /\ Holds(m, n) => l = m
  /\ \A t \in Times : cache[t].list # 0 => ListTime(cache[t].list) = t
  /\ updater \in {"grow", "write"} => target \in 1..Len(lists) /\ ListTime(target) = stamps[arrived]

\* What Read and a dump without a cache find.
Current ==
  \A d \in Devices :
    IF readings[d] = Nil THEN \A i \in 1..Stored : setup.device[i] # d
    ELSE /\ readings[d] \in 1..Stored /\ setup.device[readings[d]] = d
         /\ \A i \in readings[d] + 1 .. Stored : setup.device[i] # d

State == Stamping /\ Clock /\ Lists /\ Current

-----------------------------------------------------------------------------
(* A dump.                                                                 *)

Unparsed == Malformed \in {setup.window.start, setup.window.end}
AtSlice == dump \in {"header", "range", "send"} /\ setup.enabled

\* Where a dump is, and what it has not begun.
DumpPlace ==
  /\ dump = "off" <=> handler = "idle"
  /\ handler = "idle" => received = << >> /\ channel = << >>
  /\ handler = "answered" => dump = "closed" /\ channel = << >>
  /\ crashed => handler = "receive"
  /\ dump = "parse" => received = << >> /\ channel = << >> /\ ~crashed
  /\ Unparsed => dump \in {"off", "parse", "closed"} /\ received = << >> /\ channel = << >> /\ ~crashed
  /\ dump \in {"list", "header", "range"} => setup.enabled
  /\ dump = "current" => ~setup.enabled
  /\ setup.enabled => todo \subseteq 1..Len(lists)
  /\ AtSlice => slice.list \in 1..Len(lists) /\ slice.list \notin todo
  /\ dump \in {"off", "parse", "closed"} => todo = {}

\* What a call knows is not of the future.
Knowledge ==
  /\ known.cached \subseteq 1..Written
  /\ known.arrived <= Stored
  /\ handler # "idle" => known.since <= Since

\* The window is over for the cache, or there is no cache to race with.
Past ==
  /\ handler # "idle"
  /\ \/ ~setup.enabled \/ Unparsed
     \/ setup.window.end # Unbounded /\ setup.window.end < known.since

Sound(q) == \A i \in 1..Len(q) : q[i] \in Numbers

PastInv ==
  Past =>
    /\ ~crashed /\ Sound(channel) /\ Sound(received)
    /\ dump = "send" => item \in Numbers
    /\ setup.enabled => \A l \in todo : ListTime(l) <= setup.window.end
    /\ AtSlice => ListTime(slice.list) <= setup.window.end /\ slice.room >= lists[slice.list].length
    /\ AtSlice /\ dump # "header" => slice.length <= lists[slice.list].length

-----------------------------------------------------------------------------
(* What a dump has put out, and what it has not.                           *)

Out == received \o channel \o (IF dump = "send" THEN <<item>> ELSE << >>)
PutOut(n) == \E i \in 1..Len(Out) : Out[i] = n

Open == handler \in {"receive", "answered"} /\ ~Unparsed /\ ~crashed

\* What is left of the list that is being dumped.
Left(n) ==
  /\ AtSlice
  /\ \E i \in 1..Len(Items(slice.list)) :
       Items(slice.list)[i] = n /\ (dump # "header" => i >= next)

\* And is sure to be found.
SureLeft(n) ==
  /\ AtSlice
  /\ \E i \in 1..Len(Items(slice.list)) :
       /\ Items(slice.list)[i] = n /\ i <= slice.room
       /\ dump # "header" => i >= next /\ i <= slice.length

\* Each reading is put out once; it was cached, is of the window, and is not left; and
\* what is in the lists that are left is not put out.
OnlyOnce == \A i, j \in 1..Len(Out) : Out[i] = Out[j] /\ Out[i] \in Numbers => i = j
OnlyWindow ==
  /\ \A n \in Numbers : PutOut(n) => n \in 1..Written /\ Inside(stamps[n]) /\ ~Left(n)
  /\ \A n \in Numbers, l \in todo : Holds(l, n) => ~PutOut(n)
  /\ \A l \in todo : Inside(ListTime(l))
  /\ AtSlice => Inside(ListTime(slice.list))

\* What has to be found has been, or will be.
Found(n) == PutOut(n) \/ SureLeft(n) \/ \E l \in todo : Holds(l, n)
AllFound == \A n \in known.cached \cap Cached : Inside(stamps[n]) /\ dump # "parse" => Found(n)

CacheInv == Open /\ setup.enabled => OnlyOnce /\ OnlyWindow /\ AllFound

\* Without the cache: the current readings of one moment.
CurrentInv ==
  Open /\ ~setup.enabled /\ dump # "parse" =>
    /\ \A i, j \in 1..Len(Out) : Out[i] = Out[j] => i = j
    /\ \A n \in todo : ~PutOut(n)
    /\ \E m \in known.arrived..arrived : \A n : PutOut(n) \/ n \in todo <=> n \in CurrentAt(m)

-----------------------------------------------------------------------------
(* Lists and stamps.                                                       *)

List == [items : Seq(Numbers), length : Numbers]

LEMMA ListFacts ==
  ASSUME TypeOK, NEW l \in 1..Len(lists)
  PROVE  /\ Items(l) \in Seq(Numbers) /\ Len(Items(l)) \in Nat /\ lists[l].length \in Numbers
         /\ \A i \in 1..Len(Items(l)) : Items(l)[i] \in Numbers
<1>1. lists \in Seq(List)
  BY DEF TypeOK, List
<1>2. lists[l] \in List
  BY <1>1, ElementOfSeq
<1>3. Items(l) \in Seq(Numbers) /\ lists[l].length \in Numbers
  BY <1>2 DEF List, Items
<1> QED
  BY <1>3, LenProperties, ElementOfSeq

LEMMA StampFacts ==
  ASSUME TypeOK
  PROVE  Len(stamps) \in Nat /\ Len(lists) \in Nat /\ time \in Nat /\ arrived \in Nat
         /\ \A i \in 1..Len(stamps) : stamps[i] \in Times /\ stamps[i] \in Nat
<1>1. stamps \in Seq(Times) /\ lists \in Seq(List) /\ time \in Times /\ Times \subseteq Nat /\ arrived \in Nat
  BY BoundAssumption DEF TypeOK, Times, List
<1> QED
  BY <1>1, LenProperties, ElementOfSeq

\* While a reading is being cached, its stamp is the last.
LEMMA LastStamp ==
  ASSUME TypeOK, Stamping, updater \in Caching
  PROVE  /\ setup.enabled /\ arrived \in Numbers /\ Len(stamps) = arrived
         /\ Last(stamps) = stamps[arrived] /\ stamps[arrived] \in Times
<1>1. updater \notin Unstamped /\ updater # "take"
  BY DEF Caching, Unstamped
<1>2. setup \in Setups /\ setup.enabled \in BOOLEAN
  BY SetupAssumption DEF TypeOK
<1>3. setup.enabled /\ Len(stamps) = arrived /\ arrived >= 1
  BY <1>1, <1>2 DEF Stamping
<1>4. arrived \in Numbers
  BY <1>3, BoundAssumption DEF TypeOK, Numbers
<1> QED
  BY <1>3, <1>4, StampFacts DEF Last, Numbers

\* The slice of a list grows.
LEMMA GrowLists ==
  ASSUME TypeOK, State, Grow
  PROVE  /\ lists' \in Seq(List) /\ Len(lists') = Len(lists) /\ target \in 1..Len(lists)
         /\ \A l \in 1..Len(lists) :
              Items(l)' = Items(l) /\ lists'[l].length = lists[l].length + (IF l = target THEN 1 ELSE 0)
<1>1. /\ lists \in Seq(List) /\ target \in 1..Len(lists) /\ updater = "grow" /\ updater \in Caching
      /\ lists' = [lists EXCEPT ![target].length = @ + 1]
  BY DEF TypeOK, List, State, Lists, Grow, Caching
<1>2. lists[target].length <= arrived - 1
  BY <1>1 DEF State, Lists, OneList, Counted, Unstamped
<1>3. arrived \in Numbers
  BY <1>1, LastStamp DEF State
<1>4. lists[target].length + 1 \in Numbers
  BY <1>1, <1>2, <1>3, ListFacts, BoundAssumption DEF Numbers
<1> DEFINE new == [lists[target] EXCEPT !.length = @ + 1]
<1>5. lists[target] \in List
  BY <1>1, ElementOfSeq
<1>6. new \in List /\ new.items = lists[target].items /\ new.length = lists[target].length + 1
  BY <1>4, <1>5 DEF List
<1>7. lists' = [lists EXCEPT ![target] = new]
  BY <1>1
<1> HIDE DEF new
<1>8. /\ lists' \in Seq(List) /\ Len(lists') = Len(lists)
      /\ \A l \in 1..Len(lists) : lists'[l] = IF l = target THEN new ELSE lists[l]
  BY <1>1, <1>6, <1>7, ExceptSeq
<1>9. \A l \in 1..Len(lists) : lists[l].length \in Nat
  BY ListFacts, BoundAssumption DEF Numbers
<1> QED
  BY <1>1, <1>6, <1>8, <1>9 DEF Items

\* Its element is written.
LEMMA WriteLists ==
  ASSUME TypeOK, State, Write
  PROVE  /\ lists' \in Seq(List) /\ Len(lists') = Len(lists) /\ target \in 1..Len(lists)
         /\ \A l \in 1..Len(lists) :
              /\ Items(l)' = IF l = target THEN Append(Items(l), arrived) ELSE Items(l)
              /\ lists'[l].length = lists[l].length
<1>1. /\ lists \in Seq(List) /\ target \in 1..Len(lists) /\ updater = "write" /\ updater \in Caching
      /\ lists' = [lists EXCEPT ![target].items = Append(@, arrived)]
  BY DEF TypeOK, List, State, Lists, Write, Caching
<1>2. arrived \in Numbers
  BY <1>1, LastStamp DEF State
<1> DEFINE new == [lists[target] EXCEPT !.items = Append(@, arrived)]
<1>3. lists[target] \in List
  BY <1>1, ElementOfSeq
<1>4. new \in List /\ new.items = Append(lists[target].items, arrived) /\ new.length = lists[target].length
  <2>1. Append(lists[target].items, arrived) \in Seq(Numbers)
    BY <1>2, <1>3, AppendProperties DEF List
  <2> QED
    BY <1>3, <2>1 DEF List
<1>5. lists' = [lists EXCEPT ![target] = new]
  BY <1>1
<1>6. new \in List /\ target \in 1..Len(lists) /\ lists \in Seq(List)
  BY <1>1, <1>4
<1> HIDE DEF new
<1>7. /\ lists' \in Seq(List) /\ Len(lists') = Len(lists)
      /\ \A l \in 1..Len(lists) : lists'[l] = IF l = target THEN new ELSE lists[l]
  BY <1>5, <1>6, ExceptSeq
<1> QED
  BY <1>1, <1>4, <1>7 DEF Items

\* A new list.
LEMMA SetLists ==
  ASSUME TypeOK, State, Set
  PROVE  /\ lists' \in Seq(List) /\ Len(lists') = Len(lists) + 1 /\ arrived \in Numbers
         /\ \A l \in 1..Len(lists) : Items(l)' = Items(l) /\ lists'[l].length = lists[l].length
         /\ \A m : m = Len(lists) + 1 => Items(m)' = <<arrived>> /\ lists'[m].length = 1
<1>1. lists \in Seq(List) /\ updater \in Caching /\ lists' = Append(lists, [items |-> <<arrived>>, length |-> 1])
  BY DEF TypeOK, List, Set, Caching
<1>2. arrived \in Numbers
  BY <1>1, LastStamp DEF State
<1> DEFINE new == [items |-> <<arrived>>, length |-> 1]
<1>3. new \in List /\ new.items = <<arrived>> /\ new.length = 1
  BY <1>2, BoundAssumption DEF List, Numbers
<1> HIDE DEF new
<1>4. /\ lists' \in Seq(List) /\ Len(lists') = Len(lists) + 1
      /\ \A l \in 1..Len(lists) : lists'[l] = lists[l]
      /\ lists'[Len(lists) + 1] = new
  BY <1>1, <1>3, AppendProperties DEF new
<1> QED
  BY <1>2, <1>3, <1>4 DEF Items

LEMMA SetupFacts ==
  ASSUME TypeOK
  PROVE  /\ setup.enabled \in BOOLEAN /\ setup.selected \subseteq Devices
         /\ \A n \in Numbers : setup.device[n] \in Devices
         /\ setup.window.start \in Times \cup {Unbounded, Malformed}
         /\ setup.window.end \in Times \cup {Unbounded, Malformed}
BY SetupAssumption DEF TypeOK

LEMMA NumberFacts ==
  ASSUME TypeOK
  PROVE  /\ MaxReadings \in Nat /\ arrived \in 0..MaxReadings /\ arrived \in Int
         /\ Numbers = 1..MaxReadings /\ Nil = 0 /\ Torn = MaxReadings + 1
         /\ Stored \in Int /\ Written \in Int /\ Counted \in Int
         /\ Written <= Counted /\ Counted <= arrived /\ Stored <= arrived
BY BoundAssumption, SMTT(20) DEF TypeOK, Numbers, Nil, Torn, Stored, Written, Counted, Unstamped, Caching

-----------------------------------------------------------------------------
(* updateReadings keeps its types.                                         *)

LEMMA UpdateTypes ==
  ASSUME TypeOK, State, Update
  PROVE  TypeOK'
<1>1. CASE Take \/ Store \/ Dispatch
  <2>1. arrived' \in 0..MaxReadings
    <3>1. arrived' = arrived \/ (arrived < MaxReadings /\ arrived' = arrived + 1)
      BY <1>1 DEF Take, Store, Dispatch
    <3> QED
      BY <3>1, NumberFacts
  <2>2. readings' \in [Devices -> {Nil} \cup Numbers]
    <3>1. CASE Store
      <4>1. arrived \in Numbers
        BY <3>1, NumberFacts DEF State, Stamping, Store
      <4> QED
        BY <3>1, <4>1 DEF TypeOK, Store
    <3>2. CASE Take \/ Dispatch
      BY <3>2 DEF TypeOK, Take, Dispatch
    <3> QED
      BY <1>1, <3>1, <3>2
  <2>3. updater' \in {"take", "store", "dispatch", "stuck", "stamp", "get", "grow", "write"}
    BY <1>1 DEF Take, Store, Dispatch
  <2>4. UNCHANGED <<setup, crashed, time, stamps, target, lists, cache, reader, handler, dump, todo, slice, next, item, channel, received, known>>
    BY <1>1 DEF Take, Store, Dispatch
  <2> QED
    BY <2>1, <2>2, <2>3, <2>4 DEF TypeOK
<1>2. CASE Stamp
  <2>1. Append(stamps, time) \in Seq(Times)
    BY AppendProperties DEF TypeOK
  <2> QED
    BY <1>2, <2>1 DEF TypeOK, Stamp
<1>3. CASE Get
  <2>1. cache[Last(stamps)].list \in 0..Len(lists)
    <3>1. Last(stamps) \in Times
      BY <1>3, LastStamp DEF State, Get, Caching
    <3> QED
      BY <3>1 DEF TypeOK
  <2> QED
    BY <1>3, <2>1 DEF TypeOK, Get
<1>4. CASE Set
  <2>1. /\ lists' \in Seq(List) /\ Len(lists') = Len(lists) + 1
        /\ \A l \in 1..Len(lists) : Items(l)' = Items(l) /\ lists'[l].length = lists[l].length
        /\ \A m : m = Len(lists) + 1 => Items(m)' = <<arrived>> /\ lists'[m].length = 1
    BY <1>4, SetLists
  <2>2. Len(lists) \in Nat /\ time \in Nat
    BY StampFacts
  <2>3. \A l \in 1..Len(lists') : lists'[l].length - Len(lists'[l].items) \in 0..1
    <3>1. ASSUME NEW l \in 1..Len(lists) PROVE lists'[l].length - Len(lists'[l].items) \in 0..1
      BY <2>1 DEF TypeOK, Items
    <3>2. ASSUME NEW l, l = Len(lists) + 1 PROVE lists'[l].length - Len(lists'[l].items) \in 0..1
      <4>1. lists'[l].length = 1 /\ lists'[l].items = <<arrived>>
        BY <2>1, <3>2 DEF Items
      <4>2. Len(<<arrived>>) = 1
        OBVIOUS
      <4> QED
        BY <4>1, <4>2
    <3>3. \A l \in 1..Len(lists') : l \in 1..Len(lists) \/ l = Len(lists) + 1
      BY <2>1, <2>2
    <3> QED
      BY <3>1, <3>2, <3>3
  <2>4. cache' \in [Times -> [list : 0..Len(lists'), expires : 0..(MaxTime + TTL)]]
    <3>1. \A t \in Times : cache[t] \in [list : 0..Len(lists'), expires : 0..(MaxTime + TTL)]
      <4>1. cache \in [Times -> [list : 0..Len(lists), expires : 0..(MaxTime + TTL)]]
        BY DEF TypeOK
      <4>2. 0..Len(lists) \subseteq 0..Len(lists')
        BY <2>1, <2>2
      <4> QED
        BY <4>1, <4>2
    <3>2. [list |-> Len(lists) + 1, expires |-> time + TTL] \in [list : 0..Len(lists'), expires : 0..(MaxTime + TTL)]
      <4>1. time \in 1..MaxTime
        BY DEF TypeOK, Times
      <4>2. Len(lists) + 1 \in 0..Len(lists') /\ time + TTL \in 0..(MaxTime + TTL)
        BY <2>1, <2>2, <4>1, BoundAssumption
      <4> QED
        BY <4>2
    <3> QED
      BY <1>4, <3>1, <3>2 DEF TypeOK, Set
  <2>5. target' \in 0..Len(lists') /\ slice' \in [list : 0..Len(lists'), room : Nat, length : 0..MaxReadings]
    <3>1. target \in 0..Len(lists) /\ slice \in [list : 0..Len(lists), room : Nat, length : 0..MaxReadings]
      BY DEF TypeOK
    <3>2. target' = target /\ slice' = slice
      BY <1>4 DEF Set
    <3>3. 0..Len(lists) \subseteq 0..Len(lists')
      BY <2>1, <2>2
    <3> QED
      BY <3>1, <3>2, <3>3
  <2>6. UNCHANGED <<setup, crashed, time, arrived, readings, stamps, reader, handler, dump, todo, next, item, channel, received, known>>
        /\ updater' = "take"
    BY <1>4 DEF Set
  <2> QED
    BY <2>1, <2>3, <2>4, <2>5, <2>6 DEF TypeOK, List
<1>5. CASE Grow \/ Write
  <2>1. /\ lists' \in Seq(List) /\ Len(lists') = Len(lists)
        /\ \A l \in 1..Len(lists) : lists'[l].length - Len(lists'[l].items) \in 0..1
    <3>1. CASE Grow
      <4>1. \A l \in 1..Len(lists) : lists[l].length = Len(Items(l)) /\ Len(Items(l)) \in Nat
        BY <3>1, ListFacts DEF State, Lists, OneList, Grow
      <4> QED
        BY <3>1, <4>1, GrowLists DEF Items
    <3>2. CASE Write
      <4>1. \A l \in 1..Len(lists) : lists[l].length = Len(Items(l)) + (IF l = target THEN 1 ELSE 0) /\ Len(Items(l)) \in Nat
        BY <3>2, ListFacts DEF State, Lists, OneList, Write
      <4>2. \A l \in 1..Len(lists) : Len(Append(Items(l), arrived)) = Len(Items(l)) + 1
        BY <3>2, ListFacts, LastStamp, AppendProperties DEF State, Write, Caching
      <4>3. /\ lists' \in Seq(List) /\ Len(lists') = Len(lists)
            /\ \A l \in 1..Len(lists) :
                 /\ lists'[l].items = IF l = target THEN Append(Items(l), arrived) ELSE Items(l)
                 /\ lists'[l].length = lists[l].length
        BY <3>2, WriteLists DEF Items
      <4>4. ASSUME NEW l \in 1..Len(lists) PROVE lists'[l].length - Len(lists'[l].items) \in 0..1
        <5>1. CASE l = target
          <6>1. Len(lists'[l].items) = Len(Items(l)) + 1
            BY <4>2, <4>3, <5>1
          <6>2. lists'[l].length = Len(Items(l)) + 1 /\ Len(Items(l)) \in Nat
            BY <4>1, <4>3, <5>1
          <6> QED
            BY <6>1, <6>2
        <5>2. CASE l # target
          BY <4>1, <4>3, <5>2
        <5> QED
          BY <5>1, <5>2
      <4> QED
        BY <4>3, <4>4
    <3> QED
      BY <1>5, <3>1, <3>2
  <2>2. UNCHANGED <<setup, crashed, time, arrived, readings, stamps, target, cache, reader, handler, dump, todo, slice, next, item, channel, received, known>>
    BY <1>5 DEF Grow, Write
  <2>3. updater' \in {"write", "take"}
    BY <1>5 DEF Grow, Write
  <2> QED
    BY <2>1, <2>2, <2>3 DEF TypeOK, List
<1> QED
  BY <1>1, <1>2, <1>3, <1>4, <1>5 DEF Update

-----------------------------------------------------------------------------
(* updateReadings keeps its lists and current readings.                    *)

LEMMA StateInit == Init => TypeOK /\ State
<1> SUFFICES ASSUME Init PROVE TypeOK /\ State
  OBVIOUS
<1> USE DEF Init
<1>1. 1 \in Times /\ 0 \in 0..MaxReadings /\ 1 \in 1..(MaxReadings + 1) /\ MaxReadings \in Nat
  BY BoundAssumption DEF Times
<1>2. setup.enabled \in BOOLEAN
  BY SetupAssumption
<1>3. TypeOK
  <2>1. /\ stamps \in Seq(Times) /\ lists \in Seq(List) /\ channel \in Seq(Nil..Torn) /\ received \in Seq(Nil..Torn)
        /\ Len(channel) = 0 /\ Len(lists) = 0
    BY EmptySeq
  <2>2. cache \in [Times -> [list : 0..Len(lists), expires : 0..(MaxTime + TTL)]]
        /\ slice \in [list : 0..Len(lists), room : Nat, length : 0..MaxReadings]
    BY <2>1, BoundAssumption DEF NoList, NoSlice
  <2>3. item \in Nil..Torn
    BY <1>1 DEF Nil, Torn
  <2>4. known \in [cached : SUBSET Numbers, arrived : 0..MaxReadings, since : Times]
    BY <1>1
  <2>5. readings \in [Devices -> {Nil} \cup Numbers] /\ reader \in {<<d>> : d \in SUBSET Devices} \cup {<< >>}
    OBVIOUS
  <2>6. \A l \in 1..Len(lists) : lists[l].length - Len(lists[l].items) \in 0..1
    BY <2>1
  <2>7. target \in 0..Len(lists) /\ arrived \in 0..MaxReadings /\ Len(channel) <= Capacity
    BY <1>1, <2>1, BoundAssumption
  <2> QED
    BY <1>1, <2>1, <2>2, <2>3, <2>4, <2>5, <2>6, <2>7 DEF TypeOK, List
<1>4. Stamping
  BY <1>2 DEF Stamping, Caching, Unstamped
<1>5. Clock
  BY DEF Clock
<1>6. Lists
  BY DEF Lists, Counted, Unstamped, NoList
<1>7. Current
  BY DEF Current, Stored
<1> QED
  BY <1>3, <1>4, <1>5, <1>6, <1>7 DEF State

\* As long as nothing is appended.
LEMMA SameLists ==
  ASSUME TypeOK, State, lists' = lists, cache' = cache, updater # "write", updater' # "write",
         updater' = "grow" => target' \in 1..Len(lists) /\ ListTime(target)' = stamps'[arrived'],
         Written' = Written, Counted' = Counted, \A n \in 1..Written : stamps'[n] = stamps[n]
  PROVE  Lists'
<1>1. \A l \in 1..Len(lists) : OneList(l)
  BY DEF State, Lists
<1>2. ASSUME NEW l \in 1..Len(lists)
      PROVE  OneList(l)' /\ ListTime(l)' = ListTime(l) /\ Items(l)' = Items(l)
  <2>1. Items(l)' = Items(l) /\ lists'[l] = lists[l]
    BY DEF Items
  <2>2. 1 \in 1..Len(Items(l))
    BY <1>1, ListFacts, EmptySeq DEF OneList
  <2>3. \A i \in 1..Len(Items(l)) : stamps'[Items(l)[i]] = stamps[Items(l)[i]]
    BY <1>1 DEF OneList
  <2>4. lists[l].length = Len(Items(l)) /\ lists[l].length <= Counted
    BY <1>1 DEF OneList
  <2>5. \A i \in 1..Len(Items(l)) : Items(l)[i] \in 1..Written /\ stamps'[Items(l)[i]] = stamps'[Items(l)[1]]
    BY <1>1, <2>2, <2>3 DEF OneList
  <2>6. OneList(l)'
    BY <1>1, <2>1, <2>4, <2>5 DEF OneList
  <2>7. ListTime(l)' = ListTime(l)
    BY <2>1, <2>2, <2>3 DEF ListTime
  <2> QED
    BY <2>1, <2>6, <2>7
<1>3. \A l \in 1..Len(lists), n \in Numbers : Holds(l, n)' <=> Holds(l, n)
  BY <1>2 DEF Holds
<1>4. \A t \in Times : cache[t].list # 0 => cache[t].list \in 1..Len(lists)
  <2>1. \A t \in Times : cache[t].list \in 0..Len(lists) /\ Len(lists) \in Nat
    BY StampFacts DEF TypeOK
  <2> QED
    BY <2>1
<1>5. Len(lists) <= Counted /\ Counted' = Counted
  BY DEF State, Lists
<1> QED
  BY <1>2, <1>3, <1>4, <1>5 DEF State, Lists

\* A reading arrives, is stored, dispatched and stamped.
LEMMA ArriveKeeps ==
  ASSUME TypeOK, State, Take \/ Store \/ Dispatch \/ StreamSticks \/ Stamp
  PROVE  State'
<1> USE DEF Unstamped, Caching
<1>1. /\ setup' = setup /\ time' = time /\ lists' = lists /\ cache' = cache
      /\ updater \notin {"write", "grow", "get"}
      /\ updater' \in {"take", "store", "dispatch", "stuck", "stamp", "get"}
  BY DEF Take, Store, Dispatch, StreamSticks, Stamp
<1>2. arrived \in Int /\ setup.enabled \in BOOLEAN
  BY NumberFacts, SetupFacts
<1>3. Stamping'
  <2>1. CASE Take
    <3>1. updater = "take" /\ updater' = "store" /\ arrived' = arrived + 1 /\ stamps' = stamps /\ arrived >= 0
      BY <2>1, NumberFacts DEF Take
    <3>2. ~setup.enabled => lists = << >>
      BY DEF State, Stamping
    <3>3. setup.enabled => Len(stamps) = arrived
      BY <3>1 DEF State, Stamping
    <3> QED
      BY <1>1, <1>2, <3>1, <3>2, <3>3 DEF Stamping
  <2>2. CASE Store \/ StreamSticks
    BY <1>2, <2>2 DEF Store, StreamSticks, State, Stamping
  <2>3. CASE Dispatch
    BY <1>2, <2>3 DEF Dispatch, State, Stamping
  <2>4. CASE Stamp
    <3>1. Len(Append(stamps, time)) = Len(stamps) + 1 /\ Len(stamps) \in Nat
      BY StampFacts, AppendProperties DEF TypeOK
    <3>2. stamps' = Append(stamps, time) /\ arrived' = arrived /\ updater = "stamp" /\ updater' = "get"
      BY <2>4 DEF Stamp
    <3> QED
      BY <1>1, <1>2, <3>1, <3>2 DEF State, Stamping
  <2> QED
    BY <2>1, <2>2, <2>3, <2>4
<1>4. \A n \in 1..Len(stamps) : stamps'[n] = stamps[n]
  <2>1. CASE Stamp
    BY <2>1, AppendProperties DEF Stamp, TypeOK
  <2> QED
    BY <2>1 DEF Take, Store, Dispatch, StreamSticks
<1>5. Clock'
  <2>1. CASE Stamp
    <3>1. /\ stamps' = Append(stamps, time) /\ stamps \in Seq(Times) /\ time \in Times
      BY <2>1 DEF Stamp, TypeOK
    <3>2. /\ Len(stamps') = Len(stamps) + 1 /\ Len(stamps) \in Nat /\ stamps'[Len(stamps) + 1] = time
          /\ time \in Nat
      BY <3>1, StampFacts, AppendProperties
    <3>3. \A i \in 1..Len(stamps') : i \in 1..Len(stamps) \/ i = Len(stamps) + 1
      BY <3>2
    <3>4. \A i \in 1..Len(stamps') : stamps'[i] <= time
      BY <1>4, <3>2, <3>3 DEF State, Clock
    <3>5. ASSUME NEW i \in 1..Len(stamps'), NEW j \in 1..Len(stamps'), i <= j PROVE stamps'[i] <= stamps'[j]
      <4>1. CASE j = Len(stamps) + 1
        BY <3>2, <3>4, <4>1
      <4>2. CASE j \in 1..Len(stamps)
        <5>1. i \in 1..Len(stamps)
          BY <3>2, <3>3, <3>5, <4>2
        <5> QED
          BY <1>4, <3>5, <4>2, <5>1 DEF State, Clock
      <4> QED
        BY <3>3, <4>1, <4>2
    <3> QED
      BY <1>1, <3>4, <3>5 DEF Clock
  <2>2. CASE stamps' = stamps
    BY <1>1, <2>2 DEF State, Clock
  <2> QED
    BY <2>1, <2>2 DEF Take, Store, Dispatch, StreamSticks
<1>6. Lists'
  <2>1. CASE ~setup.enabled
    <3>1. lists = << >> /\ \A t \in Times : cache[t].list = 0
      BY <2>1, EmptySeq DEF State, Stamping, TypeOK
    <3>2. TypeOK' /\ Stamping'
      <4>1. CASE Take \/ Store \/ Dispatch \/ Stamp
        BY <1>3, <4>1, UpdateTypes DEF Update
      <4>2. CASE StreamSticks
        BY <1>3, <4>2 DEF StreamSticks, TypeOK
      <4> QED
        BY <4>1, <4>2
    <3>3. Counted' \in Int /\ Counted' >= 0
      <4>1. arrived' \in 0..MaxReadings /\ MaxReadings \in Nat /\ (updater' # "take" => arrived' >= 1)
        BY <3>2, BoundAssumption DEF TypeOK, Stamping
      <4>2. \A n \in 0..MaxReadings : n \in Int /\ n - 1 \in Int /\ n >= 0 /\ (n >= 1 => n - 1 >= 0)
        BY <4>1
      <4>3. Counted' = arrived' \/ (Counted' = arrived' - 1 /\ updater' # "take")
        BY DEF Counted
      <4> QED
        BY <4>1, <4>2, <4>3
    <3> QED
      BY <1>1, <3>1, <3>3 DEF Lists
  <2>2. CASE setup.enabled
    <3>1. Written' = Written /\ Counted' = Counted
      BY <1>2, <2>2 DEF Take, Store, Dispatch, StreamSticks, Stamp, Written, Counted
    <3>2. Written = Len(stamps)
      BY <1>1, <1>2, <2>2 DEF State, Stamping, Written
    <3> QED
      BY <1>1, <1>4, <3>1, <3>2, SameLists
  <2> QED
    BY <1>2, <2>1, <2>2
<1>7. Current'
  <2>1. CASE Store
    <3>1. arrived \in Numbers /\ readings' = [readings EXCEPT ![setup.device[arrived]] = arrived]
          /\ updater = "store" /\ updater' = "dispatch" /\ arrived' = arrived
      BY <2>1, NumberFacts DEF State, Stamping, Store
    <3>2. Stored = arrived - 1 /\ Stored' = arrived /\ Nil = 0 /\ setup.device[arrived] \in Devices
          /\ arrived \in Nat /\ arrived # 0
      BY <3>1, NumberFacts, SetupFacts DEF Stored
    <3>3. ASSUME NEW d \in Devices
          PROVE  IF readings'[d] = Nil THEN \A i \in 1..arrived : setup.device[i] # d
                 ELSE /\ readings'[d] \in 1..arrived /\ setup.device[readings'[d]] = d
                      /\ \A i \in readings'[d] + 1 .. arrived : setup.device[i] # d
      <4>1. CASE d = setup.device[arrived]
        <5>1. readings'[d] = arrived
          BY <3>1, <4>1 DEF TypeOK
        <5> QED
          BY <3>2, <4>1, <5>1
      <4>2. CASE d # setup.device[arrived]
        <5>1. readings'[d] = readings[d]
          BY <3>1, <4>2 DEF TypeOK
        <5>2. IF readings[d] = Nil THEN \A i \in 1..arrived - 1 : setup.device[i] # d
              ELSE /\ readings[d] \in 1..arrived - 1 /\ setup.device[readings[d]] = d
                   /\ \A i \in readings[d] + 1 .. arrived - 1 : setup.device[i] # d
          BY <3>2 DEF State, Current
        <5>3. \A i \in Int : i <= arrived => i <= arrived - 1 \/ i = arrived
          BY <3>2
        <5> QED
          BY <3>2, <4>2, <5>1, <5>2, <5>3
      <4> QED
        BY <4>1, <4>2
    <3> QED
      BY <1>1, <3>2, <3>3 DEF Current
  <2>2. CASE Take \/ Dispatch \/ StreamSticks \/ Stamp
    <3>1. readings' = readings /\ Stored' = Stored
      BY <1>2, <2>2 DEF Take, Dispatch, StreamSticks, Stamp, Stored
    <3> QED
      BY <1>1, <3>1 DEF State, Current
  <2> QED
    BY <2>1, <2>2
<1> QED
  BY <1>3, <1>5, <1>6, <1>7 DEF State

\* It goes to the list of its time.
LEMMA GetKeeps ==
  ASSUME TypeOK, State, Get
  PROVE  State'
<1> USE DEF Unstamped, Caching
<1>1. /\ setup' = setup /\ time' = time /\ lists' = lists /\ cache' = cache /\ stamps' = stamps
      /\ arrived' = arrived /\ readings' = readings /\ updater = "get" /\ updater' = "grow"
      /\ cache[Last(stamps)].list # 0 /\ target' = cache[Last(stamps)].list
  BY DEF Get, Live
<1>2. Last(stamps) = stamps[arrived] /\ Last(stamps) \in Times
  BY <1>1, LastStamp DEF State
<1>3. Stamping' /\ Clock' /\ Current'
  BY <1>1 DEF State, Stamping, Clock, Current, Stored
<1>4. target' \in 1..Len(lists)
  <2>1. cache[Last(stamps)].list \in 0..Len(lists) /\ Len(lists) \in Nat
    BY <1>2, StampFacts DEF TypeOK
  <2> QED
    BY <1>1, <2>1
<1>5. ListTime(target)' = stamps'[arrived']
  BY <1>1, <1>2 DEF State, Lists, ListTime, Items
<1>6. Written' = Written /\ Counted' = Counted
  BY <1>1 DEF Written, Counted
<1>7. Lists'
  BY <1>1, <1>4, <1>5, <1>6, SameLists
<1> QED
  BY <1>3, <1>7 DEF State

\* Or to a list of its own.
LEMMA SetKeeps ==
  ASSUME TypeOK, State, Set
  PROVE  State'
<1> USE DEF Unstamped, Caching
<1>1. /\ setup' = setup /\ time' = time /\ stamps' = stamps /\ arrived' = arrived /\ readings' = readings
      /\ updater = "get" /\ updater' = "take"
      /\ cache' = [cache EXCEPT ![Last(stamps)] = [list |-> Len(lists) + 1, expires |-> time + TTL]]
  BY DEF Set
<1>2. Last(stamps) = stamps[arrived] /\ Last(stamps) \in Times /\ setup.enabled /\ arrived \in Numbers
  BY <1>1, LastStamp DEF State
<1>3. /\ Len(lists') = Len(lists) + 1 /\ Len(lists) \in Nat
      /\ \A l \in 1..Len(lists) : Items(l)' = Items(l) /\ lists'[l].length = lists[l].length
      /\ \A m : m = Len(lists) + 1 => Items(m)' = <<arrived>> /\ lists'[m].length = 1
  BY SetLists, StampFacts
<1>4. arrived \in Nat /\ arrived >= 1 /\ Written = arrived - 1 /\ Written' = arrived /\ Counted = arrived - 1 /\ Counted' = arrived
  BY <1>1, <1>2, BoundAssumption DEF Written, Counted, Numbers
<1>5. Stamping' /\ Clock' /\ Current'
  BY <1>1, <1>2 DEF State, Stamping, Clock, Current, Stored
<1>6. \A l \in 1..Len(lists) : OneList(l) /\ 1 \in 1..Len(Items(l))
  BY ListFacts, EmptySeq DEF State, Lists, OneList
<1>7. ASSUME NEW l \in 1..Len(lists) PROVE OneList(l)' /\ ListTime(l)' = ListTime(l)
  <2>1. Items(l)' = Items(l) /\ lists'[l].length = lists[l].length /\ 1 \in 1..Len(Items(l))
    BY <1>3, <1>6
  <2>2. OneList(l) /\ \A i \in 1..arrived - 1 : i \in 1..arrived
    BY <1>4, <1>6
  <2>3. lists[l].length = Len(Items(l)) /\ lists[l].length <= arrived - 1 /\ lists[l].length \in Nat
    BY <1>1, <1>4, <2>2, ListFacts, NumberFacts DEF OneList
  <2>4. lists[l].length <= arrived
    BY <1>4, <2>3
  <2> QED
    BY <1>1, <1>4, <2>1, <2>2, <2>3, <2>4 DEF OneList, ListTime
<1>8. ASSUME NEW l, l = Len(lists) + 1 PROVE OneList(l)' /\ ListTime(l)' = stamps[arrived]
  <2>1. Items(l)' = <<arrived>> /\ lists'[l].length = 1
    BY <1>3, <1>8
  <2>2. Len(<<arrived>>) = 1 /\ <<arrived>>[1] = arrived /\ <<arrived>> # << >>
    OBVIOUS
  <2> QED
    BY <1>1, <1>4, <2>1, <2>2 DEF OneList, ListTime
<1>9. \A l \in 1..Len(lists') : l \in 1..Len(lists) \/ l = Len(lists) + 1
  BY <1>3
<1>10. \A l \in 1..Len(lists'), n \in Numbers :
          Holds(l, n)' => IF l = Len(lists) + 1 THEN n = arrived ELSE Holds(l, n) /\ n <= arrived - 1
  <2>1. ASSUME NEW l \in 1..Len(lists), NEW n \in Numbers, Holds(l, n)' PROVE Holds(l, n) /\ n <= arrived - 1
    BY <1>3, <1>4, <1>6, <2>1 DEF Holds, OneList
  <2>2. ASSUME NEW l, l = Len(lists) + 1, NEW n \in Numbers, Holds(l, n)' PROVE n = arrived
    <3>1. Items(l)' = <<arrived>>
      BY <1>3, <2>2
    <3> QED
      BY <2>2, <3>1 DEF Holds
  <2>3. \A l \in 1..Len(lists) : l # Len(lists) + 1
    BY <1>3
  <2> QED
    BY <1>9, <2>1, <2>2, <2>3
<1>11. \A t \in Times : \A l : l = cache'[t].list /\ l # 0 => l \in 1..Len(lists') /\ ListTime(l)' = t
  <2>1. ASSUME NEW t \in Times, t # Last(stamps), NEW l, l = cache'[t].list, l # 0
        PROVE  l \in 1..Len(lists') /\ ListTime(l)' = t
    <3>1. cache'[t] = cache[t] /\ cache[t].list \in 0..Len(lists)
      BY <1>1, <2>1 DEF TypeOK
    <3>2. l \in 1..Len(lists) /\ l \in 1..Len(lists')
      BY <1>3, <2>1, <3>1
    <3>3. ListTime(l) = t
      BY <2>1, <3>1 DEF State, Lists
    <3> QED
      BY <1>7, <3>2, <3>3
  <2>2. ASSUME NEW t \in Times, t = Last(stamps), NEW l, l = cache'[t].list
        PROVE  l \in 1..Len(lists') /\ ListTime(l)' = t
    <3>1. l = Len(lists) + 1
      BY <1>1, <2>2 DEF TypeOK
    <3> QED
      BY <1>2, <1>3, <1>8, <2>2, <3>1
  <2> QED
    BY <2>1, <2>2
<1>12. \A l, m \in 1..Len(lists'), n \in Numbers : Holds(l, n)' /\ Holds(m, n)' => l = m
  <2>1. SUFFICES ASSUME NEW l \in 1..Len(lists'), NEW m \in 1..Len(lists'), NEW n \in Numbers, Holds(l, n)', Holds(m, n)'
                 PROVE  l = m
    OBVIOUS
  <2>2. n \in Int
    BY BoundAssumption DEF Numbers
  <2>3. CASE l \in 1..Len(lists) /\ m \in 1..Len(lists)
    <3>1. Holds(l, n) /\ Holds(m, n)
      BY <1>3, <1>10, <2>1, <2>3
    <3> QED
      BY <2>3, <3>1 DEF State, Lists
  <2> QED
    BY <1>4, <1>9, <1>10, <2>1, <2>2, <2>3
<1>13. Len(lists) <= Counted
  BY DEF State, Lists
<1>14. Lists'
  <2>1. \A l \in 1..Len(lists') : OneList(l)'
    BY <1>7, <1>8, <1>9
  <2>2. \A t \in Times : (cache[t].list # 0 => ListTime(cache[t].list) = t)'
    <3>1. SUFFICES ASSUME NEW t \in Times, cache'[t].list # 0 PROVE ListTime(cache[t].list)' = t
      OBVIOUS
    <3>2. \A l : l = cache'[t].list => ListTime(l)' = t
      BY <1>11, <3>1
    <3> QED
      BY <3>2 DEF ListTime, Items
  <2>3. Len(lists') <= Counted'
    BY <1>3, <1>4, <1>13
  <2> QED
    BY <1>1, <1>12, <2>1, <2>2, <2>3 DEF Lists
<1> QED
  BY <1>5, <1>14 DEF State

\* The slice of that list grows,
LEMMA GrowKeeps ==
  ASSUME TypeOK, State, Grow
  PROVE  State'
<1> USE DEF Unstamped, Caching
<1>1. /\ setup' = setup /\ time' = time /\ stamps' = stamps /\ arrived' = arrived /\ readings' = readings
      /\ updater = "grow" /\ updater' = "write" /\ cache' = cache /\ target' = target
  BY DEF Grow
<1>2. setup.enabled /\ arrived \in Int
  BY <1>1, LastStamp, NumberFacts DEF State
<1>3. /\ Len(lists') = Len(lists) /\ target \in 1..Len(lists) /\ Len(lists) \in Nat
      /\ \A l \in 1..Len(lists) :
           Items(l)' = Items(l) /\ lists'[l].length = lists[l].length + (IF l = target THEN 1 ELSE 0)
  BY GrowLists, StampFacts
<1>4. Written' = Written /\ Counted = arrived - 1 /\ Counted' = arrived
  BY <1>1, <1>2 DEF Written, Counted
<1>5. Stamping' /\ Clock' /\ Current'
  BY <1>1, <1>2 DEF State, Stamping, Clock, Current, Stored
<1>6. \A l \in 1..Len(lists) : OneList(l) /\ 1 \in 1..Len(Items(l))
  BY ListFacts, EmptySeq DEF State, Lists, OneList
<1>7. ASSUME NEW l \in 1..Len(lists)
      PROVE  OneList(l)' /\ ListTime(l)' = ListTime(l) /\ \A n \in Numbers : Holds(l, n)' <=> Holds(l, n)
  <2>1. Items(l)' = Items(l) /\ OneList(l) /\ 1 \in 1..Len(Items(l))
    BY <1>3, <1>6
  <2>2. lists[l].length = Len(Items(l)) /\ lists[l].length <= arrived - 1 /\ Len(Items(l)) \in Nat
    BY <1>1, <1>4, <2>1, ListFacts DEF OneList
  <2>3. lists'[l].length = (IF l = target THEN Len(Items(l)) + 1 ELSE Len(Items(l))) /\ lists'[l].length <= arrived
    BY <1>2, <1>3, <2>2
  <2> QED
    BY <1>1, <1>4, <2>1, <2>3 DEF OneList, ListTime, Holds
<1>8. \A t \in Times : cache[t].list # 0 => cache[t].list \in 1..Len(lists)
  <2>1. \A t \in Times : cache[t].list \in 0..Len(lists)
    BY DEF TypeOK
  <2> QED
    BY <1>3, <2>1
<1>9. Lists'
  <2>1. Len(lists') <= Counted' /\ target \in 1..Len(lists) /\ ListTime(target)' = stamps[arrived]
    BY <1>1, <1>2, <1>3, <1>4, <1>7 DEF State, Lists
  <2>2. \A t \in Times : (cache[t].list # 0 => ListTime(cache[t].list) = t)'
    BY <1>1, <1>7, <1>8 DEF State, Lists, ListTime, Items
  <2>3. \A l, m \in 1..Len(lists'), n \in Numbers : Holds(l, n)' /\ Holds(m, n)' => l = m
    BY <1>3, <1>7 DEF State, Lists
  <2> QED
    BY <1>1, <1>3, <1>7, <2>1, <2>2, <2>3 DEF Lists
<1> QED
  BY <1>5, <1>9 DEF State

\* And the reading is written there.
LEMMA WriteKeeps ==
  ASSUME TypeOK, State, Write
  PROVE  State'
<1> USE DEF Unstamped, Caching
<1>1. /\ setup' = setup /\ time' = time /\ stamps' = stamps /\ arrived' = arrived /\ readings' = readings
      /\ updater = "write" /\ updater' = "take" /\ cache' = cache /\ target' = target
  BY DEF Write
<1>2. setup.enabled /\ arrived \in Int /\ arrived \in Numbers /\ arrived >= 1
  BY <1>1, LastStamp, NumberFacts DEF State
<1>3. /\ Len(lists') = Len(lists) /\ target \in 1..Len(lists) /\ Len(lists) \in Nat
      /\ \A l \in 1..Len(lists) :
           /\ Items(l)' = IF l = target THEN Append(Items(l), arrived) ELSE Items(l)
           /\ lists'[l].length = lists[l].length
  BY WriteLists, StampFacts
<1>4. Written = arrived - 1 /\ Written' = arrived /\ Counted' = arrived /\ Counted = arrived
  BY <1>1, <1>2 DEF Written, Counted
<1>5. Stamping' /\ Clock' /\ Current'
  BY <1>1, <1>2 DEF State, Stamping, Clock, Current, Stored
<1>6. ASSUME NEW l \in 1..Len(lists)
      PROVE  /\ OneList(l) /\ Len(Items(l)) \in Nat /\ 1 \in 1..Len(Items(l)) /\ lists[l].length <= arrived
             /\ \A i \in 1..Len(Items(l)) : Items(l)[i] <= arrived - 1 /\ Items(l)[i] \in Nat /\ Items(l)[i] \in 1..arrived
  <2>1. OneList(l) /\ Items(l) # << >>
    BY DEF State, Lists, OneList
  <2>2. Len(Items(l)) \in Nat /\ Len(Items(l)) # 0
    BY <2>1, ListFacts, EmptySeq
  <2>3. lists[l].length <= arrived /\ \A i \in 1..Len(Items(l)) : Items(l)[i] \in 1..arrived - 1
    BY <1>4, <2>1 DEF OneList
  <2>4. \A n \in 1..arrived - 1 : n <= arrived - 1 /\ n \in Nat /\ n \in 1..arrived
    BY <1>2
  <2>5. 1 \in 1..Len(Items(l))
    BY <2>2
  <2> QED
    BY <2>1, <2>2, <2>3, <2>4, <2>5
<1>7. ASSUME NEW l \in 1..Len(lists), l # target
      PROVE  OneList(l)' /\ ListTime(l)' = ListTime(l) /\ \A n \in Numbers : Holds(l, n)' <=> Holds(l, n)
  <2>1. Items(l)' = Items(l) /\ lists'[l].length = lists[l].length /\ lists[l].length = Len(Items(l))
    BY <1>3, <1>6, <1>7 DEF OneList
  <2> QED
    BY <1>1, <1>4, <1>6, <2>1 DEF OneList, ListTime, Holds
<1>8. /\ OneList(target)' /\ ListTime(target)' = ListTime(target)
      /\ \A n \in Numbers : Holds(target, n)' <=> Holds(target, n) \/ n = arrived
  <2> DEFINE old == Items(target)
             new == Append(old, arrived)
  <2>1. target' = target /\ Items(target)' = new
    BY <1>1, <1>3 DEF Items
  <2>2. /\ old \in Seq(Numbers) /\ Len(old) \in Nat /\ Len(new) = Len(old) + 1 /\ new[Len(old) + 1] = arrived
        /\ \A i \in 1..Len(old) : new[i] = old[i]
    BY <1>2, <1>3, ListFacts, AppendProperties
  <2>3. OneList(target) /\ 1 \in 1..Len(old)
        /\ \A i \in 1..Len(old) : old[i] <= arrived - 1 /\ old[i] \in Nat /\ old[i] \in 1..arrived
    BY <1>3, <1>6
  <2>4. ListTime(target) = stamps[arrived]
    BY <1>1 DEF State, Lists
  <2>5. \A i \in 1..Len(old) : stamps[old[i]] = stamps[old[1]]
    BY <2>3 DEF OneList
  <2>6. \A i, j \in 1..Len(old) : i < j => old[i] < old[j]
    BY <2>3 DEF OneList
  <2>7. lists[target].length = Len(old) + 1 /\ lists[target].length <= arrived
    BY <1>1, <1>4, <2>3 DEF OneList
  <2>8. stamps[old[1]] = stamps[arrived]
    BY <2>4 DEF ListTime
  <2> HIDE DEF old, new
  <2>9. \A i \in 1..Len(new) : i \in 1..Len(old) \/ i = Len(old) + 1
    BY <2>2
  <2>10. new # << >> /\ new[1] = old[1]
    BY <2>2, <2>3, EmptySeq
  <2>11. \A i \in 1..Len(new) : new[i] \in 1..arrived /\ stamps[new[i]] = stamps[new[1]]
    BY <1>2, <2>2, <2>3, <2>5, <2>8, <2>9, <2>10
  <2>12. \A i, j \in 1..Len(new) : i < j => new[i] < new[j]
    <3>1. SUFFICES ASSUME NEW i \in 1..Len(new), NEW j \in 1..Len(new), i < j PROVE new[i] < new[j]
      OBVIOUS
    <3>2. i \in 1..Len(old)
      BY <2>2, <3>1
    <3>3. CASE j \in 1..Len(old)
      BY <2>2, <2>6, <3>1, <3>2, <3>3
    <3>4. CASE j = Len(old) + 1
      BY <1>2, <2>2, <2>3, <3>2, <3>4
    <3> QED
      BY <2>9, <3>3, <3>4
  <2>13. OneList(target)'
    BY <1>1, <1>3, <1>4, <2>1, <2>2, <2>7, <2>10, <2>11, <2>12 DEF OneList
  <2>14. ListTime(target)' = ListTime(target)
    <3>1. ListTime(target)' = stamps'[new[1]] /\ ListTime(target) = stamps[old[1]]
      BY <2>1 DEF ListTime, old
    <3> QED
      BY <1>1, <2>10, <3>1
  <2>15. \A n \in Numbers : Holds(target, n)' <=> Holds(target, n) \/ n = arrived
    <3>1. \A n \in Numbers : (\E i \in 1..Len(new) : new[i] = n) <=> (\E i \in 1..Len(old) : old[i] = n) \/ n = arrived
      BY <2>2, <2>9
    <3> QED
      BY <2>1, <3>1 DEF Holds, old
  <2> QED
    BY <2>13, <2>14, <2>15
<1>9. \A t \in Times : cache[t].list # 0 => cache[t].list \in 1..Len(lists)
  <2>1. \A t \in Times : cache[t].list \in 0..Len(lists)
    BY DEF TypeOK
  <2> QED
    BY <1>3, <2>1
<1>10. \A l \in 1..Len(lists) : OneList(l)' /\ ListTime(l)' = ListTime(l)
  <2>1. ASSUME NEW l \in 1..Len(lists), l = target PROVE OneList(l)' /\ ListTime(l)' = ListTime(l)
    BY <1>1, <1>8, <2>1 DEF OneList, ListTime, Items
  <2> QED
    BY <1>7, <2>1
<1>11. \A l \in 1..Len(lists), n \in Numbers : Holds(l, n)' => Holds(l, n) \/ (l = target /\ n = arrived)
  <2>1. \A n \in Numbers, l \in 1..Len(lists) : l = target /\ Holds(l, n)' => Holds(l, n) \/ n = arrived
    BY <1>1, <1>8 DEF Holds, Items
  <2> QED
    BY <1>7, <2>1
<1>12. \A l \in 1..Len(lists) : ~Holds(l, arrived)
  BY <1>2, <1>6 DEF Holds
<1>13. Lists'
  <2>1. Len(lists') <= Counted'
    BY <1>3, <1>4 DEF State, Lists
  <2>2. \A t \in Times : (cache[t].list # 0 => ListTime(cache[t].list) = t)'
    BY <1>1, <1>9, <1>10 DEF State, Lists, ListTime, Items
  <2>3. \A l, m \in 1..Len(lists'), n \in Numbers : Holds(l, n)' /\ Holds(m, n)' => l = m
    BY <1>3, <1>11, <1>12 DEF State, Lists
  <2> QED
    BY <1>1, <1>3, <1>10, <2>1, <2>2, <2>3 DEF Lists
<1> QED
  BY <1>5, <1>13 DEF State

LEMMA UpdateKeeps ==
  ASSUME TypeOK, State, Update
  PROVE  State'
BY ArriveKeeps, GetKeeps, SetKeeps, GrowKeeps, WriteKeeps DEF Update

\* A dump, a call and the clock leave the lists alone.
LEMMA AroundKeeps ==
  ASSUME TypeOK, State, UNCHANGED <<setup, updateVars>>, time' = time \/ (Tick /\ time' = time + 1)
  PROVE  State'
<1>1. /\ Stamping' /\ Current'
  BY DEF State, Stamping, Current, Stored
<1>2. Clock'
  BY StampFacts DEF State, Clock
<1>3. Lists'
  BY DEF State, Lists, OneList, Holds, ListTime, Items, Written, Counted
<1> QED
  BY <1>1, <1>2, <1>3 DEF State

-----------------------------------------------------------------------------
(* The other steps keep their types.                                       *)

LEMMA SequenceFacts ==
  ASSUME TypeOK
  PROVE  /\ channel \in Seq(Nil..Torn) /\ received \in Seq(Nil..Torn)
         /\ Len(channel) \in Nat /\ Len(received) \in Nat
         /\ \A i \in 1..Len(channel) : channel[i] \in Nil..Torn
         /\ \A i \in 1..Len(received) : received[i] \in Nil..Torn
BY LenProperties, ElementOfSeq DEF TypeOK

\* What is found in a list.
LEMMA ElementFacts ==
  ASSUME TypeOK, slice.list \in 1..Len(lists), NEW i \in Nat, i >= 1
  PROVE  /\ Element(i) \in Nil..Torn
         /\ i <= slice.room /\ i <= Len(Items(slice.list)) => Element(i) = Items(slice.list)[i] /\ Element(i) \in Numbers
         /\ Element(i) \in Numbers => i <= slice.room /\ i <= Len(Items(slice.list)) /\ Element(i) = Items(slice.list)[i]
<1>1. /\ Len(Items(slice.list)) \in Nat /\ slice.room \in Nat
      /\ \A j \in 1..Len(Items(slice.list)) : Items(slice.list)[j] \in Numbers
  BY ListFacts DEF TypeOK
<1>2. Element(i) = IF i > slice.room THEN Torn ELSE IF i > Len(Items(slice.list)) THEN Nil ELSE Items(slice.list)[i]
  BY DEF Element, Items
<1>3. Numbers = 1..MaxReadings /\ MaxReadings \in Nat /\ Nil = 0 /\ Torn = MaxReadings + 1
  BY NumberFacts
<1>4. Nil \in Nil..Torn /\ Torn \in Nil..Torn /\ Numbers \subseteq Nil..Torn /\ Nil \notin Numbers /\ Torn \notin Numbers
  BY <1>3
<1>5. CASE i > slice.room
  BY <1>1, <1>2, <1>4, <1>5
<1>6. CASE i <= slice.room /\ i > Len(Items(slice.list))
  BY <1>1, <1>2, <1>4, <1>6
<1>7. CASE i <= slice.room /\ i <= Len(Items(slice.list))
  <2>1. i \in 1..Len(Items(slice.list)) /\ ~(i > slice.room) /\ ~(i > Len(Items(slice.list)))
    BY <1>1, <1>7
  <2> QED
    BY <1>1, <1>2, <1>4, <1>7, <2>1
<1> QED
  BY <1>1, <1>5, <1>6, <1>7

\* The readings of the lists that a client can be given.
LEMMA CachedFacts ==
  ASSUME TypeOK, State
  PROVE  /\ Cached \subseteq 1..Written /\ Cached \subseteq Numbers
         /\ \A n \in Cached : \E t \in Times : Live(t) /\ cache[t].list \in 1..Len(lists)
                                              /\ Holds(cache[t].list, n) /\ stamps[n] = t
<1>1. SUFFICES ASSUME NEW n \in Cached
               PROVE  /\ n \in 1..Written /\ n \in Numbers
                      /\ \E t \in Times : Live(t) /\ cache[t].list \in 1..Len(lists)
                                          /\ Holds(cache[t].list, n) /\ stamps[n] = t
  OBVIOUS
<1>2. PICK t \in Times : Live(t) /\ n \in ToSet(lists[cache[t].list].items)
  BY DEF Cached
<1>3. cache[t].list \in 1..Len(lists)
  <2>1. cache[t].list \in 0..Len(lists) /\ Len(lists) \in Nat /\ cache[t].list # 0
    BY <1>2, StampFacts DEF TypeOK, Live
  <2> QED
    BY <2>1
<1>4. PICK i \in 1..Len(Items(cache[t].list)) : Items(cache[t].list)[i] = n
  <2>1. DOMAIN Items(cache[t].list) = 1..Len(Items(cache[t].list))
    BY <1>3, ListFacts, LenProperties
  <2> QED
    BY <1>2, <2>1 DEF ToSet, Items
<1>5. OneList(cache[t].list) /\ ListTime(cache[t].list) = t
  BY <1>2, <1>3 DEF State, Lists, Live
<1>6. n \in 1..Written /\ stamps[n] = t
  BY <1>4, <1>5 DEF OneList, ListTime
<1>7. n \in Numbers
  BY <1>3, <1>4, ListFacts
<1> QED
  BY <1>2, <1>3, <1>4, <1>6, <1>7 DEF Holds

LEMMA SinceFacts ==
  ASSUME TypeOK, State
  PROVE  Since \in Times /\ Since \in Nat /\ Since <= time /\ time \in Nat
<1>1. time \in Times /\ time \in Nat /\ Times \subseteq Nat
  BY StampFacts, BoundAssumption DEF TypeOK, Times
<1>2. CASE updater \in Caching
  <2>1. Since = stamps[arrived] /\ arrived \in 1..Len(stamps) /\ stamps[arrived] \in Times
    BY <1>2, LastStamp, NumberFacts DEF Since, Caching, State, Numbers
  <2> QED
    BY <1>1, <2>1 DEF State, Clock
<1>3. CASE updater \notin Caching
  BY <1>1, <1>3 DEF Since, Caching
<1> QED
  BY <1>2, <1>3

LEMMA ReaderTypes ==
  ASSUME TypeOK, Tick \/ StreamSticks \/ Ask \/ LookUp
  PROVE  TypeOK'
<1>1. CASE Tick
  <2>1. time' \in Times
    BY <1>1, BoundAssumption DEF Tick, Times, TypeOK
  <2> QED
    BY <1>1, <2>1, ZenonT(40) DEF Tick, TypeOK
<1>2. CASE StreamSticks
  BY <1>2 DEF StreamSticks, TypeOK
<1>3. CASE Ask \/ LookUp
  <2>1. reader' \in {<<d>> : d \in SUBSET Devices} \cup {<< >>}
    <3>1. CASE Ask
      BY <3>1, SetupFacts DEF Ask
    <3>2. CASE LookUp
      <4>1. PICK d \in SUBSET Devices : reader = <<d>>
        BY <3>2 DEF LookUp, TypeOK
      <4>2. reader[1] = d /\ \A e : d \ {e} \in SUBSET Devices
        BY <4>1
      <4> QED
        BY <3>2, <4>2 DEF LookUp
    <3> QED
      BY <1>3, <3>1, <3>2
  <2>2. UNCHANGED <<setup, time, updateVars, callVars, dumpVars, channel, crashed>>
    BY <1>3 DEF Ask, LookUp
  <2> QED
    BY <2>1, <2>2 DEF TypeOK
<1> QED
  BY <1>1, <1>2, <1>3

LEMMA DumpTypes ==
  ASSUME TypeOK, State, DumpPlace, Dump
  PROVE  TypeOK'
<1> DEFINE Kept == UNCHANGED <<setup, time, updateVars, reader, callVars, crashed>>
<1>1. Kept
  BY DEF Dump, Parse, DumpEnds, RangeOver, ReadLength, LoadElement, LoadCurrent, SendItem
<1>2. MaxReadings \in Nat /\ Numbers = 1..MaxReadings /\ Len(lists) \in Nat /\ setup.enabled \in BOOLEAN
  BY NumberFacts, StampFacts, SetupFacts
<1>3. CASE Parse
  <2>1. \A t \in Times : Live(t) => cache[t].list \in Numbers
    <3>1. Len(lists) <= MaxReadings
      BY <1>2, NumberFacts DEF State, Lists
    <3>2. \A t \in Times : cache[t].list \in 0..Len(lists)
      BY DEF TypeOK
    <3> QED
      BY <1>2, <3>1, <3>2 DEF Live
  <2>2. \A d \in Devices : readings[d] # Nil => readings[d] \in Numbers
    BY DEF TypeOK
  <2>3. todo' \subseteq Numbers
    <3>1. \/ todo' = todo
          \/ todo' = {cache[t].list : t \in {u \in Times : Live(u) /\ InWindow(u)}}
          \/ todo' = {readings[d] : d \in Devices} \ {Nil}
      BY <1>3 DEF Parse
    <3> QED
      BY <2>1, <2>2, <3>1, SMTT(20) DEF TypeOK
  <2>4. dump' \in {"closed", "list", "current"} /\ UNCHANGED <<slice, next, item, channel>>
    BY <1>3 DEF Parse, Closed
  <2> QED
    BY <1>1, <2>3, <2>4 DEF TypeOK
<1>4. CASE DumpEnds
  <2>1. dump' = "closed" /\ UNCHANGED <<todo, slice, next, item, channel>>
    BY <1>4 DEF DumpEnds, Closed
  <2> QED
    BY <1>1, <2>1 DEF TypeOK
<1>5. CASE RangeOver
  <2>1. PICK l \in todo : slice' = [list |-> l, room |-> Room[lists[l].length], length |-> 0] /\ todo' = todo \ {l}
    BY <1>5 DEF RangeOver
  <2>2. l \in 1..Len(lists)
    BY <1>5 DEF DumpPlace, RangeOver
  <2>3. Room[lists[l].length] \in Nat
    BY <2>2, ListFacts, RoomAssumption
  <2>4. slice' \in [list : 0..Len(lists), room : Nat, length : 0..MaxReadings]
    BY <1>2, <2>1, <2>2, <2>3
  <2>5. dump' = "header" /\ UNCHANGED <<next, item, channel>>
    BY <1>5 DEF RangeOver
  <2> QED
    BY <1>1, <2>1, <2>4, <2>5 DEF TypeOK
<1>6. CASE ReadLength
  <2>1. slice.list \in 1..Len(lists)
    BY <1>6 DEF DumpPlace, AtSlice, ReadLength
  <2>2. lists[slice.list].length \in 0..MaxReadings
    BY <1>2, <2>1, ListFacts
  <2>3. slice' = [slice EXCEPT !.length = lists[slice.list].length] /\ next' = 1 /\ dump' = "range"
        /\ UNCHANGED <<todo, item, channel>>
    BY <1>6 DEF ReadLength
  <2>4. slice' \in [list : 0..Len(lists), room : Nat, length : 0..MaxReadings]
    BY <2>2, <2>3 DEF TypeOK
  <2>5. next' \in 1..(MaxReadings + 1)
    BY <1>2, <2>3
  <2> QED
    BY <1>1, <2>3, <2>4, <2>5 DEF TypeOK
<1>7. CASE LoadElement
  <2>1. CASE next <= slice.length
    <3>1. slice.list \in 1..Len(lists)
      BY <1>7 DEF DumpPlace, AtSlice, LoadElement
    <3>2. next \in Nat /\ next >= 1 /\ slice.length <= MaxReadings /\ slice.length \in Nat
      BY <1>2 DEF TypeOK
    <3>3. item' = Element(next) /\ next' = next + 1 /\ dump' = "send" /\ UNCHANGED <<todo, slice, channel>>
      BY <1>7, <2>1 DEF LoadElement
    <3>4. item' \in Nil..Torn /\ next' \in 1..(MaxReadings + 1)
      BY <1>2, <2>1, <3>1, <3>2, <3>3, ElementFacts
    <3> QED
      BY <1>1, <3>3, <3>4 DEF TypeOK
  <2>2. CASE ~(next <= slice.length)
    <3>1. dump' = "list" /\ UNCHANGED <<item, next, todo, slice, channel>>
      BY <1>7, <2>2 DEF LoadElement
    <3> QED
      BY <1>1, <3>1 DEF TypeOK
  <2> QED
    BY <2>1, <2>2
<1>8. CASE LoadCurrent
  <2>1. PICK n \in todo : item' = n /\ todo' = todo \ {n}
    BY <1>8 DEF LoadCurrent, Value
  <2>2. item' \in Nil..Torn /\ todo' \subseteq Numbers
    <3>1. \A k \in Numbers : k \in Nil..Torn
      BY NumberFacts
    <3> QED
      BY <2>1, <3>1 DEF TypeOK
  <2>3. dump' = "send" /\ UNCHANGED <<slice, next, channel>>
    BY <1>8 DEF LoadCurrent
  <2> QED
    BY <1>1, <2>2, <2>3 DEF TypeOK
<1>9. CASE SendItem
  <2>1. channel' = Append(channel, item) /\ Len(channel) < Capacity /\ dump' \in {"range", "current"}
        /\ UNCHANGED <<todo, slice, next, item>>
    BY <1>9 DEF SendItem, HasRoom
  <2>2. channel' \in Seq(Nil..Torn) /\ Len(channel') = Len(channel) + 1
    BY <2>1, AppendProperties DEF TypeOK
  <2>3. Len(channel') <= Capacity
    BY <2>1, <2>2, SequenceFacts, BoundAssumption
  <2> QED
    BY <1>1, <2>1, <2>2, <2>3 DEF TypeOK
<1> QED
  BY <1>3, <1>4, <1>5, <1>6, <1>7, <1>8, <1>9 DEF Dump

LEMMA CallTypes ==
  ASSUME TypeOK, State, Call
  PROVE  TypeOK'
<1>1. (IF updater = "store" THEN arrived - 1 ELSE arrived) \in 0..MaxReadings
  BY NumberFacts DEF State, Stamping
<1>2. known' \in [cached : SUBSET Numbers, arrived : 0..MaxReadings, since : Times]
  BY <1>1, CachedFacts, SinceFacts DEF Call
<1>3. /\ handler' = "receive" /\ dump' = "parse"
      /\ UNCHANGED <<setup, time, updateVars, reader, todo, slice, next, item, channel, received, crashed>>
  BY DEF Call
<1> QED
  BY <1>2, <1>3 DEF TypeOK

LEMMA HandleTypes ==
  ASSUME TypeOK, Handle
  PROVE  TypeOK'
<1>1. CASE Receive
  <2>1. /\ channel # << >> /\ channel' = Tail(channel)
        /\ handler' \in {"receive", "gone"} /\ crashed' \in BOOLEAN
        /\ received' = received \/ received' = Append(received, Head(channel))
        /\ UNCHANGED <<setup, time, updateVars, reader, known, dumpVars>>
    BY <1>1 DEF Receive, TypeOK
  <2>2. Head(channel) \in Nil..Torn /\ channel' \in Seq(Nil..Torn) /\ Len(channel') = Len(channel) - 1
    BY <2>1, SequenceFacts, HeadTailProperties
  <2>3. received' \in Seq(Nil..Torn)
    <3>1. \A e \in Nil..Torn : Append(received, e) \in Seq(Nil..Torn)
      BY SequenceFacts, AppendProperties
    <3> QED
      BY <2>1, <2>2, <3>1, SequenceFacts
  <2>4. Len(channel') <= Capacity
    BY <2>2, SequenceFacts, BoundAssumption DEF TypeOK
  <2> QED
    BY <2>1, <2>2, <2>3, <2>4 DEF TypeOK
<1>2. CASE Answer
  BY <1>2 DEF Answer, TypeOK
<1> QED
  BY <1>1, <1>2 DEF Handle

-----------------------------------------------------------------------------
(* The lists only grow, and only by the reading that is being cached.      *)

\* What an append may change.
AppendOnly ==
  /\ Len(lists) <= Len(lists') /\ Len(lists') \in Nat
  /\ Written' = Written \/ (Written = arrived - 1 /\ Written' = arrived)
  /\ \A n \in 1..Written : stamps'[n] = stamps[n]
  /\ \A l \in 1..Len(lists) :
       /\ ListTime(l)' = ListTime(l)
       /\ Len(Items(l)) <= Len(Items(l)') /\ Len(Items(l)') \in Nat
       /\ \A i \in 1..Len(Items(l)) : Items(l)'[i] = Items(l)[i]
       /\ \A i \in 1..Len(Items(l)') : i \notin 1..Len(Items(l)) => Items(l)'[i] = Written + 1
       /\ lists'[l].length >= lists[l].length
       /\ lists'[l].length = lists[l].length \/ ListTime(l) = Since

\* How many are stamped, and how many of them are in the lists.
LEMMA WrittenFacts ==
  ASSUME TypeOK, State
  PROVE  /\ Written \in Int /\ Written <= arrived
         /\ \A n \in 1..Written : n \in Nat
         /\ setup.enabled => Written <= Len(stamps)
BY NumberFacts, SetupFacts DEF State, Stamping, Written, Unstamped, Caching

LEMMA UpdateAppends ==
  ASSUME TypeOK, State, Update
  PROVE  AppendOnly
<1> USE DEF Unstamped, Caching
<1>1. Len(lists) \in Nat /\ arrived \in Int /\ Written \in Int /\ setup.enabled \in BOOLEAN
  BY StampFacts, NumberFacts, SetupFacts
<1>2. \A l \in 1..Len(lists) :
        /\ OneList(l) /\ 1 \in 1..Len(Items(l)) /\ Len(Items(l)) \in Nat /\ lists[l].length \in Int
        /\ \A i \in 1..Len(Items(l)) : Items(l)[i] \in 1..Written
  BY ListFacts, EmptySeq, BoundAssumption DEF State, Lists, OneList, Numbers
<1>3. CASE Take \/ Store \/ Dispatch \/ Stamp \/ Get
  <2>1. lists' = lists
    BY <1>3 DEF Take, Store, Dispatch, Stamp, Get
  <2>2. Written' = Written \/ (Written = arrived - 1 /\ Written' = arrived)
    BY <1>1, <1>3 DEF Take, Store, Dispatch, Stamp, Get, Written
  <2>3. \A n \in 1..Written : stamps'[n] = stamps[n]
    <3>1. CASE Stamp
      <4>1. stamps' = Append(stamps, time) /\ setup.enabled /\ \A n \in 1..Written : n \in 1..Len(stamps)
        <5>1. setup.enabled
          BY <1>1, <3>1 DEF State, Stamping, Stamp
        <5> QED
          BY <1>1, <3>1, <5>1, StampFacts, WrittenFacts DEF Stamp
      <4> QED
        BY <4>1, AppendProperties DEF TypeOK
    <3> QED
      BY <1>3, <3>1 DEF Take, Store, Dispatch, Get
  <2>4. ASSUME NEW l \in 1..Len(lists) PROVE Items(l)' = Items(l) /\ ListTime(l)' = ListTime(l)
    BY <1>2, <2>1, <2>3 DEF Items, ListTime
  <2> QED
    BY <1>1, <1>2, <2>1, <2>2, <2>3, <2>4 DEF AppendOnly
<1>4. CASE Set
  <2>1. /\ Len(lists') = Len(lists) + 1
        /\ \A l \in 1..Len(lists) : Items(l)' = Items(l) /\ lists'[l].length = lists[l].length
    BY <1>4, SetLists
  <2>2. stamps' = stamps /\ Written = arrived - 1 /\ Written' = arrived
    BY <1>4 DEF Set, Written
  <2>3. ASSUME NEW l \in 1..Len(lists) PROVE ListTime(l)' = ListTime(l)
    BY <1>2, <2>1, <2>2 DEF ListTime
  <2> QED
    BY <1>1, <1>2, <2>1, <2>2, <2>3 DEF AppendOnly
<1>5. CASE Grow
  <2>1. /\ Len(lists') = Len(lists)
        /\ \A l \in 1..Len(lists) :
              Items(l)' = Items(l) /\ lists'[l].length = lists[l].length + (IF l = target THEN 1 ELSE 0)
    BY <1>5, GrowLists
  <2>2. stamps' = stamps /\ Written' = Written
    BY <1>5 DEF Grow, Written
  <2>3. ASSUME NEW l \in 1..Len(lists) PROVE ListTime(l)' = ListTime(l)
    BY <1>2, <2>1, <2>2 DEF ListTime
  <2>4. ListTime(target) = Since
    BY <1>5, LastStamp DEF State, Lists, Grow, Since
  <2>5. ASSUME NEW l \in 1..Len(lists)
        PROVE  /\ Items(l)' = Items(l) /\ lists'[l].length >= lists[l].length
               /\ lists'[l].length = lists[l].length \/ ListTime(l) = Since
    BY <1>2, <2>1, <2>4
  <2> QED
    BY <1>1, <1>2, <2>1, <2>2, <2>3, <2>5 DEF AppendOnly
<1>6. CASE Write
  <2>1. /\ Len(lists') = Len(lists) /\ target \in 1..Len(lists)
        /\ \A l \in 1..Len(lists) :
             /\ Items(l)' = IF l = target THEN Append(Items(l), arrived) ELSE Items(l)
             /\ lists'[l].length = lists[l].length
    BY <1>6, WriteLists
  <2>2. stamps' = stamps /\ Written = arrived - 1 /\ Written' = arrived
    BY <1>6 DEF Write, Written
  <2>3. arrived \in Numbers
    BY <1>6, LastStamp DEF State, Write
  <2>4. ASSUME NEW l \in 1..Len(lists), l = target
        PROVE  /\ Len(Items(l)') = Len(Items(l)) + 1 /\ Items(l)'[Len(Items(l)) + 1] = arrived
               /\ \A i \in 1..Len(Items(l)) : Items(l)'[i] = Items(l)[i]
    <3>1. Items(l)' = Append(Items(l), arrived) /\ Items(l) \in Seq(Numbers)
      BY <2>1, <2>4, ListFacts
    <3>2. /\ Len(Append(Items(l), arrived)) = Len(Items(l)) + 1
          /\ Append(Items(l), arrived)[Len(Items(l)) + 1] = arrived
          /\ \A i \in 1..Len(Items(l)) : Append(Items(l), arrived)[i] = Items(l)[i]
      BY <2>3, <3>1, AppendProperties
    <3> QED
      BY <3>1, <3>2
  <2>5. ASSUME NEW l \in 1..Len(lists)
        PROVE  /\ Len(Items(l)) <= Len(Items(l)') /\ Len(Items(l)') \in Nat
               /\ \A i \in 1..Len(Items(l)) : Items(l)'[i] = Items(l)[i]
               /\ \A i \in 1..Len(Items(l)') : i \notin 1..Len(Items(l)) => Items(l)'[i] = arrived
    <3>1. CASE l = target
      <4>1. \A i \in 1..Len(Items(l)) + 1 : i \notin 1..Len(Items(l)) => i = Len(Items(l)) + 1
        BY <1>2
      <4> QED
        BY <1>2, <2>4, <3>1, <4>1
    <3>2. CASE l # target
      BY <1>2, <2>1, <3>2
    <3> QED
      BY <3>1, <3>2
  <2>6. ASSUME NEW l \in 1..Len(lists) PROVE ListTime(l)' = ListTime(l)
    BY <1>2, <2>2, <2>5 DEF ListTime
  <2>7. arrived = Written + 1
    BY <1>1, <2>2
  <2> QED
    BY <1>1, <1>2, <2>1, <2>2, <2>5, <2>6, <2>7 DEF AppendOnly
<1> QED
  BY <1>3, <1>4, <1>5, <1>6 DEF Update

\* Any other step appends nothing.
LEMMA AroundAppends ==
  ASSUME TypeOK, State, UNCHANGED updateVars
  PROVE  AppendOnly
<1>1. /\ Len(lists) \in Nat /\ Written' = Written
      /\ \A l \in 1..Len(lists) : Items(l)' = Items(l) /\ ListTime(l)' = ListTime(l) /\ lists'[l] = lists[l]
  BY StampFacts DEF Written, Items, ListTime
<1>2. \A l \in 1..Len(lists) : Len(Items(l)) \in Nat /\ lists[l].length \in Int
  BY ListFacts, BoundAssumption DEF Numbers
<1> QED
  BY <1>1, <1>2 DEF AppendOnly

\* The steps of updateReadings, of Read and of the clock.
Elsewhere == Tick \/ Update \/ StreamSticks \/ Ask \/ LookUp

LEMMA ElsewhereKeeps ==
  ASSUME TypeOK, State, Elsewhere
  PROVE  /\ TypeOK' /\ State' /\ AppendOnly
         /\ UNCHANGED <<setup, callVars, dumpVars, channel, crashed>>
<1>1. CASE Update
  <2>1. UNCHANGED <<setup, callVars, dumpVars, channel, crashed>>
    BY <1>1 DEF Update, Take, Store, Dispatch, Stamp, Get, Set, Grow, Write
  <2> QED
    BY <1>1, <2>1, UpdateTypes, UpdateKeeps, UpdateAppends
<1>2. CASE StreamSticks
  <2>1. TypeOK' /\ State'
    BY <1>2, ReaderTypes, ArriveKeeps
  <2>2. /\ lists' = lists /\ stamps' = stamps /\ Written' = Written
        /\ UNCHANGED <<setup, callVars, dumpVars, channel, crashed>>
    BY <1>2 DEF StreamSticks, Written, Unstamped, Caching
  <2>3. /\ Len(lists) \in Nat /\ \A l \in 1..Len(lists) : Len(Items(l)) \in Nat /\ lists[l].length \in Int
        /\ \A l \in 1..Len(lists) : Items(l)' = Items(l) /\ ListTime(l)' = ListTime(l)
    BY <2>2, StampFacts, ListFacts, BoundAssumption DEF Numbers, Items, ListTime
  <2> QED
    BY <2>1, <2>2, <2>3 DEF AppendOnly
<1>3. CASE Tick \/ Ask \/ LookUp
  <2>1. UNCHANGED <<setup, updateVars, callVars, dumpVars, channel, crashed>>
    BY <1>3 DEF Tick, Ask, LookUp
  <2>2. time' = time \/ (Tick /\ time' = time + 1)
    BY <1>3 DEF Tick, Ask, LookUp
  <2>3. TypeOK'
    BY <1>3, ReaderTypes
  <2>4. State'
    BY <2>1, <2>2, AroundKeeps
  <2>5. AppendOnly
    BY <2>1, AroundAppends
  <2> QED
    BY <2>1, <2>3, <2>4, <2>5
<1> QED
  BY <1>1, <1>2, <1>3 DEF Elsewhere

\* The steps of ReadCache and of its goroutine.
LEMMA AnswerKeeps ==
  ASSUME TypeOK, State, DumpPlace, Call \/ Handle \/ Dump
  PROVE  /\ TypeOK' /\ State' /\ AppendOnly
         /\ UNCHANGED <<setup, time, updateVars, reader>>
<1>1. UNCHANGED <<setup, time, updateVars, reader>>
  BY DEF Call, Handle, Receive, Answer, Dump, Parse, DumpEnds, RangeOver, ReadLength, LoadElement, LoadCurrent, SendItem
<1>2. TypeOK'
  BY CallTypes, HandleTypes, DumpTypes
<1>3. State'
  BY <1>1, AroundKeeps
<1> QED
  BY <1>1, <1>2, <1>3, AroundAppends

-----------------------------------------------------------------------------
(* Where a dump is.                                                        *)

LEMMA PlaceKeeps ==
  ASSUME TypeOK, State, DumpPlace, Next
  PROVE  DumpPlace'
<1> USE DEF DumpPlace, AtSlice, Unparsed
<1>1. setup.enabled \in BOOLEAN /\ Len(lists) \in Nat
  BY SetupFacts, StampFacts
<1>2. CASE Elsewhere
  <2>1. Len(lists) <= Len(lists') /\ Len(lists') \in Nat /\ UNCHANGED <<setup, callVars, dumpVars, channel, crashed>>
    BY <1>2, ElsewhereKeeps DEF AppendOnly
  <2>2. 1..Len(lists) \subseteq 1..Len(lists')
    BY <1>1, <2>1
  <2> QED
    BY <2>1, <2>2
<1>3. CASE Call
  <2>1. /\ handler = "idle" /\ handler' = "receive" /\ dump = "off" /\ dump' = "parse"
        /\ UNCHANGED <<setup, lists, todo, slice, channel, received, crashed>>
    BY <1>3 DEF Call
  <2> QED
    BY <1>1, <2>1
<1>4. CASE Receive
  <2>1. /\ handler = "receive" /\ handler' \in {"receive", "gone"} /\ channel # << >>
        /\ crashed' => handler' = "receive"
        /\ UNCHANGED <<setup, lists, todo, slice, dump>>
    BY <1>4 DEF Receive, Next
  <2>2. dump \notin {"off", "parse"} /\ ~Unparsed
    BY <2>1
  <2> QED
    BY <1>1, <2>1, <2>2
<1>5. CASE Answer
  <2>1. /\ handler = "receive" /\ handler' = "answered" /\ dump = "closed" /\ channel = << >> /\ ~crashed'
        /\ UNCHANGED <<setup, lists, dumpVars, channel, received>>
    BY <1>5 DEF Answer, Next
  <2> QED
    BY <1>1, <2>1
<1>6. CASE Parse
  <2>1. dump = "parse" /\ handler # "idle" /\ UNCHANGED <<setup, lists, slice, channel, received, crashed, handler>>
    BY <1>6 DEF Parse
  <2>2. CASE Unparsed
    BY <1>1, <1>6, <2>1, <2>2 DEF Parse, Closed
  <2>3. CASE ~Unparsed /\ setup.enabled
    <3>1. todo' = {cache[t].list : t \in {u \in Times : Live(u) /\ InWindow(u)}} /\ dump' = "list"
      BY <1>6, <2>3 DEF Parse
    <3>2. \A t \in Times : cache[t].list \in 0..Len(lists)
      BY DEF TypeOK
    <3>3. todo' \subseteq 1..Len(lists)
      BY <1>1, <3>1, <3>2 DEF Live
    <3> QED
      BY <1>1, <2>1, <2>3, <3>1, <3>3
  <2>4. CASE ~Unparsed /\ ~setup.enabled
    <3>1. dump' = "current"
      BY <1>6, <2>4 DEF Parse
    <3> QED
      BY <1>1, <2>1, <2>4, <3>1
  <2> QED
    BY <2>2, <2>3, <2>4
<1>7. CASE DumpEnds
  <2>1. dump \in {"list", "current"} /\ todo = {} /\ dump' = "closed"
        /\ UNCHANGED <<setup, lists, todo, slice, channel, received, crashed, handler>>
    BY <1>7 DEF DumpEnds, Closed
  <2> QED
    BY <1>1, <2>1
<1>8. CASE RangeOver
  <2>1. PICK l \in todo : slice' = [list |-> l, room |-> Room[lists[l].length], length |-> 0] /\ todo' = todo \ {l}
    BY <1>8 DEF RangeOver
  <2>2. dump = "list" /\ dump' = "header" /\ UNCHANGED <<setup, lists, channel, received, crashed, handler>>
    BY <1>8 DEF RangeOver
  <2>3. slice'.list = l /\ l \in 1..Len(lists)
    BY <2>1, <2>2
  <2> QED
    BY <1>1, <2>1, <2>2, <2>3
<1>9. CASE ReadLength
  <2>1. slice'.list = slice.list
    BY <1>9 DEF ReadLength, TypeOK
  <2>2. dump = "header" /\ dump' = "range" /\ UNCHANGED <<setup, lists, todo, channel, received, crashed, handler>>
    BY <1>9 DEF ReadLength
  <2> QED
    BY <1>1, <2>1, <2>2
<1>10. CASE LoadElement
  <2>1. dump = "range" /\ dump' \in {"send", "list"} /\ UNCHANGED <<setup, lists, todo, slice, channel, received, crashed, handler>>
    BY <1>10 DEF LoadElement
  <2> QED
    BY <1>1, <2>1
<1>11. CASE LoadCurrent
  <2>1. dump = "current" /\ dump' = "send" /\ UNCHANGED <<setup, lists, slice, channel, received, crashed, handler>>
    BY <1>11 DEF LoadCurrent
  <2> QED
    BY <1>1, <2>1
<1>12. CASE SendItem
  <2>1. dump = "send" /\ dump' = (IF setup.enabled THEN "range" ELSE "current")
        /\ UNCHANGED <<setup, lists, todo, slice, received, crashed, handler>>
    BY <1>12 DEF SendItem
  <2> QED
    BY <1>1, <2>1
<1> QED
  BY <1>2, <1>3, <1>4, <1>5, <1>6, <1>7, <1>8, <1>9, <1>10, <1>11, <1>12 DEF Next, Handle, Dump, Elsewhere

\* What a call knew stays true of the past.
LEMMA KnowledgeKeeps ==
  ASSUME TypeOK, State, DumpPlace, Knowledge, Next
  PROVE  Knowledge'
<1> USE DEF Unstamped, Caching
<1>1. CASE Elsewhere
  <2>1. /\ Written' = Written \/ (Written = arrived - 1 /\ Written' = arrived)
        /\ known' = known /\ handler' = handler /\ setup' = setup
    BY <1>1, ElsewhereKeeps DEF AppendOnly
  <2>2. Written' \in Int /\ Written' >= Written /\ Written \in Int
    BY <2>1, NumberFacts
  <2>3. known.cached \subseteq 1..Written'
    BY <2>1, <2>2 DEF Knowledge
  <2>4. Stored' \in Int /\ Stored' >= Stored /\ Stored \in Int
    <3>1. arrived \in Int
      BY NumberFacts
    <3>2. CASE Take
      BY <3>1, <3>2 DEF Take, Stored
    <3>3. CASE Store
      BY <3>1, <3>3 DEF Store, Stored
    <3>4. CASE Dispatch \/ StreamSticks \/ Stamp \/ Get \/ Set \/ Grow \/ Write
      BY <3>1, <3>4 DEF Dispatch, StreamSticks, Stamp, Get, Set, Grow, Write, Stored
    <3>5. CASE Tick \/ Ask \/ LookUp
      BY <3>1, <3>5 DEF Tick, Ask, LookUp, Stored
    <3> QED
      BY <1>1, <3>2, <3>3, <3>4, <3>5 DEF Elsewhere, Update
  <2>5. Since' \in Int /\ Since' >= Since /\ Since \in Int
    <3>1. Since \in Int /\ Since <= time /\ time \in Int
      BY SinceFacts
    <3>2. CASE Tick
      BY <3>1, <3>2 DEF Tick, Since
    <3>3. CASE Take \/ Store \/ Dispatch \/ StreamSticks \/ Ask \/ LookUp \/ Get \/ Grow
      BY <3>1, <3>3 DEF Take, Store, Dispatch, StreamSticks, Ask, LookUp, Get, Grow, Since
    <3>4. CASE Set \/ Write
      BY <3>1, <3>4 DEF Set, Write, Since
    <3>5. CASE Stamp
      <4>1. Last(stamps)' = time
        <5>1. stamps' = Append(stamps, time) /\ stamps \in Seq(Times) /\ time \in Times
          BY <3>5 DEF Stamp, TypeOK
        <5>2. Len(stamps') = Len(stamps) + 1 /\ stamps'[Len(stamps) + 1] = time
          BY <5>1, AppendProperties
        <5> QED
          BY <5>2 DEF Last
      <4> QED
        BY <3>1, <3>5, <4>1 DEF Stamp, Since
    <3> QED
      BY <1>1, <3>2, <3>3, <3>4, <3>5 DEF Elsewhere, Update
  <2>6. known.arrived \in Int /\ known.since \in Int
    BY BoundAssumption DEF TypeOK, Times
  <2> QED
    BY <2>1, <2>3, <2>4, <2>5, <2>6 DEF Knowledge
<1>2. CASE Handle \/ Dump
  <2>1. UNCHANGED <<setup, time, updateVars>>
    BY <1>2, AnswerKeeps
  <2>2. known' = known /\ (handler = "idle" => handler' = "idle")
    BY <1>2 DEF Handle, Receive, Answer, Dump, Parse, DumpEnds, RangeOver, ReadLength, LoadElement, LoadCurrent, SendItem
  <2> QED
    BY <2>1, <2>2 DEF Knowledge, Written, Stored, Since
<1>3. CASE Call
  <2>1. UNCHANGED <<setup, time, updateVars>>
    BY <1>3, AnswerKeeps
  <2>2. known' = [cached |-> Cached, since |-> Since, arrived |-> Stored]
    BY <1>3 DEF Call, Stored
  <2>3. Written' = Written /\ Stored' = Stored /\ Since' = Since /\ Since \in Int /\ Stored \in Int
    BY <2>1, SinceFacts, NumberFacts DEF Written, Stored, Since
  <2> QED
    BY <2>2, <2>3, CachedFacts DEF Knowledge
<1> QED
  BY <1>1, <1>2, <1>3 DEF Next, Elsewhere

Base == TypeOK /\ State /\ DumpPlace /\ Knowledge

LEMMA BaseInit == Init => Base
<1> SUFFICES ASSUME Init PROVE Base
  OBVIOUS
<1>1. TypeOK /\ State
  BY StateInit
<1>2. DumpPlace
  BY SetupAssumption DEF Init, DumpPlace, AtSlice
<1>3. Knowledge
  BY NumberFacts, <1>1 DEF Init, Knowledge, Stored
<1> QED
  BY <1>1, <1>2, <1>3 DEF Base

LEMMA BaseNext == Base /\ [Next]_vars => Base'
<1>1. ASSUME Base, Next PROVE Base'
  <2>1. TypeOK' /\ State'
    BY <1>1, ElsewhereKeeps, AnswerKeeps DEF Base, Next, Elsewhere
  <2> QED
    BY <1>1, <2>1, PlaceKeeps, KnowledgeKeeps DEF Base
<1>2. ASSUME Base, UNCHANGED vars PROVE Base'
  <2>1. TypeOK'
    BY <1>2, SMTT(20) DEF Base, TypeOK, vars
  <2>2. State'
    BY <1>2 DEF Base, State, Stamping, Clock, Lists, OneList, Holds, ListTime, Items, Current, Stored, Written, Counted, vars
  <2>3. DumpPlace' /\ Knowledge'
    BY <1>2 DEF Base, DumpPlace, AtSlice, Unparsed, Knowledge, Written, Stored, Since, vars
  <2> QED
    BY <2>1, <2>2, <2>3 DEF Base
<1> QED
  BY <1>1, <1>2

LEMMA BaseAlways == Spec => []Base
BY BaseInit, BaseNext, PTL DEF Spec

\* The state always has its type: in particular no list is longer than the readings
\* that arrived, an append has its list, and a dump ranges over a list that exists.
THEOREM TypeCorrect == Spec => []TypeOK
<1>1. Base => TypeOK
  BY DEF Base
<1> QED
  BY <1>1, BaseAlways, PTL

-----------------------------------------------------------------------------
(* A window that is over is safe from the race.                            *)

LEMMA SoundAppend ==
  ASSUME NEW q \in Seq(Nil..Torn), Sound(q), NEW n \in Numbers, TypeOK
  PROVE  Sound(Append(q, n))
<1>1. /\ Len(Append(q, n)) = Len(q) + 1 /\ Len(q) \in Nat /\ Append(q, n)[Len(q) + 1] = n
      /\ \A i \in 1..Len(q) : Append(q, n)[i] = q[i]
  <2>1. n \in Nil..Torn
    BY NumberFacts
  <2> QED
    BY <2>1, AppendProperties, LenProperties
<1>2. \A i \in 1..Len(q) + 1 : i \in 1..Len(q) \/ i = Len(q) + 1
  BY <1>1
<1> QED
  BY <1>1, <1>2 DEF Sound

LEMMA SoundTail ==
  ASSUME NEW q \in Seq(Nil..Torn), Sound(q), q # << >>
  PROVE  Head(q) \in Numbers /\ Sound(Tail(q))
<1>1. /\ Len(q) \in Nat /\ Len(q) >= 1 /\ Head(q) = q[1] /\ Len(Tail(q)) = Len(q) - 1
      /\ \A i \in 1..Len(Tail(q)) : Tail(q)[i] = q[i + 1]
  BY HeadTailProperties, LenProperties, EmptySeq
<1>2. \A i \in 1..Len(q) - 1 : i + 1 \in 1..Len(q)
  BY <1>1
<1> QED
  BY <1>1, <1>2 DEF Sound

\* What the lists have to do with the window.
LEMMA PastLists ==
  ASSUME Base, Past, setup.enabled, ~Unparsed
  PROVE  /\ setup.window.end \in Times /\ setup.window.end \in Int /\ setup.window.end < Since
         /\ \A l \in 1..Len(lists) : ListTime(l) \in Int
         /\ \A l \in 1..Len(lists) : ListTime(l) <= setup.window.end =>
              ListTime(l) # Since /\ lists[l].length = Len(Items(l))
<1> USE DEF Base
<1>1. setup.window.end \in Times /\ setup.window.end < known.since
  BY SetupFacts DEF Past, Unparsed
<1>2. known.since \in Int /\ known.since <= Since /\ Since \in Int
  <2>1. known.since \in Times
    BY DEF TypeOK
  <2>2. known.since <= Since
    BY DEF Knowledge, Past
  <2> QED
    BY <2>1, <2>2, SinceFacts, BoundAssumption DEF Times
<1>3. setup.window.end \in Int /\ setup.window.end < Since
  <2>1. setup.window.end \in Int
    BY <1>1, BoundAssumption DEF Times
  <2> QED
    BY <1>1, <1>2, <2>1
<1>4. ASSUME NEW l \in 1..Len(lists) PROVE ListTime(l) \in Int
  <2>1. OneList(l) /\ 1 \in 1..Len(Items(l))
    BY ListFacts, EmptySeq DEF State, Lists, OneList
  <2>2. Items(l)[1] \in 1..Written /\ Written <= Len(stamps) /\ Written \in Int /\ Len(stamps) \in Nat
    BY <2>1, WrittenFacts, StampFacts DEF OneList
  <2>3. Items(l)[1] \in 1..Len(stamps)
    BY <2>2
  <2> QED
    BY <2>3, StampFacts DEF ListTime
<1>5. ASSUME NEW l \in 1..Len(lists), ListTime(l) <= setup.window.end
      PROVE  ListTime(l) # Since /\ lists[l].length = Len(Items(l))
  <2>1. ListTime(l) # Since
    BY <1>1, <1>2, <1>3, <1>4, <1>5
  <2>2. updater = "write" => ListTime(target) = Since
    BY LastStamp DEF State, Lists, Since, Caching
  <2> QED
    BY <2>1, <2>2 DEF State, Lists, OneList
<1> QED
  BY <1>1, <1>3, <1>4, <1>5

LEMMA PastNext ==
  ASSUME Base, Base', PastInv, Next
  PROVE  PastInv'
<1> USE DEF Base
<1>1. setup.enabled \in BOOLEAN /\ channel \in Seq(Nil..Torn) /\ received \in Seq(Nil..Torn)
  BY SetupFacts, SequenceFacts
<1>2. CASE Elsewhere
  <2>1. AppendOnly /\ UNCHANGED <<setup, callVars, dumpVars, channel, crashed>>
    BY <1>2, ElsewhereKeeps
  <2>2. SUFFICES ASSUME Past PROVE PastInv'
    BY <2>1 DEF PastInv, Past, Unparsed
  <2>3. ~crashed' /\ Sound(channel)' /\ Sound(received)' /\ (dump' = "send" => item' \in Numbers)
    BY <2>1, <2>2 DEF PastInv, Sound
  <2>4. CASE setup.enabled /\ ~Unparsed
    <3>1. \A l \in 1..Len(lists) : ListTime(l) <= setup.window.end =>
            ListTime(l)' = ListTime(l) /\ lists'[l].length = lists[l].length
      BY <2>1, <2>2, <2>4, PastLists DEF AppendOnly
    <3>2. \A l \in todo : l \in 1..Len(lists) /\ ListTime(l) <= setup.window.end
      BY <2>2, <2>4 DEF PastInv, DumpPlace
    <3>3. \A l \in todo : ListTime(l)' <= setup.window.end
      BY <3>1, <3>2
    <3>4. AtSlice => slice.list \in 1..Len(lists) /\ ListTime(slice.list) <= setup.window.end
      BY <2>2 DEF PastInv, DumpPlace
    <3>5. AtSlice => ListTime(slice.list)' = ListTime(slice.list) /\ lists'[slice.list].length = lists[slice.list].length
      BY <2>1, <3>1, <3>4 DEF ListTime, Items
    <3>6. AtSlice' <=> AtSlice
      BY <2>1 DEF AtSlice
    <3> QED
      BY <2>1, <2>2, <2>3, <3>3, <3>4, <3>5, <3>6 DEF PastInv
  <2>5. CASE ~setup.enabled \/ Unparsed
    <3>1. ~AtSlice /\ (setup.enabled => todo = {})
      BY <2>5 DEF DumpPlace, AtSlice
    <3> QED
      BY <2>1, <2>3, <3>1 DEF PastInv, AtSlice
  <2> QED
    BY <2>4, <2>5
<1>3. CASE Call
  <2>1. /\ handler = "idle" /\ dump' = "parse" /\ dump = "off"
        /\ UNCHANGED <<todo, channel, received, crashed>>
    BY <1>3 DEF Call, DumpPlace
  <2>2. ~crashed /\ channel = << >> /\ received = << >> /\ todo = {}
    BY <2>1 DEF DumpPlace
  <2> QED
    BY <2>1, <2>2, EmptySeq DEF PastInv, Sound, AtSlice
<1>4. CASE Handle \/ Dump
  <2>1. UNCHANGED <<setup, time, updateVars, known>> /\ (Past' => Past)
    <3>1. UNCHANGED <<setup, time, updateVars>>
      BY <1>4, AnswerKeeps
    <3>2. known' = known /\ (handler = "idle" => handler' = "idle")
      BY <1>4 DEF Handle, Receive, Answer, Dump, Parse, DumpEnds, RangeOver, ReadLength, LoadElement, LoadCurrent, SendItem
    <3> QED
      BY <3>1, <3>2 DEF Past, Unparsed
  <2>2. SUFFICES ASSUME Past PROVE PastInv'
    BY <2>1 DEF PastInv
  <2>3. /\ ~crashed /\ Sound(channel) /\ Sound(received)
        /\ dump = "send" => item \in Numbers
        /\ setup.enabled => \A l \in todo : ListTime(l) <= setup.window.end
        /\ AtSlice => ListTime(slice.list) <= setup.window.end /\ slice.room >= lists[slice.list].length
        /\ AtSlice /\ dump # "header" => slice.length <= lists[slice.list].length
    BY <2>2 DEF PastInv
  <2>4. \A l : ListTime(l)' = ListTime(l)
    BY <2>1 DEF ListTime, Items
  <2>5. CASE Receive
    <3>1. Head(channel) \in Numbers /\ Sound(Tail(channel))
      BY <1>1, <2>3, <2>5, SoundTail DEF Receive
    <3>2. Head(channel) # Nil /\ Head(channel) # Torn
      BY <3>1, NumberFacts
    <3>3. crashed' = crashed /\ channel' = Tail(channel) /\ UNCHANGED dumpVars
          /\ (received' = received \/ received' = Append(received, Head(channel)))
      BY <2>5, <3>2 DEF Receive
    <3>4. Sound(received')
      BY <1>1, <2>3, <3>1, <3>3, SoundAppend
    <3> QED
      BY <2>1, <2>3, <2>4, <3>1, <3>3, <3>4 DEF PastInv, AtSlice, Sound, ListTime, Items
  <2>6. CASE Answer
    BY <2>1, <2>3, <2>4, <2>6 DEF Answer, PastInv, AtSlice, Sound, ListTime, Items
  <2>7. CASE Parse
    <3>1. dump' \in {"closed", "list", "current"} /\ UNCHANGED <<channel, received, crashed>> /\ todo = {}
      BY <2>7 DEF Parse, Closed, DumpPlace
    <3>2. ASSUME setup.enabled, NEW l \in todo' PROVE ListTime(l) <= setup.window.end
      <4>1. ~Unparsed
        BY <2>7, <3>1, <3>2 DEF Parse, Unparsed
      <4>2. PICK t \in Times : Live(t) /\ InWindow(t) /\ l = cache[t].list
        BY <2>7, <3>1, <3>2, <4>1 DEF Parse, Unparsed
      <4>3. ListTime(l) = t
        BY <4>2 DEF State, Lists, Live
      <4> QED
        BY <2>2, <3>2, <4>1, <4>2, <4>3 DEF InWindow, BeforeEnd, Past
    <3> QED
      BY <2>1, <2>3, <2>4, <3>1, <3>2 DEF PastInv, AtSlice, Sound
  <2>8. CASE DumpEnds
    <3>1. dump' = "closed" /\ UNCHANGED <<todo, channel, received, crashed>>
      BY <2>8 DEF DumpEnds, Closed
    <3> QED
      BY <2>1, <2>3, <2>4, <3>1 DEF PastInv, AtSlice, Sound
  <2>9. CASE RangeOver
    <3>1. PICK l \in todo : slice' = [list |-> l, room |-> Room[lists[l].length], length |-> 0] /\ todo' = todo \ {l}
      BY <2>9 DEF RangeOver
    <3>2. setup.enabled /\ l \in 1..Len(lists) /\ dump' = "header" /\ UNCHANGED <<channel, received, crashed>>
      BY <2>9 DEF RangeOver, DumpPlace
    <3>3. Room[lists[l].length] >= lists[l].length
      BY <3>2, ListFacts, RoomAssumption
    <3>4. slice'.list = l /\ slice'.room >= lists'[l].length
      BY <2>1, <3>1, <3>3
    <3>5. \A m : m = l => ListTime(m)' = ListTime(l)
      BY <2>4
    <3>6. ListTime(slice.list)' <= setup.window.end /\ \A m \in todo' : ListTime(m)' <= setup.window.end
      BY <2>3, <2>4, <3>1, <3>2, <3>4 DEF ListTime, Items
    <3> QED
      BY <2>1, <2>3, <3>2, <3>4, <3>6 DEF PastInv, AtSlice, Sound
  <2>10. CASE ReadLength
    <3>1. slice'.list = slice.list /\ slice'.room = slice.room /\ slice'.length = lists[slice.list].length
      BY <2>10 DEF ReadLength, TypeOK
    <3>2. dump = "header" /\ dump' = "range" /\ setup.enabled /\ AtSlice /\ UNCHANGED <<todo, channel, received, crashed>>
      BY <2>10 DEF ReadLength, DumpPlace, AtSlice
    <3>3. lists[slice.list].length \in Int
      BY <3>2, ListFacts, NumberFacts DEF DumpPlace
    <3>4. ListTime(slice.list)' = ListTime(slice.list)
      BY <2>1, <3>1 DEF ListTime, Items
    <3> QED
      BY <2>1, <2>3, <2>4, <3>1, <3>2, <3>3, <3>4 DEF PastInv, Sound
  <2>11. CASE LoadElement
    <3>1. dump = "range" /\ setup.enabled /\ AtSlice /\ dump' \in {"send", "list"}
          /\ UNCHANGED <<todo, slice, channel, received, crashed>>
      BY <2>11 DEF LoadElement, DumpPlace, AtSlice
    <3>2. dump' = "send" => item' \in Numbers
      <4>1. SUFFICES ASSUME next <= slice.length PROVE Element(next) \in Numbers
        BY <2>11 DEF LoadElement
      <4>2. slice.list \in 1..Len(lists) /\ ~Unparsed
        BY <3>1 DEF DumpPlace
      <4>3. lists[slice.list].length = Len(Items(slice.list)) /\ Len(Items(slice.list)) \in Nat
        BY <2>2, <2>3, <3>1, <4>2, PastLists, ListFacts
      <4>4. slice.length \in Int /\ slice.room \in Int /\ next \in Nat /\ next >= 1
        <5>1. slice.length \in 0..MaxReadings /\ slice.room \in Nat /\ next \in 1..(MaxReadings + 1)
          BY DEF TypeOK
        <5> QED
          BY <5>1, NumberFacts
      <4>5. next <= slice.room /\ next <= Len(Items(slice.list))
        BY <2>3, <3>1, <4>1, <4>3, <4>4
      <4> QED
        BY <4>2, <4>4, <4>5, ElementFacts
    <3>3. ListTime(slice.list)' = ListTime(slice.list)
      BY <2>1, <3>1 DEF ListTime, Items
    <3> QED
      BY <2>1, <2>3, <2>4, <3>1, <3>2, <3>3 DEF PastInv, Sound, AtSlice
  <2>12. CASE LoadCurrent
    <3>1. ~setup.enabled /\ item' \in Numbers /\ UNCHANGED <<channel, received, crashed>>
      BY <2>12 DEF LoadCurrent, Value, DumpPlace, TypeOK
    <3> QED
      BY <2>1, <2>3, <3>1 DEF PastInv, Sound, AtSlice
  <2>13. CASE SendItem
    <3>1. item \in Numbers /\ channel' = Append(channel, item) /\ UNCHANGED <<todo, slice, received, crashed>>
          /\ dump = "send" /\ dump' \in {"range", "current"}
      BY <2>3, <2>13 DEF SendItem
    <3>2. Sound(channel')
      BY <1>1, <2>3, <3>1, SoundAppend
    <3>3. ListTime(slice.list)' = ListTime(slice.list)
      BY <2>1, <3>1 DEF ListTime, Items
    <3>4. AtSlice' => AtSlice
      BY <2>1, <3>1 DEF AtSlice
    <3> QED
      BY <2>1, <2>3, <2>4, <3>1, <3>2, <3>3, <3>4 DEF PastInv, Sound
  <2> QED
    BY <1>4, <2>5, <2>6, <2>7, <2>8, <2>9, <2>10, <2>11, <2>12, <2>13 DEF Handle, Dump
<1> QED
  BY <1>2, <1>3, <1>4 DEF Next, Elsewhere

\* Whatever the timing of a dump and of the appends, a client never gets memory that is
\* not a reading, and ReadCache never panics, when the window it asks for ended before
\* the second of the next append: the race of addReadingToCache and GetCachedReadings
\* is confined to the list of the present.
THEOREM PastIsSafe == Spec => []PastWindowsSafe
<1>1. Init => PastInv
  BY DEF Init, PastInv, Past
<1>2. Base /\ Base' /\ PastInv /\ [Next]_vars => PastInv'
  <2>1. ASSUME Base, PastInv, UNCHANGED vars PROVE PastInv'
    BY <2>1 DEF PastInv, Past, Unparsed, Sound, AtSlice, ListTime, Items, vars
  <2> QED
    BY <2>1, PastNext
<1>3. Base /\ PastInv => PastWindowsSafe
  <2>1. SUFFICES ASSUME Base, PastInv, crashed \/ Torn \in ToSet(received), setup.window.end # Unbounded
                 PROVE  setup.window.end >= known.since
    BY DEF PastWindowsSafe
  <2> USE DEF Base
  <2>2. DOMAIN received = 1..Len(received)
    <3>1. received \in Seq(Nil..Torn)
      BY <2>1, SequenceFacts
    <3> QED
      BY <3>1, LenProperties
  <2>3. crashed \/ \E i \in 1..Len(received) : received[i] = Torn
    BY <2>1, <2>2 DEF ToSet
  <2>4. crashed \/ received # << >>
    BY <2>3, EmptySeq
  <2>5. handler # "idle" /\ ~Unparsed
    BY <2>1, <2>4 DEF DumpPlace
  <2>6. ~Past
    BY <2>1, <2>3, NumberFacts DEF PastInv, Sound
  <2>7. setup.window.end \in Int /\ known.since \in Int
    <3>1. setup.window.end \in Times /\ known.since \in Times
      BY <2>1, <2>5, SetupFacts DEF Unparsed, TypeOK
    <3>2. Times \subseteq Int
      BY BoundAssumption DEF Times
    <3> QED
      BY <3>1, <3>2
  <2> QED
    BY <2>1, <2>5, <2>6, <2>7 DEF Past
<1> QED
  BY <1>1, <1>2, <1>3, BaseAlways, PTL DEF Spec

-----------------------------------------------------------------------------
(* What a dump has put out.                                                *)

LEMMA Associative == \A p, q, r \in Seq(Nil..Torn) : (p \o q) \o r = p \o (q \o r)
BY ConcatAssociative

LEMMA NothingMore == \A p \in Seq(Nil..Torn) : p \o << >> = p /\ << >> \o p = p
BY ConcatEmptySeq

LEMMA AppendIsOut == \A p \in Seq(Nil..Torn), n \in Nil..Torn : Append(p, n) = p \o <<n>>
BY AppendIsConcat

\* A reading that is received was the head of the channel.
LEMMA HeadMoves ==
  ASSUME NEW p \in Seq(Nil..Torn), NEW q \in Seq(Nil..Torn), q # << >>
  PROVE  Append(p, Head(q)) \o Tail(q) = p \o q
<1>1. Head(q) \in Nil..Torn /\ Tail(q) \in Seq(Nil..Torn)
  BY HeadTailProperties
<1>2. Append(p, Head(q)) = p \o <<Head(q)>>
  BY <1>1, AppendIsOut
<1>3. q = <<Head(q)>> \o Tail(q)
  BY <1>1
<1>4. <<Head(q)>> \in Seq(Nil..Torn)
  BY <1>1
<1> QED
  BY <1>1, <1>2, <1>3, <1>4, Associative

LEMMA OutFacts ==
  ASSUME TypeOK
  PROVE  /\ received \o channel \in Seq(Nil..Torn) /\ <<item>> \in Seq(Nil..Torn)
         /\ Out \in Seq(Nil..Torn) /\ Len(Out) \in Nat
         /\ dump # "send" => Out = received \o channel
<1>1. received \o channel \in Seq(Nil..Torn)
  BY SequenceFacts, ConcatProperties
<1>2. <<item>> \in Seq(Nil..Torn)
  BY DEF TypeOK
<1>3. dump # "send" => Out = received \o channel
  BY <1>1, NothingMore DEF Out
<1>4. dump = "send" => Out \in Seq(Nil..Torn)
  <2>1. (received \o channel) \o <<item>> \in Seq(Nil..Torn)
    BY <1>1, <1>2, ConcatProperties
  <2> QED
    BY <2>1 DEF Out
<1> QED
  BY <1>1, <1>2, <1>3, <1>4, LenProperties

\* The steps that only carry it on,
LEMMA OutSame ==
  ASSUME TypeOK, TypeOK',
         \/ UNCHANGED <<received, channel, dump, item>>
         \/ UNCHANGED <<received, channel>> /\ dump # "send" /\ dump' # "send"
         \/ SendItem
         \/ Receive /\ ~crashed' /\ handler' = "receive"
  PROVE  Out' = Out
<1>1. CASE UNCHANGED <<received, channel, dump, item>>
  BY <1>1 DEF Out
<1>2. CASE UNCHANGED <<received, channel>> /\ dump # "send" /\ dump' # "send"
  BY <1>2 DEF Out
<1>3. received \in Seq(Nil..Torn) /\ channel \in Seq(Nil..Torn) /\ item \in Nil..Torn /\ <<item>> \in Seq(Nil..Torn)
  BY SequenceFacts, OutFacts DEF TypeOK
<1>4. CASE SendItem
  <2>1. /\ dump = "send" /\ dump' # "send" /\ channel' = Append(channel, item) /\ received' = received
    BY <1>4 DEF SendItem
  <2>2. Append(channel, item) = channel \o <<item>> /\ received \o (channel \o <<item>>) = (received \o channel) \o <<item>>
    BY <1>3, AppendIsOut, Associative
  <2>3. (received \o channel) \o <<item>> \in Seq(Nil..Torn)
    BY <1>3, OutFacts, ConcatProperties
  <2>4. ((received \o channel) \o <<item>>) \o << >> = (received \o channel) \o <<item>>
    BY <2>3, NothingMore
  <2>5. Out = (received \o channel) \o <<item>> /\ Out' = (received \o (channel \o <<item>>)) \o << >>
    BY <2>1, <2>2 DEF Out
  <2> QED
    BY <2>2, <2>4, <2>5
<1>5. CASE Receive /\ ~crashed' /\ handler' = "receive"
  <2>1. /\ channel # << >> /\ channel' = Tail(channel) /\ received' = Append(received, Head(channel))
        /\ dump' = dump /\ item' = item
    BY <1>5 DEF Receive
  <2>2. received' \o channel' = received \o channel
    BY <1>3, <2>1, HeadMoves
  <2> QED
    BY <2>1, <2>2 DEF Out
<1> QED
  BY <1>1, <1>2, <1>4, <1>5

\* And those that add to it.
LEMMA OutGrows ==
  ASSUME TypeOK, TypeOK', UNCHANGED <<received, channel>>, dump # "send", dump' = "send"
  PROVE  /\ Len(Out') = Len(Out) + 1 /\ Out'[Len(Out) + 1] = item' /\ \A i \in 1..Len(Out) : Out'[i] = Out[i]
         /\ \A n : PutOut(n)' <=> PutOut(n) \/ n = item'
<1>1. Out \in Seq(Nil..Torn) /\ Out = received \o channel /\ Len(Out) \in Nat /\ item' \in Nil..Torn
  BY OutFacts DEF TypeOK
<1>2. Out' = Out \o <<item'>>
  BY <1>1 DEF Out
<1>3. Out' = Append(Out, item')
  BY <1>1, <1>2, AppendIsOut
<1>4. Len(Out') = Len(Out) + 1 /\ Out'[Len(Out) + 1] = item' /\ \A i \in 1..Len(Out) : Out'[i] = Out[i]
  BY <1>1, <1>3, AppendProperties
<1>5. \A i \in 1..Len(Out') : i \in 1..Len(Out) \/ i = Len(Out) + 1
  <2>1. \A n \in Nat : \A i \in 1..(n + 1) : i \in 1..n \/ i = n + 1
    OBVIOUS
  <2> QED
    BY <1>1, <1>4, <2>1
<1>6. Len(Out) + 1 \in 1..Len(Out') /\ \A i \in 1..Len(Out) : i \in 1..Len(Out')
  <2>1. \A n \in Nat : n + 1 \in 1..(n + 1) /\ \A i \in 1..n : i \in 1..(n + 1)
    OBVIOUS
  <2> QED
    BY <1>1, <1>4, <2>1
<1> QED
  BY <1>4, <1>5, <1>6 DEF PutOut

-----------------------------------------------------------------------------
(* Without a cache: the readings that were current at one moment.          *)

\* The copy that a dump makes of the current readings.
LEMMA CopyFacts ==
  ASSUME TypeOK, State, NEW n
  PROVE  n \in {readings[d] : d \in Devices} \ {Nil} <=> n \in CurrentAt(Stored)
<1>1. Stored \in Int /\ Stored <= arrived /\ arrived <= MaxReadings /\ Numbers = 1..MaxReadings /\ MaxReadings \in Nat /\ Nil = 0
      /\ arrived \in Int
  BY NumberFacts
<1>2. \A i \in 1..Stored : i \in Int /\ setup.device[i] \in Devices
  BY <1>1, SetupFacts
<1>3. ASSUME NEW d \in Devices, n = readings[d], n # Nil PROVE n \in CurrentAt(Stored)
  BY <1>1, <1>2, <1>3 DEF State, Current, CurrentAt
<1>4. ASSUME n \in CurrentAt(Stored) PROVE \E d \in Devices : n = readings[d] /\ n # Nil
  <2>1. n \in 1..Stored /\ \A j \in n + 1 .. Stored : setup.device[j] # setup.device[n]
    BY <1>4 DEF CurrentAt
  <2> DEFINE d == setup.device[n]
  <2>2. d \in Devices /\ n \in Int /\ n # Nil
    BY <1>1, <1>2, <2>1
  <2>3. readings[d] # Nil
    BY <2>1, <2>2 DEF State, Current
  <2>4. /\ readings[d] \in 1..Stored /\ setup.device[readings[d]] = d
        /\ \A i \in readings[d] + 1 .. Stored : setup.device[i] # d
    BY <2>2, <2>3 DEF State, Current
  <2>5. readings[d] = n
    <3>1. readings[d] \in Int
      BY <1>2, <2>4
    <3>2. CASE readings[d] < n
      BY <1>1, <2>1, <2>2, <2>4, <3>1, <3>2
    <3>3. CASE n < readings[d]
      BY <1>1, <2>1, <2>2, <2>4, <3>1, <3>3
    <3> QED
      BY <2>2, <3>1, <3>2, <3>3
  <2> QED
    BY <2>2, <2>5
<1> QED
  BY <1>3, <1>4

LEMMA CurrentNext ==
  ASSUME Base, Base', CurrentInv, Next
  PROVE  CurrentInv'
<1> USE DEF Base
<1>1. SUFFICES ASSUME Open', ~setup'.enabled, dump' # "parse"
               PROVE  /\ \A i, j \in 1..Len(Out') : Out'[i] = Out'[j] => i = j
                      /\ \A n \in todo' : ~PutOut(n)'
                      /\ \E m \in known'.arrived..arrived' : \A n : PutOut(n)' \/ n \in todo' <=> n \in CurrentAt(m)'
  BY DEF CurrentInv
<1>2. setup' = setup /\ known' = known /\ Open /\ ~setup.enabled
  <2>1. ~Call
    BY <1>1 DEF Call
  <2>2. setup' = setup /\ (handler' # "gone" => handler # "gone") /\ (handler' # "idle" => handler # "idle") /\ known' = known
    <3>1. CASE Elsewhere
      BY <3>1, ElsewhereKeeps
    <3>2. CASE Handle \/ Dump
      BY <3>2 DEF Handle, Receive, Answer, Dump, Parse, DumpEnds, RangeOver, ReadLength, LoadElement, LoadCurrent, SendItem
    <3> QED
      BY <2>1, <3>1, <3>2 DEF Next, Elsewhere
  <2>3. handler \in {"idle", "receive", "answered", "gone"}
    BY DEF TypeOK
  <2> QED
    BY <1>1, <2>2, <2>3 DEF Open, Unparsed, Next
<1>3. \A m : CurrentAt(m)' = CurrentAt(m)
  BY <1>2 DEF CurrentAt
<1>4. ASSUME Out' = Out, todo' = todo, dump # "parse", arrived' = arrived \/ arrived' = arrived + 1
      PROVE  CurrentInv'
  <2>1. /\ \A i, j \in 1..Len(Out) : Out[i] = Out[j] => i = j
        /\ \A n \in todo : ~PutOut(n)
    BY <1>2, <1>4 DEF CurrentInv
  <2>2. PICK m \in known.arrived..arrived : \A n : PutOut(n) \/ n \in todo <=> n \in CurrentAt(m)
    BY <1>2, <1>4 DEF CurrentInv
  <2>3. \A n : PutOut(n)' <=> PutOut(n)
    BY <1>4 DEF PutOut
  <2>4. m \in known'.arrived..arrived'
    BY <1>2, <1>4, NumberFacts DEF TypeOK
  <2> QED
    BY <1>3, <1>4, <2>1, <2>2, <2>3, <2>4 DEF CurrentInv
<1>5. CASE Elsewhere
  <2>1. UNCHANGED <<setup, callVars, dumpVars, channel, crashed>>
    BY <1>5, ElsewhereKeeps
  <2>2. arrived' = arrived \/ arrived' = arrived + 1
    BY <1>5 DEF Elsewhere, Tick, Update, Take, Store, Dispatch, StreamSticks, Stamp, Get, Set, Grow, Write, Ask, LookUp
  <2> QED
    BY <1>1, <1>4, <2>1, <2>2, OutSame DEF CurrentInv
<1>6. CASE Handle
  <2>1. UNCHANGED <<todo, dump, arrived>>
    BY <1>6 DEF Handle, Receive, Answer
  <2>2. Out' = Out
    <3>1. CASE Answer
      BY <3>1, OutSame DEF Answer
    <3>2. CASE Receive
      <4>1. handler' = "receive" /\ ~crashed'
        BY <1>1, <3>2 DEF Receive, Open
      <4> QED
        BY <3>2, <4>1, OutSame
    <3> QED
      BY <1>6, <3>1, <3>2 DEF Handle
  <2> QED
    BY <1>1, <1>4, <2>1, <2>2 DEF CurrentInv
<1>7. CASE Parse
  <2>1. /\ todo' = {readings[d] : d \in Devices} \ {Nil} /\ dump = "parse" /\ dump' = "current" /\ arrived' = arrived
        /\ UNCHANGED <<channel, received>>
    BY <1>2, <1>7 DEF Parse, Open, Unparsed
  <2>2. received = << >> /\ channel = << >> /\ << >> \in Seq(Nil..Torn)
    BY <2>1, EmptySeq DEF DumpPlace
  <2>3. Out = << >> /\ Out' = << >>
    <3>1. Out = << >> \o << >> /\ << >> \o << >> = << >>
      BY <2>1, <2>2, OutFacts, NothingMore
    <3>2. Out' = Out
      BY <2>1, OutSame
    <3> QED
      BY <3>1, <3>2
  <2>4. \A n : ~PutOut(n)'
    BY <2>3, EmptySeq DEF PutOut
  <2>5. Stored \in known.arrived..arrived
    <3>1. known.arrived \in Int /\ known.arrived <= Stored
      BY NumberFacts DEF Knowledge, TypeOK
    <3> QED
      BY <3>1, NumberFacts
  <2>6. \A n : n \in todo' <=> n \in CurrentAt(Stored)
    BY <2>1, CopyFacts
  <2>7. \E m \in known.arrived..arrived : \A n : n \in todo' <=> n \in CurrentAt(m)
    BY <2>5, <2>6
  <2>8. \A i, j \in 1..Len(Out') : Out'[i] = Out'[j] => i = j
    BY <2>3, EmptySeq
  <2> QED
    BY <1>2, <1>3, <2>1, <2>4, <2>7, <2>8
<1>8. CASE DumpEnds
  <2>1. todo' = todo /\ arrived' = arrived /\ dump \notin {"send", "parse"} /\ dump' # "send" /\ UNCHANGED <<channel, received>>
    BY <1>8 DEF DumpEnds, Closed
  <2> QED
    BY <1>1, <1>4, <2>1, OutSame DEF CurrentInv
<1>9. CASE LoadCurrent
  <2>1. PICK n \in todo : item' = n /\ todo' = todo \ {n}
    BY <1>9 DEF LoadCurrent, Value
  <2>2. dump = "current" /\ dump' = "send" /\ arrived' = arrived /\ UNCHANGED <<channel, received>>
    BY <1>9 DEF LoadCurrent
  <2>3. /\ Len(Out') = Len(Out) + 1 /\ Out'[Len(Out) + 1] = n /\ \A i \in 1..Len(Out) : Out'[i] = Out[i]
        /\ \A k : PutOut(k)' <=> PutOut(k) \/ k = n
    BY <2>1, <2>2, OutGrows
  <2>4. /\ \A i, j \in 1..Len(Out) : Out[i] = Out[j] => i = j
        /\ \A k \in todo : ~PutOut(k)
        /\ \E m \in known.arrived..arrived : \A k : PutOut(k) \/ k \in todo <=> k \in CurrentAt(m)
    BY <1>2, <2>2 DEF CurrentInv
  <2>5. ASSUME NEW i \in 1..Len(Out'), NEW j \in 1..Len(Out'), Out'[i] = Out'[j] PROVE i = j
    <3>1. \A k \in Nat : \A h \in 1..(k + 1) : h \in 1..k \/ h = k + 1
      OBVIOUS
    <3>2. Len(Out) \in Nat
      BY OutFacts
    <3>3. \A h \in 1..Len(Out') : h \in 1..Len(Out) \/ h = Len(Out) + 1
      BY <2>3, <3>1, <3>2
    <3>4. \A h \in 1..Len(Out) : Out[h] # n
      BY <2>1, <2>4 DEF PutOut
    <3> QED
      BY <2>3, <2>4, <2>5, <3>3, <3>4
  <2>6. \A k \in todo' : ~PutOut(k)'
    BY <2>1, <2>3, <2>4
  <2>7. \E m \in known.arrived..arrived : \A k : PutOut(k)' \/ k \in todo' <=> k \in CurrentAt(m)
    <3>1. \A k : PutOut(k)' \/ k \in todo' <=> PutOut(k) \/ k \in todo
      BY <2>1, <2>3
    <3> QED
      BY <2>4, <3>1
  <2> QED
    BY <1>2, <1>3, <2>2, <2>5, <2>6, <2>7
<1>10. CASE SendItem
  <2>1. todo' = todo /\ arrived' = arrived /\ dump = "send"
    BY <1>10 DEF SendItem
  <2> QED
    BY <1>1, <1>4, <1>10, <2>1, OutSame DEF CurrentInv
<1>11. CASE RangeOver \/ ReadLength \/ LoadElement
  BY <1>2, <1>11 DEF RangeOver, ReadLength, LoadElement, DumpPlace
<1>12. CASE Call
  BY <1>1, <1>12 DEF Call
<1> QED
  BY <1>5, <1>6, <1>7, <1>8, <1>9, <1>10, <1>11, <1>12 DEF Next, Elsewhere, Dump

\* An answer without a cache is the readings that were current at one moment of the call,
\* each once, whatever arrives while GetCurrentReadings is copied out to the client.
THEOREM CurrentIsOfAMoment == Spec => []CurrentDumpAtOnce
<1>1. Init => CurrentInv
  BY DEF Init, CurrentInv, Open
<1>2. Base /\ Base' /\ CurrentInv /\ [Next]_vars => CurrentInv'
  <2>1. ASSUME Base, CurrentInv, UNCHANGED vars PROVE CurrentInv'
    <3>1. Out' = Out /\ UNCHANGED <<setup, handler, crashed, dump, todo, known, arrived>>
      BY <2>1 DEF Out, vars
    <3>2. /\ \A n : PutOut(n)' <=> PutOut(n)
          /\ \A m : CurrentAt(m)' = CurrentAt(m)
      BY <3>1 DEF PutOut, CurrentAt
    <3> QED
      BY <2>1, <3>1, <3>2 DEF CurrentInv, Open, Unparsed
  <2> QED
    BY <2>1, CurrentNext
<1>3. Base /\ CurrentInv => CurrentDumpAtOnce
  <2>1. SUFFICES ASSUME Base, CurrentInv, ~setup.enabled, Answered
                 PROVE  /\ IsInjective(received)
                        /\ \E n \in known.arrived..arrived : ToSet(received) = CurrentAt(n)
    BY DEF CurrentDumpAtOnce
  <2> USE DEF Base
  <2>2. Open /\ dump = "closed" /\ channel = << >> /\ todo = {}
    BY <2>1 DEF Answered, Open, Unparsed, DumpPlace
  <2>3. received \in Seq(Nil..Torn)
    BY <2>1, SequenceFacts
  <2>4. Out = received /\ DOMAIN received = 1..Len(received)
    <3>1. Out = received \o << >>
      BY <2>1, <2>2, OutFacts
    <3> QED
      BY <2>3, <3>1, NothingMore, LenProperties
  <2>5. /\ \A i, j \in 1..Len(received) : received[i] = received[j] => i = j
        /\ \E m \in known.arrived..arrived : \A n : PutOut(n) <=> n \in CurrentAt(m)
    BY <2>1, <2>2, <2>4 DEF CurrentInv
  <2>6. \A n : PutOut(n) <=> n \in ToSet(received)
    BY <2>4 DEF PutOut, ToSet
  <2>7. ASSUME NEW m, \A n : PutOut(n) <=> n \in CurrentAt(m) PROVE ToSet(received) = CurrentAt(m)
    BY <2>6, <2>7
  <2> QED
    BY <2>4, <2>5, <2>7 DEF IsInjective
<1> QED
  BY <1>1, <1>2, <1>3, BaseAlways, PTL DEF Spec

-----------------------------------------------------------------------------
(* From the cache: all of the window, once.                                *)

\* What leaves the cache does not come back, and what comes is new.
LEMMA CachedShrinks ==
  ASSUME Base, Base', Elsewhere
  PROVE  \A n \in Cached' : n \in 1..Written => n \in Cached
<1> USE DEF Base
<1>1. SUFFICES ASSUME NEW n \in Cached', n \in 1..Written PROVE n \in Cached
  OBVIOUS
<1>2. PICK t \in Times : Live(t)' /\ n \in ToSet(lists'[cache'[t].list].items)
  BY DEF Cached
<1> DEFINE l == cache'[t].list
<1>3. l \in 1..Len(lists')
  <2>1. l \in 0..Len(lists') /\ l # 0
    BY <1>2 DEF TypeOK, Live
  <2> QED
    BY <2>1, ElsewhereKeeps DEF AppendOnly
<1>4. PICK i \in 1..Len(lists'[l].items) : lists'[l].items[i] = n
  <2>1. lists' \in Seq(List)
    BY DEF TypeOK, List
  <2>2. lists'[l] \in List
    BY <1>3, <2>1, ElementOfSeq
  <2>3. lists'[l].items \in Seq(Numbers)
    BY <2>2 DEF List
  <2>4. DOMAIN lists'[l].items = 1..Len(lists'[l].items)
    BY <2>3, LenProperties
  <2> QED
    BY <1>2, <2>4 DEF ToSet
<1>5. cache'[t] = cache[t]
  <2>1. CASE Set
    <3>1. t # Last(stamps)
      <4>1. SUFFICES ASSUME t = Last(stamps) PROVE FALSE
        OBVIOUS
      <4>2. Last(stamps) \in Times
        BY <2>1, LastStamp DEF Set, State, Caching
      <4>3. l = Len(lists) + 1
        BY <2>1, <4>1, <4>2 DEF Set, TypeOK
      <4>4. lists'[l].items = <<arrived>>
        BY <2>1, <4>3, SetLists DEF Items
      <4>5. n = arrived /\ Written = arrived - 1 /\ arrived \in Int
        <5>1. \A k \in 1..Len(<<arrived>>) : <<arrived>>[k] = arrived
          OBVIOUS
        <5>2. n = arrived
          BY <1>4, <4>4, <5>1
        <5> QED
          BY <2>1, <5>2, NumberFacts DEF Set, Written, Caching
      <4> QED
        BY <1>1, <4>5
    <3> QED
      BY <2>1, <3>1 DEF Set, TypeOK
  <2> QED
    BY <2>1 DEF Elsewhere, Tick, Update, Take, Store, Dispatch, StreamSticks, Stamp, Get, Grow, Write, Ask, LookUp
<1>6. Live(t)
  <2>1. time' = time \/ time' = time + 1
    BY DEF Elsewhere, Tick, Update, Take, Store, Dispatch, StreamSticks, Stamp, Get, Set, Grow, Write, Ask, LookUp
  <2>2. time \in Int /\ cache[t].expires \in Int
    <3>1. cache[t].expires \in 0..(MaxTime + TTL)
      BY DEF TypeOK
    <3> QED
      BY <3>1, StampFacts, BoundAssumption
  <2> QED
    BY <1>2, <1>5, <2>1, <2>2 DEF Live
<1>7. l \in 1..Len(lists)
  <2>1. l \in 0..Len(lists) /\ Len(lists) \in Nat /\ l # 0
    BY <1>5, <1>6, StampFacts DEF TypeOK, Live
  <2> QED
    BY <2>1
<1> HIDE DEF l
<1>8. i \in 1..Len(Items(l)) /\ Items(l)[i] = n
  <2>1. /\ \A k \in 1..Len(Items(l)) : lists'[l].items[k] = Items(l)[k]
        /\ \A k \in 1..Len(lists'[l].items) : k \notin 1..Len(Items(l)) => lists'[l].items[k] = Written + 1
    BY <1>7, ElsewhereKeeps DEF AppendOnly, Items, l
  <2>2. n # Written + 1
    BY <1>1, NumberFacts
  <2> QED
    BY <1>4, <2>1, <2>2
<1>9. n \in ToSet(lists[cache[t].list].items)
  <2>1. DOMAIN Items(l) = 1..Len(Items(l))
    BY <1>7, ListFacts, LenProperties
  <2>2. l = cache[t].list
    BY <1>5 DEF l
  <2> QED
    BY <1>8, <2>1, <2>2 DEF ToSet, Items
<1> QED
  BY <1>6, <1>9 DEF Cached

\* The readings of a list are of its time.
LEMMA ListOfTime ==
  ASSUME TypeOK, State, NEW l \in 1..Len(lists), NEW i \in 1..Len(Items(l))
  PROVE  /\ Items(l)[i] \in 1..Written /\ Items(l)[i] \in Numbers /\ stamps[Items(l)[i]] = ListTime(l)
         /\ Holds(l, Items(l)[i])
BY ListFacts DEF State, Lists, OneList, ListTime, Holds

\* A step that neither puts anything out nor takes up a list.
LEMMA CacheCarries ==
  ASSUME Base, Base', CacheInv, Open, Open', setup.enabled, UNCHANGED <<setup, time, updateVars, known>>, todo' = todo,
         Out' = Out, dump # "parse",
         \A n : Left(n)' => Left(n), \A n : SureLeft(n) => SureLeft(n)',
         AtSlice' => AtSlice /\ slice'.list = slice.list
  PROVE  CacheInv'
<1>1. OnlyOnce /\ OnlyWindow /\ AllFound
  BY DEF CacheInv
<1>2. /\ Written' = Written /\ Cached' = Cached
      /\ \A l : ListTime(l)' = ListTime(l)
      /\ \A l, n : Holds(l, n)' <=> Holds(l, n)
      /\ \A n : PutOut(n)' <=> PutOut(n)
      /\ \A t : Inside(t)' <=> Inside(t)
  BY DEF Written, Cached, Live, ListTime, Items, Holds, PutOut, Inside
<1>3. OnlyOnce'
  BY <1>1 DEF OnlyOnce
<1>4. OnlyWindow'
  <2>1. \A n \in Numbers : PutOut(n)' => n \in 1..Written' /\ Inside(stamps[n])' /\ ~Left(n)'
    BY <1>1, <1>2 DEF OnlyWindow, Inside
  <2>2. \A n \in Numbers, l \in todo' : Holds(l, n)' => ~PutOut(n)'
    BY <1>1, <1>2 DEF OnlyWindow
  <2>3. \A l \in todo' : Inside(ListTime(l))'
    BY <1>1, <1>2 DEF OnlyWindow, Inside, ListTime, Items
  <2>4. AtSlice' => Inside(ListTime(slice.list))'
    BY <1>1, <1>2 DEF OnlyWindow, Inside, ListTime, Items
  <2> QED
    BY <2>1, <2>2, <2>3, <2>4 DEF OnlyWindow
<1>5. AllFound'
  <2>1. \A n : Found(n) => Found(n)'
    BY <1>2 DEF Found
  <2> QED
    BY <1>1, <1>2, <2>1 DEF AllFound, Inside
<1> QED
  BY <1>3, <1>4, <1>5 DEF CacheInv

\* The appends meanwhile.
LEMMA CacheMeanwhile ==
  ASSUME Base, Base', CacheInv, Open, setup.enabled, Elsewhere
  PROVE  CacheInv'
<1> USE DEF Base
<1>1. OnlyOnce /\ OnlyWindow /\ AllFound
  BY DEF CacheInv
<1>2. AppendOnly /\ UNCHANGED <<setup, callVars, dumpVars, channel, crashed>>
  BY ElsewhereKeeps
<1>3. Out' = Out /\ (\A n : PutOut(n)' <=> PutOut(n)) /\ (AtSlice' <=> AtSlice) /\ (\A t : Inside(t)' <=> Inside(t))
  BY <1>2 DEF Out, PutOut, AtSlice, Inside
<1>4. Written \in Int /\ Written' \in Int /\ Written <= Written' /\ (\A n \in 1..Written : n \in 1..Written' /\ n # Written + 1)
  BY <1>2, NumberFacts DEF AppendOnly
<1>5. todo \subseteq 1..Len(lists) /\ (AtSlice => slice.list \in 1..Len(lists))
  BY DEF DumpPlace
<1>6. ASSUME NEW l \in 1..Len(lists)
      PROVE  /\ ListTime(l)' = ListTime(l) /\ Len(Items(l)) \in Nat /\ Len(Items(l)') \in Nat
             /\ \A i \in 1..Len(Items(l)) : i \in 1..Len(Items(l)') /\ Items(l)'[i] = Items(l)[i]
             /\ \A i \in 1..Len(Items(l)') : i \in 1..Len(Items(l)) \/ Items(l)'[i] = Written + 1
  BY <1>2, ListFacts DEF AppendOnly
<1>7. \A l \in 1..Len(lists), n \in 1..Written : Holds(l, n)' <=> Holds(l, n)
  BY <1>4, <1>6 DEF Holds
<1>8. ASSUME NEW n \in 1..Written PROVE (Left(n)' => Left(n)) /\ (SureLeft(n) => SureLeft(n)')
  <2>1. CASE AtSlice
    <3>1. slice.list \in 1..Len(lists) /\ slice' = slice /\ next' = next /\ dump' = dump /\ AtSlice'
      BY <1>2, <1>3, <1>5, <2>1
    <3>2. /\ \A i \in 1..Len(Items(slice.list)) : i \in 1..Len(Items(slice.list)') /\ Items(slice.list)'[i] = Items(slice.list)[i]
          /\ \A i \in 1..Len(Items(slice.list)') : i \in 1..Len(Items(slice.list)) \/ Items(slice.list)'[i] = Written + 1
      BY <1>6, <3>1 DEF Items
    <3> QED
      BY <1>4, <2>1, <3>1, <3>2 DEF Left, SureLeft
  <2> QED
    BY <1>3, <2>1 DEF Left, SureLeft
<1>9. \A n \in 1..Written : stamps'[n] = stamps[n]
  BY <1>2 DEF AppendOnly
<1>10. OnlyOnce'
  BY <1>1, <1>3 DEF OnlyOnce
<1>11. OnlyWindow'
  <2>1. \A n \in Numbers : PutOut(n)' => n \in 1..Written' /\ Inside(stamps[n])' /\ ~Left(n)'
    <3>1. ASSUME NEW n \in Numbers, PutOut(n) PROVE n \in 1..Written /\ Inside(stamps[n]) /\ ~Left(n)
      BY <1>1, <3>1 DEF OnlyWindow
    <3> QED
      BY <1>2, <1>3, <1>4, <1>8, <1>9, <3>1 DEF Inside
  <2>2. \A n \in Numbers, l \in todo' : Holds(l, n)' => ~PutOut(n)'
    <3>1. \A n \in Numbers : PutOut(n) => n \in 1..Written
      BY <1>1 DEF OnlyWindow
    <3> QED
      BY <1>1, <1>2, <1>3, <1>5, <1>7, <3>1 DEF OnlyWindow
  <2>3. \A l \in todo' : Inside(ListTime(l))'
    <3>1. \A l \in todo : Inside(ListTime(l)) /\ ListTime(l)' = ListTime(l)
      BY <1>1, <1>5, <1>6 DEF OnlyWindow
    <3> QED
      BY <1>2, <3>1 DEF Inside
  <2>4. AtSlice' => Inside(ListTime(slice.list))'
    <3>1. AtSlice => Inside(ListTime(slice.list)) /\ ListTime(slice.list)' = ListTime(slice.list)
      BY <1>1, <1>2, <1>5, <1>6 DEF OnlyWindow, ListTime, Items
    <3> QED
      BY <1>2, <1>3, <3>1 DEF Inside
  <2> QED
    BY <2>1, <2>2, <2>3, <2>4 DEF OnlyWindow
<1>12. AllFound'
  <2>1. ASSUME NEW n \in known'.cached \cap Cached', Inside(stamps[n])', dump' # "parse" PROVE Found(n)'
    <3>1. n \in 1..Written /\ n \in known.cached
      BY <1>2, <2>1 DEF Knowledge
    <3>2. n \in Cached
      BY <2>1, <3>1, CachedShrinks
    <3>3. Inside(stamps[n]) /\ dump # "parse"
      BY <1>2, <1>9, <2>1, <3>1 DEF Inside
    <3>4. Found(n)
      BY <1>1, <3>1, <3>2, <3>3 DEF AllFound
    <3> QED
      BY <1>2, <1>3, <1>5, <1>7, <1>8, <3>1, <3>4 DEF Found
  <2> QED
    BY <2>1 DEF AllFound
<1> QED
  BY <1>10, <1>11, <1>12 DEF CacheInv

\* A list is taken up.
LEMMA CacheRangeOver ==
  ASSUME Base, Base', CacheInv, Open, Open', setup.enabled, RangeOver
  PROVE  CacheInv'
<1> USE DEF Base
<1>1. OnlyOnce /\ OnlyWindow /\ AllFound
  BY DEF CacheInv
<1>2. PICK l \in todo : slice' = [list |-> l, room |-> Room[lists[l].length], length |-> 0] /\ todo' = todo \ {l}
  BY DEF RangeOver
<1>3. /\ UNCHANGED <<setup, time, updateVars, known, channel, received>> /\ dump = "list" /\ dump' = "header"
      /\ slice'.list = l /\ slice'.room = Room[lists[l].length] /\ l \in 1..Len(lists) /\ ~AtSlice
  BY <1>2 DEF RangeOver, DumpPlace, AtSlice
<1>4. /\ Written' = Written /\ Cached' = Cached /\ Out' = Out /\ Items(slice.list)' = Items(l)
      /\ (\A k : ListTime(k)' = ListTime(k)) /\ (\A k, n : Holds(k, n)' <=> Holds(k, n))
      /\ (\A n : PutOut(n)' <=> PutOut(n))
  <2>1. Out' = Out
    BY <1>3, OutSame
  <2> QED
    BY <1>3, <2>1 DEF Written, Cached, Live, ListTime, Items, Holds, PutOut
<1>5. OnlyOnce'
  BY <1>1, <1>4 DEF OnlyOnce
<1>6. OnlyWindow'
  <2>1. ASSUME NEW n \in Numbers, PutOut(n) PROVE n \in 1..Written /\ Inside(stamps[n])' /\ ~Left(n)'
    <3>1. n \in 1..Written /\ Inside(stamps[n])' /\ ~Holds(l, n)
      BY <1>1, <1>2, <1>3, <2>1 DEF OnlyWindow, Inside
    <3> QED
      BY <1>4, <3>1 DEF Left, Holds
  <2>2. \A n \in Numbers, k \in todo' : Holds(k, n)' => ~PutOut(n)'
    BY <1>1, <1>2, <1>4 DEF OnlyWindow
  <2>3. \A k \in todo : Inside(ListTime(k))'
    BY <1>1, <1>3, <1>4 DEF OnlyWindow, Inside, ListTime, Items
  <2>4. Inside(ListTime(slice.list))'
    BY <1>2, <1>3, <2>3 DEF Inside, ListTime, Items
  <2> QED
    BY <1>2, <1>4, <2>1, <2>2, <2>3, <2>4 DEF OnlyWindow
<1>7. AllFound'
  <2>1. ASSUME NEW n \in known.cached \cap Cached, Inside(stamps[n]) PROVE Found(n)'
    <3>1. PutOut(n) \/ \E k \in todo : Holds(k, n)
      BY <1>1, <1>3, <2>1 DEF AllFound, Found, SureLeft
    <3>2. CASE PutOut(n) \/ \E k \in todo' : Holds(k, n)
      BY <1>4, <3>2 DEF Found
    <3>3. CASE Holds(l, n)
      <4>1. PICK i \in 1..Len(Items(l)) : Items(l)[i] = n
        BY <3>3 DEF Holds
      <4>2. lists[l].length \in Numbers /\ Len(Items(l)) \in Nat /\ Len(Items(l)) <= lists[l].length
        <5>1. lists[l].length = Len(Items(l)) \/ lists[l].length = Len(Items(l)) + 1
          BY <1>3 DEF State, Lists, OneList
        <5> QED
          BY <1>3, <5>1, ListFacts
      <4>3. Room[lists[l].length] >= lists[l].length /\ Room[lists[l].length] \in Nat /\ lists[l].length \in Int
        BY <4>2, RoomAssumption, BoundAssumption DEF Numbers
      <4>4. i <= slice'.room
        BY <1>3, <4>2, <4>3
      <4>5. AtSlice' /\ dump' = "header"
        BY <1>3 DEF AtSlice
      <4>6. SureLeft(n)'
        BY <1>4, <4>1, <4>4, <4>5 DEF SureLeft
      <4> QED
        BY <4>6 DEF Found
    <3> QED
      BY <1>2, <3>1, <3>2, <3>3
  <2> QED
    BY <1>3, <1>4, <2>1 DEF AllFound, Inside
<1> QED
  BY <1>5, <1>6, <1>7 DEF CacheInv

\* An element of it is loaded.
LEMMA CacheLoads ==
  ASSUME Base, Base', CacheInv, Open, Open', setup.enabled, LoadElement, next <= slice.length
  PROVE  CacheInv'
<1> USE DEF Base
<1>1. OnlyOnce /\ OnlyWindow /\ AllFound
  BY DEF CacheInv
<1> DEFINE l == slice.list
<1>2. /\ UNCHANGED <<setup, time, updateVars, known, channel, received, todo, slice>> /\ dump = "range" /\ dump' = "send"
      /\ item' = Element(next) /\ next' = next + 1 /\ AtSlice /\ AtSlice' /\ l \in 1..Len(lists) /\ l \notin todo
  BY DEF LoadElement, DumpPlace, AtSlice
<1>3. next \in Nat /\ next >= 1 /\ Len(Items(l)) \in Nat
  BY <1>2, ListFacts, NumberFacts DEF TypeOK
<1>4. /\ Len(Out') = Len(Out) + 1 /\ Out'[Len(Out) + 1] = item' /\ \A i \in 1..Len(Out) : Out'[i] = Out[i]
      /\ \A n : PutOut(n)' <=> PutOut(n) \/ n = item'
  BY <1>2, OutGrows
<1>5. /\ Written' = Written /\ Cached' = Cached /\ Items(slice.list)' = Items(l)
      /\ (\A k : ListTime(k)' = ListTime(k)) /\ (\A k, n : Holds(k, n)' <=> Holds(k, n))
  BY <1>2 DEF Written, Cached, Live, ListTime, Items, Holds
<1>6. \A i, j \in 1..Len(Items(l)) : i < j => Items(l)[i] < Items(l)[j]
  BY <1>2 DEF State, Lists, OneList
<1>7. ASSUME item' \in Numbers
      PROVE  /\ next <= slice.room /\ next \in 1..Len(Items(l)) /\ item' = Items(l)[next] /\ Left(item')
             /\ item' \in 1..Written /\ stamps[item'] = ListTime(l) /\ Holds(l, item')
  <2>1. next <= slice.room /\ next <= Len(Items(l)) /\ item' = Items(l)[next]
    BY <1>2, <1>3, <1>7, ElementFacts
  <2>2. next \in 1..Len(Items(l))
    BY <1>3, <2>1
  <2>3. Left(item')
    BY <1>2, <1>3, <2>1, <2>2 DEF Left
  <2> QED
    BY <1>2, <2>1, <2>2, <2>3, ListOfTime
<1>8. \A n : Left(n)' => \E i \in 1..Len(Items(l)) : Items(l)[i] = n /\ i >= next + 1
  BY <1>2, <1>5 DEF Left
<1>9. OnlyOnce'
  <2>1. SUFFICES ASSUME NEW i \in 1..Len(Out'), NEW j \in 1..Len(Out'), Out'[i] = Out'[j], Out'[i] \in Numbers PROVE i = j
    BY DEF OnlyOnce
  <2>2. \A k \in Nat : \A h \in 1..(k + 1) : h \in 1..k \/ h = k + 1
    OBVIOUS
  <2>3. Len(Out) \in Nat
    BY OutFacts
  <2>4. \A h \in 1..Len(Out') : h \in 1..Len(Out) \/ h = Len(Out) + 1
    BY <1>4, <2>2, <2>3
  <2>5. item' \in Numbers => ~PutOut(item')
    BY <1>1, <1>7 DEF OnlyWindow
  <2>6. item' \in Numbers => \A h \in 1..Len(Out) : Out[h] # item'
    BY <2>5 DEF PutOut
  <2> QED
    BY <1>1, <1>4, <2>1, <2>4, <2>6 DEF OnlyOnce
<1>10. OnlyWindow'
  <2>1. ASSUME NEW n \in Numbers, PutOut(n)' PROVE n \in 1..Written /\ Inside(stamps[n]) /\ ~Left(n)'
    <3>1. CASE PutOut(n)
      <4>1. n \in 1..Written /\ Inside(stamps[n]) /\ ~Left(n)
        BY <1>1, <3>1 DEF OnlyWindow
      <4>2. Left(n)' => Left(n)
        <5>1. \A i \in 1..Len(Items(l)) : i >= next + 1 => i >= next
          BY <1>3
        <5> QED
          BY <1>2, <1>8, <5>1 DEF Left
      <4> QED
        BY <4>1, <4>2
    <3>2. CASE n = item'
      <4>1. n \in 1..Written /\ stamps[n] = ListTime(l) /\ Inside(ListTime(l)) /\ n = Items(l)[next] /\ next \in 1..Len(Items(l))
        BY <1>1, <1>2, <1>7, <2>1, <3>2 DEF OnlyWindow
      <4>2. ASSUME NEW i \in 1..Len(Items(l)), i >= next + 1 PROVE Items(l)[i] # n
        <5>1. next < i
          BY <1>3, <4>2
        <5>2. Items(l)[next] < Items(l)[i] /\ Items(l)[next] \in Int /\ Items(l)[i] \in Int
          <6>1. Items(l)[next] \in Numbers /\ Items(l)[i] \in Numbers
            BY <1>2, <4>1, ListFacts
          <6>2. Numbers \subseteq Int
            BY NumberFacts
          <6> QED
            BY <1>6, <4>1, <5>1, <6>1, <6>2
        <5> QED
          BY <4>1, <5>2
      <4> QED
        BY <1>8, <4>1, <4>2
    <3> QED
      BY <1>4, <2>1, <3>1, <3>2
  <2>2. ASSUME NEW n \in Numbers, NEW k \in todo, Holds(k, n) PROVE ~PutOut(n)'
    <3>1. ~PutOut(n)
      BY <1>1, <2>2 DEF OnlyWindow
    <3>2. n # item'
      <4>1. SUFFICES ASSUME n = item' PROVE FALSE
        OBVIOUS
      <4>2. Holds(l, n) /\ k \in 1..Len(lists)
        BY <1>7, <2>2, <4>1 DEF DumpPlace
      <4>3. l = k
        BY <1>2, <2>2, <4>2 DEF State, Lists
      <4> QED
        BY <1>2, <2>2, <4>3
    <3> QED
      BY <1>4, <3>1, <3>2
  <2>3. (\A k \in todo' : Inside(ListTime(k))') /\ Inside(ListTime(slice.list))'
    BY <1>1, <1>2, <1>5 DEF OnlyWindow, Inside, ListTime, Items
  <2> QED
    BY <1>2, <1>5, <2>1, <2>2, <2>3 DEF OnlyWindow, Inside
<1>11. AllFound'
  <2>1. ASSUME NEW n \in known.cached \cap Cached, Inside(stamps[n]) PROVE Found(n)'
    <3>1. Found(n)
      BY <1>1, <1>2, <2>1 DEF AllFound
    <3>2. CASE PutOut(n) \/ \E k \in todo : Holds(k, n)
      BY <1>2, <1>4, <1>5, <3>2 DEF Found
    <3>3. CASE SureLeft(n)
      <4>1. PICK i \in 1..Len(Items(l)) : Items(l)[i] = n /\ i <= slice.room /\ i >= next /\ i <= slice.length
        BY <1>2, <3>3 DEF SureLeft
      <4>2. CASE i = next
        <5>1. Element(next) = n
          BY <1>2, <1>3, <4>1, <4>2, ElementFacts
        <5> QED
          BY <1>2, <1>4, <5>1 DEF Found
      <4>3. CASE i # next
        <5>1. i >= next + 1
          BY <1>3, <4>1, <4>3
        <5>2. SureLeft(n)'
          BY <1>2, <1>5, <4>1, <5>1 DEF SureLeft
        <5> QED
          BY <5>2 DEF Found
      <4> QED
        BY <4>2, <4>3
    <3> QED
      BY <3>1, <3>2, <3>3 DEF Found
  <2> QED
    BY <1>2, <1>5, <2>1 DEF AllFound, Inside
<1> QED
  BY <1>9, <1>10, <1>11 DEF CacheInv

LEMMA CacheNext ==
  ASSUME Base, Base', CacheInv, Next
  PROVE  CacheInv'
<1> USE DEF Base
<1>1. SUFFICES ASSUME Open', setup'.enabled PROVE CacheInv'
  BY DEF CacheInv
<1>2. CASE Call
  <2>1. /\ handler = "idle" /\ dump = "off" /\ dump' = "parse" /\ UNCHANGED <<received, channel, todo>>
    BY <1>2 DEF Call, DumpPlace
  <2>2. received = << >> /\ channel = << >> /\ todo' = {} /\ << >> \in Seq(Nil..Torn)
    BY <2>1, EmptySeq DEF DumpPlace
  <2>3. Out' = << >>
    <3>1. Out = << >> \o << >> /\ Out' = Out
      BY <2>1, <2>2, OutFacts, OutSame
    <3> QED
      BY <2>2, <3>1, NothingMore
  <2>4. \A n : ~PutOut(n)'
    BY <2>3, EmptySeq DEF PutOut
  <2>5. OnlyOnce' /\ OnlyWindow' /\ AllFound'
    BY <2>1, <2>2, <2>3, <2>4, EmptySeq DEF OnlyOnce, OnlyWindow, AllFound, AtSlice
  <2> QED
    BY <2>5 DEF CacheInv
<1>3. ASSUME ~Call PROVE Open /\ setup.enabled
  <2>1. setup' = setup /\ (handler' # "gone" => handler # "gone") /\ (handler' # "idle" => handler # "idle")
    <3>1. CASE Elsewhere
      BY <3>1, ElsewhereKeeps
    <3>2. CASE Handle \/ Dump
      BY <3>2 DEF Handle, Receive, Answer, Dump, Parse, DumpEnds, RangeOver, ReadLength, LoadElement, LoadCurrent, SendItem
    <3> QED
      BY <1>3, <3>1, <3>2 DEF Next, Elsewhere
  <2>2. handler \in {"idle", "receive", "answered", "gone"}
    BY DEF TypeOK
  <2> QED
    BY <1>1, <2>1, <2>2 DEF Open, Unparsed, Next
<1>4. CASE Elsewhere
  <2>1. ~Call
    BY <1>4, ElsewhereKeeps DEF Call
  <2> QED
    BY <1>3, <1>4, <2>1, CacheMeanwhile
<1>5. CASE Handle
  <2>1. /\ UNCHANGED <<setup, time, updateVars, known, dumpVars>> /\ ~Call /\ dump # "parse"
    BY <1>5 DEF Handle, Receive, Answer, Call, DumpPlace
  <2>2. Out' = Out
    <3>1. CASE Answer
      BY <3>1, OutSame DEF Answer
    <3>2. CASE Receive
      <4>1. handler' = "receive" /\ ~crashed'
        BY <1>1, <3>2 DEF Receive, Open
      <4> QED
        BY <3>2, <4>1, OutSame
    <3> QED
      BY <1>5, <3>1, <3>2 DEF Handle
  <2>3. /\ \A n : (Left(n)' <=> Left(n)) /\ (SureLeft(n)' <=> SureLeft(n))
        /\ AtSlice' <=> AtSlice
    BY <2>1 DEF Left, SureLeft, AtSlice, Items
  <2> QED
    BY <1>1, <1>3, <2>1, <2>2, <2>3, CacheCarries
<1>6. CASE Parse
  <2>1. ~Call /\ dump = "parse" /\ dump' = "list" /\ UNCHANGED <<setup, time, updateVars, known, received, channel>>
        /\ todo' = {cache[t].list : t \in {u \in Times : Live(u) /\ InWindow(u)}}
    <3>1. ~Call
      BY <1>6 DEF Parse, Call, DumpPlace
    <3> QED
      BY <1>3, <1>6, <3>1 DEF Parse, Open, Unparsed
  <2>2. received = << >> /\ channel = << >> /\ << >> \in Seq(Nil..Torn)
    BY <2>1, EmptySeq DEF DumpPlace
  <2>3. Out' = << >>
    <3>1. Out = << >> \o << >> /\ Out' = Out
      BY <2>1, <2>2, OutFacts, OutSame
    <3> QED
      BY <2>2, <3>1, NothingMore
  <2>4. \A n : ~PutOut(n)'
    BY <2>3, EmptySeq DEF PutOut
  <2>5. Cached' = Cached /\ (\A l : ListTime(l)' = ListTime(l)) /\ (\A l, n : Holds(l, n)' <=> Holds(l, n))
    BY <2>1 DEF Cached, Live, ListTime, Items, Holds
  <2>6. OnlyOnce'
    BY <2>3, EmptySeq DEF OnlyOnce
  <2>7. \A t \in Times : InWindow(t) <=> Inside(t)
    <3>1. ~Unparsed
      BY <1>3, <2>1 DEF Open
    <3>2. \A t \in Times : t \in Int
      BY BoundAssumption DEF Times
    <3>3. setup.window.start = Unbounded \/ setup.window.start \in Times
      BY <3>1, SetupFacts DEF Unparsed
    <3> QED
      BY <3>2, <3>3 DEF InWindow, AfterStart, BeforeEnd, Inside
  <2>8. OnlyWindow'
    <3>1. ASSUME NEW l \in todo' PROVE Inside(ListTime(l))
      <4>1. PICK t \in Times : Live(t) /\ InWindow(t) /\ l = cache[t].list
        BY <2>1, <3>1
      <4>2. ListTime(l) = t
        BY <4>1 DEF State, Lists, Live
      <4> QED
        BY <2>7, <4>1, <4>2
    <3>2. \A l \in todo' : Inside(ListTime(l))'
      BY <2>1, <3>1 DEF Inside, ListTime, Items
    <3> QED
      BY <2>1, <2>4, <3>2 DEF OnlyWindow, AtSlice
  <2>9. AllFound'
    <3>1. ASSUME NEW n \in Cached, Inside(stamps[n]) PROVE \E l \in todo' : Holds(l, n)
      <4>1. PICK t \in Times : Live(t) /\ cache[t].list \in 1..Len(lists) /\ Holds(cache[t].list, n) /\ stamps[n] = t
        BY CachedFacts
      <4>2. InWindow(t)
        BY <2>7, <3>1, <4>1
      <4>3. cache[t].list \in todo'
        BY <2>1, <4>1, <4>2
      <4> QED
        BY <4>1, <4>3
    <3>2. ASSUME NEW n \in known'.cached \cap Cached', Inside(stamps[n])' PROVE Found(n)'
      <4>1. n \in Cached /\ Inside(stamps[n])
        BY <2>1, <2>5, <3>2 DEF Inside
      <4> QED
        BY <2>5, <3>1, <4>1 DEF Found
    <3> QED
      BY <3>2 DEF AllFound
  <2> QED
    BY <2>6, <2>8, <2>9 DEF CacheInv
<1>7. CASE DumpEnds \/ ReadLength \/ SendItem \/ (LoadElement /\ ~(next <= slice.length))
  <2>1. UNCHANGED <<setup, time, updateVars, known>> /\ todo' = todo /\ ~Call /\ dump # "parse"
    BY <1>7 DEF DumpEnds, ReadLength, SendItem, LoadElement, Call, DumpPlace
  <2>2. Out' = Out
    BY <1>7, OutSame DEF DumpEnds, ReadLength, LoadElement, Closed
  <2>3. Open /\ setup.enabled
    BY <1>3, <2>1
  <2>4. /\ \A n : (Left(n)' => Left(n)) /\ (SureLeft(n) => SureLeft(n)')
        /\ AtSlice' => AtSlice /\ slice'.list = slice.list
    <3>1. CASE DumpEnds
      <4>1. ~AtSlice /\ ~AtSlice'
        BY <3>1 DEF DumpEnds, AtSlice, Closed
      <4> QED
        BY <4>1 DEF Left, SureLeft
    <3>2. CASE SendItem
      <4>1. AtSlice /\ AtSlice' /\ slice' = slice /\ next' = next /\ lists' = lists /\ dump = "send" /\ dump' = "range"
        BY <2>3, <3>2 DEF SendItem, AtSlice
      <4> QED
        BY <4>1 DEF Left, SureLeft, Items
    <3>3. CASE ReadLength
      <4>1. /\ AtSlice /\ AtSlice' /\ lists' = lists /\ dump = "header" /\ dump' = "range" /\ next' = 1
            /\ slice'.list = slice.list /\ slice'.room = slice.room /\ slice'.length = lists[slice.list].length
        BY <2>3, <3>3 DEF ReadLength, AtSlice, TypeOK
      <4>2. /\ Len(Items(slice.list)) \in Nat /\ slice.list \in 1..Len(lists)
            /\ lists[slice.list].length = Len(Items(slice.list)) \/ lists[slice.list].length = Len(Items(slice.list)) + 1
        BY <4>1, ListFacts DEF DumpPlace, State, Lists, OneList
      <4>3. \A i \in 1..Len(Items(slice.list)) : i >= 1 /\ i <= lists[slice.list].length
        BY <4>2
      <4>4. Items(slice.list)' = Items(slice.list)
        BY <4>1 DEF Items
      <4> QED
        BY <4>1, <4>3, <4>4 DEF Left, SureLeft
    <3>4. CASE LoadElement /\ ~(next <= slice.length)
      <4>1. AtSlice /\ ~AtSlice' /\ dump = "range"
        BY <2>3, <3>4 DEF LoadElement, AtSlice
      <4>2. next \in Int /\ slice.length \in Int
        BY NumberFacts DEF TypeOK
      <4>3. Len(Items(slice.list)) \in Nat
        BY <4>1, ListFacts DEF DumpPlace
      <4>4. \A i \in 1..Len(Items(slice.list)) : ~(i >= next /\ i <= slice.length)
        BY <3>4, <4>2, <4>3
      <4> QED
        BY <4>1, <4>4 DEF Left, SureLeft
    <3> QED
      BY <1>7, <3>1, <3>2, <3>3, <3>4
  <2> QED
    BY <1>1, <2>1, <2>2, <2>3, <2>4, CacheCarries
<1>8. CASE RangeOver
  <2>1. ~Call
    BY <1>8 DEF RangeOver, Call, DumpPlace
  <2> QED
    BY <1>1, <1>3, <1>8, <2>1, CacheRangeOver
<1>9. CASE LoadElement /\ next <= slice.length
  <2>1. ~Call
    BY <1>9 DEF LoadElement, Call, DumpPlace
  <2> QED
    BY <1>1, <1>3, <1>9, <2>1, CacheLoads
<1>10. CASE LoadCurrent
  <2>1. ~Call /\ ~setup.enabled
    BY <1>10 DEF LoadCurrent, Call, DumpPlace
  <2> QED
    BY <1>3, <2>1
<1> QED
  BY <1>2, <1>4, <1>5, <1>6, <1>7, <1>8, <1>9, <1>10 DEF Next, Elsewhere, Dump

\* An answer from the cache has all of the window that was cached when ReadCache was
\* called and is still, each reading once, and none of another time, though lists are
\* appended to, made and expire while GetCachedReadings goes over them without a lock.
THEOREM CacheIsExact == Spec => []CacheDumpExact
<1>1. Init => CacheInv
  BY DEF Init, CacheInv, Open
<1>2. Base /\ Base' /\ CacheInv /\ [Next]_vars => CacheInv'
  <2>1. ASSUME Base, CacheInv, UNCHANGED vars PROVE CacheInv'
    <3>1. Out' = Out /\ UNCHANGED <<setup, time, updateVars, known, handler, crashed, dumpVars>>
      BY <2>1 DEF Out, vars
    <3>2. \A n : (Left(n)' <=> Left(n)) /\ (SureLeft(n)' <=> SureLeft(n)) /\ (PutOut(n)' <=> PutOut(n))
      BY <3>1 DEF Left, SureLeft, AtSlice, Items, PutOut
    <3>3. Written' = Written /\ Cached' = Cached /\ (AtSlice' <=> AtSlice)
      BY <3>1 DEF Written, Cached, Live, AtSlice
    <3>4. (OnlyOnce' <=> OnlyOnce) /\ (Open' <=> Open)
      BY <3>1 DEF OnlyOnce, Open, Unparsed
    <3>5. OnlyWindow' <=> OnlyWindow
      BY <3>1, <3>2, <3>3 DEF OnlyWindow, Inside, Holds, Items, ListTime
    <3>6. AllFound' <=> AllFound
      BY <3>1, <3>2, <3>3 DEF AllFound, Found, Inside, Holds, Items
    <3> QED
      BY <2>1, <3>1, <3>4, <3>5, <3>6 DEF CacheInv
  <2> QED
    BY <2>1, CacheNext
<1>3. Base /\ CacheInv => CacheDumpExact
  <2>1. SUFFICES ASSUME Base, CacheInv, setup.enabled, Answered
                 PROVE  /\ \A i, j \in 1..Len(received) : received[i] = received[j] /\ received[i] \in Numbers => i = j
                        /\ \A n \in Got : Inside(stamps[n])
                        /\ {n \in known.cached \cap Cached : Inside(stamps[n])} \subseteq Got
    BY DEF CacheDumpExact
  <2> USE DEF Base
  <2>2. Open /\ dump = "closed" /\ channel = << >> /\ todo = {}
    BY <2>1 DEF Answered, Open, Unparsed, DumpPlace
  <2>3. received \in Seq(Nil..Torn)
    BY <2>1, SequenceFacts
  <2>4. Out = received /\ DOMAIN received = 1..Len(received)
    <3>1. Out = received \o << >>
      BY <2>1, <2>2, OutFacts
    <3> QED
      BY <2>3, <3>1, NothingMore, LenProperties
  <2>5. OnlyOnce /\ OnlyWindow /\ AllFound
    BY <2>1, <2>2 DEF CacheInv
  <2>6. \A n : PutOut(n) <=> n \in ToSet(received)
    BY <2>4 DEF PutOut, ToSet
  <2>7. \A n \in known.cached \cap Cached : Inside(stamps[n]) => PutOut(n)
    BY <2>2, <2>5 DEF AllFound, Found, SureLeft, AtSlice
  <2>8. Cached \subseteq Numbers
    BY <2>1, CachedFacts
  <2>9. \A n \in Got : Inside(stamps[n])
    BY <2>5, <2>6 DEF OnlyWindow, Got
  <2>10. {n \in known.cached \cap Cached : Inside(stamps[n])} \subseteq Got
    BY <2>6, <2>7, <2>8 DEF Got
  <2> QED
    BY <2>4, <2>5, <2>9, <2>10 DEF OnlyOnce
<1> QED
  BY <1>1, <1>2, <1>3, BaseAlways, PTL DEF Spec

=============================================================================
