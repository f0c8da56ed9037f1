---------------------------- MODULE ReadScheduler ----------------------------
(***************************************************************************)
(* The read path.  In every round scheduleReads starts a goroutine per     *)
(* device, which reads it alone (read), and one per handler, which reads   *)
(* the handler's devices together (bulkRead), and waits for all of them.   *)
(* Listeners push readings of their own.  Everything goes through readChan *)
(* to the one goroutine of updateReadings, which stores and dispatches it. *)
(* In serial mode the reads share serialLock with the writes.              *)
(***************************************************************************)
EXTENDS Naturals, Sequences, FiniteSets

CONSTANTS
  Devices, Handlers,
  Setups,        \* the plugins: handlers, their functions, and settings
  Writer, Free,  \* a write that competes for serialLock; nobody
  QueueSize,     \* Settings.Read.QueueSize
  MaxReadings    \* bound: how often each device gives a reading

Functions == {"Read", "BulkRead", "Listen"}

\* A goroutine of a round is named after what it reads.
Jobs == Devices \cup Handlers

ASSUME SetupAssumption ==
  Setups \subseteq [handler : [Devices -> Handlers], provides : [Handlers -> SUBSET Functions],
                    disabled : SUBSET Functions, serial : BOOLEAN]
ASSUME NameAssumption == Devices \cap Handlers = {} /\ {Writer, Free} \cap Jobs = {} /\ Writer # Free
ASSUME SizeAssumption == QueueSize \in Nat \ {0} /\ MaxReadings \in Nat

\* The readings of a device are numbered as the device gives them.
Readings == [device : Devices, number : 1..MaxReadings]

VARIABLES
  setup,
  stopped,       \* scheduler.stop is closed
  loop,          \* where scheduleReads is
  job,           \* where read and bulkRead are
  response,      \* what a goroutine has read and not yet sent
  serialLock,
  writer,        \* where a write is
  listener,      \* where listen is
  heard,         \* the reading that Listen is about to send
  readChan,
  updater,       \* where updateReadings is
  readings,      \* stateManager.readings, by number; 0 for none
  produced,      \* how many readings each device has given
  crashed        \* the process has panicked

roundVars == <<loop, job, response, serialLock>>
listenVars == <<listener, heard>>
stateVars == <<updater, readings>>
vars == <<setup, stopped, roundVars, writer, listenVars, readChan, stateVars,
          produced, crashed>>

TypeOK ==
  /\ setup \in Setups
  /\ stopped \in BOOLEAN /\ crashed \in BOOLEAN
  /\ loop \in {"off", "top", "wait"}
  /\ job \in [Jobs -> {"idle", "lock", "device", "hung", "send", "done"}]
  /\ response \in [Jobs -> SUBSET Readings]
  /\ serialLock \in Jobs \cup {Writer, Free}
  /\ writer \in {"idle", "lock", "device", "late", "done"}
  /\ listener \in [Devices -> {"off", "listening", "sending"}]
  /\ heard \in [Devices -> SUBSET Readings]
  /\ readChan \in Seq(Readings) /\ Len(readChan) <= QueueSize
  /\ updater \in {"take", "dispatch", "stuck"}
  /\ readings \in [Devices -> 0..MaxReadings]
  /\ produced \in [Devices -> 0..MaxReadings]

-----------------------------------------------------------------------------
(* Handlers and devices.                                                   *)

CanRead(h) == "Read" \in setup.provides[h]
CanBulkRead(h) == "BulkRead" \in setup.provides[h] /\ ~CanRead(h)
CanListen(h) == "Listen" \in setup.provides[h]

IsReadable_Any(d) == TRUE     \* faulty
IsReadable(d) ==
  LET h == setup.handler[d] IN CanRead(h) \/ CanListen(h) \/ CanBulkRead(h)

GetDevicesForHandler(h) == {d \in Devices : setup.handler[d] = h}
HasReadHandlers == \E h \in Handlers : CanRead(h) \/ CanBulkRead(h)

\* scheduleListen runs a listener for each device of each handler that has one.
Listens(d) == "Listen" \notin setup.disabled /\ CanListen(setup.handler[d])

\* The devices that a goroutine reads, if it reads at all.
Targets(j) == IF j \in Devices THEN {j} ELSE GetDevicesForHandler(j)

\* Neither reads what the other does: read leaves devices with a bulk read alone.
Skips_Never(j) == j \in Handlers /\ GetDevicesForHandler(j) = {}     \* faulty
Skips(j) ==
  IF j \in Devices THEN CanBulkRead(setup.handler[j])
  ELSE ~CanBulkRead(j) \/ GetDevicesForHandler(j) = {}

\* Device.Read calls a function that the handler does not have.
CallsNil(j) == j \in Devices /\ IsReadable(j) /\ ~CanRead(setup.handler[j])

\* A function of the plugin is called; the others are unsupported.
Called(j) == IF j \in Devices THEN CanRead(setup.handler[j]) ELSE TRUE

-----------------------------------------------------------------------------
Init ==
  /\ setup \in Setups
  /\ stopped = FALSE /\ crashed = FALSE
  /\ loop = IF "Read" \in setup.disabled \/ ~HasReadHandlers THEN "off" ELSE "top"
  /\ job = [j \in Jobs |-> "idle"]
  /\ response = [j \in Jobs |-> {}]
  /\ serialLock = Free /\ writer = "idle"
  /\ listener = [d \in Devices |-> IF Listens(d) THEN "listening" ELSE "off"]
  /\ heard = [d \in Devices |-> {}]
  /\ readChan = << >> /\ updater = "take"
  /\ readings = [d \in Devices |-> 0]
  /\ produced = [d \in Devices |-> 0]

-----------------------------------------------------------------------------
(* The loop.                                                               *)

Stop ==
  /\ ~stopped
  /\ stopped' = TRUE
  /\ UNCHANGED <<setup, roundVars, writer, listenVars, readChan, stateVars,
                 produced, crashed>>

\* A goroutine with nothing to read returns; the rate limiter delays the others.
Entry_Forgotten(j) ==     \* faulty
  IF Skips(j) THEN "idle" ELSE IF setup.serial THEN "lock" ELSE "device"
Entry(j) == IF Skips(j) THEN "done" ELSE IF setup.serial THEN "lock" ELSE "device"

MayLaunch_Always == TRUE     \* faulty
MayLaunch == ~stopped

\* stop is looked at between two rounds; then all goroutines of a round start.
Launch ==
  /\ loop = "top"
  /\ IF MayLaunch
     THEN loop' = "wait" /\ job' = [j \in Jobs |-> Entry(j)]
     ELSE loop' = "off" /\ UNCHANGED job
  /\ UNCHANGED <<setup, stopped, response, serialLock, writer, listenVars, readChan,
                 stateVars, produced, crashed>>

RoundOver == \A j \in Jobs : job[j] = "done"

\* waitGroup.Wait returns, and the interval passes.
EndRound ==
  /\ loop = "wait"
  /\ RoundOver
  /\ loop' = "top"
  /\ job' = [j \in Jobs |-> "idle"]
  /\ UNCHANGED <<setup, stopped, response, serialLock, writer, listenVars, readChan,
                 stateVars, produced, crashed>>

-----------------------------------------------------------------------------
(* read and bulkRead.                                                      *)

LockIsFree_Reads == serialLock \notin Jobs     \* faulty
LockIsFree == serialLock = Free

Lock(j) ==
  /\ job[j] = "lock"
  /\ LockIsFree
  /\ serialLock' = j
  /\ job' = [job EXCEPT ![j] = "device"]
  /\ UNCHANGED <<setup, stopped, loop, response, writer, listenVars, readChan, stateVars, produced, crashed>>

\* The readings of some devices, each the next of its device.
NextReadings(answering) ==
  {[device |-> d, number |-> produced[d] + 1] : d \in answering}

MayAnswer(j) == {d \in Targets(j) : Called(j) /\ produced[d] < MaxReadings}

\* The devices that answer do, the others fail; an unsupported read is an error.
DeviceAnswers(j) ==
  /\ job[j] = "device"
  /\ ~CallsNil(j)
  /\ \E answering \in SUBSET MayAnswer(j) :
       /\ response' = [response EXCEPT ![j] = NextReadings(answering)]
       /\ produced' = [d \in Devices |-> IF d \in answering THEN produced[d] + 1 ELSE produced[d]]
  /\ job' = [job EXCEPT ![j] = "send"]
  /\ UNCHANGED <<setup, stopped, loop, serialLock, writer, listenVars, readChan, stateVars, crashed>>

Panic(j) ==
  /\ job[j] = "device"
  /\ CallsNil(j)
  /\ crashed' = TRUE
  /\ UNCHANGED <<setup, stopped, roundVars, writer, listenVars, readChan, stateVars,
                 produced>>

\* The function of the plugin never returns: reads have no timeout.
Hang(j) ==
  /\ job[j] = "device"
  /\ Called(j)
  /\ job' = [job EXCEPT ![j] = "hung"]
  /\ UNCHANGED <<setup, stopped, loop, response, serialLock, writer, listenVars, readChan,
                 stateVars, produced, crashed>>

\* finalizeReadings fails, because a transformer does: the reading is discarded.
Discard(j) ==
  /\ job[j] = "send"
  /\ \E r \in response[j] : response' = [response EXCEPT ![j] = @ \ {r}]
  /\ UNCHANGED <<setup, stopped, loop, job, serialLock, writer, listenVars, readChan,
                 stateVars, produced, crashed>>

HasRoom_OneMore == Len(readChan) <= QueueSize     \* faulty
HasRoom == Len(readChan) < QueueSize

Enqueue_InFront(r) == <<r>> \o readChan     \* faulty
Enqueue(r) == Append(readChan, r)

\* The send blocks, with the lock, until the channel has room.
SendReading(j) ==
  /\ job[j] = "send"
  /\ HasRoom
  /\ \E r \in response[j] :
       /\ readChan' = Enqueue(r)
       /\ response' = [response EXCEPT ![j] = @ \ {r}]
  /\ UNCHANGED <<setup, stopped, loop, job, serialLock, writer, listenVars, stateVars, produced, crashed>>

Unlocked_Alone(j) == IF serialLock = j /\ j \in Devices THEN Free ELSE serialLock     \* faulty
Unlocked(j) == IF serialLock = j THEN Free ELSE serialLock

\* The delay passes, and the deferred unlock runs.
EndRead(j) ==
  /\ job[j] = "send"
  /\ response[j] = {}
  /\ serialLock' = Unlocked(j)
  /\ job' = [job EXCEPT ![j] = "done"]
  /\ UNCHANGED <<setup, stopped, loop, response, writer, listenVars, readChan, stateVars, produced, crashed>>

-----------------------------------------------------------------------------
(* A write, which takes the lock in serial mode.  The device is called in a *)
(* goroutine of its own, which write waits for until the timeout.          *)

WriteBegins ==
  /\ setup.serial
  /\ writer = "idle"
  /\ writer' = "lock"
  /\ UNCHANGED <<setup, stopped, roundVars, listenVars, readChan, stateVars,
                 produced, crashed>>

WriteLocks ==
  /\ writer = "lock"
  /\ LockIsFree
  /\ serialLock' = Writer
  /\ writer' = "device"
  /\ UNCHANGED <<setup, stopped, loop, job, response, listenVars, readChan, stateVars, produced, crashed>>

\* The device returns in time, and after the delay write lets go of the lock.
WriteEnds ==
  /\ writer = "device"
  /\ serialLock' = Free
  /\ writer' = "done"
  /\ UNCHANGED <<setup, stopped, loop, job, response, listenVars, readChan, stateVars, produced, crashed>>

\* At the timeout write lets go of the lock, while its goroutine is still at the device.
WriteTimesOut ==
  /\ writer = "device"
  /\ serialLock' = Free
  /\ writer' = "late"
  /\ UNCHANGED <<setup, stopped, loop, job, response, listenVars, readChan, stateVars, produced, crashed>>

\* The device returns after all; or never.
WriteReturns ==
  /\ writer = "late"
  /\ writer' = "done"
  /\ UNCHANGED <<setup, stopped, roundVars, listenVars, readChan, stateVars, produced, crashed>>

-----------------------------------------------------------------------------
(* listen.                                                                 *)

ListenerHears(d) ==
  /\ listener[d] = "listening"
  /\ produced[d] < MaxReadings
  /\ heard' = [heard EXCEPT ![d] = NextReadings({d})]
  /\ produced' = [produced EXCEPT ![d] = @ + 1]
  /\ listener' = [listener EXCEPT ![d] = "sending"]
  /\ UNCHANGED <<setup, stopped, roundVars, writer, readChan, stateVars, crashed>>

ListenerSends(d) ==
  /\ listener[d] = "sending"
  /\ HasRoom
  /\ \E r \in heard[d] : readChan' = Enqueue(r)
  /\ heard' = [heard EXCEPT ![d] = {}]
  /\ listener' = [listener EXCEPT ![d] = "listening"]
  /\ UNCHANGED <<setup, stopped, roundVars, writer, stateVars, produced, crashed>>

\* Listen returns an error and is called again, without a look at stop; without
\* an error it is not.
ListenerReturns(d) ==
  /\ listener[d] \in {"listening", "sending"}
  /\ heard' = [heard EXCEPT ![d] = {}]
  /\ \E failed \in BOOLEAN :
       listener' = [listener EXCEPT ![d] = IF failed THEN "listening" ELSE "off"]
  /\ UNCHANGED <<setup, stopped, roundVars, writer, readChan, stateVars, produced,
                 crashed>>

-----------------------------------------------------------------------------
(* updateReadings.                                                         *)

MayTake_Serial == readChan # << >> /\ LockIsFree     \* faulty
MayTake == readChan # << >>

\* A reading is taken and, with readingsLock held for this only, stored.
Take ==
  LET r == Head(readChan) IN
  /\ updater = "take"
  /\ MayTake
  /\ readChan' = Tail(readChan)
  /\ readings' = [readings EXCEPT ![r.device] = r.number]
  /\ updater' = "dispatch"
  /\ UNCHANGED <<setup, stopped, roundVars, writer, listenVars, produced, crashed>>

\* The reading is dispatched to the streams and cached.  A stream that nobody
\* drains any more keeps the dispatch for ever.
Dispatch ==
  /\ updater = "dispatch"
  /\ updater' = "take"
  /\ UNCHANGED <<setup, stopped, roundVars, writer, listenVars, readChan, readings,
                 produced, crashed>>

StreamSticks ==
  /\ updater = "dispatch"
  /\ updater' = "stuck"
  /\ UNCHANGED <<setup, stopped, roundVars, writer, listenVars, readChan, readings, produced, crashed>>

-----------------------------------------------------------------------------
Loop == Launch \/ EndRound

Read(j) ==
  Lock(j) \/ DeviceAnswers(j) \/ Panic(j) \/ Discard(j) \/ SendReading(j) \/ EndRead(j)

Update == Take \/ Dispatch

\* A panic in any goroutine ends the process.
Next ==
  /\ ~crashed
  /\ \/ Stop \/ Loop \/ Update \/ StreamSticks
     \/ WriteBegins \/ WriteLocks \/ WriteEnds \/ WriteTimesOut \/ WriteReturns
     \/ \E j \in Jobs : Read(j) \/ Hang(j)
     \/ \E d \in Devices : ListenerHears(d) \/ ListenerSends(d) \/ ListenerReturns(d)

Spec == Init /\ [][Next]_vars

\* Goroutines that can take a step do so, and whoever waits for a lock gets it:
\* Go's mutexes do not starve a waiter.  Devices owe nothing but the end of a read
\* that does not hang, streams nothing; a write waits no longer than its timeout.
Fairness ==
  /\ WF_vars(~crashed /\ Loop) /\ WF_vars(~crashed /\ Update)
  /\ \A j \in Jobs : WF_vars(~crashed /\ Read(j))
  /\ SF_vars(~crashed /\ WriteLocks) /\ WF_vars(~crashed /\ (WriteEnds \/ WriteTimesOut))

FairSpec == Spec /\ Fairness

-----------------------------------------------------------------------------
(* What the read path guarantees.                                          *)

AtDevice(j) == job[j] \in {"device", "hung", "send"}

\* In serial mode no two reads are at their devices at once, hung or not, and none is
\* while a write waits for its device.  A write that has timed out is at its device
\* without the lock ("late"), and a read may run beside it.
SerialReads ==
  setup.serial =>
    \A j \in Jobs : AtDevice(j) =>
      writer # "device" /\ \A k \in Jobs : AtDevice(k) => k = j

\* In both modes no device is read by two goroutines at once: not alone and in
\* bulk, and not by two rounds.
OneReader ==
  \A j, k \in Jobs :
    AtDevice(j) /\ AtDevice(k) /\ Targets(j) \cap Targets(k) # {} => j = k

\* A plugin whose listeners can also be read does not panic: what is unsupported is
\* an error.
OnlyListenersPanic ==
  (\A h \in Handlers : CanListen(h) => CanRead(h) \/ CanBulkRead(h)) => ~crashed

\* The current reading of a device never goes back to an older one, unless it is
\* both read and listened to.
ReadingsAdvance ==
  [][\A d \in Devices : ~Listens(d) => readings'[d] >= readings[d]]_vars

Hung == \E j \in Jobs : job[j] = "hung"
Stuck == updater = "stuck"

\* What is queued is stored, or a later reading of the device is, whatever hangs
\* on the way into the queue.
QueuedIsStored ==
  \A d \in Devices : \A n \in 1..MaxReadings :
    (\E i \in 1..Len(readChan) : readChan[i] = [device |-> d, number |-> n])
      ~> readings[d] >= n \/ Stuck \/ crashed

\* Rounds end, and so devices are read again, as long as no device hangs and no
\* stream sticks.
RoundsEnd == loop = "wait" ~> loop # "wait" \/ Hung \/ Stuck \/ crashed

\* A write in serial mode gets its turn however many reads there are.
WritesGetLock == writer = "lock" ~> writer = "device" \/ Hung \/ Stuck \/ crashed

\* After stop the loop ends.
StopEndsReads == stopped ~> loop = "off" \/ Hung \/ Stuck \/ crashed
=============================================================================
