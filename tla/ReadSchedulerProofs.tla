------------------------- MODULE ReadSchedulerProofs -------------------------
(* Proofs about ReadScheduler: its type, who is at the devices, when the   *)
(* process panics, and that the readings of a device do not go back.       *)
EXTENDS ReadScheduler, TLAPS

USE SetupAssumption, NameAssumption, SizeAssumption

-----------------------------------------------------------------------------
(* The inductive invariant.                                                *)

\* Between two rounds no goroutine of a round is left.
Quiet == loop # "wait" => \A j \in Jobs : job[j] = "idle"

\* In serial mode the lock is with who is at the devices; otherwise nobody uses it.
LockHeld ==
  IF setup.serial
  THEN /\ \A j \in Jobs : AtDevice(j) <=> serialLock = j
       /\ writer = "device" <=> serialLock = Writer
  ELSE writer = "idle" /\ serialLock = Free /\ \A j \in Jobs : job[j] # "lock"

\* A goroutine that has nothing to read never gets to a device.
NoneSkips == \A j \in Jobs : job[j] \notin {"idle", "done"} => ~Skips(j)

\* What a panic takes.
PanicCause == crashed => \E j \in Jobs : CallsNil(j) /\ ~Skips(j)

\* Readings that wait to be sent are the last ones of devices that are read.
Fresh ==
  \A j \in Jobs : \A r \in response[j] :
    /\ job[j] = "send"
    /\ r.device \in Targets(j)
    /\ ~Listens(r.device) => r.number = produced[r.device]

\* Listeners hear their own device.
Own ==
  \A d \in Devices :
    /\ listener[d] # "off" => Listens(d)
    /\ heard[d] # {} => listener[d] = "sending"
    /\ \A r \in heard[d] : r.device = d

\* From the state to the queue, and from there to what waits to be sent, the
\* numbers of a device increase.
InOrder ==
  \A d \in Devices : ~Listens(d) =>
    /\ readings[d] <= produced[d]
    /\ \A i \in 1..Len(readChan) : readChan[i].device = d =>
         /\ readings[d] < readChan[i].number
         /\ readChan[i].number <= produced[d]
         /\ \A k \in 1..Len(readChan) :
              i < k /\ readChan[k].device = d => readChan[i].number < readChan[k].number
    /\ \A j \in Jobs : \A r \in response[j] : r.device = d =>
         /\ readings[d] < produced[d]
         /\ \A i \in 1..Len(readChan) : readChan[i].device = d => readChan[i].number < produced[d]

IInv == TypeOK /\ Quiet /\ LockHeld /\ NoneSkips /\ PanicCause /\ Fresh /\ Own /\ InOrder


-----------------------------------------------------------------------------
(* What a setup is made of.                                                *)

\* Handlers are handlers, functions are functions, and targets are devices.
LEMMA SetupParts ==
  ASSUME TypeOK
  PROVE  /\ setup.serial \in BOOLEAN
         /\ \A d \in Devices : setup.handler[d] \in Handlers
         /\ \A j \in Jobs : Targets(j) \subseteq Devices
  BY DEF TypeOK, Targets, GetDevicesForHandler, Jobs

\* Two goroutines that both have something to read never read the same device.
LEMMA TargetsDisjoint ==
  ASSUME TypeOK, NEW j \in Jobs, NEW k \in Jobs, ~Skips(j), ~Skips(k),
         Targets(j) \cap Targets(k) # {}
  PROVE  j = k
<1>1. CASE j \in Devices /\ k \in Devices
  BY <1>1 DEF Targets
<1>2. CASE j \in Devices /\ k \in Handlers
  BY <1>2 DEF Targets, GetDevicesForHandler, Skips
<1>3. CASE j \in Handlers /\ k \in Devices
  BY <1>3 DEF Targets, GetDevicesForHandler, Skips
<1>4. CASE j \in Handlers /\ k \in Handlers
  BY <1>4 DEF Targets, GetDevicesForHandler, Jobs
<1> QED
  BY <1>1, <1>2, <1>3, <1>4 DEF Jobs

\* The readings that devices give are readings.
LEMMA NextAreReadings ==
  ASSUME TypeOK, NEW answering \in SUBSET Devices, \A d \in answering : produced[d] < MaxReadings
  PROVE  NextReadings(answering) \in SUBSET Readings
  BY DEF TypeOK, NextReadings, Readings

-----------------------------------------------------------------------------
(* The type.                                                               *)

LEMMA TypeInit == Init => TypeOK
<1> SUFFICES ASSUME Init PROVE TypeOK
  OBVIOUS
<1>1. readChan \in Seq(Readings) /\ Len(readChan) <= QueueSize
  BY DEF Init
<1>2. /\ loop \in {"off", "top", "wait"}
      /\ listener \in [Devices -> {"off", "listening", "sending"}]
  BY DEF Init
<1>3. /\ job \in [Jobs -> {"idle", "lock", "device", "hung", "send", "done"}]
      /\ response \in [Jobs -> SUBSET Readings]
      /\ heard \in [Devices -> SUBSET Readings]
      /\ readings \in [Devices -> 0..MaxReadings]
      /\ produced \in [Devices -> 0..MaxReadings]
  BY DEF Init
<1> QED
  BY <1>1, <1>2, <1>3 DEF Init, TypeOK

LEMMA TypeStep ==
  ASSUME IInv, [Next]_vars
  PROVE  TypeOK'
<1> USE DEF IInv
<1>1. CASE Stop
  BY <1>1 DEF TypeOK, Stop, roundVars, listenVars, stateVars
<1>2. CASE Launch
  BY <1>2 DEF TypeOK, Launch, Entry, roundVars, listenVars, stateVars
<1>3. CASE EndRound
  BY <1>3 DEF TypeOK, EndRound, roundVars, listenVars, stateVars
<1>4. CASE Take
  <2>1. readChan # << >> /\ Head(readChan) \in Readings
    BY <1>4 DEF Take, MayTake, TypeOK
  <2>2. readChan' \in Seq(Readings) /\ Len(readChan)' <= QueueSize
    BY <1>4, <2>1 DEF Take, TypeOK
  <2>3. readings' \in [Devices -> 0..MaxReadings]
    BY <1>4, <2>1, SMTT(20) DEF Take, TypeOK, Readings
  <2> QED
    BY <1>4, <2>2, <2>3 DEF TypeOK, Take, roundVars, listenVars
<1>5. CASE Dispatch
  BY <1>5 DEF TypeOK, Dispatch, roundVars, listenVars, stateVars
<1>6. CASE StreamSticks
  BY <1>6 DEF TypeOK, StreamSticks, roundVars, listenVars, stateVars
<1>7. CASE WriteBegins
  BY <1>7 DEF TypeOK, WriteBegins, roundVars, listenVars, stateVars
<1>8. CASE WriteLocks
  BY <1>8 DEF TypeOK, WriteLocks, roundVars, listenVars, stateVars, LockIsFree
<1>9. CASE WriteEnds \/ WriteTimesOut \/ WriteReturns
  BY <1>9 DEF TypeOK, WriteEnds, WriteTimesOut, WriteReturns, roundVars, listenVars, stateVars
<1>10. ASSUME NEW j \in Jobs, Lock(j) PROVE TypeOK'
  BY <1>10 DEF TypeOK, Lock, roundVars, listenVars, stateVars
<1>11. ASSUME NEW j \in Jobs, DeviceAnswers(j) PROVE TypeOK'
  <2>1. PICK answering \in SUBSET MayAnswer(j) :
          /\ response' = [response EXCEPT ![j] = NextReadings(answering)]
          /\ produced' = [e \in Devices |-> IF e \in answering THEN produced[e] + 1 ELSE produced[e]]
    BY <1>11 DEF DeviceAnswers
  <2>2. answering \in SUBSET Devices /\ \A e \in answering : produced[e] < MaxReadings
    BY SetupParts DEF MayAnswer
  <2>3. NextReadings(answering) \in SUBSET Readings
    BY <2>2, NextAreReadings
  <2>4. response' \in [Jobs -> SUBSET Readings]
    BY <2>1, <2>3 DEF TypeOK
  <2>5. produced' \in [Devices -> 0..MaxReadings]
    BY <2>1, <2>2 DEF TypeOK
  <2> QED
    BY <1>11, <2>4, <2>5 DEF TypeOK, DeviceAnswers, listenVars, stateVars
<1>12. ASSUME NEW j \in Jobs, Panic(j) PROVE TypeOK'
  BY <1>12 DEF TypeOK, Panic, roundVars, listenVars, stateVars
<1>13. ASSUME NEW j \in Jobs, Discard(j) PROVE TypeOK'
  BY <1>13 DEF TypeOK, Discard, roundVars, listenVars, stateVars
<1>14. ASSUME NEW j \in Jobs, SendReading(j) PROVE TypeOK'
  <2>1. PICK r \in response[j] :
          readChan' = Append(readChan, r) /\ response' = [response EXCEPT ![j] = @ \ {r}]
    BY <1>14 DEF SendReading, Enqueue
  <2>2. r \in Readings /\ Len(readChan) < QueueSize
    BY <1>14 DEF SendReading, HasRoom, TypeOK
  <2>3. readChan' \in Seq(Readings) /\ Len(readChan)' <= QueueSize
    BY <2>1, <2>2 DEF TypeOK
  <2>4. response' \in [Jobs -> SUBSET Readings]
    BY <2>1 DEF TypeOK
  <2> QED
    BY <1>14, <2>3, <2>4 DEF TypeOK, SendReading, listenVars, stateVars
<1>15. ASSUME NEW j \in Jobs, EndRead(j) PROVE TypeOK'
  BY <1>15 DEF TypeOK, EndRead, Unlocked, listenVars, stateVars
<1>16. ASSUME NEW j \in Jobs, Hang(j) PROVE TypeOK'
  BY <1>16 DEF TypeOK, Hang, roundVars, listenVars, stateVars
<1>17. ASSUME NEW d \in Devices, ListenerHears(d) PROVE TypeOK'
  <2>1. NextReadings({d}) \in SUBSET Readings
    BY <1>17, NextAreReadings DEF ListenerHears
  <2>2. heard' \in [Devices -> SUBSET Readings]
    BY <1>17, <2>1 DEF TypeOK, ListenerHears
  <2>3. produced' \in [Devices -> 0..MaxReadings]
    BY <1>17 DEF TypeOK, ListenerHears
  <2>4. listener' \in [Devices -> {"off", "listening", "sending"}]
    BY <1>17 DEF TypeOK, ListenerHears
  <2> QED
    BY <1>17, <2>2, <2>3, <2>4 DEF TypeOK, ListenerHears, roundVars, stateVars
<1>18. ASSUME NEW d \in Devices, ListenerSends(d) PROVE TypeOK'
  <2>1. PICK r \in heard[d] : readChan' = Append(readChan, r)
    BY <1>18 DEF ListenerSends, Enqueue
  <2>2. r \in Readings /\ Len(readChan) < QueueSize
    BY <1>18 DEF ListenerSends, HasRoom, TypeOK
  <2>3. readChan' \in Seq(Readings) /\ Len(readChan)' <= QueueSize
    BY <2>1, <2>2 DEF TypeOK
  <2> QED
    BY <1>18, <2>3 DEF TypeOK, ListenerSends, roundVars, stateVars
<1>19. ASSUME NEW d \in Devices, ListenerReturns(d) PROVE TypeOK'
  BY <1>19 DEF TypeOK, ListenerReturns, roundVars, listenVars, stateVars
<1>20. CASE UNCHANGED vars
  BY <1>20 DEF TypeOK, vars, roundVars, listenVars, stateVars, roundVars, listenVars, stateVars
<1> QED
  BY <1>1, <1>2, <1>3, <1>4, <1>5, <1>6, <1>7, <1>8, <1>9, <1>10, <1>11, <1>12, <1>13, <1>14,
     <1>15, <1>16, <1>17, <1>18, <1>19, <1>20 DEF Next, Loop, Read, Update

-----------------------------------------------------------------------------
(* Who is at a device.                                                     *)

LEMMA RoundStep ==
  ASSUME IInv, [Next]_vars
  PROVE  (Quiet /\ LockHeld /\ NoneSkips)'
<1> USE DEF IInv
<1>1. CASE Stop
  BY <1>1 DEF Stop, TypeOK, Jobs, Quiet, LockHeld, NoneSkips, AtDevice, Skips,
              GetDevicesForHandler, CanBulkRead, CanRead, Entry, RoundOver, LockIsFree, Unlocked,
              Called, roundVars, listenVars, stateVars
<1>2. CASE Launch
  <2>1. CASE stopped
    BY <1>2, <2>1 DEF Launch, MayLaunch, TypeOK, Jobs, Quiet, LockHeld, NoneSkips, AtDevice, Skips,
                      GetDevicesForHandler, CanBulkRead, CanRead, stateVars, listenVars
  <2>2. CASE ~stopped
    <3>1. job' = [j \in Jobs |-> Entry(j)] /\ loop' = "wait"
      BY <1>2, <2>2 DEF Launch, MayLaunch
    <3>2. \A j \in Jobs : job'[j] = Entry(j)
      BY <3>1
    <3>3. UNCHANGED <<setup, serialLock, writer>>
      BY <1>2 DEF Launch
    <3>4. \A j \in Jobs : Skips(j)' <=> Skips(j)
      BY <3>3 DEF Skips, GetDevicesForHandler, CanBulkRead, CanRead
    <3>5. Quiet'
      BY <3>1 DEF Quiet
    <3>6. NoneSkips'
      BY <3>2, <3>4 DEF NoneSkips, Entry
    <3>7. \A j \in Jobs : job[j] = "idle"
      BY <1>2 DEF Launch, Quiet
    <3>8. LockHeld'
      <4>1. CASE setup.serial
        <5>1. \A j \in Jobs : job'[j] \in {"done", "lock"}
          BY <3>2, <4>1 DEF Entry
        <5> QED
          BY <3>3, <3>7, <4>1, <5>1 DEF LockHeld, AtDevice
      <4>2. CASE ~setup.serial
        <5>1. \A j \in Jobs : job'[j] \in {"done", "device"}
          BY <3>2, <4>2 DEF Entry
        <5> QED
          BY <3>3, <4>2, <5>1 DEF LockHeld
      <4> QED
        BY <4>1, <4>2
    <3> QED
      BY <3>5, <3>6, <3>8
  <2> QED
    BY <2>1, <2>2 DEF TypeOK
<1>3. CASE EndRound
  BY <1>3 DEF EndRound, TypeOK, Jobs, Quiet, LockHeld, NoneSkips, AtDevice, Skips,
              GetDevicesForHandler, CanBulkRead, CanRead, Entry, RoundOver, LockIsFree, Unlocked,
              Called, roundVars, listenVars, stateVars
<1>4. CASE Take
  BY <1>4 DEF Take, TypeOK, Jobs, Quiet, LockHeld, NoneSkips, AtDevice, Skips,
              GetDevicesForHandler, CanBulkRead, CanRead, Entry, RoundOver, LockIsFree, Unlocked,
              Called, roundVars, listenVars, stateVars
<1>5. CASE Dispatch
  BY <1>5 DEF Dispatch, TypeOK, Jobs, Quiet, LockHeld, NoneSkips, AtDevice, Skips,
              GetDevicesForHandler, CanBulkRead, CanRead, Entry, RoundOver, LockIsFree, Unlocked,
              Called, roundVars, listenVars, stateVars
<1>6. CASE StreamSticks
  BY <1>6 DEF StreamSticks, TypeOK, Jobs, Quiet, LockHeld, NoneSkips, AtDevice, Skips,
              GetDevicesForHandler, CanBulkRead, CanRead, Entry, RoundOver, LockIsFree, Unlocked,
              Called, roundVars, listenVars, stateVars
<1>7. CASE WriteBegins
  BY <1>7 DEF WriteBegins, TypeOK, Jobs, Quiet, LockHeld, NoneSkips, AtDevice, Skips,
              GetDevicesForHandler, CanBulkRead, CanRead, Entry, RoundOver, LockIsFree, Unlocked,
              Called, roundVars, listenVars, stateVars
<1>8. CASE WriteLocks
  BY <1>8 DEF WriteLocks, TypeOK, Jobs, Quiet, LockHeld, NoneSkips, AtDevice, Skips,
              GetDevicesForHandler, CanBulkRead, CanRead, Entry, RoundOver, LockIsFree, Unlocked,
              Called, roundVars, listenVars, stateVars
<1>9. CASE WriteEnds \/ WriteTimesOut \/ WriteReturns
  BY <1>9 DEF WriteEnds, WriteTimesOut, WriteReturns, TypeOK, Jobs, Quiet, LockHeld, NoneSkips,
              AtDevice, Skips, GetDevicesForHandler, CanBulkRead, CanRead, Entry, RoundOver, LockIsFree, Unlocked,
              Called, roundVars, listenVars, stateVars
<1>10. ASSUME NEW j \in Jobs, Lock(j) PROVE (Quiet /\ LockHeld /\ NoneSkips)'
  BY <1>10 DEF Lock, TypeOK, Jobs, Quiet, LockHeld, NoneSkips, AtDevice, Skips,
               GetDevicesForHandler, CanBulkRead, CanRead, Entry, RoundOver, LockIsFree,
               Unlocked, Called, roundVars, listenVars, stateVars
<1>11. ASSUME NEW j \in Jobs, DeviceAnswers(j) PROVE (Quiet /\ LockHeld /\ NoneSkips)'
  BY <1>11 DEF DeviceAnswers, TypeOK, Jobs, Quiet, LockHeld, NoneSkips, AtDevice, Skips,
               GetDevicesForHandler, CanBulkRead, CanRead, Entry, RoundOver, LockIsFree,
               Unlocked, Called, roundVars, listenVars, stateVars
<1>12. ASSUME NEW j \in Jobs, Panic(j) PROVE (Quiet /\ LockHeld /\ NoneSkips)'
  BY <1>12 DEF Panic, TypeOK, Jobs, Quiet, LockHeld, NoneSkips, AtDevice, Skips,
               GetDevicesForHandler, CanBulkRead, CanRead, Entry, RoundOver, LockIsFree,
               Unlocked, Called, roundVars, listenVars, stateVars
<1>13. ASSUME NEW j \in Jobs, Discard(j) PROVE (Quiet /\ LockHeld /\ NoneSkips)'
  BY <1>13 DEF Discard, TypeOK, Jobs, Quiet, LockHeld, NoneSkips, AtDevice, Skips,
               GetDevicesForHandler, CanBulkRead, CanRead, Entry, RoundOver, LockIsFree,
               Unlocked, Called, roundVars, listenVars, stateVars
<1>14. ASSUME NEW j \in Jobs, SendReading(j) PROVE (Quiet /\ LockHeld /\ NoneSkips)'
  BY <1>14 DEF SendReading, TypeOK, Jobs, Quiet, LockHeld, NoneSkips, AtDevice, Skips,
               GetDevicesForHandler, CanBulkRead, CanRead, Entry, RoundOver, LockIsFree,
               Unlocked, Called, roundVars, listenVars, stateVars
<1>15. ASSUME NEW j \in Jobs, EndRead(j) PROVE (Quiet /\ LockHeld /\ NoneSkips)'
  BY <1>15 DEF EndRead, TypeOK, Jobs, Quiet, LockHeld, NoneSkips, AtDevice, Skips,
               GetDevicesForHandler, CanBulkRead, CanRead, Entry, RoundOver, LockIsFree,
               Unlocked, Called, roundVars, listenVars, stateVars
<1>16. ASSUME NEW j \in Jobs, Hang(j) PROVE (Quiet /\ LockHeld /\ NoneSkips)'
  BY <1>16 DEF Hang, TypeOK, Jobs, Quiet, LockHeld, NoneSkips, AtDevice, Skips,
               GetDevicesForHandler, CanBulkRead, CanRead, Entry, RoundOver, LockIsFree,
               Unlocked, Called, roundVars, listenVars, stateVars
<1>17. ASSUME NEW d \in Devices, ListenerHears(d) PROVE (Quiet /\ LockHeld /\ NoneSkips)'
  BY <1>17 DEF ListenerHears, TypeOK, Jobs, Quiet, LockHeld, NoneSkips, AtDevice, Skips,
               GetDevicesForHandler, CanBulkRead, CanRead, Entry, RoundOver, LockIsFree,
               Unlocked, Called, roundVars, listenVars, stateVars
<1>18. ASSUME NEW d \in Devices, ListenerSends(d) PROVE (Quiet /\ LockHeld /\ NoneSkips)'
  BY <1>18 DEF ListenerSends, TypeOK, Jobs, Quiet, LockHeld, NoneSkips, AtDevice, Skips,
               GetDevicesForHandler, CanBulkRead, CanRead, Entry, RoundOver, LockIsFree,
               Unlocked, Called, roundVars, listenVars, stateVars
<1>19. ASSUME NEW d \in Devices, ListenerReturns(d) PROVE (Quiet /\ LockHeld /\ NoneSkips)'
  BY <1>19 DEF ListenerReturns, TypeOK, Jobs, Quiet, LockHeld, NoneSkips, AtDevice, Skips,
               GetDevicesForHandler, CanBulkRead, CanRead, Entry, RoundOver, LockIsFree,
               Unlocked, Called, roundVars, listenVars, stateVars
<1>20. CASE UNCHANGED vars
  BY <1>20 DEF vars, roundVars, listenVars, stateVars, TypeOK, Jobs, Quiet, LockHeld, NoneSkips,
               AtDevice, Skips, GetDevicesForHandler, CanBulkRead, CanRead, Entry, RoundOver,
               LockIsFree, Unlocked, Called, roundVars, listenVars, stateVars
<1> QED
  BY <1>1, <1>2, <1>3, <1>4, <1>5, <1>6, <1>7, <1>8, <1>9, <1>10, <1>11, <1>12, <1>13, <1>14,
     <1>15, <1>16, <1>17, <1>18, <1>19, <1>20 DEF Next, Loop, Read, Update

LEMMA PanicStep ==
  ASSUME IInv, [Next]_vars
  PROVE  PanicCause'
<1> USE DEF IInv
<1>1. CASE Stop
  BY <1>1 DEF Stop, TypeOK, Jobs, NoneSkips, PanicCause, CallsNil, IsReadable, Skips,
              GetDevicesForHandler, CanBulkRead, CanRead, CanListen, roundVars, listenVars,
              stateVars
<1>2. CASE Launch
  BY <1>2 DEF Launch, TypeOK, Jobs, NoneSkips, PanicCause, CallsNil, IsReadable, Skips,
              GetDevicesForHandler, CanBulkRead, CanRead, CanListen, roundVars, listenVars,
              stateVars
<1>3. CASE EndRound
  BY <1>3 DEF EndRound, TypeOK, Jobs, NoneSkips, PanicCause, CallsNil, IsReadable, Skips,
              GetDevicesForHandler, CanBulkRead, CanRead, CanListen, roundVars, listenVars,
              stateVars
<1>4. CASE Take
  BY <1>4 DEF Take, TypeOK, Jobs, NoneSkips, PanicCause, CallsNil, IsReadable, Skips,
              GetDevicesForHandler, CanBulkRead, CanRead, CanListen, roundVars, listenVars,
              stateVars
<1>5. CASE Dispatch
  BY <1>5 DEF Dispatch, TypeOK, Jobs, NoneSkips, PanicCause, CallsNil, IsReadable, Skips,
              GetDevicesForHandler, CanBulkRead, CanRead, CanListen, roundVars, listenVars,
              stateVars
<1>6. CASE StreamSticks
  BY <1>6 DEF StreamSticks, TypeOK, Jobs, NoneSkips, PanicCause, CallsNil, IsReadable, Skips,
              GetDevicesForHandler, CanBulkRead, CanRead, CanListen, roundVars, listenVars,
              stateVars
<1>7. CASE WriteBegins
  BY <1>7 DEF WriteBegins, TypeOK, Jobs, NoneSkips, PanicCause, CallsNil, IsReadable, Skips,
              GetDevicesForHandler, CanBulkRead, CanRead, CanListen, roundVars, listenVars,
              stateVars
<1>8. CASE WriteLocks
  BY <1>8 DEF WriteLocks, TypeOK, Jobs, NoneSkips, PanicCause, CallsNil, IsReadable, Skips,
              GetDevicesForHandler, CanBulkRead, CanRead, CanListen, roundVars, listenVars,
              stateVars
<1>9. CASE WriteEnds \/ WriteTimesOut \/ WriteReturns
  BY <1>9 DEF WriteEnds, WriteTimesOut, WriteReturns, TypeOK, Jobs, NoneSkips, PanicCause, CallsNil,
              IsReadable, Skips, GetDevicesForHandler, CanBulkRead, CanRead, CanListen, roundVars, listenVars,
              stateVars
<1>10. ASSUME NEW j \in Jobs, Lock(j) PROVE PanicCause'
  BY <1>10 DEF Lock, TypeOK, Jobs, NoneSkips, PanicCause, CallsNil, IsReadable, Skips,
               GetDevicesForHandler, CanBulkRead, CanRead, CanListen, roundVars, listenVars,
               stateVars
<1>11. ASSUME NEW j \in Jobs, DeviceAnswers(j) PROVE PanicCause'
  BY <1>11 DEF DeviceAnswers, TypeOK, Jobs, NoneSkips, PanicCause, CallsNil, IsReadable, Skips,
               GetDevicesForHandler, CanBulkRead, CanRead, CanListen, roundVars, listenVars,
               stateVars
<1>12. ASSUME NEW j \in Jobs, Panic(j) PROVE PanicCause'
  BY <1>12 DEF Panic, TypeOK, Jobs, NoneSkips, PanicCause, CallsNil, IsReadable, Skips,
               GetDevicesForHandler, CanBulkRead, CanRead, CanListen, roundVars, listenVars,
               stateVars
<1>13. ASSUME NEW j \in Jobs, Discard(j) PROVE PanicCause'
  BY <1>13 DEF Discard, TypeOK, Jobs, NoneSkips, PanicCause, CallsNil, IsReadable, Skips,
               GetDevicesForHandler, CanBulkRead, CanRead, CanListen, roundVars, listenVars,
               stateVars
<1>14. ASSUME NEW j \in Jobs, SendReading(j) PROVE PanicCause'
  BY <1>14 DEF SendReading, TypeOK, Jobs, NoneSkips, PanicCause, CallsNil, IsReadable, Skips,
               GetDevicesForHandler, CanBulkRead, CanRead, CanListen, roundVars, listenVars,
               stateVars
<1>15. ASSUME NEW j \in Jobs, EndRead(j) PROVE PanicCause'
  BY <1>15 DEF EndRead, TypeOK, Jobs, NoneSkips, PanicCause, CallsNil, IsReadable, Skips,
               GetDevicesForHandler, CanBulkRead, CanRead, CanListen, roundVars, listenVars,
               stateVars
<1>16. ASSUME NEW j \in Jobs, Hang(j) PROVE PanicCause'
  BY <1>16 DEF Hang, TypeOK, Jobs, NoneSkips, PanicCause, CallsNil, IsReadable, Skips,
               GetDevicesForHandler, CanBulkRead, CanRead, CanListen, roundVars, listenVars,
               stateVars
<1>17. ASSUME NEW d \in Devices, ListenerHears(d) PROVE PanicCause'
  BY <1>17 DEF ListenerHears, TypeOK, Jobs, NoneSkips, PanicCause, CallsNil, IsReadable, Skips,
               GetDevicesForHandler, CanBulkRead, CanRead, CanListen, roundVars, listenVars,
               stateVars
<1>18. ASSUME NEW d \in Devices, ListenerSends(d) PROVE PanicCause'
  BY <1>18 DEF ListenerSends, TypeOK, Jobs, NoneSkips, PanicCause, CallsNil, IsReadable, Skips,
               GetDevicesForHandler, CanBulkRead, CanRead, CanListen, roundVars, listenVars,
               stateVars
<1>19. ASSUME NEW d \in Devices, ListenerReturns(d) PROVE PanicCause'
  BY <1>19 DEF ListenerReturns, TypeOK, Jobs, NoneSkips, PanicCause, CallsNil, IsReadable, Skips,
               GetDevicesForHandler, CanBulkRead, CanRead, CanListen, roundVars, listenVars,
               stateVars
<1>20. CASE UNCHANGED vars
  BY <1>20 DEF vars, roundVars, listenVars, stateVars, TypeOK, Jobs, NoneSkips, PanicCause,
               CallsNil, IsReadable, Skips, GetDevicesForHandler, CanBulkRead, CanRead,
               CanListen, roundVars, listenVars, stateVars
<1> QED
  BY <1>1, <1>2, <1>3, <1>4, <1>5, <1>6, <1>7, <1>8, <1>9, <1>10, <1>11, <1>12, <1>13, <1>14,
     <1>15, <1>16, <1>17, <1>18, <1>19, <1>20 DEF Next, Loop, Read, Update

LEMMA OwnStep ==
  ASSUME IInv, [Next]_vars
  PROVE  Own'
<1> USE DEF IInv
<1>1. CASE Stop
  BY <1>1 DEF Stop, TypeOK, Own, Listens, CanListen, NextReadings, roundVars, listenVars, stateVars
<1>2. CASE Launch
  BY <1>2 DEF Launch, TypeOK, Own, Listens, CanListen, NextReadings, roundVars, listenVars,
              stateVars
<1>3. CASE EndRound
  BY <1>3 DEF EndRound, TypeOK, Own, Listens, CanListen, NextReadings, roundVars, listenVars,
              stateVars
<1>4. CASE Take
  BY <1>4 DEF Take, TypeOK, Own, Listens, CanListen, NextReadings, roundVars, listenVars, stateVars
<1>5. CASE Dispatch
  BY <1>5 DEF Dispatch, TypeOK, Own, Listens, CanListen, NextReadings, roundVars, listenVars,
              stateVars
<1>6. CASE StreamSticks
  BY <1>6 DEF StreamSticks, TypeOK, Own, Listens, CanListen, NextReadings, roundVars, listenVars,
              stateVars
<1>7. CASE WriteBegins
  BY <1>7 DEF WriteBegins, TypeOK, Own, Listens, CanListen, NextReadings, roundVars, listenVars,
              stateVars
<1>8. CASE WriteLocks
  BY <1>8 DEF WriteLocks, TypeOK, Own, Listens, CanListen, NextReadings, roundVars, listenVars,
              stateVars
<1>9. CASE WriteEnds \/ WriteTimesOut \/ WriteReturns
  BY <1>9 DEF WriteEnds, WriteTimesOut, WriteReturns, TypeOK, Own, Listens, CanListen, NextReadings,
              roundVars, listenVars, stateVars
<1>10. ASSUME NEW j \in Jobs, Lock(j) PROVE Own'
  BY <1>10 DEF Lock, TypeOK, Own, Listens, CanListen, NextReadings, roundVars, listenVars, stateVars
<1>11. ASSUME NEW j \in Jobs, DeviceAnswers(j) PROVE Own'
  BY <1>11 DEF DeviceAnswers, TypeOK, Own, Listens, CanListen, NextReadings, roundVars,
               listenVars, stateVars
<1>12. ASSUME NEW j \in Jobs, Panic(j) PROVE Own'
  BY <1>12 DEF Panic, TypeOK, Own, Listens, CanListen, NextReadings, roundVars, listenVars,
               stateVars
<1>13. ASSUME NEW j \in Jobs, Discard(j) PROVE Own'
  BY <1>13 DEF Discard, TypeOK, Own, Listens, CanListen, NextReadings, roundVars, listenVars,
               stateVars
<1>14. ASSUME NEW j \in Jobs, SendReading(j) PROVE Own'
  BY <1>14 DEF SendReading, TypeOK, Own, Listens, CanListen, NextReadings, roundVars, listenVars,
               stateVars
<1>15. ASSUME NEW j \in Jobs, EndRead(j) PROVE Own'
  BY <1>15 DEF EndRead, TypeOK, Own, Listens, CanListen, NextReadings, roundVars, listenVars,
               stateVars
<1>16. ASSUME NEW j \in Jobs, Hang(j) PROVE Own'
  BY <1>16 DEF Hang, TypeOK, Own, Listens, CanListen, NextReadings, roundVars, listenVars, stateVars
<1>17. ASSUME NEW d \in Devices, ListenerHears(d) PROVE Own'
  BY <1>17 DEF ListenerHears, TypeOK, Own, Listens, CanListen, NextReadings, roundVars,
               listenVars, stateVars
<1>18. ASSUME NEW d \in Devices, ListenerSends(d) PROVE Own'
  BY <1>18 DEF ListenerSends, TypeOK, Own, Listens, CanListen, NextReadings, roundVars,
               listenVars, stateVars
<1>19. ASSUME NEW d \in Devices, ListenerReturns(d) PROVE Own'
  BY <1>19 DEF ListenerReturns, TypeOK, Own, Listens, CanListen, NextReadings, roundVars,
               listenVars, stateVars
<1>20. CASE UNCHANGED vars
  BY <1>20 DEF vars, roundVars, listenVars, stateVars, TypeOK, Own, Listens, CanListen,
               NextReadings, roundVars, listenVars, stateVars
<1> QED
  BY <1>1, <1>2, <1>3, <1>4, <1>5, <1>6, <1>7, <1>8, <1>9, <1>10, <1>11, <1>12, <1>13, <1>14,
     <1>15, <1>16, <1>17, <1>18, <1>19, <1>20 DEF Next, Loop, Read, Update

-----------------------------------------------------------------------------
(* The order of the readings.                                              *)

\* The part of InOrder that is about one device.
OrderOf(d) ==
  /\ readings[d] <= produced[d]
  /\ \A i \in 1..Len(readChan) : readChan[i].device = d =>
       /\ readings[d] < readChan[i].number
       /\ readChan[i].number <= produced[d]
       /\ \A k \in 1..Len(readChan) :
            i < k /\ readChan[k].device = d => readChan[i].number < readChan[k].number
  /\ \A j \in Jobs : \A r \in response[j] : r.device = d =>
       /\ readings[d] < produced[d]
       /\ \A i \in 1..Len(readChan) : readChan[i].device = d => readChan[i].number < produced[d]

\* No step changes what a goroutine reads or who listens.
LEMMA TargetsStay ==
  ASSUME setup' = setup
  PROVE  /\ \A j \in Jobs : Targets(j)' = Targets(j)
         /\ \A d : Listens(d)' <=> Listens(d)
  BY DEF Targets, GetDevicesForHandler, Listens, CanListen

\* The positions of a sequence after an append.
LEMMA Appended ==
  ASSUME NEW n \in Nat, NEW i \in 1..n + 1
  PROVE  i \in 1..n \/ i = n + 1
  OBVIOUS

\* A step that touches none of the readings keeps their order.
LEMMA OrderStays ==
  ASSUME InOrder, UNCHANGED <<setup, readings, readChan, response, produced>>
  PROVE  InOrder'
  BY TargetsStay DEF InOrder

\* What waits to be sent is the last reading of a device that no one else reads.
LEMMA FreshStep ==
  ASSUME IInv, [Next]_vars
  PROVE  Fresh'
<1> USE DEF IInv
<1>1. CASE Stop
  BY <1>1, TargetsStay DEF Stop, TypeOK, Quiet, Fresh, roundVars, listenVars, stateVars
<1>2. CASE Launch
  BY <1>2, TargetsStay DEF Launch, TypeOK, Quiet, Fresh, listenVars, stateVars
<1>3. CASE EndRound
  BY <1>3, TargetsStay DEF EndRound, RoundOver, TypeOK, Fresh, listenVars, stateVars
<1>4. CASE Take
  BY <1>4, TargetsStay DEF Take, TypeOK, Quiet, Fresh, roundVars, listenVars, stateVars
<1>5. CASE Dispatch
  BY <1>5, TargetsStay DEF Dispatch, TypeOK, Quiet, Fresh, roundVars, listenVars, stateVars
<1>6. CASE StreamSticks
  BY <1>6, TargetsStay DEF StreamSticks, TypeOK, Quiet, Fresh, roundVars, listenVars, stateVars
<1>7. CASE WriteBegins
  BY <1>7, TargetsStay DEF WriteBegins, TypeOK, Quiet, Fresh, roundVars, listenVars, stateVars
<1>8. CASE WriteLocks
  BY <1>8, TargetsStay DEF WriteLocks, TypeOK, Quiet, Fresh, roundVars, listenVars, stateVars
<1>9. CASE WriteEnds \/ WriteTimesOut \/ WriteReturns
  BY <1>9, TargetsStay DEF WriteEnds, WriteTimesOut, WriteReturns, TypeOK, Quiet, Fresh, roundVars,
              listenVars, stateVars
<1>10. ASSUME NEW j \in Jobs, Lock(j) PROVE Fresh'
  BY <1>10, TargetsStay DEF Lock, TypeOK, Quiet, Fresh, roundVars, listenVars, stateVars
<1>11. ASSUME NEW j \in Jobs, DeviceAnswers(j) PROVE Fresh'
  <2>1. PICK answering \in SUBSET MayAnswer(j) :
          /\ response' = [response EXCEPT ![j] = NextReadings(answering)]
          /\ produced' = [e \in Devices |-> IF e \in answering THEN produced[e] + 1 ELSE produced[e]]
    BY <1>11 DEF DeviceAnswers
  <2> SUFFICES ASSUME NEW k \in Jobs, NEW r \in response'[k]
               PROVE  /\ job'[k] = "send"
                      /\ r.device \in Targets(k)
                      /\ ~Listens(r.device) => r.number = produced'[r.device]
    BY <1>11, TargetsStay DEF Fresh, DeviceAnswers
  <2>2. answering \subseteq Targets(j) /\ Targets(k) \subseteq Devices
    BY SetupParts DEF MayAnswer
  <2>3. CASE k = j
    <3>1. r \in NextReadings(answering)
      BY <2>1, <2>3 DEF TypeOK
    <3>2. PICK e \in answering : r = [device |-> e, number |-> produced[e] + 1]
      BY <3>1 DEF NextReadings
    <3> QED
      BY <1>11, <2>1, <2>2, <2>3, <3>2 DEF DeviceAnswers, TypeOK
  <2>4. CASE k # j
    <3>1. r \in response[k]
      BY <2>1, <2>4 DEF TypeOK
    <3>2. job[k] = "send" /\ r.device \in Targets(k)
      BY <3>1 DEF Fresh
    <3>3. r.device \notin Targets(j)
      BY <1>11, <2>4, <3>2, TargetsDisjoint DEF NoneSkips, DeviceAnswers
    <3>4. produced'[r.device] = produced[r.device]
      BY <2>1, <2>2, <3>2, <3>3
    <3> QED
      BY <1>11, <2>4, <3>1, <3>2, <3>4 DEF Fresh, DeviceAnswers, TypeOK
  <2> QED
    BY <2>3, <2>4
<1>12. ASSUME NEW j \in Jobs, Panic(j) PROVE Fresh'
  BY <1>12, TargetsStay DEF Panic, TypeOK, Quiet, Fresh, roundVars, listenVars, stateVars
<1>13. ASSUME NEW j \in Jobs, Discard(j) PROVE Fresh'
  BY <1>13, TargetsStay DEF Discard, TypeOK, Quiet, Fresh, roundVars, listenVars, stateVars
<1>14. ASSUME NEW j \in Jobs, SendReading(j) PROVE Fresh'
  BY <1>14, TargetsStay DEF SendReading, TypeOK, Quiet, Fresh, roundVars, listenVars, stateVars
<1>15. ASSUME NEW j \in Jobs, EndRead(j) PROVE Fresh'
  BY <1>15, TargetsStay DEF EndRead, TypeOK, Fresh, listenVars, stateVars
<1>16. ASSUME NEW j \in Jobs, Hang(j) PROVE Fresh'
  BY <1>16, TargetsStay DEF Hang, TypeOK, Quiet, Fresh, roundVars, listenVars, stateVars
<1>17. ASSUME NEW d \in Devices, ListenerHears(d) PROVE Fresh'
  <2>1. Listens(d)
    BY <1>17 DEF ListenerHears, Own
  <2>2. \A e \in Devices : ~Listens(e) => produced'[e] = produced[e]
    BY <1>17, <2>1 DEF ListenerHears, TypeOK
  <2>3. \A k \in Jobs : Targets(k) \subseteq Devices
    BY SetupParts
  <2> QED
    BY <1>17, <2>2, <2>3, TargetsStay DEF ListenerHears, Fresh, roundVars
<1>18. ASSUME NEW d \in Devices, ListenerSends(d) PROVE Fresh'
  BY <1>18, TargetsStay DEF ListenerSends, TypeOK, Quiet, Fresh, roundVars, listenVars, stateVars
<1>19. ASSUME NEW d \in Devices, ListenerReturns(d) PROVE Fresh'
  BY <1>19, TargetsStay DEF ListenerReturns, TypeOK, Quiet, Fresh, roundVars, listenVars, stateVars
<1>20. CASE UNCHANGED vars
  BY <1>20, TargetsStay DEF vars, roundVars, listenVars, stateVars, TypeOK, Quiet, Fresh,
                        roundVars, listenVars, stateVars
<1> QED
  BY <1>1, <1>2, <1>3, <1>4, <1>5, <1>6, <1>7, <1>8, <1>9, <1>10, <1>11, <1>12, <1>13, <1>14,
     <1>15, <1>16, <1>17, <1>18, <1>19, <1>20 DEF Next, Loop, Read, Update

\* The numbers of a device stay in order from the state to the senders.
LEMMA OrderStep ==
  ASSUME IInv, [Next]_vars
  PROVE  InOrder'
<1> USE DEF IInv
<1>1. CASE Stop
  BY <1>1, OrderStays DEF Stop, TypeOK, roundVars, listenVars, stateVars
<1>2. CASE Launch
  BY <1>2, OrderStays DEF Launch, TypeOK, roundVars, listenVars, stateVars
<1>3. CASE EndRound
  BY <1>3, OrderStays DEF EndRound, TypeOK, roundVars, listenVars, stateVars
<1>4. CASE Take
  <2>1. PICK q \in Readings : q = Head(readChan)
    BY <1>4 DEF Take, MayTake, TypeOK
  <2>2. /\ Len(readChan) > 0 /\ readChan[1] = q /\ Len(readChan') = Len(readChan) - 1
        /\ \A i \in 1..Len(readChan') : readChan'[i] = readChan[i + 1]
    BY <1>4, <2>1 DEF Take, MayTake, TypeOK
  <2>3. \A e \in Devices : readings'[e] = IF e = q.device THEN q.number ELSE readings[e]
    BY <1>4, <2>1 DEF Take, TypeOK
  <2>4. produced' = produced /\ response' = response /\ \A e \in Devices : Listens(e)' <=> Listens(e)
    BY <1>4, TargetsStay DEF Take, roundVars
  <2> SUFFICES ASSUME NEW e \in Devices, ~Listens(e)
               PROVE  OrderOf(e)'
    BY <2>4 DEF InOrder, OrderOf
  <2>5. OrderOf(e)
    BY DEF InOrder, OrderOf
  <2>6. q.device = e => readings[e] < q.number /\ q.number <= produced[e]
    BY <2>2, <2>5 DEF OrderOf
  <2>7. readings'[e] <= produced'[e]
    BY <2>3, <2>4, <2>5, <2>6 DEF OrderOf
  <2>8. ASSUME NEW i \in 1..Len(readChan'), readChan'[i].device = e
        PROVE  /\ readings'[e] < readChan'[i].number
               /\ readChan'[i].number <= produced'[e]
               /\ \A k \in 1..Len(readChan') :
                    i < k /\ readChan'[k].device = e => readChan'[i].number < readChan'[k].number
    <3>1. i + 1 \in 1..Len(readChan) /\ readChan[i + 1].device = e /\ 1 \in 1..Len(readChan) /\ 1 < i + 1
      BY <2>2, <2>8
    <3>2. readings'[e] < readChan'[i].number
      BY <2>2, <2>3, <2>5, <3>1 DEF OrderOf
    <3>3. readChan'[i].number <= produced'[e]
      BY <2>2, <2>4, <2>5, <3>1 DEF OrderOf
    <3>4. ASSUME NEW k \in 1..Len(readChan'), i < k, readChan'[k].device = e
          PROVE  readChan'[i].number < readChan'[k].number
      <4>1. k + 1 \in 1..Len(readChan) /\ readChan[k + 1].device = e /\ i + 1 < k + 1
        BY <2>2, <3>4
      <4> QED
        BY <2>2, <2>5, <3>1, <4>1 DEF OrderOf
    <3> QED
      BY <3>2, <3>3, <3>4
  <2>9. ASSUME NEW j \in Jobs, NEW r \in response'[j], r.device = e
        PROVE  /\ readings'[e] < produced'[e]
               /\ \A i \in 1..Len(readChan') : readChan'[i].device = e => readChan'[i].number < produced'[e]
    <3>1. r \in response[j] /\ 1 \in 1..Len(readChan)
      BY <2>2, <2>4
    <3>2. readings'[e] < produced'[e]
      BY <2>2, <2>3, <2>4, <2>5, <2>9, <3>1 DEF OrderOf
    <3>3. ASSUME NEW i \in 1..Len(readChan'), readChan'[i].device = e
          PROVE  readChan'[i].number < produced'[e]
      <4>1. i + 1 \in 1..Len(readChan)
        BY <2>2
      <4> QED
        BY <2>2, <2>4, <2>5, <2>9, <3>1, <3>3, <4>1 DEF OrderOf
    <3> QED
      BY <3>2, <3>3
  <2> QED
    BY <2>7, <2>8, <2>9 DEF OrderOf
<1>5. CASE Dispatch
  BY <1>5, OrderStays DEF Dispatch, TypeOK, roundVars, listenVars, stateVars
<1>6. CASE StreamSticks
  BY <1>6, OrderStays DEF StreamSticks, TypeOK, roundVars, listenVars, stateVars
<1>7. CASE WriteBegins
  BY <1>7, OrderStays DEF WriteBegins, TypeOK, roundVars, listenVars, stateVars
<1>8. CASE WriteLocks
  BY <1>8, OrderStays DEF WriteLocks, TypeOK, roundVars, listenVars, stateVars
<1>9. CASE WriteEnds \/ WriteTimesOut \/ WriteReturns
  BY <1>9, OrderStays DEF WriteEnds, WriteTimesOut, WriteReturns, TypeOK, roundVars, listenVars, stateVars
<1>10. ASSUME NEW j \in Jobs, Lock(j) PROVE InOrder'
  BY <1>10, OrderStays DEF Lock, TypeOK, roundVars, listenVars, stateVars
<1>11. ASSUME NEW j \in Jobs, DeviceAnswers(j) PROVE InOrder'
  <2>1. PICK answering \in SUBSET MayAnswer(j) :
          /\ response' = [response EXCEPT ![j] = NextReadings(answering)]
          /\ produced' = [e \in Devices |-> IF e \in answering THEN produced[e] + 1 ELSE produced[e]]
    BY <1>11 DEF DeviceAnswers
  <2>2. /\ readings' = readings /\ readChan' = readChan
        /\ \A e \in Devices : Listens(e)' <=> Listens(e)
    BY <1>11, TargetsStay DEF DeviceAnswers, stateVars
  <2> SUFFICES ASSUME NEW e \in Devices, ~Listens(e)
               PROVE  OrderOf(e)'
    BY <2>2 DEF InOrder, OrderOf
  <2>3. OrderOf(e) /\ readings[e] \in Nat /\ produced[e] \in Nat
    <3>1. OrderOf(e)
      BY DEF InOrder, OrderOf
    <3>2. readings[e] \in 0 .. MaxReadings /\ produced[e] \in 0 .. MaxReadings
      BY DEF TypeOK
    <3> QED
      BY <3>1, <3>2
  <2>4. \A i \in 1..Len(readChan) : readChan[i].number \in Nat
    <3> SUFFICES ASSUME NEW i \in 1..Len(readChan) PROVE readChan[i].number \in Nat
      OBVIOUS
    <3>1. readChan[i] \in Readings
      BY DEF TypeOK
    <3> QED
      BY <3>1 DEF Readings
  <2>5. CASE e \in answering
    <3>1. produced'[e] = produced[e] + 1
      BY <2>1, <2>5
    <3> QED
      BY <2>2, <2>3, <2>4, <3>1 DEF OrderOf
  <2>6. CASE e \notin answering
    <3>1. produced'[e] = produced[e]
      BY <2>1, <2>6
    <3>2. \A r \in NextReadings(answering) : r.device # e
      BY <2>6 DEF NextReadings
    <3>3. \A k \in Jobs : \A r \in response'[k] : r.device = e => r \in response[k]
      BY <2>1, <3>2 DEF TypeOK
    <3> QED
      BY <2>2, <2>3, <3>1, <3>3 DEF OrderOf
  <2> QED
    BY <2>5, <2>6
<1>12. ASSUME NEW j \in Jobs, Panic(j) PROVE InOrder'
  BY <1>12, OrderStays DEF Panic, TypeOK, roundVars, listenVars, stateVars
<1>13. ASSUME NEW j \in Jobs, Discard(j) PROVE InOrder'
  <2>1. \A k \in Jobs : response'[k] \subseteq response[k]
    BY <1>13 DEF Discard, TypeOK
  <2> QED
    BY <1>13, <2>1, TargetsStay DEF Discard, InOrder, stateVars
<1>14. ASSUME NEW j \in Jobs, SendReading(j) PROVE InOrder'
  <2>1. PICK r \in response[j] :
          readChan' = Append(readChan, r) /\ response' = [response EXCEPT ![j] = @ \ {r}]
    BY <1>14 DEF SendReading, Enqueue
  <2>2. /\ readings' = readings /\ produced' = produced
        /\ \A e \in Devices : Listens(e)' <=> Listens(e)
    BY <1>14, TargetsStay DEF SendReading, stateVars
  <2>3. r \in Readings /\ Len(readChan) \in Nat /\ Len(readChan') = Len(readChan) + 1
        /\ readChan'[Len(readChan) + 1] = r /\ \A i \in 1..Len(readChan) : readChan'[i] = readChan[i]
    BY <2>1 DEF TypeOK
  <2>4. \A k \in Jobs : response'[k] \subseteq response[k]
    BY <2>1 DEF TypeOK
  <2> SUFFICES ASSUME NEW e \in Devices, ~Listens(e)
               PROVE  OrderOf(e)'
    BY <2>2 DEF InOrder, OrderOf
  <2>5. OrderOf(e)
    BY DEF InOrder, OrderOf
  <2>6. CASE r.device # e
    BY <2>2, <2>3, <2>4, <2>5, <2>6, Appended DEF OrderOf
  <2>7. CASE r.device = e
    <3>1. r.number = produced[e] /\ readings[e] < produced[e]
      BY <2>1, <2>5, <2>7 DEF Fresh, OrderOf
    <3>2. \A i \in 1..Len(readChan) : readChan[i].device = e => readChan[i].number < produced[e]
      BY <2>1, <2>5, <2>7 DEF OrderOf
    <3>3. ASSUME NEW k \in Jobs, NEW t \in response'[k], t.device = e
          PROVE  FALSE
      <4>1. t \in response[k] /\ job[k] = "send" /\ t.device \in Targets(k) /\ t.number = produced[e]
        BY <2>4, <3>3 DEF Fresh
      <4>2. job[j] = "send" /\ r.device \in Targets(j)
        BY <2>1 DEF Fresh
      <4>3. k = j
        BY <2>7, <3>3, <4>1, <4>2, TargetsDisjoint DEF NoneSkips
      <4>4. t = r
        <5>1. t \in Readings
          BY <4>1 DEF TypeOK
        <5> QED
          BY <2>3, <2>7, <3>1, <3>3, <4>1, <5>1 DEF Readings
      <4> QED
        BY <2>1, <3>3, <4>3, <4>4 DEF TypeOK
    <3> QED
      <4> DEFINE n == Len(readChan)
      <4>1. \A k \in 1..n + 1 : k \in 1..n \/ k = n + 1
        BY <2>3
      <4>2. \A k \in 1..n : readChan'[k] = readChan[k]
        BY <2>3
      <4>3. readChan'[n + 1].device = e /\ readChan'[n + 1].number = produced[e]
        BY <2>3, <2>7, <3>1
      <4>4. readings[e] \in Nat /\ produced[e] \in Nat
        BY DEF TypeOK
      <4>5. ASSUME NEW i \in 1..n + 1, readChan'[i].device = e
            PROVE  readings[e] < readChan'[i].number /\ readChan'[i].number <= produced[e]
        BY <2>5, <3>1, <4>1, <4>2, <4>3, <4>4, <4>5 DEF OrderOf
      <4>6. ASSUME NEW i \in 1..n + 1, readChan'[i].device = e,
                   NEW k \in 1..n + 1, i < k, readChan'[k].device = e
            PROVE  readChan'[i].number < readChan'[k].number
        <5>1. i \in 1..n
          BY <2>3, <4>6
        <5>2. CASE k \in 1..n
          BY <2>5, <4>2, <4>6, <5>1, <5>2 DEF OrderOf
        <5>3. CASE k = n + 1
          BY <3>2, <4>2, <4>3, <4>6, <5>1, <5>3
        <5> QED
          BY <4>1, <5>2, <5>3
      <4> HIDE DEF n
      <4>7. Len(readChan') = n + 1
        BY <2>3 DEF n
      <4>8. /\ readings[e] <= produced[e]
            /\ \A k \in Jobs : \A t \in response'[k] : t.device # e
        BY <2>5, <3>3 DEF OrderOf
      <4> QED
        BY <2>2, <4>5, <4>6, <4>7, <4>8 DEF OrderOf
  <2> QED
    BY <2>6, <2>7
<1>15. ASSUME NEW j \in Jobs, EndRead(j) PROVE InOrder'
  BY <1>15, OrderStays DEF EndRead, TypeOK, roundVars, listenVars, stateVars
<1>16. ASSUME NEW j \in Jobs, Hang(j) PROVE InOrder'
  BY <1>16, OrderStays DEF Hang, TypeOK, roundVars, listenVars, stateVars
<1>17. ASSUME NEW d \in Devices, ListenerHears(d) PROVE InOrder'
  <2>1. Listens(d)
    BY <1>17 DEF ListenerHears, Own
  <2>2. \A e \in Devices : ~Listens(e) => produced'[e] = produced[e]
    BY <1>17, <2>1 DEF ListenerHears, TypeOK
  <2> QED
    BY <1>17, <2>2, TargetsStay DEF ListenerHears, InOrder, roundVars, stateVars
<1>18. ASSUME NEW d \in Devices, ListenerSends(d) PROVE InOrder'
  <2>1. PICK r \in heard[d] : readChan' = Append(readChan, r)
    BY <1>18 DEF ListenerSends, Enqueue
  <2>2. r \in Readings /\ Listens(r.device) /\ r.device = d
    BY <1>18 DEF ListenerSends, Own, TypeOK
  <2>3. /\ readings' = readings /\ produced' = produced /\ response' = response
        /\ \A e \in Devices : Listens(e)' <=> Listens(e)
    BY <1>18, TargetsStay DEF ListenerSends, roundVars, stateVars
  <2>4. /\ Len(readChan') = Len(readChan) + 1 /\ readChan'[Len(readChan) + 1] = r
        /\ \A i \in 1..Len(readChan) : readChan'[i] = readChan[i]
    BY <2>1, <2>2 DEF TypeOK
  <2> SUFFICES ASSUME NEW e \in Devices, ~Listens(e)
               PROVE  OrderOf(e)'
    BY <2>3 DEF InOrder, OrderOf
  <2>5. OrderOf(e) /\ r.device # e
    BY <2>2 DEF InOrder, OrderOf
  <2> QED
    BY <2>3, <2>4, <2>5, Appended DEF OrderOf
<1>19. ASSUME NEW d \in Devices, ListenerReturns(d) PROVE InOrder'
  BY <1>19, OrderStays DEF ListenerReturns, TypeOK, roundVars, listenVars, stateVars
<1>20. CASE UNCHANGED vars
  BY <1>20, OrderStays DEF vars, roundVars, listenVars, stateVars, TypeOK, roundVars, listenVars,
                        stateVars
<1> QED
  BY <1>1, <1>2, <1>3, <1>4, <1>5, <1>6, <1>7, <1>8, <1>9, <1>10, <1>11, <1>12, <1>13, <1>14,
     <1>15, <1>16, <1>17, <1>18, <1>19, <1>20 DEF Next, Loop, Read, Update

-----------------------------------------------------------------------------
(* The theorems.                                                           *)

LEMMA InvInit == Init => IInv
<1> SUFFICES ASSUME Init PROVE IInv
  OBVIOUS
<1>1. TypeOK
  BY TypeInit
<1>2. Quiet /\ NoneSkips /\ PanicCause /\ Fresh
  BY DEF Init, Quiet, NoneSkips, PanicCause, Fresh
<1>3. LockHeld
  BY DEF Init, LockHeld, AtDevice, Jobs
<1>4. Own
  BY DEF Init, Own
<1>5. InOrder
  BY DEF Init, InOrder
<1> QED
  BY <1>1, <1>2, <1>3, <1>4, <1>5 DEF IInv

LEMMA InvStep == IInv /\ [Next]_vars => IInv'
  BY TypeStep, RoundStep, PanicStep, OwnStep, FreshStep, OrderStep DEF IInv

LEMMA Invariance == Spec => []IInv
  BY InvInit, InvStep, PTL DEF Spec

\* Every variable of the read path keeps its type, and readChan its capacity.
THEOREM TypeCorrect == Spec => []TypeOK
<1>1. IInv => TypeOK
  BY DEF IInv
<1> QED
  BY <1>1, Invariance, PTL

\* In serial mode one read is at its device at most, hung or not, and none while a write
\* waits for its device; a write that has timed out waits no more, and may still be at its
\* device beside a read (read, bulkRead and write, under serialLock).
THEOREM SerialModeExcludes == Spec => []SerialReads
<1>1. IInv => SerialReads
  BY DEF IInv, TypeOK, LockHeld, SerialReads, Jobs
<1> QED
  BY <1>1, Invariance, PTL

\* No device is read by two goroutines at once: read and bulkRead divide the
\* devices between them, and a round waits for the one before (scheduleReads).
THEOREM DevicesReadOnce == Spec => []OneReader
<1>1. IInv => OneReader
  BY TargetsDisjoint DEF IInv, NoneSkips, OneReader, AtDevice
<1> QED
  BY <1>1, Invariance, PTL

\* The process panics only if a handler listens and can be read in no other way.
THEOREM PanicsExplained == Spec => []OnlyListenersPanic
<1>1. IInv => OnlyListenersPanic
  <2> SUFFICES ASSUME IInv, crashed,
                      \A h \in Handlers : CanListen(h) => CanRead(h) \/ CanBulkRead(h)
               PROVE  FALSE
    BY DEF OnlyListenersPanic
  <2>1. PICK j \in Jobs : CallsNil(j) /\ ~Skips(j)
    BY DEF IInv, PanicCause
  <2>2. j \in Devices /\ setup.handler[j] \in Handlers
    BY <2>1, SetupParts DEF IInv, CallsNil
  <2> QED
    BY <2>1, <2>2 DEF CallsNil, Skips, IsReadable
<1> QED
  BY <1>1, Invariance, PTL

\* The current reading of a device that is not listened to only ever gets newer,
\* through the goroutines of a round, readChan and updateReadings.
THEOREM ReadingsOnlyAdvance == Spec => ReadingsAdvance
<1>1. IInv /\ [Next]_vars => [\A d \in Devices : ~Listens(d) => readings'[d] >= readings[d]]_vars
  <2> SUFFICES ASSUME IInv, Next, NEW d \in Devices, ~Listens(d)
               PROVE  readings'[d] >= readings[d]
    OBVIOUS
  <2>1. readings[d] \in Nat
    BY DEF IInv, TypeOK
  <2>2. CASE Take
    <3>1. readChan # << >> /\ 1 \in 1..Len(readChan) /\ Head(readChan) = readChan[1]
      BY <2>2 DEF Take, MayTake, IInv, TypeOK
    <3>2. readChan[1] \in Readings
      BY <3>1 DEF IInv, TypeOK
    <3>3. readChan[1].device = d => readings[d] < readChan[1].number
      BY <3>1 DEF IInv, InOrder
    <3> QED
      BY <2>1, <2>2, <3>1, <3>2, <3>3 DEF Take, IInv, TypeOK, Readings
  <2>3. CASE ~Take
    <3>1. readings' = readings
      BY <2>3 DEF Next, Loop, Read, Update, Stop, Launch, EndRound, Dispatch, StreamSticks,
                  WriteBegins,
                  WriteLocks, WriteEnds, WriteTimesOut, WriteReturns, Lock, DeviceAnswers, Panic, Discard, SendReading, EndRead, Hang,
                  ListenerHears, ListenerSends, ListenerReturns, stateVars
    <3> QED
      BY <2>1, <3>1
  <2> QED
    BY <2>2, <2>3
<1> QED
  BY <1>1, Invariance, PTL DEF Spec, ReadingsAdvance

=============================================================================
