--------------------------- MODULE WriteScheduler ---------------------------
(***************************************************************************)
(* The write path of the plugin: the gRPC handlers of WriteAsync and       *)
(* WriteSync, which create transactions and queue writes; the loop that    *)
(* takes writes from the queue in batches; the goroutine of each write;    *)
(* and the goroutine that runs the device's own Write function.            *)
(*                                                                         *)
(* A write is named by the call that requested it and its place in the     *)
(* call's data: <<r, i>>.  It stands for the transaction object, the write *)
(* context in the queue and the two goroutines that serve it.              *)
(***************************************************************************)
EXTENDS Naturals, Sequences, FiniteSets

CONSTANTS
  Requests,           \* the RPCs that clients may make
  Devices, Writable,  \* the devices; those whose handler has a Write function
  Ids,                \* transaction ids that clients may choose
  NoId,               \* the empty custom id: the plugin generates a uuid
  NoWrite,            \* "no transaction" in the cache, "unlocked" for the lock
  MaxItems,           \* the most writes in one call
  Calls,              \* the arguments of a call, see CallsAssumption
  QueueSize,          \* capacity of the write queue
  BatchSize,          \* the most writes in a batch
  Serial,             \* whether the run mode is "serial"
  Expires             \* whether cached transactions may outlive their TTL

Writes == Requests \X (1..MaxItems)

ASSUME CallsAssumption ==
  /\ MaxItems \in Nat
  /\ Writable \subseteq Devices
  /\ \A c \in Calls :
       /\ c.sync \in BOOLEAN
       /\ c.device \in Devices
       /\ c.ids \in Seq(Ids \cup {NoId})
       /\ Len(c.ids) <= MaxItems

ASSUME ModeAssumption ==
  /\ QueueSize \in Nat \ {0}
  /\ BatchSize \in Nat
  /\ Serial \in BOOLEAN
  /\ Expires \in BOOLEAN

ASSUME IdAssumption ==
  /\ NoId \notin Ids
  /\ NoWrite \notin Writes
  /\ Ids \cap Writes = {}

VARIABLES
  call,          \* the arguments of each RPC
  pc,            \* where the handler of each RPC is
  next,          \* the place in the call's data of the write it works on
  reply,         \* what a WriteSync told its client about each write
  status,        \* transaction.status, "none" before the transaction exists
  message,       \* transaction.message
  closes,        \* how often transaction.done was closed
  transactions,  \* stateManager.transactions: id -> transaction
  writeChan,     \* scheduler.writeChan
  stopped,       \* whether scheduler.stop is closed
  loop, slot,    \* where scheduleWrites is, and its batch index
  batch,         \* the writes the loop's waitGroup counts
  worker,        \* where the goroutine running write() is
  serialLock,    \* the write whose goroutine holds scheduler.serialLock
  device         \* the goroutine that calls device.Write

requestVars == <<pc, next, reply>>
transactionVars == <<status, message, closes>>
loopVars == <<loop, slot, batch>>
writeVars == <<worker, serialLock, device>>
vars == <<call, requestVars, transactionVars, transactions, writeChan,
          stopped, loopVars, writeVars>>

Terminal == {"done", "error"}
Statuses == {"none", "pending", "writing"} \cup Terminal
Causes == {"failed", "timedOut"}
Messages == {"none"} \cup Causes
NoReply == [status |-> "none", message |-> "none"]

\* A uuid is never generated twice: the write itself stands for it.
IdOf(x) == LET wanted == call[x[1]].ids[x[2]] IN IF wanted = NoId THEN x ELSE wanted

\* The writes of a call.
WritesOf(r) == {r} \X (1..Len(call[r].ids))

\* The goroutines inside the section of write() that serialLock guards.
Critical == {"locked", "selecting", "returning"} \cup Causes
Active == Critical \cup {"spawned"}

HandlerTypes ==
  /\ call \in [Requests -> Calls]
  /\ pc \in [Requests -> {"idle", "check", "store", "send", "waiting",
                          "answered", "refused"}]
  /\ next \in [Requests -> 1..MaxItems + 1]
  /\ reply \in [Writes -> [status : Statuses, message : Messages \cup {"torn"}]]

TransactionTypes ==
  /\ status \in [Writes -> Statuses]
  /\ message \in [Writes -> Messages]
  /\ closes \in [Writes -> Nat]
  /\ transactions \in [Ids \cup Writes -> Writes \cup {NoWrite}]

LoopTypes ==
  /\ writeChan \in Seq(Writes)
  /\ stopped \in BOOLEAN
  /\ loop \in {"off", "top", "collect", "stopped"}
  /\ slot \in 0..BatchSize
  /\ batch \in SUBSET Writes

GoroutineTypes ==
  /\ worker \in [Writes -> {"none", "finished"} \cup Active]
  /\ serialLock \in Writes \cup {NoWrite}
  /\ device \in [Writes -> {"none", "running", "ok", "failed"}]

\* The types: in particular a batch never takes more than BatchSize places.
TypeOK == HandlerTypes /\ TransactionTypes /\ LoopTypes /\ GoroutineTypes

Init ==
  /\ call \in [Requests -> Calls]
  /\ pc = [r \in Requests |-> "idle"]
  /\ next = [r \in Requests |-> 1]
  /\ reply = [x \in Writes |-> NoReply]
  /\ status = [x \in Writes |-> "none"]
  /\ message = [x \in Writes |-> "none"]
  /\ closes = [x \in Writes |-> 0]
  /\ transactions = [id \in Ids \cup Writes |-> NoWrite]
  /\ writeChan = << >>
  /\ stopped = FALSE
  /\ loop \in {"off", "top"}     \* "off": Write.Disable is configured
  /\ slot = 0
  /\ batch = {}
  /\ worker = [x \in Writes |-> "none"]
  /\ serialLock = NoWrite
  /\ device = [x \in Writes |-> "none"]

-----------------------------------------------------------------------------
(* The handlers of WriteAsync and WriteSync.                               *)

\* No data, or a device that cannot be written.
Reject(r) ==
  /\ pc[r] = "idle"
  /\ call[r].ids = << >> \/ call[r].device \notin Writable
  /\ pc' = [pc EXCEPT ![r] = "refused"]
  /\ UNCHANGED <<call, next, reply, transactionVars, transactions, writeChan,
                 stopped, loopVars, writeVars>>

Begin(r) ==
  /\ pc[r] = "idle"
  /\ call[r].ids # << >>
  /\ call[r].device \in Writable
  /\ pc' = [pc EXCEPT ![r] = "check"]
  /\ UNCHANGED <<call, next, reply, transactionVars, transactions, writeChan,
                 stopped, loopVars, writeVars>>

\* stateManager.newTransaction looks the id up ...
CheckId(r) ==
  /\ pc[r] = "check"
  /\ pc' = [pc EXCEPT ![r] = IF transactions[IdOf(<<r, next[r]>>)] = NoWrite
                             THEN "store" ELSE "refused"]
  /\ UNCHANGED <<call, next, reply, transactionVars, transactions, writeChan,
                 stopped, loopVars, writeVars>>

\* ... and, in a call of its own to the cache, stores the transaction.
Store(r) ==
  LET x == <<r, next[r]>> IN
  /\ pc[r] = "store"
  /\ pc' = [pc EXCEPT ![r] = "send"]
  /\ transactions' = [transactions EXCEPT ![IdOf(x)] = x]
  /\ status' = [status EXCEPT ![x] = "pending"]
  /\ UNCHANGED <<call, next, reply, message, closes, writeChan, stopped,
                 loopVars, writeVars>>

\* A sender appends to the channel.
Enqueue_InFront(x) == writeChan' = <<x>> \o writeChan     \* faulty
Enqueue(x) == writeChan' = Append(writeChan, x)

\* The write is queued, as soon as the queue has room, and the handler turns
\* to the next write of the call.
Send(r) ==
  /\ pc[r] = "send"
  /\ Len(writeChan) < QueueSize
  /\ Enqueue(<<r, next[r]>>)
  /\ next' = [next EXCEPT ![r] = @ + 1]
  /\ pc' = [pc EXCEPT ![r] =
              IF next[r] < Len(call[r].ids) THEN "check"
              ELSE IF call[r].sync THEN "waiting" ELSE "answered"]
  /\ UNCHANGED <<call, reply, transactionVars, transactions, stopped,
                 loopVars, writeVars>>

\* The handler's waitGroup: one goroutine waits for each transaction.
AllDone_Any(r) == \E x \in WritesOf(r) : closes[x] > 0    \* faulty
AllDone(r) == \A x \in WritesOf(r) : closes[x] > 0

\* What a reader of the message may see: while it is being set, which nothing
\* synchronizes, also the pointer of one string with the length of another.
MessageSeen(x) == {message[x]} \cup (IF worker[x] \in Causes THEN {"torn"} ELSE {})

\* WriteSync: all transactions of the call are done; they are encoded.
AnswerSync(r) ==
  /\ pc[r] = "waiting"
  /\ AllDone(r)
  /\ \E seen \in [WritesOf(r) -> Messages \cup {"torn"}] :
       /\ \A x \in WritesOf(r) : seen[x] \in MessageSeen(x)
       /\ reply' = [x \in Writes |->
                      IF x \in WritesOf(r)
                      THEN [status |-> status[x], message |-> seen[x]]
                      ELSE reply[x]]
  /\ pc' = [pc EXCEPT ![r] = "answered"]
  /\ UNCHANGED <<call, next, transactionVars, transactions, writeChan,
                 stopped, loopVars, writeVars>>

\* A cached transaction reaches its TTL, whatever its status.
Expire(id) ==
  /\ Expires
  /\ transactions[id] # NoWrite
  /\ transactions' = [transactions EXCEPT ![id] = NoWrite]
  /\ UNCHANGED <<call, requestVars, transactionVars, writeChan, stopped,
                 loopVars, writeVars>>

-----------------------------------------------------------------------------
(* scheduleWrites.                                                         *)

\* The post-run action "Stop scheduler" closes the stop channel.
Stop ==
  /\ ~stopped
  /\ stopped' = TRUE
  /\ UNCHANGED <<call, requestVars, transactionVars, transactions, writeChan,
                 loopVars, writeVars>>

StopSeen_Never == FALSE     \* faulty
StopSeen == stopped

\* The stop channel is looked at between two batches only.
CheckStop ==
  /\ loop = "top"
  /\ loop' = IF StopSeen THEN "stopped" ELSE "collect"
  /\ slot' = 0
  /\ UNCHANGED <<call, requestVars, transactionVars, transactions, writeChan,
                 stopped, batch, writeVars>>

SlotsLeft_OneMore == slot <= BatchSize     \* faulty
SlotsLeft == slot < BatchSize

\* Faulty variants: a write taken after Stop is dropped; a write whose id no
\* longer finds its transaction is dropped.
Launch_UnlessStopped(x) ==
  /\ batch' = IF stopped THEN batch ELSE batch \cup {x}
  /\ worker' = [worker EXCEPT ![x] = IF stopped THEN @ ELSE "spawned"]
Launch_IfCached(x) ==
  LET found == transactions[IdOf(x)] = x IN
  /\ batch' = IF found THEN batch \cup {x} ELSE batch
  /\ worker' = [worker EXCEPT ![x] = IF found THEN "spawned" ELSE @]

\* The waitGroup counts the write, and a goroutine performs it.
Launch(x) ==
  /\ batch' = batch \cup {x}
  /\ worker' = [worker EXCEPT ![x] = "spawned"]

\* A queued write joins the batch.
TakeWrite ==
  /\ loop = "collect" /\ SlotsLeft
  /\ writeChan # << >>
  /\ writeChan' = Tail(writeChan)
  /\ Launch(Head(writeChan))
  /\ slot' = slot + 1
  /\ UNCHANGED <<call, requestVars, transactionVars, transactions, stopped,
                 loop, serialLock, device>>

\* Nothing is queued: this place in the batch stays empty.
SkipSlot ==
  /\ loop = "collect" /\ SlotsLeft
  /\ writeChan = << >>
  /\ slot' = slot + 1
  /\ UNCHANGED <<call, requestVars, transactionVars, transactions, writeChan,
                 stopped, loop, batch, writeVars>>

BatchFinished_Always == TRUE     \* faulty
BatchFinished == \A x \in batch : worker[x] = "finished"

\* waitGroup.Wait returns when every goroutine of the batch is done.
EndBatch ==
  /\ loop = "collect" /\ slot = BatchSize
  /\ BatchFinished
  /\ loop' = "top"
  /\ batch' = {}
  /\ UNCHANGED <<call, requestVars, transactionVars, transactions, writeChan,
                 stopped, slot, writeVars>>

-----------------------------------------------------------------------------
(* write, and the goroutine that calls device.Write.                       *)

\* The goroutine passes the rate limiter and, in serial mode, the lock.
Acquire(x) ==
  /\ worker[x] = "spawned"
  /\ Serial => serialLock = NoWrite
  /\ serialLock' = IF Serial THEN x ELSE serialLock
  /\ worker' = [worker EXCEPT ![x] = "locked"]
  /\ UNCHANGED <<call, requestVars, transactionVars, transactions, writeChan,
                 stopped, loopVars, device>>

StartWrite(x) ==
  /\ worker[x] = "locked"
  /\ status' = [status EXCEPT ![x] = "writing"]
  /\ device' = [device EXCEPT ![x] = "running"]
  /\ worker' = [worker EXCEPT ![x] = "selecting"]
  /\ UNCHANGED <<call, requestVars, message, closes, transactions, writeChan,
                 stopped, loopVars, serialLock>>

\* The plugin's handler comes back: nothing cancels it, and it may never do so.
DeviceReturns(x) ==
  /\ device[x] = "running"
  /\ \E result \in {"ok", "failed"} : device' = [device EXCEPT ![x] = result]
  /\ UNCHANGED <<call, requestVars, transactionVars, transactions, writeChan,
                 stopped, loopVars, worker, serialLock>>

\* setStatusDone and setStatusError: the status, then close(done).
Resolve(x, outcome) ==
  /\ status' = [status EXCEPT ![x] = outcome]
  /\ closes' = [closes EXCEPT ![x] = @ + 1]

WriteSucceeds(x) ==
  /\ worker[x] = "selecting"
  /\ device[x] = "ok"
  /\ Resolve(x, "done")
  /\ worker' = [worker EXCEPT ![x] = "returning"]
  /\ UNCHANGED <<call, requestVars, message, transactions, writeChan, stopped,
                 loopVars, serialLock, device>>

WriteFails(x) ==
  /\ worker[x] = "selecting"
  /\ device[x] = "failed"
  /\ Resolve(x, "error")
  /\ worker' = [worker EXCEPT ![x] = "failed"]
  /\ UNCHANGED <<call, requestVars, message, transactions, writeChan, stopped,
                 loopVars, serialLock, device>>

\* Faulty variants: nothing ends the wait for the device; the error is ignored;
\* no return follows it, so that the result of the device is awaited as well.
GiveUp_Never(x) == FALSE
GiveUp_NoError(x) ==
  Resolve(x, "done") /\ worker' = [worker EXCEPT ![x] = "returning"]
GiveUp_NoReturn(x) == Resolve(x, "error") /\ worker' = worker

\* The write fails with ErrDeviceWriteTimeout.
GiveUp(x) ==
  Resolve(x, "error") /\ worker' = [worker EXCEPT ![x] = "timedOut"]

\* time.After fires; the select may choose it though the result is there too.
WriteTimesOut(x) ==
  /\ worker[x] = "selecting"
  /\ GiveUp(x)
  /\ UNCHANGED <<call, requestVars, message, transactions, writeChan, stopped,
                 loopVars, serialLock, device>>

\* The message of a failed transaction is set after its done channel is closed.
SetMessage(x) ==
  /\ worker[x] \in Causes
  /\ message' = [message EXCEPT ![x] = worker[x]]
  /\ worker' = [worker EXCEPT ![x] = "returning"]
  /\ UNCHANGED <<call, requestVars, status, closes, transactions, writeChan,
                 stopped, loopVars, serialLock, device>>

Unlock_Never == UNCHANGED serialLock     \* faulty
Unlock == serialLock' = IF Serial THEN NoWrite ELSE serialLock

\* After the write delay: the deferred unlock, then waitGroup.Done.
Return(x) ==
  /\ worker[x] = "returning"
  /\ Unlock
  /\ worker' = [worker EXCEPT ![x] = "finished"]
  /\ UNCHANGED <<call, requestVars, transactionVars, transactions, writeChan,
                 stopped, loopVars, device>>

-----------------------------------------------------------------------------
Handler(r) == Reject(r) \/ Begin(r) \/ CheckId(r) \/ Store(r) \/ Send(r) \/ AnswerSync(r)

Loop == CheckStop \/ TakeWrite \/ SkipSlot \/ EndBatch

Goroutine(x) ==
  \/ StartWrite(x) \/ WriteSucceeds(x) \/ WriteFails(x) \/ WriteTimesOut(x)
  \/ SetMessage(x) \/ Return(x)

Next ==
  \/ \E r \in Requests : Handler(r)
  \/ \E id \in Ids \cup Writes : Expire(id)
  \/ Stop
  \/ Loop
  \/ \E x \in Writes : Acquire(x) \/ Goroutine(x) \/ DeviceReturns(x)

Spec == Init /\ [][Next]_vars

-----------------------------------------------------------------------------
(* Fairness.  The Go runtime runs every goroutine that can take a step.    *)
(* The lock and a full queue hand over to waiting goroutines in turn       *)
(* (starvation mode of sync.Mutex, FIFO wait list of a channel), and each  *)
(* write competes for them once, so weak fairness is all it takes.         *)
(* Clients, devices and Stop owe nothing.                                  *)
Fairness ==
  /\ \A r \in Requests : WF_vars(CheckId(r) \/ Store(r) \/ Send(r) \/ AnswerSync(r))
  /\ WF_vars(Loop)
  /\ \A x \in Writes : WF_vars(Acquire(x) \/ Goroutine(x))

FairSpec == Spec /\ Fairness

-----------------------------------------------------------------------------
(* What the write path guarantees.                                         *)

\* The done channel of a transaction is closed exactly when its status becomes
\* terminal, and only once (a second close panics): the result and the timeout
\* that write() selects between never both resolve the transaction.
ResolvedOnce ==
  \A x \in Writes : closes[x] = IF status[x] \in Terminal THEN 1 ELSE 0

\* In serial mode a goroutine is inside the locked section of write() exactly
\* while it holds serialLock: two never are, and no way out keeps the lock.
SerialSection ==
  Serial => \A x \in Writes : worker[x] \in Critical <=> serialLock = x

\* Every goroutine that performs a write is counted by the current batch, so
\* none runs between batches or once the loop has stopped.
BatchBarrier ==
  \A x \in Writes : worker[x] \in Active => x \in batch /\ loop = "collect"

\* How often a write is in the queue, about to be queued by its handler, or
\* in the hands of a goroutine that has not started it.
Places(x) ==
  Cardinality({i \in DOMAIN writeChan : writeChan[i] = x})
  + (IF pc[x[1]] = "send" /\ next[x[1]] = x[2] THEN 1 ELSE 0)
  + (IF worker[x] \in {"spawned", "locked"} THEN 1 ELSE 0)

\* A transaction that clients see as PENDING is on its way to the device, in one
\* place; one with any other status is not: no write is lost or performed twice.
PendingOncePlaced ==
  \A x \in Writes : Places(x) = IF status[x] = "pending" THEN 1 ELSE 0

\* A transaction is DONE only if the device accepted the write, and an error
\* message says what happened: a refusal only if the device refused.
OutcomeTrue ==
  \A x \in Writes :
    /\ status[x] = "done" => device[x] = "ok"
    /\ message[x] = "failed" => device[x] = "failed"
    /\ message[x] # "none" => status[x] = "error"

\* The writes of one call reach their device in the order of the call's data,
\* each after the one before is resolved, except within one batch.
CallOrder ==
  \A r \in Requests : \A i, j \in 1..MaxItems :
    LET x == <<r, i>>  y == <<r, j>> IN
    i < j /\ status[y] \notin {"none", "pending"} /\ status[x] \notin Terminal
      => {x, y} \subseteq batch

\* The write path implements the service its clients rely on.
Service == INSTANCE WriteService WITH
  outcome <- status,
  applied <- {x \in Writes : device[x] = "ok"},
  told <- [x \in Writes |-> reply[x].status]

ServiceSpec == Service!Spec

\* Unless the plugin stops or writing is disabled, a write that was given a
\* transaction reaches a terminal status, even when its device never returns.
EveryWriteResolves ==
  \A x \in Writes :
    status[x] = "pending" ~> status[x] \in Terminal \/ stopped \/ loop = "off"

\* Unless the plugin stops or writing is disabled, WriteAsync and WriteSync
\* return to their client, though the queue is smaller than the load.
HandlersReturn ==
  \A r \in Requests :
    pc[r] \in {"check", "store", "send", "waiting"}
      ~> pc[r] \in {"answered", "refused"} \/ stopped \/ loop = "off"

\* Once stop is closed the write loop ends, whatever its devices do.
StopEndsLoop == stopped ~> loop \in {"stopped", "off"}

-----------------------------------------------------------------------------
(* What comments and tests of the code say, and the write path does not do. *)

\* "serialLock is a lock that is used around reads/writes when the scheduler is
\* run in serial mode": no two devices are written to at the same time.
SerialDevices ==
  Serial => \A x, y \in Writes :
              device[x] = "running" /\ device[y] = "running" => x = y

\* Whatever puts the transaction in the cache ensures that ids are unique: no
\* two transactions that are not resolved have the same id.
TransactionIdsUnique ==
  \A x, y \in Writes :
    /\ status[x] \in {"pending", "writing"}
    /\ status[y] \in {"pending", "writing"}
    /\ IdOf(x) = IdOf(y)
    => x = y

\* After WriteSync "no asynchronous status checking is needed": what it tells of
\* a write is all that the transaction will ever say.
SyncReplyFinal ==
  \A r \in Requests :
    pc[r] = "answered" /\ call[r].sync
      => \A x \in WritesOf(r) : message[x] = reply[x].message
=============================================================================
