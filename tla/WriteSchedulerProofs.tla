------------------------ MODULE WriteSchedulerProofs ------------------------
(***************************************************************************)
(* Proofs about WriteScheduler, for any number of clients, calls, devices, *)
(* any queue and batch size and both run modes.                            *)
(***************************************************************************)
EXTENDS WriteScheduler, SequenceTheorems, FiniteSetTheorems, TLAPS

-----------------------------------------------------------------------------
(* Facts about the data.                                                   *)

\* A write is a pair of its call and its place in the call's data.
LEMMA WritePair ==
  /\ \A x \in Writes : x[1] \in Requests /\ x[2] \in 1..MaxItems /\ x = <<x[1], x[2]>>
  /\ \A r \in Requests, i \in 1..MaxItems : <<r, i>> \in Writes
BY DEF Writes

\* The data of a call is a sequence of at most MaxItems ids.
LEMMA CallData ==
  ASSUME HandlerTypes, NEW r \in Requests
  PROVE  /\ call[r].ids \in Seq(Ids \cup {NoId})
         /\ Len(call[r].ids) \in Nat
         /\ Len(call[r].ids) <= MaxItems
         /\ MaxItems \in Nat
<1>1. call[r] \in Calls
  BY DEF HandlerTypes
<1>2. call[r].ids \in Seq(Ids \cup {NoId}) /\ Len(call[r].ids) <= MaxItems /\ MaxItems \in Nat
  BY <1>1, CallsAssumption
<1> QED
  BY <1>2

\* A handler that works on a call has a write of that call in hand.
LEMMA CurrentWrite ==
  ASSUME HandlerTypes, NEW r \in Requests, next[r] <= Len(call[r].ids)
  PROVE  /\ next[r] \in 1..MaxItems
         /\ <<r, next[r]>> \in Writes
         /\ IdOf(<<r, next[r]>>) \in Ids \cup Writes
<1>1. next[r] \in Nat /\ next[r] >= 1
  BY CallData DEF HandlerTypes
<1>2. next[r] \in 1..MaxItems /\ next[r] \in 1..Len(call[r].ids)
  BY <1>1, CallData
<1>3. <<r, next[r]>> \in Writes
  BY <1>2 DEF Writes
<1>4. call[r].ids[next[r]] \in Ids \cup {NoId}
  BY <1>2, CallData, ElementOfSeq
<1> QED
  BY <1>2, <1>3, <1>4 DEF IdOf

-----------------------------------------------------------------------------
(* Type correctness.  It needs that a handler never runs past its data.    *)

Working == {"check", "store", "send"}

InData ==
  \A r \in Requests :
    /\ pc[r] = "idle" => next[r] = 1
    /\ pc[r] \in Working => next[r] <= Len(call[r].ids)

LEMMA TypeInit == Init => TypeOK /\ InData
<1> SUFFICES ASSUME Init PROVE TypeOK /\ InData
  OBVIOUS
<1> USE DEF Init
<1>1. InData
  BY DEF InData, Working
<1>2. reply \in [Writes -> [status : Statuses, message : Messages \cup {"torn"}]]
  BY DEF NoReply, Statuses, Messages
<1>3. HandlerTypes
  BY <1>2, CallsAssumption DEF HandlerTypes
<1>4. TransactionTypes
  BY DEF TransactionTypes, Statuses, Messages
<1>5. LoopTypes
  <2>1. writeChan \in Seq(Writes)
    BY EmptySeq
  <2>2. slot \in 0..BatchSize
    BY ModeAssumption
  <2> QED
    BY <2>1, <2>2 DEF LoopTypes
<1>6. GoroutineTypes
  BY DEF GoroutineTypes
<1> QED
  BY <1>1, <1>3, <1>4, <1>5, <1>6 DEF TypeOK

\* The handlers of WriteAsync and WriteSync preserve the types.
LEMMA TypeHandler ==
  ASSUME TypeOK, InData, NEW r \in Requests, Handler(r)
  PROVE  TypeOK' /\ InData'
<1> USE DEF TypeOK
<1> DEFINE PCs == {"idle", "check", "store", "send", "waiting", "answered", "refused"}
<1>0. pc[r] \in Working => <<r, next[r]>> \in Writes /\ next[r] \in 1..MaxItems
  BY CurrentWrite DEF InData
<1>1. HandlerTypes'
  <2>1. call' = call
    BY DEF Handler, Reject, Begin, CheckId, Store, Send, AnswerSync
  <2>2. pc' \in [Requests -> PCs]
    BY DEF Handler, Reject, Begin, CheckId, Store, Send, AnswerSync, requestVars, HandlerTypes
  <2>3. next' \in [Requests -> 1..MaxItems + 1]
    <3>1. CASE next' = next
      BY <3>1 DEF HandlerTypes
    <3>2. CASE Send(r)
      BY <3>2, <1>0, CallsAssumption DEF Send, HandlerTypes, Working
    <3> QED
      BY <3>1, <3>2 DEF Handler, Reject, Begin, CheckId, Store, AnswerSync
  <2>4. reply' \in [Writes -> [status : Statuses, message : Messages \cup {"torn"}]]
    <3>1. CASE reply' = reply
      BY <3>1 DEF HandlerTypes
    <3>2. CASE AnswerSync(r)
      <4>1. PICK seen \in [WritesOf(r) -> Messages \cup {"torn"}] :
              reply' = [x \in Writes |->
                          IF x \in WritesOf(r)
                          THEN [status |-> status[x], message |-> seen[x]]
                          ELSE reply[x]]
        BY <3>2 DEF AnswerSync
      <4> QED
        BY <4>1 DEF HandlerTypes, TransactionTypes
    <3> QED
      BY <3>1, <3>2 DEF Handler, Reject, Begin, CheckId, Store, Send
  <2> QED
    BY <2>1, <2>2, <2>3, <2>4 DEF HandlerTypes
<1>2. TransactionTypes'
  <2>1. CASE Store(r)
    BY <2>1, <1>0, CurrentWrite DEF Store, TransactionTypes, Statuses, InData, Working
  <2>2. CASE UNCHANGED <<status, message, closes, transactions>>
    BY <2>2 DEF TransactionTypes
  <2> QED
    BY <2>1, <2>2 DEF Handler, Reject, Begin, CheckId, Send, AnswerSync, transactionVars
<1>3. LoopTypes'
  <2>1. CASE Send(r)
    BY <2>1, <1>0, AppendProperties DEF Send, Enqueue, LoopTypes, loopVars, Working
  <2>2. CASE UNCHANGED <<writeChan, stopped, loop, slot, batch>>
    BY <2>2 DEF LoopTypes
  <2> QED
    BY <2>1, <2>2 DEF Handler, Reject, Begin, CheckId, Store, AnswerSync, loopVars
<1>4. GoroutineTypes'
  BY DEF Handler, Reject, Begin, CheckId, Store, Send, AnswerSync, GoroutineTypes, writeVars
<1>5. InData'
  <2> SUFFICES ASSUME NEW q \in Requests
               PROVE  /\ pc'[q] = "idle" => next'[q] = 1
                      /\ pc'[q] \in Working => next'[q] <= Len(call'[q].ids)
    BY DEF InData
  <2>0. call' = call
    BY DEF Handler, Reject, Begin, CheckId, Store, Send, AnswerSync
  <2>1. CASE q # r
    <3>1. pc'[q] = pc[q]
      BY <2>1 DEF Handler, Reject, Begin, CheckId, Store, Send, AnswerSync, HandlerTypes
    <3>2. next'[q] = next[q]
      BY <2>1 DEF Handler, Reject, Begin, CheckId, Store, Send, AnswerSync, HandlerTypes
    <3> QED
      BY <2>0, <3>1, <3>2 DEF InData
  <2>2. CASE q = r
    <3>1. CASE Begin(r)
      <4>1. Len(call[r].ids) >= 1
        BY <3>1, CallData, EmptySeq DEF Begin
      <4> QED
        BY <2>2, <3>1, <4>1 DEF Begin, HandlerTypes, InData
    <3>2. CASE Send(r)
      BY <2>2, <3>2, <1>0, CallData DEF Send, HandlerTypes, InData, Working
    <3>3. CASE CheckId(r) \/ Store(r)
      BY <2>2, <3>3 DEF CheckId, Store, HandlerTypes, InData, Working
    <3>4. CASE Reject(r) \/ AnswerSync(r)
      BY <2>2, <3>4 DEF Reject, AnswerSync, HandlerTypes, Working
    <3> QED
      BY <3>1, <3>2, <3>3, <3>4 DEF Handler
  <2> QED
    BY <2>1, <2>2
<1> QED
  BY <1>1, <1>2, <1>3, <1>4, <1>5

\* The write loop and the stop signal preserve the types.
LEMMA TypeLoop ==
  ASSUME TypeOK, InData, Loop \/ Stop
  PROVE  TypeOK' /\ InData'
<1> USE DEF TypeOK
<1>1. UNCHANGED <<call, requestVars, transactionVars, transactions, serialLock, device>>
  BY DEF Loop, CheckStop, TakeWrite, SkipSlot, EndBatch, Stop, writeVars
<1>2. HandlerTypes' /\ TransactionTypes' /\ InData'
  BY <1>1 DEF HandlerTypes, TransactionTypes, InData, requestVars, transactionVars
<1>3. CASE TakeWrite
  <2>1. Head(writeChan) \in Writes /\ Tail(writeChan) \in Seq(Writes)
    BY <1>3, HeadTailProperties DEF TakeWrite, LoopTypes
  <2>2. LoopTypes'
    BY <1>3, <2>1, ModeAssumption DEF TakeWrite, Launch, SlotsLeft, LoopTypes
  <2>3. GoroutineTypes'
    BY <1>3, <2>1 DEF TakeWrite, Launch, GoroutineTypes, Active
  <2> QED
    BY <1>2, <2>2, <2>3
<1>4. CASE CheckStop \/ SkipSlot \/ EndBatch \/ Stop
  <2>1. LoopTypes'
    <3>1. CASE CheckStop
      BY <3>1, ModeAssumption DEF CheckStop, LoopTypes
    <3>4. CASE Stop
      BY <3>4 DEF Stop, LoopTypes, loopVars
    <3>2. CASE SkipSlot
      BY <3>2, ModeAssumption DEF SkipSlot, SlotsLeft, LoopTypes
    <3>3. CASE EndBatch
      BY <3>3 DEF EndBatch, LoopTypes
    <3> QED
      BY <1>4, <3>1, <3>2, <3>3, <3>4
  <2>2. GoroutineTypes'
    BY <1>4 DEF CheckStop, SkipSlot, EndBatch, Stop, GoroutineTypes, writeVars
  <2> QED
    BY <1>2, <2>1, <2>2
<1> QED
  BY <1>3, <1>4 DEF Loop

\* The goroutines of a write preserve the types.
LEMMA TypeGoroutine ==
  ASSUME TypeOK, InData, NEW x \in Writes, Acquire(x) \/ Goroutine(x) \/ DeviceReturns(x)
  PROVE  TypeOK' /\ InData'
<1> USE DEF TypeOK
<1> DEFINE Step == Acquire(x) \/ Goroutine(x) \/ DeviceReturns(x)
<1>1. UNCHANGED <<call, requestVars, transactions, writeChan, stopped, loopVars>>
  BY DEF Acquire, Goroutine, DeviceReturns, StartWrite, WriteSucceeds, WriteFails,
         WriteTimesOut, SetMessage, Return
<1>2. HandlerTypes' /\ LoopTypes' /\ InData'
  BY <1>1 DEF HandlerTypes, LoopTypes, InData, requestVars, loopVars
<1>3. TransactionTypes'
  BY <1>1 DEF Acquire, Goroutine, DeviceReturns, StartWrite, WriteSucceeds, WriteFails,
         WriteTimesOut, GiveUp, Resolve, SetMessage, Return, TransactionTypes,
         transactionVars, Statuses, Terminal, Messages
<1>4. GoroutineTypes'
  BY DEF Acquire, Goroutine, DeviceReturns, StartWrite, WriteSucceeds, WriteFails,
         WriteTimesOut, GiveUp, SetMessage, Return, Unlock, GoroutineTypes, writeVars,
         Active, Critical, Causes
<1> QED
  BY <1>2, <1>3, <1>4

LEMMA TypeNext == TypeOK /\ InData /\ [Next]_vars => TypeOK' /\ InData'
<1> SUFFICES ASSUME TypeOK, InData, [Next]_vars PROVE TypeOK' /\ InData'
  OBVIOUS
<1>1. ASSUME NEW id \in Ids \cup Writes, Expire(id) PROVE TypeOK' /\ InData'
  BY <1>1 DEF Expire, TypeOK, InData, HandlerTypes, TransactionTypes, LoopTypes,
     GoroutineTypes, requestVars, transactionVars, loopVars, writeVars
<1>2. CASE UNCHANGED vars
  BY <1>2 DEF vars, TypeOK, InData, HandlerTypes, TransactionTypes, LoopTypes,
     GoroutineTypes, requestVars, transactionVars, loopVars, writeVars
<1> QED
  BY <1>1, <1>2, TypeHandler, TypeLoop, TypeGoroutine DEF Next

\* Every variable keeps its type in every behaviour of the write path.
THEOREM TypeCorrect == Spec => []TypeOK
<1>1. Spec => [](TypeOK /\ InData)
  BY TypeInit, TypeNext, PTL DEF Spec
<1> QED
  BY <1>1, PTL

-----------------------------------------------------------------------------
(* Where every write is, and what its transaction says there.              *)

\* The handler has stored the transaction of the write.
Created(x) == x[2] < next[x[1]] \/ (pc[x[1]] = "send" /\ x[2] = next[x[1]])

Queued(x) == \E k \in 1..Len(writeChan) : writeChan[k] = x

\* A write has a transaction once its handler created it, and from then on is
\* with the handler, in the queue, or with a goroutine.  The queue holds the
\* writes of a call in the order of its data.
Accounting ==
  /\ \A x \in Writes :
       /\ status[x] = "none" <=> ~Created(x)
       /\ worker[x] # "none" => x[2] < next[x[1]]
       /\ worker[x] = "none" /\ x[2] < next[x[1]] => Queued(x)
  /\ \A k \in 1..Len(writeChan) :
       /\ worker[writeChan[k]] = "none"
       /\ writeChan[k][2] < next[writeChan[k][1]]
  /\ \A k, l \in 1..Len(writeChan) :
       k < l /\ writeChan[k][1] = writeChan[l][1] => writeChan[k][2] < writeChan[l][2]

\* What the transaction and the device goroutine of a write can be, given where
\* the goroutine of write() is.
Lifecycle ==
  \A x \in Writes :
    /\ worker[x] = "none" => status[x] \in {"none", "pending"}
    /\ worker[x] \in {"spawned", "locked"} => status[x] = "pending"
    /\ worker[x] = "selecting" => status[x] = "writing"
    /\ worker[x] \in Causes => status[x] = "error"
    /\ worker[x] \in {"returning", "finished"} => status[x] \in Terminal
    /\ device[x] = "none" <=> worker[x] \in {"none", "spawned", "locked"}
    /\ worker[x] = "failed" => device[x] = "failed"
    /\ status[x] = "done" => device[x] = "ok"
    /\ message[x] # "none" => worker[x] \in {"returning", "finished"} /\ status[x] = "error"
    /\ message[x] = "failed" => device[x] = "failed"
    /\ closes[x] = IF status[x] \in Terminal THEN 1 ELSE 0

\* Writes of one call leave the queue in order, and a later one leaves it while
\* an earlier one is in progress only to join its batch.
Ordered ==
  \A r \in Requests : \A i, j \in 1..MaxItems :
    i < j /\ worker[<<r, j>>] # "none" =>
      /\ worker[<<r, i>>] # "none"
      /\ worker[<<r, i>>] \in Active => <<r, j>> \in batch

Inv == TypeOK /\ InData /\ Accounting /\ Lifecycle /\ Ordered /\ BatchBarrier

LEMMA InvInit == Init => Inv
<1> SUFFICES ASSUME Init PROVE Inv
  OBVIOUS
<1>1. Accounting
  BY WritePair DEF Init, Accounting, Created
<1>2. Lifecycle
  BY DEF Init, Lifecycle, Terminal, Causes
<1>3. Ordered
  BY WritePair DEF Init, Ordered
<1>4. BatchBarrier
  BY DEF Init, BatchBarrier, Active, Critical, Causes
<1> QED
  BY <1>1, <1>2, <1>3, <1>4, TypeInit DEF Inv

\* Only Store gives a write its transaction.
LEMMA CreatedHandler ==
  ASSUME TypeOK, InData, NEW r \in Requests, Handler(r), NEW x \in Writes
  PROVE  Created(x)' <=> Created(x) \/ (Store(r) /\ x = <<r, next[r]>>)
<1> USE WritePair DEF TypeOK, HandlerTypes, InData, Working, Created
<1>0. x[1] \in Requests /\ x[2] \in Nat /\ next[x[1]] \in Nat
  BY CallsAssumption
<1>1. CASE Store(r)
  BY <1>0, <1>1 DEF Store
<1>2. CASE Send(r)
  <2>1. ~Store(r)
    BY <1>2 DEF Send, Store
  <2>2. CASE x[1] = r
    BY <1>0, <1>2, <2>1, <2>2 DEF Send
  <2>3. CASE x[1] # r
    BY <1>0, <1>2, <2>1, <2>3 DEF Send
  <2> QED
    BY <2>2, <2>3
<1>3. CASE Reject(r) \/ Begin(r) \/ CheckId(r) \/ AnswerSync(r)
  BY <1>0, <1>3 DEF Reject, Begin, CheckId, AnswerSync, Store
<1> QED
  BY <1>1, <1>2, <1>3 DEF Handler

\* The handlers keep account of every write.
LEMMA AccountingHandler ==
  ASSUME Inv, NEW r \in Requests, Handler(r)
  PROVE  Accounting'
<1> USE DEF Inv
<1> DEFINE y == <<r, next[r]>>
<1>0. worker' = worker
  BY DEF Handler, Reject, Begin, CheckId, Store, Send, AnswerSync, writeVars
<1>1. ASSUME NEW x \in Writes PROVE status'[x] = "none" <=> ~Created(x)'
  <2>1. CASE Store(r)
    <3>1. y \in Writes
      BY <2>1, CurrentWrite DEF Store, TypeOK, InData, Working
    <3> QED
      BY <2>1, <3>1, CreatedHandler DEF Store, Accounting, TypeOK, TransactionTypes
  <2>2. CASE ~Store(r)
    <3>1. status' = status
      BY <2>2 DEF Handler, Reject, Begin, CheckId, Send, AnswerSync, transactionVars
    <3> QED
      BY <2>2, <3>1, CreatedHandler DEF Accounting
  <2> QED
    BY <2>1, <2>2
<1>2. CASE Send(r)
  <2>1. y \in Writes /\ next[r] \in Nat
    BY <1>2, CurrentWrite DEF Send, TypeOK, InData, Working
  <2>2. writeChan \in Seq(Writes) /\ writeChan' = Append(writeChan, y)
    BY <1>2 DEF Send, Enqueue, TypeOK, LoopTypes
  <2>3. /\ Len(writeChan) \in Nat
        /\ Len(writeChan') = Len(writeChan) + 1
        /\ \A k \in 1..Len(writeChan) : writeChan'[k] = writeChan[k] /\ writeChan[k] \in Writes
        /\ writeChan'[Len(writeChan) + 1] = y
    BY <2>1, <2>2, AppendProperties, LenProperties, ElementOfSeq
  <2>4. \A q \in Requests : next[q] \in Nat /\ next'[q] = IF q = r THEN next[q] + 1 ELSE next[q]
    BY <1>2, CallsAssumption DEF Send, TypeOK, HandlerTypes
  <2>5. ASSUME NEW x \in Writes
        PROVE  /\ worker'[x] # "none" => x[2] < next'[x[1]]
               /\ worker'[x] = "none" /\ x[2] < next'[x[1]] => Queued(x)'
    <3>0. x[1] \in Requests /\ x[2] \in Nat /\ x = <<x[1], x[2]>>
      BY WritePair, CallsAssumption
    <3>1. worker'[x] # "none" => x[2] < next'[x[1]]
      BY <1>0, <2>4, <3>0 DEF Accounting
    <3>2. CASE x = y
      BY <2>3, <3>1, <3>2 DEF Queued
    <3>3. CASE x # y /\ worker'[x] = "none" /\ x[2] < next'[x[1]]
      <4>1. x[2] < next[x[1]]
        BY <2>4, <3>0, <3>3
      <4>2. Queued(x)
        BY <1>0, <3>3, <4>1 DEF Accounting
      <4> QED
        BY <2>3, <3>1, <4>2 DEF Queued
    <3> QED
      BY <3>1, <3>2, <3>3
  <2>6. worker[y] = "none"
    BY <2>1 DEF Accounting
  <2>7. ASSUME NEW k \in 1..Len(writeChan')
        PROVE  worker'[writeChan'[k]] = "none" /\ writeChan'[k][2] < next'[writeChan'[k][1]]
    BY <1>0, <2>1, <2>3, <2>4, <2>6, WritePair DEF Accounting
  <2>8. ASSUME NEW k \in 1..Len(writeChan'), NEW l \in 1..Len(writeChan'),
               k < l, writeChan'[k][1] = writeChan'[l][1]
        PROVE  writeChan'[k][2] < writeChan'[l][2]
    <3>1. k \in 1..Len(writeChan)
      BY <2>3, <2>8
    <3>2. CASE l \in 1..Len(writeChan)
      BY <2>3, <2>8, <3>1, <3>2 DEF Accounting
    <3>3. CASE l = Len(writeChan) + 1
      BY <2>3, <2>8, <3>1, <3>3 DEF Accounting
    <3> QED
      BY <2>3, <3>2, <3>3
  <2> QED
    BY <1>1, <2>5, <2>7, <2>8 DEF Accounting
<1>3. CASE ~Send(r)
  <2>1. UNCHANGED <<next, writeChan>>
    BY <1>3 DEF Handler, Reject, Begin, CheckId, Store, AnswerSync
  <2> QED
    BY <1>0, <1>1, <2>1 DEF Accounting, Queued
<1> QED
  BY <1>2, <1>3

\* The head of the queue is a created write that no goroutine has yet, and the
\* next ones move up.
LEMMA QueueHead ==
  ASSUME Inv, writeChan # << >>
  PROVE  /\ Head(writeChan) \in Writes
         /\ Head(writeChan) = writeChan[1]
         /\ Len(writeChan) \in Nat /\ Len(writeChan) >= 1
         /\ Len(Tail(writeChan)) = Len(writeChan) - 1
         /\ \A k \in 1..Len(Tail(writeChan)) : Tail(writeChan)[k] = writeChan[k + 1]
         /\ \A k \in 1..Len(writeChan) : writeChan[k] \in Writes
         /\ worker[Head(writeChan)] = "none"
         /\ Created(Head(writeChan))
         /\ Head(writeChan)[2] < next[Head(writeChan)[1]]
         /\ status[Head(writeChan)] = "pending"
<1>1. writeChan \in Seq(Writes)
  BY DEF Inv, TypeOK, LoopTypes
<1>2. /\ Head(writeChan) \in Writes
      /\ Head(writeChan) = writeChan[1]
      /\ Len(writeChan) \in Nat /\ Len(writeChan) >= 1
      /\ Len(Tail(writeChan)) = Len(writeChan) - 1
      /\ \A k \in 1..Len(Tail(writeChan)) : Tail(writeChan)[k] = writeChan[k + 1]
      /\ \A k \in 1..Len(writeChan) : writeChan[k] \in Writes
  BY <1>1, HeadTailProperties, EmptySeq, LenProperties, ElementOfSeq
<1>3. /\ worker[Head(writeChan)] = "none"
      /\ Head(writeChan)[2] < next[Head(writeChan)[1]]
  BY <1>2 DEF Inv, Accounting
<1>4. status[Head(writeChan)] # "none" /\ Created(Head(writeChan))
  BY <1>2, <1>3 DEF Inv, Accounting, Created
<1> QED
  BY <1>2, <1>3, <1>4 DEF Inv, Lifecycle

LEMMA AccountingTakeWrite ==
  ASSUME Inv, TakeWrite
  PROVE  Accounting'
<1> DEFINE h == Head(writeChan)
<1> USE QueueHead
<1>1. /\ writeChan # << >> /\ writeChan' = Tail(writeChan)
      /\ UNCHANGED <<pc, next, status>>
      /\ worker' = [worker EXCEPT ![h] = "spawned"]
  BY DEF TakeWrite, Launch, requestVars, transactionVars
<1>2. \A x \in Writes : worker'[x] = IF x = h THEN "spawned" ELSE worker[x]
  BY <1>1 DEF Inv, TypeOK, GoroutineTypes
<1>3. ASSUME NEW x \in Writes
      PROVE  /\ status'[x] = "none" <=> ~Created(x)'
             /\ worker'[x] # "none" => x[2] < next'[x[1]]
  BY <1>1, <1>2 DEF Inv, Accounting, Created
<1>4. ASSUME NEW x \in Writes, worker'[x] = "none", x[2] < next'[x[1]]
      PROVE  Queued(x)'
  <2>1. x # h /\ worker[x] = "none" /\ x[2] < next[x[1]]
    BY <1>1, <1>2, <1>4
  <2>2. PICK k \in 1..Len(writeChan) : writeChan[k] = x
    BY <2>1 DEF Inv, Accounting, Queued
  <2>3. k - 1 \in 1..Len(Tail(writeChan)) /\ Tail(writeChan)[k - 1] = x
    BY <1>1, <2>1, <2>2
  <2> QED
    BY <1>1, <2>3 DEF Queued
<1>5. ASSUME NEW k \in 1..Len(writeChan')
      PROVE  worker'[writeChan'[k]] = "none" /\ writeChan'[k][2] < next'[writeChan'[k][1]]
  <2>1. k + 1 \in 1..Len(writeChan) /\ writeChan'[k] = writeChan[k + 1]
    BY <1>1
  <2>2. writeChan[k + 1] # h
    <3> SUFFICES ASSUME writeChan[k + 1] = h PROVE FALSE
      OBVIOUS
    <3>1. 1 < k + 1 /\ 1 \in 1..Len(writeChan)
      BY <1>1
    <3>2. h[2] < h[2]
      BY <1>1, <2>1, <3>1 DEF Inv, Accounting
    <3> QED
      BY <1>1, <3>2, WritePair
  <2> QED
    BY <1>1, <1>2, <2>1, <2>2 DEF Inv, Accounting
<1>6. ASSUME NEW k \in 1..Len(writeChan'), NEW l \in 1..Len(writeChan'),
             k < l, writeChan'[k][1] = writeChan'[l][1]
      PROVE  writeChan'[k][2] < writeChan'[l][2]
  <2>1. /\ k + 1 \in 1..Len(writeChan) /\ writeChan'[k] = writeChan[k + 1]
        /\ l + 1 \in 1..Len(writeChan) /\ writeChan'[l] = writeChan[l + 1]
        /\ k + 1 < l + 1
    BY <1>1, <1>6
  <2> QED
    BY <1>6, <2>1 DEF Inv, Accounting
<1> QED
  BY <1>3, <1>4, <1>5, <1>6 DEF Accounting

\* The goroutines do not touch what the handlers and the queue say of a write,
\* and only move writes they already have.
LEMMA AccountingGoroutine ==
  ASSUME Inv, NEW x \in Writes, Acquire(x) \/ Goroutine(x) \/ DeviceReturns(x)
  PROVE  Accounting'
<1>1. UNCHANGED <<pc, next, writeChan>>
  BY DEF Acquire, Goroutine, DeviceReturns, StartWrite, WriteSucceeds, WriteFails,
         WriteTimesOut, SetMessage, Return, requestVars
<1>2. \A y \in Writes : worker'[y] = "none" <=> worker[y] = "none"
  BY DEF Inv, TypeOK, GoroutineTypes, Acquire, Goroutine, DeviceReturns, StartWrite,
         WriteSucceeds, WriteFails, WriteTimesOut, GiveUp, SetMessage, Return, Causes
<1>3. \A y \in Writes : status'[y] = "none" <=> status[y] = "none"
  BY DEF Inv, TypeOK, TransactionTypes, Lifecycle, Acquire, Goroutine, DeviceReturns,
         StartWrite, WriteSucceeds, WriteFails, WriteTimesOut, GiveUp, Resolve, SetMessage,
         Return, transactionVars
<1>4. \A k \in 1..Len(writeChan) : writeChan[k] \in Writes
  BY ElementOfSeq DEF Inv, TypeOK, LoopTypes
<1> QED
  BY <1>1, <1>2, <1>3, <1>4 DEF Inv, Accounting, Created, Queued

LEMMA LifecycleHandler ==
  ASSUME Inv, NEW r \in Requests, Handler(r)
  PROVE  Lifecycle'
<1>1. UNCHANGED <<message, closes, worker, device>>
  BY DEF Handler, Reject, Begin, CheckId, Store, Send, AnswerSync, writeVars, transactionVars
<1>2. CASE Store(r)
  <2> DEFINE y == <<r, next[r]>>
  <2>1. y \in Writes /\ next[r] \in Nat
    BY <1>2, CurrentWrite DEF Store, Inv, TypeOK, InData, Working
  <2>2. worker[y] = "none" /\ status[y] = "none"
    BY <1>2, <2>1 DEF Inv, Accounting, Store, Created
  <2>3. \A x \in Writes : status'[x] = IF x = y THEN "pending" ELSE status[x]
    BY <1>2 DEF Store, Inv, TypeOK, TransactionTypes
  <2> QED
    BY <1>1, <2>1, <2>2, <2>3 DEF Inv, Lifecycle, Terminal, Causes
<1>3. CASE ~Store(r)
  <2>1. status' = status
    BY <1>3 DEF Handler, Reject, Begin, CheckId, Send, AnswerSync, transactionVars
  <2> QED
    BY <1>1, <2>1 DEF Inv, Lifecycle
<1> QED
  BY <1>2, <1>3

LEMMA LifecycleTakeWrite ==
  ASSUME Inv, TakeWrite
  PROVE  Lifecycle'
<1>1. /\ writeChan # << >>
      /\ UNCHANGED <<status, message, closes, device>>
  BY DEF TakeWrite, transactionVars
<1>2. \A x \in Writes : worker'[x] = IF x = Head(writeChan) THEN "spawned" ELSE worker[x]
  BY DEF TakeWrite, Launch, Inv, TypeOK, GoroutineTypes
<1> QED
  BY <1>1, <1>2, QueueHead DEF Inv, Lifecycle, Causes

LEMMA LifecycleGoroutine ==
  ASSUME Inv, NEW x \in Writes, Acquire(x) \/ Goroutine(x) \/ DeviceReturns(x)
  PROVE  Lifecycle'
<1> USE DEF Inv, TypeOK, TransactionTypes, GoroutineTypes, Lifecycle, Terminal, Causes
<1>1. CASE Acquire(x)
  BY <1>1 DEF Acquire, transactionVars
<1>2. CASE StartWrite(x)
  BY <1>2 DEF StartWrite
<1>3. CASE WriteSucceeds(x)
  BY <1>3 DEF WriteSucceeds, Resolve
<1>4. CASE WriteFails(x)
  BY <1>4 DEF WriteFails, Resolve
<1>5. CASE WriteTimesOut(x)
  BY <1>5 DEF WriteTimesOut, GiveUp, Resolve
<1>6. CASE SetMessage(x)
  BY <1>6 DEF SetMessage
<1>7. CASE Return(x)
  BY <1>7 DEF Return, transactionVars
<1>8. CASE DeviceReturns(x)
  BY <1>8 DEF DeviceReturns, transactionVars
<1> QED
  BY <1>1, <1>2, <1>3, <1>4, <1>5, <1>6, <1>7, <1>8 DEF Goroutine

\* A write leaves the queue after the writes that precede it in its call.
LEMMA OrderedTakeWrite ==
  ASSUME Inv, TakeWrite
  PROVE  Ordered' /\ BatchBarrier'
<1> DEFINE h == Head(writeChan)
<1> USE QueueHead
<1>1. writeChan # << >> /\ batch' = batch \cup {h} /\ loop' = loop /\ loop = "collect"
  BY DEF TakeWrite, Launch
<1>2. \A x \in Writes : worker'[x] = IF x = h THEN "spawned" ELSE worker[x]
  BY DEF TakeWrite, Launch, Inv, TypeOK, GoroutineTypes
<1>3. ASSUME NEW r \in Requests, NEW i \in 1..MaxItems, NEW j \in 1..MaxItems,
             i < j, worker'[<<r, j>>] # "none"
      PROVE  /\ worker'[<<r, i>>] # "none"
             /\ worker'[<<r, i>>] \in Active => <<r, j>> \in batch'
  <2>0. <<r, i>> \in Writes /\ <<r, j>> \in Writes /\ i \in Nat /\ j \in Nat
    BY WritePair
  <2>1. CASE <<r, j>> = h
    <3>1. SUFFICES ASSUME worker[<<r, i>>] = "none" PROVE FALSE
      BY <1>1, <1>2, <1>3, <2>0, <2>1
    <3>2. j < next[r] /\ next[r] \in Nat
      BY <1>1, <2>1, CallsAssumption DEF Inv, TypeOK, HandlerTypes
    <3>3. Queued(<<r, i>>)
      BY <1>3, <2>0, <3>1, <3>2 DEF Inv, Accounting
    <3>4. PICK k \in 1..Len(writeChan) : writeChan[k] = <<r, i>>
      BY <3>3 DEF Queued
    <3>5. 1 < k /\ 1 \in 1..Len(writeChan)
      BY <1>1, <1>3, <2>0, <2>1, <3>4
    <3>6. writeChan[1][2] < writeChan[k][2]
      BY <1>1, <2>1, <3>4, <3>5 DEF Inv, Accounting
    <3> QED
      BY <1>1, <1>3, <2>0, <2>1, <3>4, <3>6
  <2>2. CASE <<r, j>> # h
    <3>1. worker[<<r, j>>] # "none"
      BY <1>2, <1>3, <2>0, <2>2
    <3>2. /\ worker[<<r, i>>] # "none"
          /\ worker[<<r, i>>] \in Active => <<r, j>> \in batch
      BY <1>3, <3>1 DEF Inv, Ordered
    <3>3. <<r, i>> # h
      BY <1>1, <3>2
    <3> QED
      BY <1>1, <1>2, <2>0, <3>2, <3>3
  <2> QED
    BY <2>1, <2>2
<1>4. BatchBarrier'
  BY <1>1, <1>2 DEF Inv, BatchBarrier, TypeOK, LoopTypes
<1> QED
  BY <1>3, <1>4 DEF Ordered

\* A goroutine does not become active again, and the batch stays what it is.
LEMMA OrderedGoroutine ==
  ASSUME Inv, NEW x \in Writes, Acquire(x) \/ Goroutine(x) \/ DeviceReturns(x)
  PROVE  Ordered' /\ BatchBarrier'
<1>1. UNCHANGED <<batch, loop>>
  BY DEF Acquire, Goroutine, DeviceReturns, StartWrite, WriteSucceeds, WriteFails,
         WriteTimesOut, SetMessage, Return, loopVars
<1>2. ASSUME NEW y \in Writes
      PROVE  /\ worker'[y] = "none" <=> worker[y] = "none"
             /\ worker'[y] \in Active => worker[y] \in Active
  BY DEF Inv, TypeOK, GoroutineTypes, Acquire, Goroutine, DeviceReturns, StartWrite,
         WriteSucceeds, WriteFails, WriteTimesOut, GiveUp, SetMessage, Return, Active,
         Critical, Causes
<1> QED
  BY <1>1, <1>2, WritePair DEF Inv, Ordered, BatchBarrier

LEMMA InvNext == Inv /\ [Next]_vars => Inv'
<1> SUFFICES ASSUME Inv, [Next]_vars PROVE Inv'
  OBVIOUS
<1>1. TypeOK' /\ InData'
  BY TypeNext DEF Inv
<1>2. ASSUME NEW r \in Requests, Handler(r)
      PROVE  Accounting' /\ Lifecycle' /\ Ordered' /\ BatchBarrier'
  <2>1. UNCHANGED <<worker, batch, loop>>
    BY <1>2 DEF Handler, Reject, Begin, CheckId, Store, Send, AnswerSync, loopVars, writeVars
  <2>2. Ordered' /\ BatchBarrier'
    BY <2>1 DEF Inv, Ordered, BatchBarrier
  <2> QED
    BY <1>2, <2>2, AccountingHandler, LifecycleHandler
<1>3. CASE TakeWrite
  BY <1>1, <1>3, AccountingTakeWrite, LifecycleTakeWrite, OrderedTakeWrite DEF Inv
<1>4. ASSUME NEW x \in Writes, Acquire(x) \/ Goroutine(x) \/ DeviceReturns(x)
      PROVE  Accounting' /\ Lifecycle' /\ Ordered' /\ BatchBarrier'
  BY <1>4, AccountingGoroutine, LifecycleGoroutine, OrderedGoroutine
<1>5. CASE \/ CheckStop \/ SkipSlot \/ EndBatch \/ Stop \/ UNCHANGED vars
           \/ \E id \in Ids \cup Writes : Expire(id)
  <2>1. UNCHANGED <<pc, next, status, message, closes, writeChan, worker, device>>
    BY <1>5 DEF CheckStop, SkipSlot, EndBatch, Stop, Expire, vars, requestVars,
       transactionVars, writeVars
  <2>2. Accounting' /\ Lifecycle'
    BY <2>1 DEF Inv, Accounting, Created, Queued, Lifecycle
  <2>3. CASE EndBatch
    <3>1. \A x \in Writes : worker[x] \notin Active
      BY <2>3 DEF EndBatch, BatchFinished, Inv, BatchBarrier, Active, Critical, Causes
    <3> QED
      BY <1>1, <2>1, <2>2, <3>1, WritePair DEF Inv, Ordered, BatchBarrier
  <2>4. CASE ~EndBatch
    <3>1. batch' = batch /\ (loop = "collect" => loop' = "collect")
      BY <1>5, <2>4 DEF CheckStop, SkipSlot, Stop, Expire, vars, loopVars
    <3> QED
      BY <1>1, <2>1, <2>2, <3>1 DEF Inv, Ordered, BatchBarrier
  <2> QED
    BY <2>3, <2>4
<1> QED
  BY <1>1, <1>2, <1>3, <1>4, <1>5 DEF Next, Loop, Inv

LEMMA Invariance == Spec => []Inv
BY InvInit, InvNext, PTL DEF Spec

-----------------------------------------------------------------------------
(* The properties.                                                         *)

\* The device's result and the timeout never both resolve a transaction: done is
\* closed once, and exactly when the status becomes terminal.
THEOREM TransactionsResolveOnce == Spec => []ResolvedOnce
<1>1. Inv => ResolvedOnce
  BY DEF Inv, Lifecycle, ResolvedOnce
<1> QED
  BY <1>1, Invariance, PTL

\* No goroutine performs a write between two batches or after the loop ended.
THEOREM BatchesDoNotOverlap == Spec => []BatchBarrier
<1>1. Inv => BatchBarrier
  BY DEF Inv
<1> QED
  BY <1>1, Invariance, PTL

\* DONE means that the device accepted the write; a message tells what happened.
THEOREM OutcomesAreTrue == Spec => []OutcomeTrue
<1>1. Inv => OutcomeTrue
  BY DEF Inv, Lifecycle, OutcomeTrue
<1> QED
  BY <1>1, Invariance, PTL

\* The writes of a call are performed in order, except within a batch.
THEOREM CallsInOrder == Spec => []CallOrder
<1>1. ASSUME Inv PROVE CallOrder
  <2> SUFFICES ASSUME NEW r \in Requests, NEW i \in 1..MaxItems, NEW j \in 1..MaxItems,
                      i < j, status[<<r, j>>] \notin {"none", "pending"},
                      status[<<r, i>>] \notin Terminal
               PROVE  <<r, i>> \in batch /\ <<r, j>> \in batch
    BY DEF CallOrder
  <2>1. <<r, i>> \in Writes /\ <<r, j>> \in Writes
    BY WritePair
  <2>2. worker[<<r, j>>] # "none"
    BY <1>1, <2>1 DEF Inv, Lifecycle
  <2>3. worker[<<r, i>>] # "none"
    BY <1>1, <2>2 DEF Inv, Ordered
  <2>4. worker[<<r, i>>] \in Active
    BY <1>1, <2>1, <2>3 DEF Inv, Lifecycle, TypeOK, GoroutineTypes, Active, Critical
  <2> QED
    BY <1>1, <2>1, <2>2, <2>4 DEF Inv, Ordered, BatchBarrier
<1> QED
  BY <1>1, Invariance, PTL

\* In serial mode a goroutine is in the locked section exactly while it holds
\* serialLock.
THEOREM SerialSectionExclusive == Spec => []SerialSection
<1>1. Init => SerialSection
  BY IdAssumption DEF Init, SerialSection, Critical, Causes
<1>2. Inv /\ SerialSection /\ [Next]_vars => SerialSection'
  <2> SUFFICES ASSUME Inv, SerialSection, [Next]_vars, Serial
               PROVE  \A y \in Writes : worker'[y] \in Critical <=> serialLock' = y
    BY DEF SerialSection
  <2>0. worker \in [Writes -> {"none", "finished"} \cup Active]
    BY DEF Inv, TypeOK, GoroutineTypes
  <2>1. CASE UNCHANGED <<worker, serialLock>>
    BY <2>1 DEF SerialSection
  <2>2. CASE TakeWrite
    <3>1. Head(writeChan) \in Writes /\ worker[Head(writeChan)] = "none"
      BY <2>2, QueueHead DEF TakeWrite
    <3> QED
      BY <2>0, <2>2, <3>1 DEF SerialSection, TakeWrite, Launch, Critical, Causes
  <2>3. ASSUME NEW x \in Writes, Acquire(x)
        PROVE  \A y \in Writes : worker'[y] \in Critical <=> serialLock' = y
    BY <2>0, <2>3, IdAssumption DEF SerialSection, Acquire, Critical, Causes
  <2>4. ASSUME NEW x \in Writes, Return(x)
        PROVE  \A y \in Writes : worker'[y] \in Critical <=> serialLock' = y
    BY <2>0, <2>4, IdAssumption DEF SerialSection, Return, Unlock, Critical, Causes
  <2>5. ASSUME NEW x \in Writes, Goroutine(x), ~Return(x)
        PROVE  \A y \in Writes : worker'[y] \in Critical <=> serialLock' = y
    BY <2>0, <2>5 DEF SerialSection, Goroutine, StartWrite, WriteSucceeds, WriteFails,
       WriteTimesOut, GiveUp, SetMessage, Critical, Causes
  <2>6. ASSUME NEW r \in Requests, Handler(r) PROVE UNCHANGED <<worker, serialLock>>
    BY <2>6 DEF Handler, Reject, Begin, CheckId, Store, Send, AnswerSync, writeVars
  <2>7. ASSUME \/ CheckStop \/ SkipSlot \/ EndBatch \/ Stop \/ UNCHANGED vars
               \/ \E id \in Ids \cup Writes : Expire(id)
               \/ \E x \in Writes : DeviceReturns(x)
        PROVE  UNCHANGED <<worker, serialLock>>
    BY <2>7 DEF CheckStop, SkipSlot, EndBatch, Stop, Expire, DeviceReturns, vars, writeVars
  <2> QED
    BY <2>1, <2>2, <2>3, <2>4, <2>5, <2>6, <2>7 DEF Next, Loop
<1> QED
  BY <1>1, <1>2, Invariance, PTL DEF Spec

\* A PENDING transaction is in exactly one place on its way to the device, and
\* any other transaction is in none.
THEOREM PendingWritesAccounted == Spec => []PendingOncePlaced
<1>1. ASSUME Inv, NEW x \in Writes
      PROVE  Places(x) = IF status[x] = "pending" THEN 1 ELSE 0
  <2> DEFINE Q == {i \in DOMAIN writeChan : writeChan[i] = x}
             atHandler == pc[x[1]] = "send" /\ next[x[1]] = x[2]
  <2>0. /\ x[1] \in Requests /\ x[2] \in Nat /\ next[x[1]] \in Nat
        /\ x = <<x[1], x[2]>>
    BY <1>1, WritePair, CallsAssumption DEF Inv, TypeOK, HandlerTypes
  <2>1. DOMAIN writeChan = 1..Len(writeChan) /\ Len(writeChan) \in Nat
    BY <1>1, LenProperties DEF Inv, TypeOK, LoopTypes
  <2>2. Places(x) = Cardinality(Q) + (IF atHandler THEN 1 ELSE 0)
                    + (IF worker[x] \in {"spawned", "locked"} THEN 1 ELSE 0)
    BY DEF Places
  <2>3. CASE worker[x] # "none"
    <3>1. Cardinality(Q) = 0
      BY <1>1, <2>1, <2>3, FS_EmptySet DEF Inv, Accounting
    <3>2. ~atHandler
      BY <1>1, <2>0, <2>3 DEF Inv, Accounting
    <3>3. status[x] = "pending" <=> worker[x] \in {"spawned", "locked"}
      BY <1>1, <2>3 DEF Inv, Lifecycle, TypeOK, GoroutineTypes, Active, Critical, Causes, Terminal
    <3> QED
      BY <2>2, <3>1, <3>2, <3>3
  <2>4. CASE worker[x] = "none" /\ x[2] < next[x[1]]
    <3>1. PICK k \in 1..Len(writeChan) : writeChan[k] = x
      BY <1>1, <2>4 DEF Inv, Accounting, Queued
    <3>2. ASSUME NEW l \in 1..Len(writeChan), writeChan[l] = x PROVE l = k
      BY <1>1, <2>0, <2>1, <3>1, <3>2 DEF Inv, Accounting
    <3>3. Q = {k}
      BY <2>1, <3>1, <3>2
    <3>4. Cardinality(Q) = 1
      BY <3>3, FS_Singleton
    <3>5. status[x] = "pending"
      BY <1>1, <2>4 DEF Inv, Accounting, Lifecycle, Created
    <3> QED
      BY <2>0, <2>2, <2>4, <3>4, <3>5
  <2>5. CASE worker[x] = "none" /\ ~(x[2] < next[x[1]])
    <3>1. Cardinality(Q) = 0
      BY <1>1, <2>1, <2>5, FS_EmptySet DEF Inv, Accounting
    <3>2. status[x] = "pending" <=> atHandler
      BY <1>1, <2>0, <2>5 DEF Inv, Accounting, Lifecycle, Created
    <3> QED
      BY <2>2, <2>5, <3>1, <3>2
  <2> QED
    BY <2>3, <2>4, <2>5
<1>2. Inv => PendingOncePlaced
  BY <1>1 DEF PendingOncePlaced
<1> QED
  BY <1>2, Invariance, PTL

-----------------------------------------------------------------------------
(* The write path implements WriteService.                                 *)

\* Nothing is told to a client before its handler answers.
ToldAtAnswer == \A x \in Writes : reply[x].status # "none" => pc[x[1]] = "answered"

LEMMA ToldInvariance == Spec => []ToldAtAnswer
<1>1. Init => ToldAtAnswer
  BY DEF Init, ToldAtAnswer, NoReply
<1>2. TypeOK /\ ToldAtAnswer /\ [Next]_vars => ToldAtAnswer'
  <2> SUFFICES ASSUME TypeOK, ToldAtAnswer, [Next]_vars PROVE ToldAtAnswer'
    OBVIOUS
  <2>1. CASE UNCHANGED <<pc, reply>>
    BY <2>1 DEF ToldAtAnswer
  <2>2. ASSUME NEW r \in Requests, AnswerSync(r) PROVE ToldAtAnswer'
    BY <2>2, WritePair DEF ToldAtAnswer, AnswerSync, WritesOf, TypeOK, HandlerTypes
  <2>3. ASSUME NEW r \in Requests, Reject(r) \/ Begin(r) \/ CheckId(r) \/ Store(r) \/ Send(r)
        PROVE  ToldAtAnswer'
    BY <2>3, WritePair DEF ToldAtAnswer, Reject, Begin, CheckId, Store, Send, TypeOK, HandlerTypes
  <2>4. ASSUME \/ Loop \/ Stop \/ UNCHANGED vars
               \/ \E id \in Ids \cup Writes : Expire(id)
               \/ \E x \in Writes : Acquire(x) \/ Goroutine(x) \/ DeviceReturns(x)
        PROVE  UNCHANGED <<pc, reply>>
    BY <2>4 DEF Loop, CheckStop, TakeWrite, SkipSlot, EndBatch, Stop, Expire, Acquire,
       Goroutine, DeviceReturns, StartWrite, WriteSucceeds, WriteFails, WriteTimesOut,
       SetMessage, Return, vars, requestVars
  <2> QED
    BY <2>1, <2>2, <2>3, <2>4 DEF Next, Handler
<1> QED
  BY <1>1, <1>2, TypeCorrect, PTL DEF Spec

Applied == {x \in Writes : device[x] = "ok"}
Told == [x \in Writes |-> reply[x].status]

\* The steps that the abstract service sees, one lemma each.
LEMMA StoreAccepts ==
  ASSUME Inv, NEW r \in Requests, Store(r)
  PROVE  \E w \in Writes : Service!Accept(w)
<1> DEFINE y == <<r, next[r]>>
<1>1. y \in Writes /\ next[r] \in Nat
  BY CurrentWrite DEF Store, Inv, TypeOK, InData, Working
<1>2. status[y] = "none"
  BY <1>1 DEF Inv, Accounting, Store, Created
<1>3. UNCHANGED <<device, reply>>
  BY DEF Store, writeVars
<1> QED
  BY <1>1, <1>2, <1>3 DEF Store, Service!Accept

LEMMA AnswerTells ==
  ASSUME Inv, ToldAtAnswer, NEW r \in Requests, AnswerSync(r)
  PROVE  \E S \in SUBSET Writes : Service!Tell(S)
<1> DEFINE S == WritesOf(r)
<1>1. S \in SUBSET Writes
  BY CallData, CallsAssumption DEF WritesOf, Writes, Inv, TypeOK
<1>2. ASSUME NEW w \in S PROVE status[w] \in Terminal /\ reply[w].status = "none"
  <2>1. w \in Writes /\ w[1] = r
    BY <1>1 DEF WritesOf
  <2>2. closes[w] > 0
    BY DEF AnswerSync, AllDone
  <2> QED
    BY <2>1, <2>2 DEF Inv, Lifecycle, ToldAtAnswer, AnswerSync
<1>3. UNCHANGED <<status, device>>
  BY DEF AnswerSync, transactionVars, writeVars
<1>4. Told' = [w \in Writes |-> IF w \in S THEN status[w] ELSE Told[w]]
  BY DEF AnswerSync, Told
<1>5. \A w \in S : status[w] \in Service!Resolved /\ Told[w] = "none"
  BY <1>1, <1>2 DEF Told, Terminal, Service!Resolved
<1> QED
  BY <1>1, <1>3, <1>4, <1>5 DEF Service!Tell, Told

LEMMA GoroutineServes ==
  ASSUME Inv, NEW x \in Writes, Goroutine(x) \/ DeviceReturns(x)
  PROVE  \/ Service!Start(x) \/ Service!Apply(x) \/ Service!Succeed(x) \/ Service!Fail(x)
         \/ UNCHANGED <<status, Applied, Told>>
<1> USE DEF Inv, TypeOK, TransactionTypes, GoroutineTypes, Lifecycle
<1>1. UNCHANGED reply
  BY DEF Goroutine, DeviceReturns, StartWrite, WriteSucceeds, WriteFails, WriteTimesOut,
     SetMessage, Return, requestVars
<1>2. CASE StartWrite(x)
  <2>1. status[x] = "pending" /\ device[x] = "none"
    BY <1>2 DEF StartWrite
  <2>2. Applied' = Applied
    BY <1>2, <2>1 DEF StartWrite, Applied
  <2> QED
    BY <1>1, <1>2, <2>1, <2>2 DEF StartWrite, Applied, Service!Start
<1>3. CASE WriteSucceeds(x)
  BY <1>1, <1>3 DEF WriteSucceeds, Resolve, Service!Succeed
<1>4. CASE WriteFails(x) \/ WriteTimesOut(x)
  BY <1>1, <1>4 DEF WriteFails, WriteTimesOut, GiveUp, Resolve, Service!Fail
<1>5. CASE SetMessage(x) \/ Return(x)
  BY <1>1, <1>5 DEF SetMessage, Return, transactionVars, Applied, Told
<1>6. CASE DeviceReturns(x)
  <2>1. status' = status /\ device[x] = "running"
    BY <1>6 DEF DeviceReturns, transactionVars
  <2>2. CASE device' = [device EXCEPT ![x] = "failed"]
    BY <1>1, <2>1, <2>2 DEF Applied, Told
  <2>3. CASE device' = [device EXCEPT ![x] = "ok"]
    <3>1. status[x] \in {"writing", "error"}
      BY <2>1 DEF Active, Critical, Causes, Terminal
    <3>2. x \notin Applied /\ Applied' = Applied \cup {x}
      BY <2>1, <2>3 DEF Applied
    <3> QED
      BY <1>1, <2>1, <3>1, <3>2 DEF Service!Apply, Applied
  <2> QED
    BY <1>6, <2>2, <2>3 DEF DeviceReturns
<1> QED
  BY <1>2, <1>3, <1>4, <1>5, <1>6 DEF Goroutine

\* Queue, batches, lock and goroutines together keep the promise of WriteService:
\* each write is started once, DONE only if applied, and told only when final.
THEOREM Refinement == Spec => ServiceSpec
<1>1. Init => Service!Init
  BY DEF Init, NoReply, Service!Init
<1>2. Inv /\ ToldAtAnswer /\ [Next]_vars => [Service!Next]_Service!vars
  <2> SUFFICES ASSUME Inv, ToldAtAnswer, [Next]_vars
               PROVE  Service!Next \/ UNCHANGED <<status, Applied, Told>>
    BY DEF Service!vars, Applied, Told
  <2>1. ASSUME NEW r \in Requests, Handler(r)
        PROVE  Service!Next \/ UNCHANGED <<status, Applied, Told>>
    <3>1. CASE Store(r)
      BY <3>1, StoreAccepts DEF Service!Next
    <3>2. CASE AnswerSync(r)
      <4>1. PICK S \in SUBSET Writes : Service!Tell(S)
        BY <3>2, AnswerTells
      <4>2. CASE S = {}
        BY <4>1, <4>2, <3>2 DEF Service!Tell, Applied, Told, AnswerSync, transactionVars, writeVars
      <4> QED
        BY <4>1, <4>2 DEF Service!Next
    <3>3. CASE Reject(r) \/ Begin(r) \/ CheckId(r) \/ Send(r)
      BY <3>3 DEF Reject, Begin, CheckId, Send, transactionVars, writeVars, Applied, Told
    <3> QED
      BY <2>1, <3>1, <3>2, <3>3 DEF Handler
  <2>2. ASSUME NEW x \in Writes, Goroutine(x) \/ DeviceReturns(x)
        PROVE  Service!Next \/ UNCHANGED <<status, Applied, Told>>
    BY <2>2, GoroutineServes DEF Service!Next
  <2>3. ASSUME \/ Loop \/ Stop \/ UNCHANGED vars
               \/ \E id \in Ids \cup Writes : Expire(id)
               \/ \E x \in Writes : Acquire(x)
        PROVE  UNCHANGED <<status, Applied, Told>>
    BY <2>3 DEF Loop, CheckStop, TakeWrite, SkipSlot, EndBatch, Stop, Expire, Acquire,
       vars, requestVars, transactionVars, writeVars, Applied, Told
  <2> QED
    BY <2>1, <2>2, <2>3 DEF Next
<1> QED
  BY <1>1, <1>2, Invariance, ToldInvariance, PTL DEF Spec, ServiceSpec, Service!Spec
=============================================================================
