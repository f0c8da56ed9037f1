# A verification of the Synse plugin SDK

This directory models the SDK (`sdk/` of the repository) in TLA+, checks it with TLC on
small instances and proves part of it with TLAPS for every value of the constants. It
covers the paths of **writes**, **reads** and **streams** through their goroutines and
channels, the **readings** that are kept and asked for, and the **plugin** itself: its
configuration, devices and tags, its start, health and end. The pure parts at the edge,
such as arithmetic on values and encodings, are left to unit tests.

## 1. Inventory

A plugin is one process. A gRPC server calls into a scheduler, a state manager and a
device manager, which share Go channels, maps and locks; every RPC, every device read or
write and every stream runs in goroutines of its own.

| component | state | operations |
|---|---|---|
| scheduler (`scheduler.go`) | `writeChan`, `serialLock`, `limiter`, `stop` | `Write`, `WriteAndWait`, `scheduleReads`, `scheduleWrites`, `scheduleListen`, `read`, `bulkRead`, `write`, `listen`, `Stop` |
| transactions (`transaction.go`, `state_manager.go`) | status, message, `done`; the cache from ids to transactions | `newTransaction`, `getTransaction`, `setStatus...`, `wait`, `encode` |
| reading state (`state_manager.go`) | `readChan`, `readings`, `readingsCache`, `readingsLock` | `updateReadings`, `addReadingToCache`, `GetReadings...`, the dumps |
| streams (`stream.go`, `state_manager.go`) | `streams`, `streamLock`; per stream two channels, `closed`, `stopLock` | `addStream`, `removeStream`, `dispatchToStreams`, `listen`, `close` |
| RPC handlers (`server.go`) | none of their own | `Read`, `ReadCache`, `ReadStream`, `WriteAsync`, `WriteSync`, `Transaction`, `Transactions`, ... |
| device manager (`device_manager.go`, `device.go`, `alias.go`, `id.go`) | devices, handlers, alias cache, setup actions | `AddDevice`, `AddHandlers`, `GetDevices`, `FilterDevices`, `createDevices`, `createDynamicDevices` |
| tags (`tag.go`) | the tag cache, the parser's mutex | `NewTag`, `TagCache.Add`, `GetDevicesFromTags`, `GetDevicesFromNamespace` |
| health (`health/`) | checks with their last result, the health file | `Register`, `Start`, `Status`, `updateHealthFile`, `Update`, `Run` |
| plugin lifecycle (`plugin.go`, `server.go`) | pre-run and post-run actions, the quit channel | `NewPlugin`, `Run`, `initialize`, `onQuitSignal`, `execPreRun`, `execPostRun` |
| configuration (`config/`, `policy/`) | the merged data | `Load`: override, search, read, environment, merge; `Scan` |
| pure parts (`transform.go`, `funcs/`, `output/`, `utils/`, `errors/`) | a registry of functions and outputs | scaling, conversion, encoding |

**How they interact.** A write RPC creates a transaction in the state manager's cache
and puts a write into `writeChan`; the write loop takes batches from it and starts a
goroutine per write, which starts another one for the device and waits for it or for the
timeout. `WriteSync` waits for the `done` channels of its transactions. The read loop
starts a goroutine per device, which puts readings into `readChan`; one goroutine,
`updateReadings`, takes them from there, stores them, sends them to every stream, and
caches them. In serial mode reads and writes share `serialLock`. The stop channel ends
the two loops.

**What is hard.** Select statements whose cases are ready together (result and timeout);
work that goes on after it was given up; locks held over blocking sends; lookups and
updates in separate critical sections; channels closed by one goroutine while another
uses them; full channels; fields written by one goroutine and read by another with no
synchronization; batches; and shutdown in the middle of all this. `PROJECT.json` lists
each of these at its line, under "hazards".

**What makes the components correct.**

- *Writes*: an accepted write is started once and resolved once, whatever its device
  does; DONE means that the device accepted it; writes of a call keep their order; a
  waiting client is told final outcomes; serial mode excludes.
- *Streams*: a client gets every reading that its selector passes, once and in order;
  nobody sends on a closed channel; when the client leaves, its goroutines end and
  nobody else notices.
- *Readings*: the current reading of a device is the last one taken from the queue; the
  windowed cache holds what was read in the window; one slow device or client does not
  stop the others.
- *Devices and tags*: a device is found by its id, alias and tags or by none of them; a
  selector gives the intersection of what its tags give.
- *Health*: the file exists exactly while the last summary was ok.
- *Lifecycle*: nothing is served before it is initialised; every post-run action is
  executed.
- *Configuration*: a value from a later source overrides; lists of files append, a
  variable of the environment stands for the whole list.

## 2. The modules

| module | what it is |
|---|---|
| `WriteService` | abstract specification: what a client that writes may rely on |
| `WriteScheduler` | the write path, with all its goroutines |
| `WriteSchedulerMC` | its instances for TLC: arguments of calls, symmetry |
| `WriteSchedulerProofs` | theorems about it |
| `ReadScheduler` | the read path: rounds, bulk reads, listeners, `readChan`, `updateReadings`, `serialLock` |
| `ReadSchedulerMC`, `ReadSchedulerProofs` | its instances for TLC; theorems about it |
| `ReadStream` | streams: dispatch, listener, RPC handler, close |
| `ReadStreamMC`, `ReadStreamProofs` | its instances for TLC; theorems about it |
| `ReadingState` | current readings and the cache, `Read` and `ReadCache` with their goroutines |
| `ReadingStateMC`, `ReadingStateProofs` | its instances for TLC; theorems about it |
| `Maps` | functions that grow by a key, for the two modules that extend it |
| `Tags` | tags, the parser they share, the tag cache (operators; extends `Maps`) |
| `DeviceManager` | devices from configuration, `AddDevice`, selection, setup actions (operators; extends `Tags`) |
| `ConfigLoader` | overrides, search, merge, environment, scan (operators; extends `Maps`) |
| `Health` | checks, their summary and the health file (variables and actions) |
| `Plugin` | the plugin from `NewPlugin` to the end of its process; composes the four modules above |
| `PluginMC`, `PluginProofs` | its setups for TLC; theorems about its control |
| `PluginConfigProofs`, `PluginDevicesProofs` | theorems about its configuration; about its devices, tags and selection |
| `FoldInduction` | induction over what a fold computes, for both of these |

`WriteScheduler`, `ReadScheduler`, `ReadStream` and `ReadingState` describe one running
plugin from four sides, and meet in a few places, each of which a module keeps of the
others: `ReadScheduler` has a write that competes for `serialLock` and a stream that may
stick in the dispatch; `ReadingState` has that stream too, and takes the readings as
they come out of `readChan`; `ReadStream` takes them as `updateReadings` dispatches
them. Their full product is far beyond TLC and would show nothing that these interfaces
do not. What the four run beside is in `Plugin`, where they are one step,
`StartComponents`.

### WriteScheduler

A write is named `<<r, i>>`: the i-th datum of RPC r. The name stands for the
transaction object, the `WriteContext` in the queue, the goroutine that runs `write()`
and the goroutine that calls the device: the code creates one of each per datum. A
generated uuid is unique, so the write itself stands for it; ids that clients choose are
the elements of `Ids`.

| variable | in the code |
|---|---|
| `call`, `pc`, `next`, `reply` | the arguments and the position of each RPC handler, and what `WriteSync` answered |
| `status`, `message`, `closes` | the fields of `transaction`; how often `done` was closed |
| `transactions` | `stateManager.transactions` |
| `writeChan`, `stopped` | `scheduler.writeChan`; whether `scheduler.stop` is closed |
| `loop`, `slot`, `batch` | where `scheduleWrites` is, its `i`, and the writes its WaitGroup counts |
| `worker`, `device`, `serialLock` | where the two goroutines of each write are; who holds the lock |

| action | in the code |
|---|---|
| `Reject`, `Begin` | the checks at the start of `Write` and `WriteAndWait` |
| `CheckId`, `Store` | the two cache operations of `newTransaction`; other goroutines may run between them |
| `Send` | the send on `writeChan`, which blocks while the queue is full |
| `AnswerSync` | `waitGroup.Wait` returns and the transactions are encoded |
| `Expire` | the cache drops an entry whose TTL has passed |
| `Stop`, `CheckStop` | closing `stop`; the select at the top of the loop |
| `TakeWrite`, `SkipSlot`, `EndBatch` | the batch loop with its `default` case, and `waitGroup.Wait` |
| `Acquire`, `StartWrite` | the limiter and the lock; `setStatusWriting` and the start of the device's goroutine |
| `DeviceReturns` | `device.Write` returns, with or without an error, at any time or never |
| `WriteSucceeds`, `WriteFails`, `WriteTimesOut` | the select on result and timeout, with the status and `close(done)` |
| `SetMessage` | the assignment of the message, after `done` is closed |
| `Return` | the deferred unlock and `waitGroup.Done` |

Steps that only one goroutine can see are joined with the next step that others can see.
The message is a Go string of two words and is read without synchronization, so a reply
that is encoded while it is being set may also see a `"torn"` string. `write()` contains
two branches, for a nil device and for one without a write function, that are not
modelled: `Write` and `WriteAndWait` have refused such devices, and handlers do not
change.

### ReadStream

`Dispatch`, `Turn` and `SendToStream` are `dispatchToStreams` with `streamLock` held
from the first to the last stream (`StreamLockFree` says that it is not). `LookClosed`,
`Receive`, `ReceiveClosed`, `LockToForward` and `Forward` are `listen`, which looks at
`closed` with and without the lock. `Open`, `SendToClient` and `RemoveStream` are the
RPC handler with its deferred functions, `LockToClose`, `FindReading`, `DropReading` and
`FinishClose` are `close`. A selector is the set of devices that it resolved to when the
RPC began. `sent` and `delivered` are history variables, for the properties only.
Devices and the queue before `updateReadings` are the environment: any device may
produce a reading at any time. A reading of several values is one reading here.

### ReadScheduler

A goroutine of a round is a *job*, named after what it reads: a device (`read`) or a
handler (`bulkRead`). The plugin, its handlers with their functions and its settings, is
the value of `setup`, chosen by `Init`.

| variable | in the code |
|---|---|
| `loop`, `job` | where `scheduleReads` is and where the goroutines of its round are; `RoundOver` is the WaitGroup |
| `response`, `heard` | what a device has answered or pushed and is not yet in the channel |
| `serialLock`, `writer` | the lock of serial mode, and a write that takes it: where `write()` is, and after its timeout (`"late"`) the goroutine that is still in `device.Write` |
| `listener` | where `listen` is, for each device |
| `readChan`, `updater`, `readings` | the channel, where `updateReadings` is, and what it has stored |
| `produced` | how many readings a device has given, to number them |

| action | in the code |
|---|---|
| `Launch`, `EndRound`, `Stop` | the loop: the look at `stop`, the start of all goroutines, `waitGroup.Wait` |
| `Lock`, `DeviceAnswers`, `Hang`, `Panic`, `Discard`, `SendReading`, `EndRead` | `read` and `bulkRead`: the lock, the call of the plugin's function, its finalization, the sends, the deferred unlock |
| `WriteBegins`, `WriteLocks`, `WriteEnds`, `WriteTimesOut`, `WriteReturns` | a write in serial mode, for which `WriteScheduler` has the detail: its device answers in time, or `write()` lets go of the lock at the timeout and the device's goroutine goes on |
| `ListenerHears`, `ListenerSends`, `ListenerReturns` | `listen` with the plugin's function, and its restart after an error |
| `Take`, `Dispatch`, `StreamSticks` | `updateReadings`: the reading stored, then dispatched to streams; a stream that nobody drains keeps the dispatch |

`Panic` is what the code does for a device whose handler has no function but `Listen`:
`IsReadable` says yes, `Device.Read` calls a nil function.

### ReadingState

Readings are numbered as they arrive. `updateReadings` is a sequence of places (`store`,
`dispatch`, `stamp`, `get`, and `grow` and `write`, or `Set`). An append in place makes
the slice longer and then writes its element, and neither the array, the length nor the
element is protected: a dump that goes over the same slice reads the array (`RangeOver`)
and the length (`ReadLength`) apart. `Nil` is an element not yet written, `Torn` one
past the end of the array that was read; a program may take either for a reading, or
panic. These are the outcomes of a data race, so the model allows all of them. `Parse`,
`DumpEnds`, `LoadElement`, `LoadCurrent` and `SendItem` are the rest of the dump's
goroutine, `Call`, `Receive` and `Answer` the handler of `ReadCache`, `Ask` and `LookUp`
the handler of `Read`. `stamps` and `known` are history: the times at which readings
were cached, and what a call could know when it came.

### Plugin

`setup` is a plugin with its files, environment and flags; each variable of the module
is a part of the running process.

| variable | in the code |
|---|---|
| `main`, `process` | where the main goroutine is; how the process has ended, if it has |
| `config` | the fields of the plugin's configuration that are set |
| `load` | the device manager with devices, alias cache and tag cache, and the tag parser's shared template and mutex |
| `preRun`, `postRun`, `done` | the actions that are registered; how many were executed, whether one failed, and the calls that setup actions made |
| `server`, `quit`, `signals` | the gRPC server; where the goroutine of `onQuitSignal` is; how many signals came |
| `adder` | a goroutine of the plugin that adds a device, one map after the other |
| `healthy`, `found`, `status`, `update`, `file` | (in `Health`) what checks would find, have found and have stored; the update of the file; whether it exists |

| action | in the code |
|---|---|
| `NewPlugin`, `PrintVersion`, `Register` | `NewPlugin` with `Load`, `Scan` and `newPluginID`; the `Register...` methods |
| `InitDeviceManager`, `InitComponents` | `initialize`: the device manager, then state manager, scheduler, server and health |
| `ExecPreRun`, `EndPreRun`, `EndDryRun`, `ExecSetupAction`, `EndSetup` | the actions, one by one, with errors collected |
| `StartHealth`, `StartComponents`, `Serve`, `Return`, `EndMain` | `run` with what it starts, the server that blocks, and the return to the plugin's main |
| `Notify`, `Signal`, `ExecPostRun`, `Exit` | `onQuitSignal`, and signals that come before, while or after it asks for them; a post-run action fails, or the server's cleanup does with a socket that cannot be removed (`PostRunFails`) |
| `BeginAdd`, `AddLateAlias`, `StoreLate`, `CacheLateTag`, `ConcurrentMapAccess` | `AddDevice` beside the rest; the runtime's fatal error for a map that is read and written at once |
| `Tick`, `UpdateStep`, `RunCheck`, `Change` | the ticker of the health file, the update, the checks, and a change of what they look at |

`Tags`, `DeviceManager` and `ConfigLoader` are operators, since the code they model runs
in one goroutine from beginning to end; folds over sequences stand for its loops. Errors
are values, as in the code: each operator says under which condition the function fails
and what it has done by then, such as devices created before one was refused, or the
parser's mutex left locked. A device's id is the name that its UUID is made from.
Strings are split into parts already: a tag is a record, or a kind of string that is not
one. `Scanned` is what `Scan` makes of a variable of the environment: for a field that is a
list, a list of one.

What files, registrars and requests may give is said by `FilesAssumption` and
`DevicesAssumption`, on which the proofs rest and which TLC evaluates for every setup: a
value has the shape of the field that it is for (`Fits`, `IsProto`, `IsInstance`, as
`Scan` takes nothing else), no id of a device is the label that stands for all
(`IsDevice`), `world.files` says for each path that may be searched what is in it. A
variable of the environment is a string, so it cannot be for a list of maps
(`devices`, `dynamicRegistration.config`), for which `Scan` would fail.

## 3. What is checked

| run | what it shows | states |
|---|---|---|
| `WriteParallel` | `TypeOK`, `ResolvedOnce`, `BatchBarrier`, `PendingOncePlaced`, `OutcomeTrue`, `CallOrder` and the refinement `ServiceSpec` in parallel mode, with refused ids | 1 302 000 |
| `WriteSerial` | serial mode, with refused calls and expiring transactions: `SerialSection`; under fairness `EveryWriteResolves`, `HandlersReturn`, `StopEndsLoop` | 134 000 |
| `ReadStream` | one stream: `TypeOK`, `NoSendOnClosed`, `StreamFaithful`; under fairness `ClientServed`, `ListenerEnds` | 76 000 |
| `ReadScheduler` | five plugins: `SerialReads`, `OneReader`, `OnlyListenersPanic`, `ReadingsAdvance`; under fairness `QueuedIsStored`, `RoundsEnd`, `WritesGetLock`, `StopEndsReads` | 56 000 |
| `ReadingState` | seven settings: `CacheDumpExact`, `CurrentDumpAtOnce`, `PastWindowsSafe`; under fairness `ReadAnswered`, `ReadCacheEnds` | 341 000 |
| `Plugin` | 61 setups: `SelectionExact`, `IndexesAgree`, `LoadExact`, `ConfigPrecedence`, `ServedReady`, `PostRunBeforeStop`; under fairness `StartsAndEnds`, `HealthFileFollows` | 37 000 |
| `WriteSerialDevices` | *violated*: serial mode does not keep two devices from being written at once | |
| `WriteSameId` | *violated*: custom ids are not unique | |
| `WriteSyncReply` | *violated*: what `WriteSync` tells is not final | |
| `ReadStreamDrain` | *violated*: `close` may never return | |
| `PluginEnvironment` | *violated*: a file may win over the environment | |
| `PluginLookalike` | *violated*: a file of another name is loaded | |

The runs with a fair specification check its safety properties in the same state space.

`CHECK_DEADLOCK FALSE` stands in every configuration, because every instance may really
come to rest: clients make a bounded number of calls, loops end at `Stop`, a stream is
left in peace when no device reads, and a plugin's process ends.

**The properties of reads, readings and the plugin.** *Reads*: `SerialReads` relates the
lock to who is at a device, hung or not: one read at a time, and none while a write
waits for its device. It says no more of writes, since a write that has timed out is at
its device without the lock (`"late"`), and a read may run beside it: that is the
disagreement which `SerialDevices` reports for two writes. `OneReader` holds
because `read` and `bulkRead` share out the devices by the same test, and because a
round waits for its jobs. `ReadingsAdvance` would fail if readings of one device could
overtake each other on the way through job, channel and `updateReadings`; that it is
limited to devices which are not listened to as well is not caution, but what the code
gives: two goroutines then send for one device. The liveness properties say who is
stopped by whom: `Hung` and `Stuck`, a function of the plugin that never returns and a
stream whose client has gone, are what each exempts, and nothing else is;
`QueuedIsStored` exempts only the stream. *Readings*: `CacheDumpExact` compares an
answer with what was cached when the call came and has not expired, which is all that a
dump beside appends can promise; `CurrentDumpAtOnce` says that an answer from the
current readings is of one moment; `PastWindowsSafe` bounds the data race: a window that
is over cannot hit it. `ReadCacheEnds` names the goroutine that a client leaves behind.
*Plugin*: `SelectionExact` compares the selection by indexes with a definition that
knows only the devices; `IndexesAgree` holds at every step of an `AddDevice`;
`LoadExact` and `ConfigPrecedence` compare what was loaded with a reading of the files
that does not load them. `ConfigPrecedence` takes the comments of `Load` and `Loader`
for what they say (variables override files; the files are those of the name that is
looked for, the whole of it) under two conditions that it names: the field is spelled
alike wherever it is set (`Alike`), and no other file is taken for one of that name
(`NoLookalikes`). Without them the comments are not true of the code; each of the runs
`PluginEnvironment` and `PluginLookalike` lifts one. A tag that a file gives twice is a
device's tag once, and the two generated tags come on top of that, so `LoadExact` counts
them. Since an id is made from strings that are joined without a separator, two
instances that differ may have one id: the second is then refused, which `LoadExact`
allows as it allows an alias that is taken. `ServedReady` and `PostRunBeforeStop` order
start and end; `HealthFileFollows` connects checks with the file across three
goroutines.

**Bounds.** Two RPCs of one or two data are the smallest instance in which writes of one
client and of two clients compete; a batch of two writes makes both a full batch and a
batch with an empty place, three writes more than a batch. A queue of one place is full
all the time, a queue of two places lets writes of two clients interleave in it.
`MaxItems`, `Requests` and `Calls` bound the load, `QueueSize` and `BatchSize` are the
settings of the same names. The clients are interchangeable, so `WriteParallel`, which
checks safety only, uses symmetry; `WriteSerial` does not. The safety properties are
checked in one mode and proved for both (section 4). A stream is run alone, with `MaxReadings = 5`: one reading in `readings`,
one in the hand of the listener, one in `stream` and one at the dispatch fill everything
that can be full, and the fifth comes on only if one of them does. Streams meet only in
the dispatch, which serves one after the other; the three safety properties are proved
for any number of them, and the liveness of one beside a stuck other is what
`ReadScheduler` and `ReadingState` are about (below). The drain needs one stream with
channels of three places. A queue of capacity 0 (a rendezvous) is excluded by
`ModeAssumption`.

For reads, the five plugins have two devices each: one that is read and one in bulk, in
serial mode, beside a write; two in one bulk read; bulk reads that are ignored for a
handler that can read alone; a device that is read and listened to; one that only
listens. Two readings of each device make four for a channel of two places, so it is
full, and a second round meets what the first has left. For the reading state (whose
instance doubles the arrays of slices, as the runtime does for short ones: `Room`),
three readings fall into one second, two or three; a TTL of one second (`TTL`) expires
the first of them within the three that pass (`MaxTime`), and a channel of one place
(`Capacity`, 128 in the code) is full at once. Appends of three readings cross one
growth of the array. Windows are open, half open, over, to come, and malformed.

The setups of `Plugin` are groups, each for one part, so that they add up and do not
multiply: `ConfigSetups` (files in several paths, two of them in one; a variable that
names a file, a directory, or nothing; variables given twice, the first of them empty; a
field spelled in two ways; a file whose name is taken for another; lists, and a variable
in place of one; ids; TLS; policies; flags), `Selecting` and the setup with `Refusals`
(inheritance, and thirteen instances of which most are wrong in a way of their own; 22
selectors), `DynamicSetups` (registrars that fail, return a device twice, or one whose
alias is taken, under both policies), `TagSetups` (templates that fail, and blank tags),
`LateSetups` (an `AddDevice` beside start and service), `SetupSetups` (actions that
fail, match nothing, have a key that is not supported or a pattern that does not
compile), `QuitSetups` (two signals at any moment; post-run actions that fail or are
registered late; a socket that cannot be removed, where there is one and where there is
none) and `HealthSetups` (checks of the plugin's own, the defaults on and off, a file
left from before). `MaxFlips = 1` lets a check go from bad to good or back at any
moment; more changes would repeat that, as the properties speak of checks that stay as
they are.

**Fairness.** Every goroutine that can take a step takes one, which the Go runtime
guarantees: weak fairness for each handler after it has begun, for the loop and for each
write's goroutine, for the dispatch, for each listener and for each stream's handler.
Where goroutines compete for a lock or a place in a channel, Go's mutex and channels
hand over in turn, and each competitor of the model wants it finitely often, so weak
fairness suffices. Nothing is assumed of clients, of devices (a write may hang for ever,
and is then timed out) or of `Stop`. In serial mode `EveryWriteResolves` takes for
granted that whoever else holds `serialLock` lets go of it: writes do, because of the
timeout; reads have no timeout, and `WritesGetLock` of `ReadScheduler` says for them
that they do unless a device hangs.

In `ReadScheduler` reads come back for the lock round after round, so weak fairness
would let a write wait for ever: strong fairness is assumed of `WriteLocks`, and of it
alone. It is what Go's mutex gives, which hands the lock over to whoever has waited for
a millisecond. Nothing is assumed of listeners, of `Stop`, of devices (`Hang`) or of
streams. A write ends by its device or by its timeout (`WriteEnds \/ WriteTimesOut`),
but whether the device returns after that (`WriteReturns`) is open. In `ReadingState`
weak fairness of the updater, the dump and the two handlers suffices. In `Plugin` each
goroutine is weakly fair and tickers tick; signals, changes of what checks look at and
fatal errors are not. That the main goroutine leaves the two places where it loads files
is stated as `[]<>` of being elsewhere: both steps are always enabled and taken once, so
this is their weak fairness, without an `ENABLED` that TLC would evaluate by loading the
files in every state.

**What is violated, and why.**

1. `SerialDevices`. On a timeout `write()` returns and unlocks, while the device still
   writes; the next write then runs beside it. The comment on `serialLock` and the
   setting's name promise otherwise. The same goes for reads, of which the comment
   speaks too (`scheduler.go:80-81`): in `ReadScheduler` the writer that is `"late"` is at
   its device, and jobs read beside it.
2. `TransactionIdsUnique`. `newTransaction` looks an id up and stores it in two calls.
   Two requests can both find it free; the earlier of the two transactions cannot be
   looked up any more, though its write is performed.
3. `SyncReplyFinal`. The message of a failed write is set after `done` is closed, so a
   `WriteSync` may answer ERROR without saying why.
4. `DrainEnds`. `close` asks for the length of a channel and then receives from it,
   while the listener receives from it too. If the listener is quicker, `close` waits
   for ever, with the lock for which the listener will wait.
5. `EnvironmentOverrides`. The keys of variables are lower-cased (`config.go:314`), those of
   files are not. A field that a file writes in camel case stays beside the variable's in
   the merged data, and which of them `Scan` takes is the order of a map. The comment says
   that the environment "will override any values that were set in config files"
   (`config.go:133-134`).
6. `OnlyNamedFile`. `isValidFile` compares names after `TrimRight` with the characters of
   the extension (`config.go:485`), which may be letters of the name: `configl.yml` is taken
   for `config`. The comment says "only this file will be loaded" (`config.go:85-86`).

`ClientServed` says "as long as no client disconnects", and it cannot say more: when a
client is gone and both channels of its stream are full, the listener waits for room
holding `stopLock`, the dispatch waits for the listener holding `streamLock`, and the
handler, which would drain both, waits for `streamLock`. No stream is served any more.
That moment is `StreamSticks` in `ReadScheduler` and `ReadingState`, which show its
reach: rounds end no more and writes in serial mode wait for good, but a `Read` or
`ReadCache` is still answered, since the dispatch does not hold `readingsLock`.

**What the models show beside the properties.** These are consequences of the code which
the modules reproduce, and which no doc denies, or denies too vaguely for a run:

- A device whose handler only listens makes the first read round panic
  (`device.go:412`); `OnlyListenersPanic` says that nothing else does.
- A template that does not parse leaves the parser's mutex locked (`tag.go:84`): the
  next tag, and with it the start of the plugin, waits for ever. `StartsAndEnds`
  excludes exactly these setups.
- A tag that is blank becomes the tag of the string before it (`tag.go:83`), since the
  shared template keeps what it holds.
- With no configuration at all and the policy `optional`, `Scan` leaves the
  configuration nil, and `NewPlugin` then fails in `newPluginID`, or without defaults in
  `initialize`; the option's comment (`options.go:67-69`) reads as if defaults applied.
- A selector whose tag has an empty namespace, or names a tag nobody has, finds nothing,
  whatever its other tags find.
- The values of a device's data are joined without a separator
  (`plugin_handlers.go:103`), so different data may give one id.
- A device that is added after the setup actions have run is not set up. `ServedReady`
  excepts it by name.
- A pattern of a filter that does not compile panics (`device_manager.go:485`), but only
  when a device gets as far as it.
- A process that ends leaves the health file where it is, and a process that starts
  finds it.
- When a post-run action stops the server, `Run` returns to the plugin's main, which may
  end the process before later post-run actions: these are those that pre-run actions
  register.

## 4. What is proved

`WriteSchedulerProofs` proves, for any number of clients, data, devices and ids, any
queue of at least one place, any batch size and both modes:

- `TypeCorrect`: `TypeOK` always holds;
- `TransactionsResolveOnce`, `BatchesDoNotOverlap`, `OutcomesAreTrue`, `CallsInOrder`,
  `SerialSectionExclusive`, `PendingWritesAccounted`: the six safety invariants of the
  runs;
- `Refinement`: the write path implements `WriteService`.

They rest on the named assumptions of `WriteScheduler` (`CallsAssumption`,
`ModeAssumption`, `IdAssumption`), which say what kind of value each constant is and
that generated and chosen ids differ.

**The argument.** None of the invariants is inductive. That a transaction is not
resolved twice needs that no other goroutine has the write in hand, which needs that it
left the queue once, which needs that it entered once. The inductive invariant `Inv`
therefore follows a write through the system:

- `InData`: a handler that is at work is at a datum of its call;
- `Accounting`: a write is in the queue, at its handler or at a goroutine, in one of
  them at most, and occurs in the queue once;
- `Lifecycle`: the position of the goroutine determines the status, the number of times
  `done` was closed and what the device and the message may be;
- `Ordered`: a call's earlier data are ahead of its later ones, on the way from the
  handler through the queue and the batch to the goroutine;
- `BatchBarrier`: whoever is at work is in the batch, and the loop waits for it.

Each of the parts has a lemma per kind of step (handlers, the loop, the goroutines), and
`InvNext` joins them. The lock needs no more than `TypeOK`. For the refinement,
`outcome` is `status`, `applied` is the set of writes whose device has returned "ok" and
`told` is the status in the reply; `StoreAccepts`, `AnswerTells` and `GoroutineServes`
give the abstract step of each concrete one, all others stutter, and `ToldAtAnswer`, an
invariant of its own, says that nothing is told twice.

`ReadStreamProofs` proves, for any number of streams, devices and readings and channels
of any capacity (`StreamAssumption`):

- `TypeCorrect`: `TypeOK`, with the bound on the channels, always holds;
- `OpenWhenUsed`: `NoSendOnClosed`, so neither the dispatch nor a listener panics;
- `NothingLost`: `StreamFaithful`, which speaks of the sequences by their elements and
  numbers, so that no filter of a sequence, and no recursion, stands in the way of the
  proof.

The inductive invariant of the first two, `IInv`, has three parts besides the types.
`DispatchInv`: only registered streams are served by a dispatch. `HandlerInv`: a stream
is registered until its handler has unregistered it, and its channels are closed by the
handler's last step. `LockInv`: whoever forwards or closes holds `stopLock`, and a
listener that forwards has seen the stream open. Together they leave no moment at which
a closed channel could be used; without the second the dispatch could have a stream in
turn that is already closed.

The third theorem needs one invariant more, `Order`, which is about readings. It has
`Numbered` (readings are numbered as they are dispatched), `SentBefore` (a stream that
is still to be served in a dispatch has not been sent its reading), `InHand` (a listener
has a reading in hand from its filter to the second channel and at no other time) and
`Faithful` (what has passed the filter and what waits before it are in order, were sent,
and lack nothing that was sent and is wanted). `PassedMoves`, `ReceiveKeepsWay` and
`SendKeepsWay` show that a step of the listener or the handler moves the head of one
sequence to the end of the one before.

`ReadSchedulerProofs` proves, for any devices, handlers and plugins, any queue of at
least one place and any number of readings (`SetupAssumption`, `NameAssumption`,
`SizeAssumption`):

- `TypeCorrect`: `TypeOK`, with the capacity of `readChan`;
- `SerialModeExcludes`: `SerialReads`, for reads among each other and beside a write that
  waits for its device;
- `DevicesReadOnce`: `OneReader`;
- `PanicsExplained`: `OnlyListenersPanic`;
- `ReadingsOnlyAdvance`: the action property `ReadingsAdvance`.

The inductive invariant `IInv` adds to the types: `Quiet` (between rounds every job is
idle, and only a job at its device has readings in hand), `LockHeld` (in serial mode a
job at its device, and a write that waits for one, is the lock's holder; a write that
has timed out is not), `NoneSkips` (no job is at a device that the other kind of job
reads), `PanicCause`, and three parts for the order of readings:
`Fresh` (a reading on its way has a number that its device has given), `Own` (a job has
readings of its targets only, and one of each) and `InOrder` (of a device that is not
listened to, what is stored is older than what is queued, which is in order, and that is
older than what a job has in hand). The last one is the reason for the others: that
nobody else sends for the device between two readings of it needs `OneReader`, which
needs that rounds do not overlap.

About `Plugin` there are three modules, each of which extends the one before. They prove
their theorems for every set of setups, whatever files, devices, environment and checks a
setup has. The first needs of it that actions are records of names, filters and errors and
that signals are counted (`SetupsAssumption`, `NamesAssumption`, `FlipsAssumption`), the
others also the shapes of `FilesAssumption` and `DevicesAssumption`.

`PluginProofs` proves:

- `TypeCorrect`: `TypeOK`;
- `ServesReady`: `ServedReady`;
- `PostRunFirst`: `PostRunBeforeStop`.

`ConfigKept` is needed for the last: whether the server's cleanup fails depends on the
configuration, which no longer changes once actions are executed. `Inv` has the types in
three parts (`HealthTypes`, `ControlTypes`, `ActionTypes`), `Registered` (what the lists
of actions are, place by place: those of the setup first, then those of the components,
then those that pre-run actions add), `FailureKnown` (a failure is noted exactly when
one of the executed actions fails), `ServerOrder`, `QuitOrder` and `MainOrder` (what the
place of one goroutine says of the others: a signal is not waited for before pre-run
actions have ended, a server does not stop before the actions ahead of its own were
executed), and `SetupOrder` (calls that setup actions have made, for every device and
every action up to the count). Every step needs `process = "up"`, so nothing happens
after the end. `StepKeeps` and `MainMoves` say what most steps leave alone; each part
has a lemma, in which only the steps that can disturb it are looked at.

`PluginConfigProofs` proves `ConfigPrecedes`: `ConfigPrecedence`. The configuration is
loaded by one step, so the work is not in the invariant, `ConfigInv` (with `ConfigFits`,
that what is loaded has the shape of its field), but in the folds of the loader, each of
which has an invariant of its own: after some variables of the environment a field has
the value of the first of them that is not empty, if there is one (`SetBy`, `IsTaken`;
`mergo` without override replaces an empty value and no other), after some files a key
has the value of the last file that has it, or the lists of all one after the other
(`MergedBy`), of some files those that match are kept (`HitsBy`). `SearchFinds` says
which path is taken. `EnvironmentSays` and `FilesSay` turn this into what the property
says, the second by `NamesFit`, that without lookalikes the files which are searched for
are those so named; and `FieldTaken` joins them, which takes the two conditions of the
property: where a field is spelled in two ways both values stay, and neither need win.
The lemmas at the start of the module are about sequences: `Flattens` and
`FlattenAppend` say what `FlattenSeq` returns.

`PluginDevicesProofs` proves:

- `IndexesAlwaysAgree`: `IndexesAgree`;
- `SelectsExactly`: `SelectionExact`;
- `LoadsExactly`: `LoadExact`.

Of the first, the inductive invariant is `DevicesInv`. It says of the manager: `AliasesAgree`
(ids and aliases name the same devices, but for an alias whose device is not stored yet),
`CacheSound` (what a tag finds has the tag; no label in the cache stands for all) and
`CacheFull` (each tag of a device finds it, but for those that are left to cache); and
`AdderAgrees` says, for each place of the goroutine that adds a device, which alias and which
tags these are. `AddAliasAgrees`, `StoreDeviceAgrees` and `CacheTagAgrees` are the three
steps of `AddDevice`, once for the goroutine and for the fold by which a start adds all its
devices. That a device has the tag by which a selector of all devices finds it is part of
`CacheFull` too, since nothing else says so between the steps.

The second needs nothing more of a state, but a selection is a fold over tags, and within
it there is one over the cached tags that a tag of the selector stands for and one over the
devices found so far: `FoundExact` says what one tag finds, `TagsExact` what remains after
each of a selector's tags. Where Go goes through a map in any order, the order in which
devices are found is open, and neither theorem nor property speaks of it.

The third has in `Made` what a start has done after some of the instances: each is a device,
with what it inherits and overrides (`DeviceMade`), or one was refused, and then each that is
sound was made or met an id or an alias that was taken. `CreateDeviceAgrees` is the step of
one instance, `DynamicDevicesAgree` the registrars and `InitDevicesAgree` the whole;
`LoadKnown` is what each place of the main goroutine says of it.

`FoldInduction` is what these two modules rest on. No prover here can apply a theorem to an
operator, so the induction theorems of the library are out of reach, and nothing that is
folded over a sequence of any length could be proved with them. But a module can have an
operator for a CONSTANT, and its lemmas are those of each of its instances:
`LeftFoldInduction` and `SetFoldInduction` say, for any step `Op` and any invariant `Inv`,
that what holds of the base and is kept by each step holds of the fold. They are proved from
the definitions of the folds in the community modules, by way of a least counterexample.
Each such loop of the configuration and the device manager is an instance of its own, such as

    Creates == INSTANCE FoldInduction WITH Op <- CreateNext, Inv <- CreatedUpTo

`ReadingStateProofs` proves, for any devices, any readings that arrive and calls that
are made (`SetupAssumption`, `BoundAssumption`), and any growth of arrays that leaves
room for what is appended (`RoomAssumption`):

- `TypeCorrect`: `TypeOK`;
- `PastIsSafe`: `PastWindowsSafe`, that the race of a dump and an append is confined to
  the list of the present;
- `CacheIsExact`: `CacheDumpExact`;
- `CurrentIsOfAMoment`: `CurrentDumpAtOnce`.

`Base` is inductive by itself. It has the types; `State`, the shape of what
`updateReadings` makes: `Stamping` and `Clock` (readings are stamped one by one and time
goes on), `Lists` (a list is increasing, of one time, and as long as its slice says but
between `Grow` and `Write`; no reading is in two lists), `Current`; `DumpPlace`, what a
dump has not begun; and `Knowledge`, that what a call knew is not of the future. On it
rest three more invariants, one for each theorem. `PastInv`: the list that is dumped is
older than the next append, so it is as long as its slice says, and the array that was
read has room for it. `CacheInv`: what has been put out (`Out`: received, in the
channel, in hand) has no reading twice and none of what is left of the lists, and what
must be found has been or is in a place where it will be. `CurrentInv`: what was put out
and what is to be are together the readings of one moment. `AppendOnly` and
`CachedShrinks` say all that a dump needs to know of what `updateReadings` does beside
it, so that no case of the dump looks at its steps.

**What is only model-checked.** The liveness properties, which are out of the prover's
reach; the runs check them under the fairness of section 3. Every safety invariant and
action property that a passing run checks is a theorem, for every value of the constants.
Conversely no theorem stands for itself, and `FoldInduction` has lemmas only: each states a
property that a run checks, so TLC has seen it hold and a mutant of the code break it.
The bounds of the models (`MaxReadings`, `Requests` and the like) are constants of the
theorems, which hold for each of their values.

## 5. What is not modelled

- *Data*: values, units and contexts of readings, data of writes, messages but for the
  transaction's, formats and log lines. No control depends on them but where a model
  says so.
- *Transforms, functions and outputs* (`transform.go`, `funcs/`, `output/`): floating
  point arithmetic and constants. Which transforms a device may have is in
  `DeviceManager`.
- *Encodings* of devices, readings and transactions, and the RPCs that only encode
  (`Test`, `Version`, `Metadata`, `Health`, `Transaction`, `Transactions`): they change
  no state. The selection of devices, which `Devices`, `Read` and `WriteAsync` share, is
  `GetDevices`.
- *The rate limiter* beyond being a wait (an error of `limiter.Wait` is logged and the
  write goes on): which rates admit nothing is decided in a library. The delay and
  interval settings are waits too.
- *Metrics, metadata, version and the log*: set once at start, or served by a library.
- *The script helper*, the test helpers, tools and examples.
- *What splits strings* (`NewTag` into its parts, the keys of environment variables,
  file names into stem and extension): a string comes in parts. What `TrimRight` does to
  a file's name is the file's `trimmed`.
- *Nested data in the merge of prototype and instance*: `mergo` merges nested maps in
  place, and so changes the prototype's for the instances after it
  (`device.go:142-155`). Data and context are flat here.
- *A queue of capacity 0*, and the health of the queues: the usage of such a queue is
  0/0.
- *Writes that nobody takes*: those queued when `stop` is closed, or when writes are
  disabled. They are hazards that `PROJECT.json` lists without a property: no property
  of the code says what should become of them.

`PROJECT.json` lists each component with what is left out of it.

## 6. Plan

What is left, the most useful first:

1. The rate limiter as a module: which `rate` and `burst` admit a write at all, which
   needs a model of the library that follows its source.
2. `ReadScheduler` composed with `ReadStream`, with dispatch in place of `StreamSticks`,
   for the one question the interface leaves open: whether a stream whose client has
   gone and then returns lets reads go on.
3. Nested data in the merge of prototype and instance, with the sharing of maps that
   `mergo` gives.
