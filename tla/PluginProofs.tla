---------------------------- MODULE PluginProofs ----------------------------
(***************************************************************************)
(* Theorems about Plugin, for every setup: its types, that a plugin that   *)
(* serves is ready, and that its post-run actions are executed before its  *)
(* server stops.                                                           *)
(***************************************************************************)
EXTENDS Plugin, SequenceTheorems, TLAPS

-----------------------------------------------------------------------------
(* The types of what the components keep.                                  *)

HealthTypes ==
  /\ DOMAIN healthy = DefaultChecks \cup ToSet(setup.checks)
  /\ healthy \in [DOMAIN healthy -> BOOLEAN]
  /\ status \in [DOMAIN healthy -> BOOLEAN]
  /\ found \in [DOMAIN healthy -> {"none", "ok", "error"}]
  /\ update \in [at : {"idle", "status", "write"}, left : SUBSET DOMAIN healthy, ok : BOOLEAN, exists : BOOLEAN]
  /\ file \in BOOLEAN /\ flips \in 0 .. MaxFlips

ControlTypes ==
  /\ setup \in Setups
  /\ main \in Places /\ process \in Ends
  /\ server \in {"none", "initialized", "serving", "stopped"}
  /\ quit \in {"none", "start", "term", "both", "waiting", "received"}
  /\ signals \in 0 .. setup.signals
  /\ adder.at \in {"none", "refused", "alias", "store", "tags", "done"}

\* The actions registered, and how many of them are executed.
ActionTypes ==
  /\ preRun \in Seq(PreRunActions) /\ postRun \in Seq(PostRunActions)
  /\ done = [count |-> done.count, failed |-> done.failed, calls |-> done.calls]
  /\ done.count \in [Kinds -> Nat] /\ done.failed \in [Kinds -> BOOLEAN]
  /\ done.count["preRun"] <= Len(preRun) /\ done.count["postRun"] <= Len(postRun)
  /\ done.count["setup"] <= Len(setup.setupActions)

-----------------------------------------------------------------------------
(* How far the goroutines are, and what they have done by then.            *)

Starting == {"init", "blocked", "components"}
Listening == {"dry-run", "setup", "health", "updating", "start", "serve", "serving", "return"}

\* The plugin's own post-run actions come first, then those of the scheduler and the server.
Registered ==
  /\ main \in {"construct", "register"} => preRun = << >> /\ postRun = << >>
  /\ main \in Starting => preRun = setup.preRun /\ postRun = setup.postRun
  /\ main \notin {"construct", "register"} \cup Starting =>
       LET own == Len(setup.postRun) IN
       /\ own + 2 <= Len(postRun)
       /\ \A i \in 1 .. own : postRun[i] = setup.postRun[i]
       /\ postRun[own + 1] = StopScheduler /\ postRun[own + 2] = CleanupServer

\* Whether an action of a kind has failed is whether one of those executed has.
FailureKnown ==
  /\ done.failed["preRun"] <=> \E i \in 1 .. done.count["preRun"] : preRun[i].fails
  /\ done.failed["postRun"] <=> \E i \in 1 .. done.count["postRun"] : PostRunFails(postRun[i])

\* The server is up while the main goroutine serves, and stopped by its post-run action.
ServerOrder ==
  /\ main \in {"construct", "register"} \cup Starting => server = "none"
  /\ server = "serving" => main = "serving"
  /\ main = "return" => server = "stopped"
  /\ process = "returned" => server = "stopped"
  /\ server = "stopped" => Len(setup.postRun) + 2 <= done.count["postRun"]

\* Post-run actions are executed once a signal is received, which is not before every
\* pre-run action was executed without an error.
QuitOrder ==
  /\ quit # "none" => main \in Listening
  /\ quit # "received" => done.count["postRun"] = 0
  /\ quit = "received" /\ process \in {"exit 0", "exit 1"} /\ main # "dry-run" =>
       done.count["postRun"] = Len(postRun) /\ (process = "exit 1" <=> done.failed["postRun"])

\* What is done when the main goroutine has come as far.
MainOrder ==
  /\ main \notin Listening \cup {"preRun"} => done.count["preRun"] = 0
  /\ main \in Listening => done.count["preRun"] = Len(preRun) /\ ~done.failed["preRun"]
  /\ main \notin Listening \ {"dry-run"} => done.count["setup"] = 0
  /\ main \in Listening \ {"dry-run", "setup"} =>
       done.count["setup"] = Len(setup.setupActions) /\ ~done.failed["setup"]

\* A device setup action was applied to a device, unless that was added late.
Applied(action, id) ==
  \/ adder.at \notin {"none", "refused"} /\ id = GenerateDeviceID(Late)
  \/ /\ action.filter.key = "type"
     /\ \A k \in DOMAIN action.filter.patterns : action.filter.patterns[k] \in {"*", Devices[id].type} =>
          [action |-> action.name, device |-> id] \in done.calls /\ Devices[id].type \notin action.fails

SetupOrder ==
  ~done.failed["setup"] =>
    \A i \in 1 .. done.count["setup"], id \in DOMAIN Devices : Applied(setup.setupActions[i], id)

\* The inductive invariant.
Inv == /\ HealthTypes /\ ControlTypes /\ ActionTypes
       /\ Registered /\ FailureKnown /\ ServerOrder /\ QuitOrder /\ MainOrder /\ SetupOrder

USE DEF healthVars, lifecycleVars, vars

\* What a step of the process is.
Step ==
  \/ NewPlugin \/ InitDeviceManager \/ PrintVersion \/ Register \/ InitComponents
  \/ ExecPreRun \/ EndPreRun \/ EndDryRun \/ ExecSetupAction \/ EndSetup
  \/ StartHealth \/ StartComponents \/ Serve \/ Return \/ EndMain
  \/ Notify \/ ExecPostRun \/ Exit
  \/ BeginAdd \/ AddLateAlias \/ StoreLate \/ CacheLateTag \/ ConcurrentMapAccess
  \/ Tick \/ UpdateStep
  \/ \E check \in DOMAIN healthy : RunCheck(check) \/ Change(check)
  \/ \E signal \in {"SIGTERM", "SIGINT"} : Signal(signal)

LEMMA NextIsStep == Next => Step /\ process = "up"
BY DEF Next, LoadFiles, Main, OnQuitSignal, Adder, UpdateHealthFile, CheckRuns, Step

-----------------------------------------------------------------------------
(* Health.                                                                 *)

\* The steps of the checks and of the update of the file.
LEMMA HealthStep ==
  ASSUME Inv,
         \/ \E check \in DOMAIN healthy : Flip(check) \/ Check(check) \/ Store(check) \/ ReadStatus(check)
         \/ BeginUpdate(Counted) \/ Stat \/ WriteFile,
         UNCHANGED setup
  PROVE  HealthTypes'
<1> USE DEF Inv, HealthTypes
<1>1. ASSUME NEW check \in DOMAIN healthy, Flip(check) \/ Check(check) \/ Store(check)
      PROVE  HealthTypes'
  <2>1. CASE Flip(check)
    BY <1>1, <2>1, FlipsAssumption DEF Flip
  <2>2. CASE Check(check)
    BY <1>1, <2>2 DEF Check
  <2>3. CASE Store(check)
    BY <1>1, <2>3 DEF Store
  <2> QED
    BY <1>1, <2>1, <2>2, <2>3
<1>2. CASE BeginUpdate(Counted)
  <2>1. Counted \subseteq DOMAIN healthy
    BY DEF Counted
  <2> QED
    BY <1>2, <2>1 DEF BeginUpdate
<1>3. ASSUME NEW check \in DOMAIN healthy, ReadStatus(check)
      PROVE  HealthTypes'
  BY <1>3 DEF ReadStatus
<1>4. CASE Stat
  BY <1>4 DEF Stat
<1>5. CASE WriteFile
  BY <1>5 DEF WriteFile, FileAfter, Idle
<1> QED
  BY <1>1, <1>2, <1>3, <1>4, <1>5

LEMMA HealthTypesStep == ASSUME Inv, Step PROVE HealthTypes'
<1>1. CASE UNCHANGED <<setup, healthVars>>
  BY <1>1 DEF Inv, HealthTypes
<1>2. CASE StartHealth \/ Tick
  BY <1>1, <1>2, HealthStep DEF StartHealth, Tick
<1>3. CASE UpdateStep
  BY <1>3, HealthStep DEF UpdateStep, Inv, HealthTypes
<1>4. ASSUME NEW check \in DOMAIN healthy, RunCheck(check) \/ Change(check) PROVE HealthTypes'
  BY <1>4, HealthStep DEF RunCheck, Change
<1> QED
  BY <1>1, <1>2, <1>3, <1>4
     DEF Step, NewPlugin, InitDeviceManager, PrintVersion, Register, InitComponents, ExecPreRun, EndPreRun,
         EndDryRun, ExecSetupAction, EndSetup, StartComponents, Serve, Return, EndMain, Notify, ExecPostRun, Exit,
         BeginAdd, AddLateAlias, StoreLate, CacheLateTag, Add, ConcurrentMapAccess, Signal

-----------------------------------------------------------------------------
(* Control, and the actions.                                               *)

\* What a step of AddDevice leaves alone.
LEMMA AddMoves ==
  ASSUME NEW step, NEW manager, NEW left, Add(step, manager, left)
  PROVE  /\ adder'.at = step /\ load'.manager = manager
         /\ UNCHANGED <<setup, main, process, config, preRun, postRun, done, server, quit, signals, healthVars>>
BY DEF Add

LEMMA CountsUp == \A n \in Nat : \A k \in 0 .. n : k < n => k + 1 \in 0 .. n
OBVIOUS

LEMMA AddKeepsTypes ==
  ASSUME ControlTypes, NEW step \in {"refused", "alias", "store", "tags", "done"}, NEW manager, NEW left,
         Add(step, manager, left)
  PROVE  ControlTypes'
<1>1. adder'.at = step
  BY AddMoves
<1>2. setup' = setup /\ main' = main /\ process' = process
  BY AddMoves
<1>3. server' = server /\ quit' = quit /\ signals' = signals
  BY AddMoves
<1>4. adder'.at \in {"none", "refused", "alias", "store", "tags", "done"}
  BY <1>1
<1> QED
  BY <1>2, <1>3, <1>4 DEF ControlTypes

LEMMA ControlTypesStep == ASSUME Inv, Step PROVE ControlTypes'
<1> USE DEF Inv, ControlTypes, Places, Ends, End, GoOn
<1>1. CASE NewPlugin \/ InitDeviceManager \/ PrintVersion \/ Register \/ InitComponents
  BY <1>1 DEF NewPlugin, InitDeviceManager, PrintVersion, Register, InitComponents
<1>2. CASE ExecPreRun \/ EndPreRun \/ EndDryRun \/ ExecSetupAction \/ EndSetup
  BY <1>2 DEF ExecPreRun, EndPreRun, EndDryRun, ExecSetupAction, EndSetup
<1>3. CASE StartHealth \/ StartComponents \/ Serve \/ Return \/ EndMain
  BY <1>3 DEF StartHealth, StartComponents, Serve, Return, EndMain
<1>4. CASE Notify \/ ExecPostRun \/ Exit
  BY <1>4 DEF Notify, ExecPostRun, Exit
<1>5. CASE BeginAdd \/ AddLateAlias \/ StoreLate \/ CacheLateTag \/ ConcurrentMapAccess
  <2>1. CASE BeginAdd
    <3>1. Add("refused", load.manager, << >>) \/ Add("alias", load.manager, << >>)
      BY <2>1 DEF BeginAdd
    <3>2. ControlTypes
      OBVIOUS
    <3> HIDE DEF ControlTypes
    <3> QED
      BY <3>1, <3>2, AddKeepsTypes
  <2>2. CASE AddLateAlias \/ StoreLate
    BY <2>2, AddMoves DEF AddLateAlias, StoreLate
  <2>3. CASE CacheLateTag
    BY <2>3, AddMoves DEF CacheLateTag
  <2>4. CASE ConcurrentMapAccess
    BY <2>4 DEF ConcurrentMapAccess
  <2> QED
    BY <1>5, <2>1, <2>2, <2>3, <2>4
<1>6. CASE Tick \/ UpdateStep
  BY <1>6 DEF Tick, UpdateStep
<1>7. ASSUME NEW check \in DOMAIN healthy, RunCheck(check) \/ Change(check) PROVE ControlTypes'
  BY <1>7 DEF RunCheck, Change
<1>8. ASSUME NEW signal \in {"SIGTERM", "SIGINT"}, Signal(signal) PROVE ControlTypes'
  <2>1. setup.signals \in Nat
    BY SetupsAssumption
  <2>2. signals < setup.signals /\ signals' = signals + 1 /\ UNCHANGED <<setup, main, server, adder>>
    BY <1>8 DEF Signal
  <2>3. process' \in Ends /\ quit' \in {"none", "start", "term", "both", "waiting", "received"}
    BY <1>8 DEF Signal
  <2>4. signals' \in 0 .. setup'.signals
    BY <2>1, <2>2, CountsUp
  <2> QED
    BY <2>2, <2>3, <2>4
<1> QED
  BY <1>1, <1>2, <1>3, <1>4, <1>5, <1>6, <1>7, <1>8 DEF Step

\* The types of the actions that are registered.
LEMMA ActionsHaveTypes ==
  ASSUME Inv
  PROVE  /\ setup.preRun \in Seq(PreRunActions) /\ setup.postRun \in Seq(PostRunActions)
         /\ setup.setupActions \in Seq(SetupActions)
         /\ \A i \in 1 .. Len(setup.postRun) : setup.postRun[i] # CleanupServer
         /\ <<StateAction, SchedulerAction>> \in Seq(PreRunActions)
         /\ ComponentActions \in Seq(PostRunActions)
<1>1. /\ setup.preRun \in Seq(PreRunActions) /\ setup.postRun \in Seq(PostRunActions \ {CleanupServer})
      /\ setup.setupActions \in Seq(SetupActions)
  BY SetupsAssumption DEF Inv, ControlTypes
<1>2. setup.postRun \in Seq(PostRunActions) /\ \A i \in 1 .. Len(setup.postRun) : setup.postRun[i] # CleanupServer
  BY <1>1
<1>3. {StateAction, SchedulerAction} \subseteq PreRunActions
  <2>1. << >> \in Seq(PostRunActions)
    OBVIOUS
  <2>2. StateAction.name \in ActionNames /\ SchedulerAction.name \in ActionNames
    BY NamesAssumption
  <2>3. /\ StateAction = [name |-> StateAction.name, fails |-> FALSE, adds |-> << >>]
        /\ SchedulerAction = [name |-> SchedulerAction.name, fails |-> FALSE, adds |-> << >>]
    BY DEF StateAction, SchedulerAction
  <2>4. ASSUME NEW name \in ActionNames PROVE [name |-> name, fails |-> FALSE, adds |-> << >>] \in PreRunActions
    BY <2>1 DEF PreRunActions
  <2>5. StateAction \in PreRunActions
    BY <2>2, <2>3, <2>4
  <2>6. SchedulerAction \in PreRunActions
    BY <2>2, <2>3, <2>4
  <2> QED
    BY <2>5, <2>6
<1>4. {StopScheduler, CleanupServer} \subseteq PostRunActions
  <2>1. StopScheduler.name \in ActionNames /\ CleanupServer.name \in ActionNames
    BY NamesAssumption
  <2>2. /\ StopScheduler = [name |-> StopScheduler.name, fails |-> FALSE]
        /\ CleanupServer = [name |-> CleanupServer.name, fails |-> FALSE]
    BY DEF StopScheduler, CleanupServer
  <2>3. ASSUME NEW name \in ActionNames PROVE [name |-> name, fails |-> FALSE] \in PostRunActions
    BY DEF PostRunActions
  <2>4. StopScheduler \in PostRunActions
    BY <2>1, <2>2, <2>3
  <2>5. CleanupServer \in PostRunActions
    BY <2>1, <2>2, <2>3
  <2> QED
    BY <2>4, <2>5
<1> QED
  BY <1>1, <1>2, <1>3, <1>4 DEF ComponentActions

\* What Collect does.
LEMMA CollectCounts ==
  ASSUME ActionTypes, NEW kind \in Kinds, NEW fails \in BOOLEAN, NEW calls, done' = Collect(kind, fails, calls)
  PROVE  /\ done' = [count |-> done'.count, failed |-> done'.failed, calls |-> done'.calls]
         /\ done'.calls = done.calls \cup calls
         /\ done'.count \in [Kinds -> Nat] /\ done'.failed \in [Kinds -> BOOLEAN]
         /\ done'.count[kind] = done.count[kind] + 1
         /\ done'.failed[kind] <=> done.failed[kind] \/ fails
         /\ \A k \in Kinds \ {kind} : done'.count[k] = done.count[k] /\ (done'.failed[k] <=> done.failed[k])
<1>1. /\ done' = [count |-> done'.count, failed |-> done'.failed, calls |-> done'.calls]
      /\ done'.calls = done.calls \cup calls
      /\ done'.count = [done.count EXCEPT ![kind] = @ + 1]
      /\ done'.failed = [done.failed EXCEPT ![kind] = @ \/ fails]
  BY DEF Collect, Executed
<1>2. /\ done'.count \in [Kinds -> Nat] /\ done'.count[kind] = done.count[kind] + 1
      /\ \A k \in Kinds \ {kind} : done'.count[k] = done.count[k]
  BY <1>1 DEF ActionTypes
<1>3. /\ done'.failed \in [Kinds -> BOOLEAN]
      /\ done'.failed[kind] <=> done.failed[kind] \/ fails
      /\ \A k \in Kinds \ {kind} : done'.failed[k] <=> done.failed[k]
  BY <1>1 DEF ActionTypes
<1> QED
  BY <1>1, <1>2, <1>3

-----------------------------------------------------------------------------
(* Which steps change what.                                                *)

LEMMA StepKeeps ==
  ASSUME Step
  PROVE  /\ setup' = setup
         /\ Register \/ InitComponents \/ ExecPreRun \/ UNCHANGED <<preRun, postRun>>
         /\ ExecPreRun \/ ExecSetupAction \/ ExecPostRun \/ UNCHANGED done
         /\ InitComponents \/ Serve \/ ExecPostRun \/ UNCHANGED server
         /\ EndPreRun \/ Notify \/ (\E signal \in {"SIGTERM", "SIGINT"} : Signal(signal)) \/ UNCHANGED quit
         /\ Register \/ InitDeviceManager \/ AddLateAlias \/ StoreLate \/ CacheLateTag \/ BeginAdd \/ UNCHANGED <<load, adder>>
<1> USE DEF Step, NewPlugin, InitDeviceManager, PrintVersion, Register, InitComponents, ExecPreRun, EndPreRun,
         EndDryRun, ExecSetupAction, EndSetup, StartHealth, StartComponents, Serve, Return, EndMain, Notify, ExecPostRun, Exit,
         BeginAdd, AddLateAlias, StoreLate, CacheLateTag, Add, ConcurrentMapAccess, Tick, UpdateStep, RunCheck, Change, Signal
<1>1. setup' = setup
  OBVIOUS
<1>2. Register \/ InitComponents \/ ExecPreRun \/ UNCHANGED <<preRun, postRun>>
  OBVIOUS
<1>3. ExecPreRun \/ ExecSetupAction \/ ExecPostRun \/ UNCHANGED done
  OBVIOUS
<1>4. InitComponents \/ Serve \/ ExecPostRun \/ UNCHANGED server
  OBVIOUS
<1>5. EndPreRun \/ Notify \/ (\E signal \in {"SIGTERM", "SIGINT"} : Signal(signal)) \/ UNCHANGED quit
  OBVIOUS
<1>6. Register \/ InitDeviceManager \/ AddLateAlias \/ StoreLate \/ CacheLateTag \/ BeginAdd \/ UNCHANGED <<load, adder>>
  OBVIOUS
<1> QED
  BY <1>1, <1>2, <1>3, <1>4, <1>5, <1>6

\* How the main goroutine moves.
LEMMA MainMoves ==
  ASSUME Step
  PROVE  \/ main' = main
         \/ main = "construct" /\ main' = "register"
         \/ Register /\ main = "register" /\ main' = "init"
         \/ main = "init" /\ main' \in {"blocked", "components"}
         \/ InitComponents /\ main = "components" /\ main' = "preRun"
         \/ EndPreRun /\ main = "preRun" /\ main' \in {"dry-run", "setup"}
         \/ EndSetup /\ main = "setup" /\ main' = "health"
         \/ main = "health" /\ main' \in {"updating", "start"}
         \/ main = "updating" /\ main' = "start"
         \/ main = "start" /\ main' = "serve"
         \/ Serve /\ main = "serve" /\ main' = "serving"
         \/ Return /\ main = "serving" /\ main' = "return"
<1> USE DEF GoOn
<1>1. CASE NewPlugin
  BY <1>1 DEF NewPlugin
<1>2. CASE InitDeviceManager
  BY <1>2 DEF InitDeviceManager
<1>3. CASE Register \/ InitComponents \/ EndPreRun \/ EndSetup
  <2>1. CASE Register \/ InitComponents
    BY <2>1 DEF Register, InitComponents
  <2>2. CASE EndPreRun \/ EndSetup
    BY <2>2 DEF EndPreRun, EndSetup
  <2> QED
    BY <1>3, <2>1, <2>2
<1>4. CASE StartHealth \/ StartComponents \/ Serve \/ Return \/ UpdateStep
  BY <1>4 DEF StartHealth, StartComponents, Serve, Return, UpdateStep
<1>5. CASE \/ PrintVersion \/ ExecPreRun \/ EndDryRun \/ ExecSetupAction \/ EndMain \/ Notify \/ ExecPostRun \/ Exit
           \/ BeginAdd \/ AddLateAlias \/ StoreLate \/ CacheLateTag \/ ConcurrentMapAccess \/ Tick
           \/ \E check \in DOMAIN healthy : RunCheck(check) \/ Change(check)
           \/ \E signal \in {"SIGTERM", "SIGINT"} : Signal(signal)
  BY <1>5 DEF PrintVersion, ExecPreRun, EndDryRun, ExecSetupAction, EndMain, Notify, ExecPostRun, Exit,
       BeginAdd, AddLateAlias, StoreLate, CacheLateTag, Add, ConcurrentMapAccess, Tick, RunCheck, Change, Signal
<1> QED
  BY <1>1, <1>2, <1>3, <1>4, <1>5 DEF Step

\* Who ends the process.
LEMMA StepEnds ==
  ASSUME Step, process = "up"
  PROVE  /\ process' = "returned" => EndMain
         /\ process' \in {"exit 0", "exit 1"} => Exit \/ EndDryRun \/ PrintVersion
<1> USE DEF End, GoOn
<1>1. CASE NewPlugin \/ InitDeviceManager
  BY <1>1 DEF NewPlugin, InitDeviceManager
<1>2. CASE \/ Register \/ InitComponents \/ ExecPreRun \/ EndPreRun \/ ExecSetupAction \/ EndSetup
           \/ StartHealth \/ StartComponents \/ Serve \/ Return \/ UpdateStep \/ EndMain \/ Notify \/ ExecPostRun
  BY <1>2 DEF Register, InitComponents, ExecPreRun, EndPreRun, ExecSetupAction, EndSetup, StartHealth, StartComponents,
       Serve, Return, UpdateStep, EndMain, Notify, ExecPostRun
<1>3. CASE \/ BeginAdd \/ AddLateAlias \/ StoreLate \/ CacheLateTag \/ ConcurrentMapAccess \/ Tick
           \/ \E check \in DOMAIN healthy : RunCheck(check) \/ Change(check)
           \/ \E signal \in {"SIGTERM", "SIGINT"} : Signal(signal)
  BY <1>3 DEF BeginAdd, AddLateAlias, StoreLate, CacheLateTag, Add, ConcurrentMapAccess, Tick, RunCheck, Change, Signal
<1>4. CASE PrintVersion \/ EndDryRun \/ Exit
  BY <1>4 DEF PrintVersion, EndDryRun, Exit
<1> QED
  BY <1>1, <1>2, <1>3, <1>4 DEF Step

-----------------------------------------------------------------------------
(* The steps that execute an action, and those that register some.         *)

LEMMA PreRunStep ==
  ASSUME Inv, ExecPreRun
  PROVE  LET action == preRun[done.count["preRun"] + 1] IN
         /\ main = "preRun" /\ done.count["preRun"] + 1 \in 1 .. Len(preRun)
         /\ action.fails \in BOOLEAN /\ action.adds \in Seq(PostRunActions)
         /\ done' = Collect("preRun", action.fails, {})
         /\ postRun' = postRun \o action.adds /\ preRun' = preRun
<1>1. done.count["preRun"] \in Nat /\ preRun \in Seq(PreRunActions)
  BY DEF Inv, ActionTypes, Kinds
<1>2. main = "preRun" /\ done.count["preRun"] + 1 \in 1 .. Len(preRun)
  BY <1>1 DEF ExecPreRun
<1>3. preRun[done.count["preRun"] + 1] \in PreRunActions
  BY <1>1, <1>2
<1> QED
  BY <1>2, <1>3 DEF ExecPreRun, PreRunActions

LEMMA PostRunStep ==
  ASSUME Inv, ExecPostRun
  PROVE  LET action == postRun[done.count["postRun"] + 1] IN
         /\ quit = "received" /\ done.count["postRun"] + 1 \in 1 .. Len(postRun)
         /\ PostRunFails(action) \in BOOLEAN
         /\ done' = Collect("postRun", PostRunFails(action), {})
         /\ server' = IF action = CleanupServer THEN "stopped" ELSE server
<1>1. done.count["postRun"] \in Nat /\ postRun \in Seq(PostRunActions)
  BY DEF Inv, ActionTypes, Kinds
<1>2. quit = "received" /\ done.count["postRun"] + 1 \in 1 .. Len(postRun)
  BY <1>1 DEF ExecPostRun
<1>3. postRun[done.count["postRun"] + 1] \in PostRunActions
  BY <1>1, <1>2
<1>4. PostRunFails(postRun[done.count["postRun"] + 1]) \in BOOLEAN
  BY <1>3 DEF PostRunFails, PostRunActions
<1> QED
  BY <1>2, <1>4 DEF ExecPostRun

LEMMA SetupStep ==
  ASSUME Inv, ExecSetupAction
  PROVE  LET action == setup.setupActions[done.count["setup"] + 1] IN
         /\ main = "setup" /\ done.count["setup"] + 1 \in 1 .. Len(setup.setupActions)
         /\ SetupFails(load.manager, action) \in BOOLEAN
         /\ \/ done' = done
            \/ done' = Collect("setup", SetupFails(load.manager, action), SetupCalls(load.manager, action))
<1>1. done.count["setup"] \in Nat /\ setup.setupActions \in Seq(SetupActions)
  BY ActionsHaveTypes DEF Inv, ActionTypes, Kinds
<1>2. main = "setup" /\ done.count["setup"] + 1 \in 1 .. Len(setup.setupActions)
  BY <1>1 DEF ExecSetupAction
<1>3. SetupFails(load.manager, setup.setupActions[done.count["setup"] + 1]) \in BOOLEAN
  BY DEF SetupFails
<1> QED
  BY <1>2, <1>3 DEF ExecSetupAction

\* Before the actions of the components are registered none was executed.
LEMMA RegisterStep ==
  ASSUME Inv, Register \/ InitComponents
  PROVE  /\ done' = done
         /\ done.count["preRun"] = 0 /\ done.count["postRun"] = 0
         /\ \/ UNCHANGED <<preRun, postRun>>
            \/ main = "register" /\ main' = "init" /\ preRun' = setup.preRun /\ postRun' = setup.postRun
            \/ /\ main = "components" /\ main' = "preRun"
               /\ preRun' = preRun \o <<StateAction, SchedulerAction>> /\ postRun' = postRun \o ComponentActions
<1>1. quit = "none" /\ main \in {"register", "components"}
  BY DEF Inv, QuitOrder, Listening, Register, InitComponents
<1>2. done.count["preRun"] = 0 /\ done.count["postRun"] = 0
  BY <1>1 DEF Inv, QuitOrder, MainOrder, Listening
<1>3. CASE Register
  BY <1>2, <1>3 DEF Register, GoOn
<1>4. CASE InitComponents
  BY <1>2, <1>4 DEF InitComponents, GoOn
<1> QED
  BY <1>3, <1>4

LEMMA ActionTypesStep == ASSUME Inv, Step PROVE ActionTypes'
<1>1. ActionTypes
  BY DEF Inv
<1>2. setup' = setup
  BY StepKeeps
<1>3. CASE Register \/ InitComponents
  <2>1. preRun \in Seq(PreRunActions) /\ postRun \in Seq(PostRunActions)
    BY <1>1 DEF ActionTypes
  <2>2. preRun' \in Seq(PreRunActions) /\ postRun' \in Seq(PostRunActions)
    <3>1. /\ preRun \o <<StateAction, SchedulerAction>> \in Seq(PreRunActions)
          /\ postRun \o ComponentActions \in Seq(PostRunActions)
      BY <2>1, ActionsHaveTypes, ConcatProperties
    <3> QED
      BY <1>3, <2>1, <3>1, RegisterStep, ActionsHaveTypes
  <2> QED
    BY <1>1, <1>2, <1>3, <2>2, RegisterStep DEF ActionTypes
<1>4. CASE ExecPreRun
  <2> DEFINE action == preRun[done.count["preRun"] + 1]
  <2>1. /\ done.count["preRun"] + 1 \in 1 .. Len(preRun)
        /\ action.fails \in BOOLEAN /\ action.adds \in Seq(PostRunActions)
        /\ done' = Collect("preRun", action.fails, {})
        /\ postRun' = postRun \o action.adds /\ preRun' = preRun
    BY <1>4, PreRunStep
  <2> HIDE DEF action
  <2>2. postRun' \in Seq(PostRunActions) /\ Len(postRun') >= Len(postRun)
    BY <1>1, <2>1, ConcatProperties DEF ActionTypes
  <2>3. /\ done' = [count |-> done'.count, failed |-> done'.failed, calls |-> done'.calls]
        /\ done'.count \in [Kinds -> Nat] /\ done'.failed \in [Kinds -> BOOLEAN]
        /\ done'.count["preRun"] = done.count["preRun"] + 1
        /\ done'.count["setup"] = done.count["setup"]
        /\ done'.count["postRun"] = done.count["postRun"]
    <3>1. "preRun" \in Kinds /\ {"setup", "postRun"} \subseteq Kinds \ {"preRun"}
      BY DEF Kinds
    <3> QED
      BY <1>1, <2>1, <3>1, CollectCounts
  <2>4. /\ preRun' \in Seq(PreRunActions) /\ postRun' \in Seq(PostRunActions)
        /\ Len(preRun') = Len(preRun) /\ Len(postRun') >= Len(postRun)
        /\ Len(preRun) \in Nat /\ Len(postRun) \in Nat /\ Len(postRun') \in Nat
    BY <1>1, <2>1, <2>2 DEF ActionTypes
  <2>5. /\ done.count \in [Kinds -> Nat] /\ done.count["preRun"] + 1 <= Len(preRun)
        /\ done.count["postRun"] <= Len(postRun) /\ done.count["setup"] <= Len(setup.setupActions)
    BY <1>1, <2>1 DEF ActionTypes
  <2>6. /\ done.count["preRun"] \in Nat /\ done.count["postRun"] \in Nat /\ done.count["setup"] \in Nat
    BY <2>5 DEF Kinds
  <2>7. /\ done'.count["preRun"] <= Len(preRun') /\ done'.count["postRun"] <= Len(postRun')
        /\ done'.count["setup"] <= Len(setup'.setupActions)
    BY <1>2, <2>3, <2>4, <2>5, <2>6
  <2> QED
    BY <2>3, <2>4, <2>7 DEF ActionTypes
<1>5. CASE ExecPostRun
  <2> DEFINE action == postRun[done.count["postRun"] + 1]
  <2>1. UNCHANGED <<preRun, postRun>>
    BY <1>5 DEF ExecPostRun
  <2>2. /\ done.count["postRun"] + 1 \in 1 .. Len(postRun)
        /\ PostRunFails(action) \in BOOLEAN /\ done' = Collect("postRun", PostRunFails(action), {})
    BY <1>5, PostRunStep
  <2> HIDE DEF action
  <2>3. /\ done' = [count |-> done'.count, failed |-> done'.failed, calls |-> done'.calls]
        /\ done'.count \in [Kinds -> Nat] /\ done'.failed \in [Kinds -> BOOLEAN]
        /\ done'.count["postRun"] = done.count["postRun"] + 1
        /\ done'.count["preRun"] = done.count["preRun"]
        /\ done'.count["setup"] = done.count["setup"]
    <3>1. "postRun" \in Kinds /\ {"preRun", "setup"} \subseteq Kinds \ {"postRun"}
      BY DEF Kinds
    <3> QED
      BY <1>1, <2>2, <3>1, CollectCounts
  <2>4. /\ preRun' \in Seq(PreRunActions) /\ postRun' \in Seq(PostRunActions)
        /\ Len(preRun') = Len(preRun) /\ Len(postRun') >= Len(postRun)
        /\ Len(preRun) \in Nat /\ Len(postRun) \in Nat /\ Len(postRun') \in Nat
    BY <1>1, <2>1, <2>2 DEF ActionTypes
  <2>5. /\ done.count \in [Kinds -> Nat] /\ done.count["postRun"] + 1 <= Len(postRun)
        /\ done.count["preRun"] <= Len(preRun) /\ done.count["setup"] <= Len(setup.setupActions)
    BY <1>1, <2>2 DEF ActionTypes
  <2>6. /\ done.count["preRun"] \in Nat /\ done.count["postRun"] \in Nat /\ done.count["setup"] \in Nat
    BY <2>5 DEF Kinds
  <2>7. /\ done'.count["preRun"] <= Len(preRun') /\ done'.count["postRun"] <= Len(postRun')
        /\ done'.count["setup"] <= Len(setup'.setupActions)
    BY <1>2, <2>3, <2>4, <2>5, <2>6
  <2> QED
    BY <2>3, <2>4, <2>7 DEF ActionTypes
<1>6. CASE ExecSetupAction
  <2>1. UNCHANGED <<preRun, postRun>>
    BY <1>6 DEF ExecSetupAction
  <2> QED
    BY <1>1, <1>2, <1>6, <2>1, SetupStep, CollectCounts DEF ActionTypes, Kinds
<1>7. CASE UNCHANGED <<preRun, postRun, done>>
  BY <1>1, <1>2, <1>7 DEF ActionTypes
<1> QED
  BY <1>3, <1>4, <1>5, <1>6, <1>7, StepKeeps

\* What was executed when is known, whatever else is registered afterwards.
LEMMA PostRunKept ==
  ASSUME Inv, Step
  PROVE  \/ main \in {"construct", "register"} \cup Starting
         \/ /\ postRun' \in Seq(PostRunActions) /\ Len(postRun) <= Len(postRun')
            /\ \A i \in 1 .. Len(postRun) : postRun'[i] = postRun[i]
<1>1. postRun \in Seq(PostRunActions)
  BY DEF Inv, ActionTypes
<1>2. CASE ExecPreRun
  <2> DEFINE action == preRun[done.count["preRun"] + 1]
  <2>1. action.adds \in Seq(PostRunActions) /\ postRun' = postRun \o action.adds
    BY <1>2, PreRunStep
  <2> HIDE DEF action
  <2> QED
    BY <1>1, <2>1, ConcatProperties
<1>3. CASE Register \/ InitComponents
  BY <1>3 DEF Register, InitComponents, Starting
<1> QED
  BY <1>1, <1>2, <1>3, StepKeeps

LEMMA RegisteredStep == ASSUME Inv, Step PROVE Registered'
<1>1. setup' = setup /\ Registered
  BY StepKeeps DEF Inv
<1>2. /\ setup.postRun \in Seq(PostRunActions) /\ ComponentActions \in Seq(PostRunActions)
      /\ preRun \in Seq(PreRunActions) /\ postRun \in Seq(PostRunActions)
  BY ActionsHaveTypes DEF Inv, ActionTypes
<1>3. CASE Register
  BY <1>1, <1>3 DEF Register, GoOn, Registered, Starting
<1>4. CASE InitComponents /\ main' # main
  <2>1. /\ main = "components" /\ main' = "preRun"
        /\ postRun' = postRun \o ComponentActions
    BY <1>4 DEF InitComponents, GoOn
  <2>2. postRun = setup.postRun
    BY <1>1, <2>1 DEF Registered, Starting
  <2>3. /\ Len(postRun') = Len(setup.postRun) + 2
        /\ \A i \in 1 .. Len(setup.postRun) : postRun'[i] = setup.postRun[i]
        /\ postRun'[Len(setup.postRun) + 1] = StopScheduler
        /\ postRun'[Len(setup.postRun) + 2] = CleanupServer
    BY <1>2, <2>1, <2>2 DEF ComponentActions
  <2> QED
    BY <1>1, <2>1, <2>3 DEF Registered, Starting
<1>5. CASE main \in {"construct", "register"} \cup Starting /\ ~Register /\ ~(InitComponents /\ main' # main)
  <2>1. UNCHANGED <<preRun, postRun>>
    BY <1>5, StepKeeps DEF InitComponents, ExecPreRun, Starting, GoOn
  <2>2. \/ main' = main
        \/ main = "construct" /\ main' = "register"
        \/ main = "init" /\ main' \in {"blocked", "components"}
    <3>1. main \in {"construct", "register", "init", "blocked", "components"}
      BY <1>5 DEF Starting
    <3>2. ~Register /\ ~(InitComponents /\ main' # main)
      BY <1>5
    <3> QED
      BY <3>1, <3>2, MainMoves
  <2> QED
    BY <1>1, <2>1, <2>2 DEF Registered, Starting
<1>6. CASE main \notin {"construct", "register"} \cup Starting
  <2>1. main' \notin {"construct", "register"} \cup Starting
    BY <1>6, MainMoves DEF Starting
  <2>2. /\ Len(postRun) <= Len(postRun') /\ Len(postRun) \in Nat /\ Len(postRun') \in Nat
        /\ \A i \in 1 .. Len(postRun) : postRun'[i] = postRun[i]
    BY <1>2, <1>6, PostRunKept
  <2>3. Len(setup.postRun) \in Nat
    BY <1>2
  <2>4. /\ Len(setup.postRun) + 2 <= Len(postRun)
        /\ \A i \in 1 .. Len(setup.postRun) : postRun[i] = setup.postRun[i]
        /\ postRun[Len(setup.postRun) + 1] = StopScheduler /\ postRun[Len(setup.postRun) + 2] = CleanupServer
    BY <1>1, <1>6 DEF Registered
  <2>5. /\ Len(setup.postRun) + 2 <= Len(postRun')
        /\ \A i \in 1 .. Len(setup.postRun) : postRun'[i] = setup.postRun[i]
        /\ postRun'[Len(setup.postRun) + 1] = StopScheduler /\ postRun'[Len(setup.postRun) + 2] = CleanupServer
    <3>1. Len(setup.postRun) + 1 \in 1 .. Len(postRun) /\ Len(setup.postRun) + 2 \in 1 .. Len(postRun)
          /\ 1 .. Len(setup.postRun) \subseteq 1 .. Len(postRun)
      BY <2>2, <2>3, <2>4
    <3>2. \A i \in 1 .. Len(setup.postRun) : postRun'[i] = setup.postRun[i]
      BY <2>2, <2>4, <3>1
    <3>3. postRun'[Len(setup.postRun) + 1] = StopScheduler /\ postRun'[Len(setup.postRun) + 2] = CleanupServer
      BY <2>2, <2>4, <3>1
    <3> QED
      BY <2>2, <2>3, <2>4, <3>2, <3>3
  <2> QED
    BY <1>1, <2>1, <2>5 DEF Registered
<1> QED
  BY <1>3, <1>4, <1>5, <1>6

\* Once an action was executed after the run, the configuration stays.
LEMMA ConfigKept == ASSUME Inv, Step, done.count["postRun"] # 0 PROVE UNCHANGED <<config, setup>>
<1>1. main # "construct"
  BY DEF Inv, QuitOrder, Listening
<1>2. setup' = setup
  BY StepKeeps
<1>3. ~NewPlugin
  BY <1>1 DEF NewPlugin
<1>4. config' = config
  BY <1>3 DEF Step, InitDeviceManager, PrintVersion, Register, InitComponents, ExecPreRun, EndPreRun,
       EndDryRun, ExecSetupAction, EndSetup, StartHealth, StartComponents, Serve, Return, EndMain, Notify, ExecPostRun, Exit,
       BeginAdd, AddLateAlias, StoreLate, CacheLateTag, Add, ConcurrentMapAccess, Tick, UpdateStep, RunCheck, Change, Signal,
       healthVars, lifecycleVars
<1> QED
  BY <1>2, <1>4

LEMMA FailureKnownStep == ASSUME Inv, Step PROVE FailureKnown'
<1>1. ActionTypes /\ FailureKnown
  BY DEF Inv
<1>2. CASE Register \/ InitComponents
  BY <1>1, <1>2, RegisterStep DEF FailureKnown
<1>3. CASE ExecPreRun
  <2> DEFINE action == preRun[done.count["preRun"] + 1]
  <2>1. /\ action.fails \in BOOLEAN /\ done' = Collect("preRun", action.fails, {}) /\ preRun' = preRun
        /\ main = "preRun"
    BY <1>3, PreRunStep
  <2>2. done.count["postRun"] = 0
    BY <2>1 DEF Inv, QuitOrder, Listening
  <2>3. /\ done'.count["preRun"] = done.count["preRun"] + 1 /\ done'.count["postRun"] = 0
        /\ done'.failed["preRun"] <=> done.failed["preRun"] \/ action.fails
        /\ done'.failed["postRun"] <=> done.failed["postRun"]
    BY <1>1, <2>1, <2>2, CollectCounts DEF Kinds
  <2>4. done.count["preRun"] \in Nat
    BY <1>1 DEF ActionTypes, Kinds
  <2>5. (\E i \in 1 .. done'.count["preRun"] : preRun[i].fails)
          <=> (\E i \in 1 .. done.count["preRun"] : preRun[i].fails) \/ action.fails
    BY <2>3, <2>4
  <2>6. done'.failed["preRun"] <=> \E i \in 1 .. done'.count["preRun"] : preRun'[i].fails
    BY <1>1, <2>1, <2>3, <2>5 DEF FailureKnown
  <2>7. ~done'.failed["postRun"]
    BY <1>1, <2>2, <2>3 DEF FailureKnown
  <2> QED
    BY <2>3, <2>6, <2>7 DEF FailureKnown
<1>4. CASE ExecPostRun
  <2> DEFINE action == postRun[done.count["postRun"] + 1]
  <2>1. /\ PostRunFails(action) \in BOOLEAN /\ done' = Collect("postRun", PostRunFails(action), {})
        /\ UNCHANGED <<preRun, postRun, config, setup>>
    BY <1>4, PostRunStep DEF ExecPostRun
  <2>2. /\ done'.count["postRun"] = done.count["postRun"] + 1 /\ done'.count["preRun"] = done.count["preRun"]
        /\ done'.failed["postRun"] <=> done.failed["postRun"] \/ PostRunFails(action)
        /\ done'.failed["preRun"] <=> done.failed["preRun"]
    BY <1>1, <2>1, CollectCounts DEF Kinds
  <2>3. done.count["postRun"] \in Nat
    BY <1>1 DEF ActionTypes, Kinds
  <2>4. (\E i \in 1 .. done'.count["postRun"] : PostRunFails(postRun[i]))
          <=> (\E i \in 1 .. done.count["postRun"] : PostRunFails(postRun[i])) \/ PostRunFails(action)
    <3> HIDE DEF PostRunFails
    <3> QED
      BY <2>2, <2>3
  <2>5. \A i : PostRunFails(postRun[i])' <=> PostRunFails(postRun[i])
    BY <2>1 DEF PostRunFails, CleanupFails, Setting
  <2> QED
    BY <1>1, <2>1, <2>2, <2>4, <2>5 DEF FailureKnown
<1>5. CASE ExecSetupAction
  <2>1. UNCHANGED <<preRun, postRun>>
    BY <1>5 DEF ExecSetupAction
  <2>2. \A k \in {"preRun", "postRun"} : done'.count[k] = done.count[k] /\ (done'.failed[k] <=> done.failed[k])
    BY <1>1, <1>5, SetupStep, CollectCounts DEF Kinds
  <2>3. \A i : PostRunFails(postRun[i])' <=> PostRunFails(postRun[i])
    BY <1>5, <2>1 DEF ExecSetupAction, PostRunFails, CleanupFails, Setting
  <2> QED
    BY <1>1, <2>1, <2>2, <2>3 DEF FailureKnown
<1>6. CASE UNCHANGED <<preRun, postRun, done>>
  <2>1. CASE done.count["postRun"] = 0
    BY <1>1, <1>6, <2>1 DEF FailureKnown
  <2>2. CASE done.count["postRun"] # 0
    <3>1. \A i : PostRunFails(postRun[i])' <=> PostRunFails(postRun[i])
      BY <1>6, <2>2, ConfigKept DEF PostRunFails, CleanupFails, Setting
    <3> QED
      BY <1>1, <1>6, <3>1 DEF FailureKnown
  <2> QED
    BY <2>1, <2>2
<1> QED
  BY <1>2, <1>3, <1>4, <1>5, <1>6, StepKeeps

-----------------------------------------------------------------------------
(* The order of what is done.                                              *)

\* Actions are executed one by one, each kind at its place.
LEMMA CountsGrow ==
  ASSUME Inv, Step
  PROVE  /\ \A k \in Kinds : done.count[k] \in Nat /\ done'.count[k] \in Nat /\ done.count[k] <= done'.count[k]
         /\ main # "preRun" => done'.count["preRun"] = done.count["preRun"] /\ (done'.failed["preRun"] <=> done.failed["preRun"])
         /\ main # "setup" => done'.count["setup"] = done.count["setup"] /\ (done'.failed["setup"] <=> done.failed["setup"])
         /\ ~ExecPostRun => done'.count["postRun"] = done.count["postRun"] /\ (done'.failed["postRun"] <=> done.failed["postRun"])
<1>1. ActionTypes /\ \A k \in Kinds : done.count[k] \in Nat
  BY DEF Inv, ActionTypes
<1>2. CASE ExecPreRun
  <2> DEFINE action == preRun[done.count["preRun"] + 1]
  <2>1. action.fails \in BOOLEAN /\ done' = Collect("preRun", action.fails, {}) /\ main = "preRun"
    BY <1>2, PreRunStep
  <2> HIDE DEF action
  <2> QED
    BY <1>1, <2>1, CollectCounts DEF Kinds
<1>3. CASE ExecSetupAction
  BY <1>1, <1>3, SetupStep, CollectCounts DEF Kinds
<1>4. CASE ExecPostRun
  <2> DEFINE action == postRun[done.count["postRun"] + 1]
  <2>1. PostRunFails(action) \in BOOLEAN /\ done' = Collect("postRun", PostRunFails(action), {})
    BY <1>4, PostRunStep
  <2> HIDE DEF action
  <2> QED
    BY <1>1, <1>4, <2>1, CollectCounts DEF Kinds
<1>5. CASE done' = done
  BY <1>1, <1>5
<1> QED
  BY <1>2, <1>3, <1>4, <1>5, StepKeeps

LEMMA ServerOrderStep == ASSUME Inv, Step, process = "up" PROVE ServerOrder'
<1>1. ServerOrder /\ setup' = setup
  BY StepKeeps DEF Inv
<1>2. Len(setup.postRun) \in Nat /\ done.count["postRun"] \in Nat /\ done'.count["postRun"] \in Nat
      /\ done.count["postRun"] <= done'.count["postRun"]
  BY ActionsHaveTypes, CountsGrow DEF Kinds
<1>3. main' \in {"construct", "register"} \cup Starting => main \in {"construct", "register"} \cup Starting
  BY MainMoves DEF Starting
<1>4. process' = "returned" => main = "return"
  BY StepEnds DEF EndMain
<1>5. CASE InitComponents
  BY <1>1, <1>2, <1>4, <1>5 DEF InitComponents, GoOn, ServerOrder, Starting
<1>6. CASE Serve
  BY <1>1, <1>2, <1>4, <1>6 DEF Serve, GoOn, ServerOrder, Starting
<1>7. CASE ExecPostRun
  <2> DEFINE next == done.count["postRun"] + 1
  <2>1. /\ quit = "received" /\ next \in 1 .. Len(postRun)
        /\ server' = IF postRun[next] = CleanupServer THEN "stopped" ELSE server
        /\ main' = main
    BY <1>7, PostRunStep DEF ExecPostRun
  <2>2. main \in Listening
    BY <2>1 DEF Inv, QuitOrder
  <2>3. done'.count["postRun"] = next
    BY <1>7, PostRunStep, CollectCounts DEF Inv, Kinds
  <2>4. postRun[next] = CleanupServer => Len(setup.postRun) + 2 <= next
    <3>1. /\ \A i \in 1 .. Len(setup.postRun) : postRun[i] # CleanupServer
          /\ postRun[Len(setup.postRun) + 1] # CleanupServer
      <4>1. StopScheduler # CleanupServer
        BY DEF StopScheduler, CleanupServer
      <4>2. main \notin {"construct", "register"} \cup Starting
        BY <2>2 DEF Listening, Starting
      <4>3. /\ \A i \in 1 .. Len(setup.postRun) : postRun[i] = setup.postRun[i]
            /\ postRun[Len(setup.postRun) + 1] = StopScheduler
        BY <4>2 DEF Inv, Registered
      <4> QED
        BY <4>1, <4>3, ActionsHaveTypes
    <3> QED
      BY <1>2, <2>1, <3>1
  <2> QED
    BY <1>1, <1>2, <1>4, <2>1, <2>2, <2>3, <2>4 DEF ServerOrder, Listening, Starting
<1>8. CASE server' = server
  <2>1. main' = "return" => server = "stopped"
    BY <1>1, MainMoves DEF Return, ServerOrder
  <2>2. server = "serving" => main' = "serving"
    BY <1>1, MainMoves DEF Return, ServerOrder
  <2>3. process' = "returned" => server = "stopped"
    BY <1>1, <1>4 DEF ServerOrder
  <2> QED
    BY <1>1, <1>2, <1>3, <1>8, <2>1, <2>2, <2>3 DEF ServerOrder
<1> QED
  BY <1>5, <1>6, <1>7, <1>8, StepKeeps

LEMMA QuitOrderStep == ASSUME Inv, Step, process = "up" PROVE QuitOrder'
<1>1. QuitOrder
  BY DEF Inv
<1>2. main \in Listening => main' \in Listening
  BY MainMoves DEF Listening
<1>3. quit' # "none" => main' \in Listening
  <2>1. CASE EndPreRun
    BY <1>1, <1>2, <2>1 DEF EndPreRun, GoOn, QuitOrder, Listening
  <2>2. CASE Notify \/ \E signal \in {"SIGTERM", "SIGINT"} : Signal(signal)
    BY <1>1, <1>2, <2>2 DEF Notify, Signal, QuitOrder
  <2>3. CASE quit' = quit
    BY <1>1, <1>2, <2>3 DEF QuitOrder
  <2> QED
    BY <2>1, <2>2, <2>3, StepKeeps
<1>4. quit = "received" => quit' = "received"
  <2>1. CASE EndPreRun
    BY <1>1, <2>1 DEF EndPreRun, QuitOrder, Listening
  <2>2. CASE Notify \/ \E signal \in {"SIGTERM", "SIGINT"} : Signal(signal)
    BY <2>2 DEF Notify, Signal
  <2> QED
    BY <2>1, <2>2, StepKeeps
<1>5. quit' # "received" => done'.count["postRun"] = 0
  <2>1. quit # "received" => ~ExecPostRun
    BY DEF ExecPostRun
  <2> QED
    BY <1>1, <1>4, <2>1, CountsGrow DEF QuitOrder
<1>6. ASSUME process' \in {"exit 0", "exit 1"}, quit' = "received", main' # "dry-run"
      PROVE  done'.count["postRun"] = Len(postRun') /\ (process' = "exit 1" <=> done'.failed["postRun"])
  <2>1. CASE Exit
    BY <2>1 DEF Exit, End
  <2>2. CASE EndDryRun
    BY <1>6, <2>2 DEF EndDryRun
  <2>3. CASE PrintVersion
    BY <1>1, <1>6, <2>3 DEF PrintVersion, QuitOrder, Listening
  <2> QED
    BY <1>6, <2>1, <2>2, <2>3, StepEnds
<1> QED
  BY <1>3, <1>5, <1>6 DEF QuitOrder

LEMMA MainOrderStep == ASSUME Inv, Step PROVE MainOrder'
<1>1. MainOrder /\ setup' = setup
  BY StepKeeps DEF Inv
<1>2. main' \notin Listening \cup {"preRun"} => done'.count["preRun"] = 0
  <2>1. main = "preRun" => main' \in Listening \cup {"preRun"}
    BY MainMoves DEF Listening
  <2>2. main \in Listening => main' \in Listening
    BY MainMoves DEF Listening
  <2> QED
    BY <1>1, <2>1, <2>2, CountsGrow DEF MainOrder
<1>3. ASSUME main' \in Listening PROVE done'.count["preRun"] = Len(preRun') /\ ~done'.failed["preRun"]
  <2>1. CASE main \in Listening
    <3>1. main \notin {"register", "components", "preRun"}
      BY <2>1 DEF Listening
    <3>2. preRun' = preRun
      BY <3>1, StepKeeps DEF Register, InitComponents, ExecPreRun
    <3> QED
      BY <1>1, <2>1, <3>1, <3>2, CountsGrow DEF MainOrder
  <2>2. CASE main \notin Listening
    <3>1. EndPreRun /\ main' # main
      BY <1>3, <2>2, MainMoves DEF Listening
    <3> QED
      BY <3>1 DEF EndPreRun, GoOn
  <2> QED
    BY <2>1, <2>2
<1>4. main' \notin Listening \ {"dry-run"} => done'.count["setup"] = 0
  <2>1. main = "setup" => main' \in Listening \ {"dry-run"}
    BY MainMoves DEF Listening
  <2>2. main \in Listening \ {"dry-run"} => main' \in Listening \ {"dry-run"}
    BY MainMoves DEF Listening
  <2> QED
    BY <1>1, <2>1, <2>2, CountsGrow DEF MainOrder
<1>5. ASSUME main' \in Listening \ {"dry-run", "setup"}
      PROVE  done'.count["setup"] = Len(setup.setupActions) /\ ~done'.failed["setup"]
  <2>1. CASE main \in Listening \ {"dry-run", "setup"}
    BY <1>1, <2>1, CountsGrow DEF MainOrder
  <2>2. CASE main \notin Listening \ {"dry-run", "setup"}
    <3>1. EndSetup /\ main' # main
      BY <1>5, <2>2, MainMoves DEF Listening
    <3> QED
      BY <3>1 DEF EndSetup, GoOn
  <2> QED
    BY <2>1, <2>2
<1> QED
  BY <1>1, <1>2, <1>3, <1>4, <1>5 DEF MainOrder

-----------------------------------------------------------------------------
(* Device setup actions.                                                   *)

\* A device that is added late is the only new one.
LEMMA DevicesKept ==
  ASSUME Inv, Step
  PROVE  \/ done.count["setup"] = 0 /\ done'.count["setup"] = 0
         \/ /\ adder.at \notin {"none", "refused"} => adder'.at \notin {"none", "refused"}
            /\ \A id \in DOMAIN Devices' :
                 \/ id \in DOMAIN Devices /\ Devices'[id] = Devices[id]
                 \/ adder'.at \notin {"none", "refused"} /\ id = GenerateDeviceID(Late)
<1>1. CASE Register \/ InitDeviceManager
  <2>1. main \in {"register", "init"}
    BY <1>1 DEF Register, InitDeviceManager
  <2> QED
    BY <2>1, CountsGrow DEF Inv, MainOrder, Listening
<1>2. CASE BeginAdd
  <2>1. adder.at = "none" /\ load'.manager = load.manager
    BY <1>2, AddMoves DEF BeginAdd
  <2> QED
    BY <2>1 DEF Devices
<1>3. CASE AddLateAlias
  <2>1. adder'.at = "store" /\ load'.manager = AddAlias(load.manager, Late)
    BY <1>3, AddMoves DEF AddLateAlias
  <2>2. Devices' = Devices
    BY <2>1 DEF Devices, AddAlias, Manager
  <2> QED
    BY <2>1, <2>2
<1>4. CASE StoreLate
  <2>1. adder'.at = "tags" /\ load'.manager = StoreDevice(load.manager, Late)
    BY <1>4, AddMoves DEF StoreLate
  <2>2. \A id \in DOMAIN Devices' :
          \/ id = GenerateDeviceID(Late)
          \/ id \in DOMAIN Devices /\ Devices'[id] = Devices[id]
    BY <2>1 DEF Devices, StoreDevice, Manager, Put
  <2> QED
    BY <2>1, <2>2
<1>5. CASE CacheLateTag
  <2>1. CASE adder.left = << >>
    <3>1. adder'.at = "done" /\ load'.manager = load.manager
      BY <1>5, <2>1, AddMoves DEF CacheLateTag
    <3> QED
      BY <3>1 DEF Devices
  <2>2. CASE adder.left # << >>
    <3>1. adder'.at = "tags" /\ load'.manager = CacheTag(load.manager, Head(adder.left), Late)
      BY <1>5, <2>2, AddMoves DEF CacheLateTag
    <3>2. Devices' = Devices
      BY <3>1 DEF Devices, CacheTag, Manager
    <3> QED
      BY <3>1, <3>2
  <2> QED
    BY <2>1, <2>2
<1>6. CASE UNCHANGED <<load, adder>>
  BY <1>6 DEF Devices
<1> QED
  BY <1>1, <1>2, <1>3, <1>4, <1>5, <1>6, StepKeeps

\* What an action that does not fail has done.
LEMMA SetupApplies ==
  ASSUME NEW manager, NEW action, NEW id \in DOMAIN manager.devices, NEW k \in DOMAIN action.filter.patterns,
         ~SetupFails(manager, action), action.filter.patterns[k] \in {"*", manager.devices[id].type}
  PROVE  /\ [action |-> action.name, device |-> id] \in SetupCalls(manager, action)
         /\ manager.devices[id].type \notin action.fails
<1>1. action.filter.key = "type"
  BY DEF SetupFails
<1>2. action.filter.patterns[k] \in ToSet(action.filter.patterns)
  BY DEF ToSet
<1>3. id \in FilterDevices(manager, action.filter)
  BY <1>2 DEF FilterDevices
<1>4. [action |-> action.name, device |-> id] \in SetupCalls(manager, action)
  BY <1>1, <1>3 DEF SetupCalls
<1> QED
  BY <1>4 DEF SetupFails

LEMMA SetupKept ==
  ASSUME Inv, ExecPreRun \/ ExecPostRun
  PROVE  /\ done'.count["setup"] = done.count["setup"] /\ (done'.failed["setup"] <=> done.failed["setup"])
         /\ done'.calls = done.calls
<1>1. ASSUME NEW kind \in {"preRun", "postRun"}, NEW fails \in BOOLEAN, done' = Collect(kind, fails, {})
      PROVE  /\ done'.count["setup"] = done.count["setup"] /\ (done'.failed["setup"] <=> done.failed["setup"])
             /\ done'.calls = done.calls
  <2>1. ActionTypes /\ kind \in Kinds /\ "setup" \in Kinds \ {kind}
    BY DEF Inv, Kinds
  <2>2. done'.calls = done.calls \cup {}
    BY <1>1, <2>1, CollectCounts
  <2>3. done'.calls = done.calls
    BY <2>2
  <2> QED
    BY <1>1, <2>1, <2>3, CollectCounts
<1>2. \/ \E fails \in BOOLEAN : done' = Collect("preRun", fails, {})
      \/ \E fails \in BOOLEAN : done' = Collect("postRun", fails, {})
  BY PreRunStep, PostRunStep
<1> QED
  BY <1>1, <1>2

LEMMA SetupOrderStep == ASSUME Inv, Step PROVE SetupOrder'
<1>1. SetupOrder /\ setup' = setup
  BY StepKeeps DEF Inv
<1>2. CASE ExecSetupAction /\ done' # done
  <2> DEFINE action == setup.setupActions[done.count["setup"] + 1]
  <2>1. done' = Collect("setup", SetupFails(load.manager, action), SetupCalls(load.manager, action))
        /\ SetupFails(load.manager, action) \in BOOLEAN
    BY <1>2, SetupStep
  <2>2. UNCHANGED <<load, adder>>
    BY <1>2 DEF ExecSetupAction
  <2> HIDE DEF action
  <2>3. /\ done'.calls = done.calls \cup SetupCalls(load.manager, action)
        /\ done'.count["setup"] = done.count["setup"] + 1
        /\ done'.failed["setup"] <=> done.failed["setup"] \/ SetupFails(load.manager, action)
    BY <2>1, CollectCounts DEF Inv, Kinds
  <2> SUFFICES ASSUME ~done'.failed["setup"], NEW i \in 1 .. done'.count["setup"], NEW id \in DOMAIN Devices
               PROVE  Applied(setup.setupActions[i], id)'
    BY <1>1, <2>2 DEF SetupOrder, Devices
  <2>4. CASE i \in 1 .. done.count["setup"]
    <3>1. Applied(setup.setupActions[i], id)
      BY <1>1, <2>3, <2>4 DEF SetupOrder
    <3> QED
      BY <1>1, <2>2, <2>3, <3>1 DEF Applied, Devices, Late
  <2>5. CASE i = done.count["setup"] + 1
    <3>1. ~SetupFails(load.manager, action)
      BY <2>3
    <3>2. action.filter.key = "type"
      BY <3>1 DEF SetupFails
    <3>3. ASSUME NEW k \in DOMAIN action.filter.patterns, action.filter.patterns[k] \in {"*", Devices[id].type}
          PROVE  [action |-> action.name, device |-> id] \in done'.calls /\ Devices[id].type \notin action.fails
      BY <2>3, <3>1, <3>3, SetupApplies DEF Devices
    <3>4. setup'.setupActions[i] = action
      BY <1>1, <2>5 DEF action
    <3>5. Devices' = Devices
      BY <2>2 DEF Devices
    <3>6. PICK applied : applied = action
      OBVIOUS
    <3>7. applied.filter.key = "type" /\ setup'.setupActions[i] = applied
      BY <3>2, <3>4, <3>6
    <3>8. \A k \in DOMAIN applied.filter.patterns : applied.filter.patterns[k] \in {"*", Devices'[id].type} =>
            [action |-> applied.name, device |-> id] \in done'.calls /\ Devices'[id].type \notin applied.fails
      BY <3>3, <3>5, <3>6
    <3> QED
      BY <3>7, <3>8 DEF Applied
  <2>6. done.count["setup"] \in Nat
    BY DEF Inv, ActionTypes, Kinds
  <2> QED
    BY <2>3, <2>4, <2>5, <2>6
<1>3. CASE ~(ExecSetupAction /\ done' # done)
  <2>1. done'.count["setup"] = done.count["setup"] /\ (done'.failed["setup"] <=> done.failed["setup"])
    <3>1. CASE done' = done
      BY <3>1
    <3>2. CASE ExecPreRun \/ ExecPostRun
      BY <3>2, SetupKept
    <3> QED
      BY <1>3, <3>1, <3>2, StepKeeps
  <2>2. done.calls \subseteq done'.calls
    BY <1>3, StepKeeps, SetupKept
  <2> SUFFICES ASSUME ~done'.failed["setup"], NEW i \in 1 .. done'.count["setup"], NEW id \in DOMAIN Devices'
               PROVE  Applied(setup.setupActions[i], id)'
    BY <1>1 DEF SetupOrder
  <2>3. done'.count["setup"] # 0
    BY CountsGrow DEF Kinds
  <2>4. CASE id \in DOMAIN Devices /\ Devices'[id] = Devices[id]
    <3>1. Applied(setup.setupActions[i], id)
      BY <1>1, <2>1, <2>4 DEF SetupOrder
    <3> QED
      BY <1>1, <2>1, <2>2, <2>3, <2>4, <3>1, DevicesKept DEF Applied, Late
  <2>5. CASE adder'.at \notin {"none", "refused"} /\ id = GenerateDeviceID(Late)
    BY <1>1, <2>5 DEF Applied, Late
  <2> QED
    BY <2>1, <2>3, <2>4, <2>5, DevicesKept
<1> QED
  BY <1>2, <1>3

-----------------------------------------------------------------------------
(* The invariant.                                                          *)

LEMMA InvInit == Init => Inv
<1> SUFFICES ASSUME Init PROVE Inv
  OBVIOUS
<1>1. setup \in Setups /\ setup.leftover \in BOOLEAN /\ setup.signals \in Nat
      /\ setup.setupActions \in Seq(SetupActions)
  BY SetupsAssumption DEF Init
<1>2. HealthTypes
  BY <1>1, FlipsAssumption DEF Init, HealthInit, HealthTypes, Idle
<1>3. ControlTypes
  BY <1>1 DEF Init, ControlTypes, Places, Ends
<1>4. /\ done = [count |-> done.count, failed |-> done.failed, calls |-> done.calls]
      /\ \A kind \in Kinds : done.count[kind] = 0 /\ done.failed[kind] = FALSE
      /\ done.count \in [Kinds -> Nat] /\ done.failed \in [Kinds -> BOOLEAN]
  BY DEF Init
<1>5. ActionTypes
  BY <1>1, <1>4 DEF Init, ActionTypes, Kinds
<1>6. Registered /\ FailureKnown /\ ServerOrder /\ QuitOrder /\ MainOrder /\ SetupOrder
  BY <1>4 DEF Init, Kinds, Registered, FailureKnown, ServerOrder, QuitOrder, MainOrder, SetupOrder, Starting, Listening
<1> QED
  BY <1>2, <1>3, <1>5, <1>6 DEF Inv

LEMMA InvNext == Inv /\ [Next]_vars => Inv'
<1> SUFFICES ASSUME Inv, [Next]_vars PROVE Inv'
  OBVIOUS
<1>1. CASE Next
  <2>1. Step /\ process = "up"
    BY <1>1, NextIsStep
  <2> QED
    BY <2>1, HealthTypesStep, ControlTypesStep, ActionTypesStep, RegisteredStep, FailureKnownStep, ServerOrderStep,
       QuitOrderStep, MainOrderStep, SetupOrderStep DEF Inv
<1>2. CASE UNCHANGED vars
  <2>1. HealthTypes' /\ ControlTypes'
    BY <1>2 DEF Inv, HealthTypes, ControlTypes
  <2>2. ActionTypes' /\ Registered' /\ FailureKnown'
    BY <1>2 DEF Inv, ActionTypes, Registered, FailureKnown, PostRunFails, CleanupFails, Setting
  <2>3. ServerOrder' /\ QuitOrder' /\ MainOrder'
    BY <1>2 DEF Inv, ServerOrder, QuitOrder, MainOrder
  <2>4. SetupOrder'
    <3>1. UNCHANGED <<setup, load, done, adder>>
      BY <1>2
    <3>2. \A action, id : Applied(action, id)' <=> Applied(action, id)
      BY <3>1 DEF Applied, Devices, Late
    <3>3. Devices' = Devices
      BY <3>1 DEF Devices
    <3> QED
      BY <3>1, <3>2, <3>3 DEF Inv, SetupOrder
  <2> QED
    BY <2>1, <2>2, <2>3, <2>4 DEF Inv
<1> QED
  BY <1>1, <1>2

LEMMA Invariance == Spec => []Inv
BY InvInit, InvNext, PTL DEF Spec

-----------------------------------------------------------------------------
(* The theorems.                                                           *)

\* Every variable has its type, for every setup of a plugin: no goroutine is at a place, the
\* process has no end, and no more actions are counted, than the code has.
THEOREM TypeCorrect == Spec => []TypeOK
<1>1. Inv => TypeOK
  <2> SUFFICES ASSUME Inv PROVE TypeOK
    OBVIOUS
  <2>1. /\ done.count["preRun"] \in 0 .. Len(preRun) /\ done.count["postRun"] \in 0 .. Len(postRun)
        /\ done.count["setup"] \in 0 .. Len(setup.setupActions)
    BY ActionsHaveTypes DEF Inv, ActionTypes, Kinds
  <2>2. preRun \in Seq(PreRunActions) /\ postRun \in Seq(PostRunActions) /\ done.failed \in [Kinds -> BOOLEAN]
    BY DEF Inv, ActionTypes
  <2> QED
    BY <2>1, <2>2 DEF Inv, HealthTypes, ControlTypes, TypeOK
<1> QED
  BY <1>1, Invariance, PTL

\* A plugin of any setup that serves has executed all its pre-run actions, and applied its
\* device setup actions to all the devices it started with, without an error, whatever was
\* interleaved with that.
THEOREM ServesReady == Spec => []ServedReady
<1>1. Inv => ServedReady
  <2> SUFFICES ASSUME Inv, server = "serving" PROVE ServedReady
    BY DEF ServedReady
  <2>1. main = "serving" /\ main \in Listening \ {"dry-run", "setup"}
    BY DEF Inv, ServerOrder, Listening
  <2>2. done.count["preRun"] = Len(preRun) /\ ~done.failed["preRun"]
    BY <2>1 DEF Inv, MainOrder
  <2>3. done.count["setup"] = Len(setup.setupActions) /\ ~done.failed["setup"]
    BY <2>1 DEF Inv, MainOrder
  <2>4. DOMAIN preRun = 1 .. Len(preRun) /\ DOMAIN setup.setupActions = 1 .. Len(setup.setupActions)
    BY ActionsHaveTypes DEF Inv, ActionTypes
  <2>5. \A i \in DOMAIN preRun : ~preRun[i].fails
    BY <2>2, <2>4 DEF Inv, FailureKnown
  <2>6. \A i \in DOMAIN setup.setupActions, id \in DOMAIN Devices : Applied(setup.setupActions[i], id)
    BY <2>3, <2>4 DEF Inv, SetupOrder
  <2> QED
    BY <2>2, <2>5, <2>6 DEF ServedReady, Applied
<1> QED
  BY <1>1, Invariance, PTL

\* A plugin of any setup whose server has stopped has executed the post-run actions it
\* registered before Run, and the scheduler's; and one that exits after a signal has executed
\* them all, and its code tells whether one has failed.
THEOREM PostRunFirst == Spec => []PostRunBeforeStop
<1>1. Inv => PostRunBeforeStop
  <2> SUFFICES ASSUME Inv PROVE PostRunBeforeStop
    OBVIOUS
  <2> DEFINE executed == {postRun[i] : i \in 1 .. done.count["postRun"]}
  <2>1. /\ setup.postRun \in Seq(PostRunActions) /\ postRun \in Seq(PostRunActions)
        /\ done.count["postRun"] \in Nat /\ done.count["postRun"] <= Len(postRun)
    BY ActionsHaveTypes DEF Inv, ActionTypes, Kinds
  <2>2. server = "stopped" => ToSet(setup.postRun) \cup {StopScheduler} \subseteq executed
    <3> SUFFICES ASSUME server = "stopped" PROVE ToSet(setup.postRun) \cup {StopScheduler} \subseteq executed
      OBVIOUS
    <3>1. main \notin {"construct", "register"} \cup Starting /\ Len(setup.postRun) + 2 <= done.count["postRun"]
      BY DEF Inv, ServerOrder
    <3>2. /\ \A i \in 1 .. Len(setup.postRun) : postRun[i] = setup.postRun[i]
          /\ postRun[Len(setup.postRun) + 1] = StopScheduler
      BY <3>1 DEF Inv, Registered
    <3>3. ToSet(setup.postRun) = {setup.postRun[i] : i \in 1 .. Len(setup.postRun)}
      BY <2>1 DEF ToSet
    <3>4. \A i \in 1 .. Len(setup.postRun) + 1 : i \in 1 .. done.count["postRun"]
      BY <2>1, <3>1
    <3> QED
      BY <2>1, <3>2, <3>3, <3>4
  <2>3. process = "returned" => server = "stopped"
    BY DEF Inv, ServerOrder
  <2>4. ASSUME quit = "received", process \in {"exit 0", "exit 1"}, main # "dry-run"
        PROVE  executed = ToSet(postRun) /\ (process = "exit 1") = (\E action \in executed : PostRunFails(action))
    <3>1. done.count["postRun"] = Len(postRun) /\ (process = "exit 1" <=> done.failed["postRun"])
      BY <2>4 DEF Inv, QuitOrder
    <3>2. executed = ToSet(postRun)
      <4>1. DOMAIN postRun = 1 .. Len(postRun)
        BY <2>1
      <4>2. \A i : i \in DOMAIN postRun <=> i \in 1 .. done.count["postRun"]
        BY <3>1, <4>1
      <4> QED
        BY <4>2 DEF ToSet
    <3>3. done.failed["postRun"] <=> \E action \in executed : PostRunFails(action)
      BY DEF Inv, FailureKnown
    <3> QED
      BY <3>1, <3>2, <3>3
  <2> QED
    BY <2>2, <2>3, <2>4 DEF PostRunBeforeStop
<1> QED
  BY <1>1, Invariance, PTL
=============================================================================
