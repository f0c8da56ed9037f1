------------------------------- MODULE Plugin -------------------------------
(***************************************************************************)
(* A plugin from its construction to the end of its process: the main      *)
(* goroutine (NewPlugin, registration, Run), the goroutine that waits for  *)
(* a signal, the health checks and file, and a goroutine of the plugin     *)
(* that adds a device while it runs.  What differs from plugin to plugin,  *)
(* with its files and environment, is its setup.                           *)
(***************************************************************************)
EXTENDS DeviceManager, Health, ConfigLoader

CONSTANTS
  Setups,
  ActionNames     \* of the plugin's actions, and those of the framework

\* Actions are records too: a pre-run action may register post-run actions.
PostRunActions == [name : ActionNames, fails : BOOLEAN]
PreRunActions == [name : ActionNames, fails : BOOLEAN, adds : Seq(PostRunActions)]
SetupActions == [name : ActionNames, filter : [key : STRING, patterns : Seq(STRING)], fails : SUBSET STRING]

StateAction == [name |-> "Register default state manager health checks", fails |-> FALSE, adds |-> << >>]
SchedulerAction == [name |-> "Register default scheduler health checks", fails |-> FALSE, adds |-> << >>]
StopScheduler == [name |-> "Stop scheduler", fails |-> FALSE]
CleanupServer == [name |-> "Cleanup gRPC Server", fails |-> FALSE]

ASSUME NamesAssumption ==
  {StateAction.name, SchedulerAction.name, StopScheduler.name, CleanupServer.name} \subseteq ActionNames

ASSUME SetupsAssumption ==
  \A s \in Setups :
    /\ s.preRun \in Seq(PreRunActions) /\ s.postRun \in Seq(PostRunActions \ {CleanupServer})
    /\ s.setupActions \in Seq(SetupActions)
    /\ s.signals \in Nat /\ s.leftover \in BOOLEAN

-----------------------------------------------------------------------------
(* The shape of what files and registrars give.                            *)

\* What a configured device is, of itself: an instance c.instance of a prototype c.proto.
Own(c, field) == IF c.instance[field] # Absent THEN c.instance[field]
                 ELSE IF c.instance.inherit THEN c.proto[field] ELSE Absent
Values(c, field) == Over(c.instance[field], IF c.instance.inherit THEN c.proto[field] ELSE Empty)
Strings(c) == ToSet(c.instance.tags) \cup (IF c.instance.inherit THEN ToSet(c.proto.tags) ELSE {})
Transforms(c) == (IF c.instance.inherit THEN c.proto.transforms ELSE << >>) \o c.instance.transforms
HandlerOf(c) == IF Own(c, "handler") = Absent THEN Own(c, "type") ELSE Own(c, "handler")
IdFor(c) == GenerateDeviceID([type |-> Own(c, "type"), handler |-> HandlerOf(c), data |-> Values(c, "data")])

IsList(s) == s \in Seq(ToSet(s))
IsStrings(strings) == IsList(strings) /\ \A string \in ToSet(strings) : IsTag(string.tag)
IsTags(tags) == IsList(tags) /\ \A tag \in ToSet(tags) : IsTag(tag)

\* An id is a UUID, and no label that stands for all.
IsDevice(device) ==
  /\ {"type", "handler", "data", "tags", "alias"} \subseteq DOMAIN device
  /\ IsTags(device.tags)
  /\ GenerateDeviceID(device) # TagLabelAll

IsInstance(proto, instance) ==
  /\ IsStrings(instance.tags) /\ IsList(instance.transforms)
  /\ IdFor([proto |-> proto, instance |-> instance]) # TagLabelAll

IsProto(proto) ==
  /\ IsStrings(proto.tags) /\ IsList(proto.transforms) /\ IsList(proto.instances)
  /\ \A instance \in ToSet(proto.instances) : IsInstance(proto, instance)

\* A value of a field in a file.
Fits(s, field, value) ==
  /\ field \in ListFields => IsList(value)
  /\ field = "devices" => \A proto \in ToSet(value) : IsProto(proto)
  /\ field = "dynamicRegistration.config" => ToSet(value) \subseteq DOMAIN s.protos \cap DOMAIN s.devices

Paths == {".", "./config", "/etc/synse/plugin/config", "./config/device", "/etc/synse/plugin/config/device"}

\* A variable of the environment is a string: one for a list of maps, which the scan
\* refuses, is left out.
ASSUME FilesAssumption ==
  \A s \in Setups :
    /\ Paths \cup {target.path : target \in {t \in ToSet(s.world.targets) : t.kind \in {"dir", "file"}}}
         \subseteq DOMAIN s.world.files
    /\ \A path \in DOMAIN s.world.files :
         /\ IsList(s.world.files[path])
         /\ \A f \in ToSet(s.world.files[path]) : \A key \in DOMAIN f.content :
              key.field # NotSet /\ Fits(s, key.field, f.content[key])
    /\ IsList(s.world.env) /\ \A v \in ToSet(s.world.env) : v.field \notin {"devices", "dynamicRegistration.config"}

ASSUME DevicesAssumption ==
  \A s \in Setups :
    /\ \A i \in DOMAIN s.protos :
         IsList(s.protos[i].list) /\ \A proto \in ToSet(s.protos[i].list) : IsProto(proto)
    /\ \A i \in DOMAIN s.devices :
         IsList(s.devices[i].list) /\ \A device \in ToSet(s.devices[i].list) : IsDevice(device)
    /\ IsList(s.late) /\ \A device \in ToSet(s.late) : IsDevice(device)
    /\ \A selector \in s.selectors : IsTags(selector.tags)

-----------------------------------------------------------------------------
VARIABLES
  setup,
  main,         \* where the main goroutine is
  process,      \* "up", or how it has ended
  config,       \* the fields of the plugin's configuration that are set
  load,         \* the device manager, its parser of tags, and whether that blocked or failed
  preRun, postRun,     \* the actions registered
  done,         \* how many actions of each kind were executed, whether one failed, and
                \* the calls of device setup actions
  server,       \* "none", "initialized", "serving" or "stopped"
  quit,         \* where the goroutine that waits for a signal is
  signals,      \* how many signals were sent
  adder         \* where the goroutine that adds a device is, and the tags it has to cache

lifecycleVars == <<setup, main, process, config, load, preRun, postRun, done, server, quit, signals, adder>>
vars == <<lifecycleVars, healthVars>>

PluginLoader == [paths |-> <<".", "./config", "/etc/synse/plugin/config">>, stem |-> "config", ext |-> NotSet,
                 override |-> "PLUGIN_CONFIG", prefix |-> "PLUGIN"]
DeviceLoader == [paths |-> <<"./config/device", "/etc/synse/plugin/config/device">>, stem |-> NotSet, ext |-> NotSet,
                 override |-> "PLUGIN_DEVICE_CONFIG", prefix |-> NotSet]

Kinds == {"preRun", "setup", "postRun"}
Setting(field, default) == IF field \in DOMAIN config THEN config[field] ELSE default
HealthFile == Setting("health.healthFile", "/etc/synse/plugin/healthy")

\* The checks that the actions of the state manager and the scheduler add.
DefaultChecks == {"read queue health", "write queue health"}

Init ==
  /\ setup \in Setups
  /\ main = "construct" /\ process = "up"
  /\ config = Empty
  /\ load = [manager |-> NewManager({}), parser |-> NewParser, blocked |-> FALSE, failed |-> FALSE]
  /\ preRun = << >> /\ postRun = << >>
  /\ done = [count |-> [kind \in Kinds |-> 0], failed |-> [kind \in Kinds |-> FALSE], calls |-> {}]
  /\ server = "none" /\ quit = "none" /\ signals = 0
  /\ adder = [at |-> "none", left |-> << >>]
  /\ HealthInit(DefaultChecks \cup ToSet(setup.checks), setup.failing, setup.leftover)

\* The process ends: Run or what comes before it returns to the plugin's own main, a
\* goroutine exits or panics, or a signal kills it.
End(how) == process' = how

\* The main goroutine's step goes on to the next place, unless there is an error.
GoOn(error, next) ==
  IF error THEN End("error") /\ UNCHANGED main ELSE main' = next /\ UNCHANGED process

-----------------------------------------------------------------------------
(* NewPlugin and registration.                                             *)

\* newPluginID: a namespace is made of the plugin's tag, the machine's id, variables that
\* must be set, and custom components, and must not be empty.  Without configuration it
\* has no settings.
IdError(fields) ==
  LET Value(field, default) == IF field \in DOMAIN fields THEN fields[field] ELSE default
      machine == Value("id.useMachineID", "false") = "true"
      useEnv == Value("id.useEnv", << >>)
  IN
  \/ fields = Empty
  \/ machine /\ ~setup.machineId
  \/ ~(ToSet(useEnv) \subseteq setup.variables)
  \/ /\ Value("id.usePluginTag", "true") = "false" /\ ~machine
     /\ useEnv = << >> /\ Value("id.useCustom", << >>) = << >>

NewPlugin ==
  LET loaded == Load(PluginLoader, setup.world, setup.policies.plugin) IN
  /\ main = "construct" /\ "version" \notin setup.flags
  /\ IF ~setup.named \/ ~loaded.ok \/ ScanError(loaded.merged, setup.policies.plugin)
     THEN End("error") /\ UNCHANGED <<main, config>>
     ELSE \E fields \in Scans(loaded.merged) : config' = fields /\ GoOn(IdError(fields), "register")
  /\ UNCHANGED <<setup, load, preRun, postRun, done, server, quit, signals, adder, healthVars>>

PrintVersion ==
  /\ main = "construct" /\ "version" \in setup.flags
  /\ End("exit 0")
  /\ UNCHANGED <<setup, main, config, load, preRun, postRun, done, server, quit, signals, adder, healthVars>>

\* Names of handlers and outputs must be new, checks must have names of their own, and
\* device setup actions a filter.
RegistrationError ==
  \/ ~IsInjective(setup.handlers) \/ ~IsInjective(setup.outputs)
  \/ ~IsInjective(setup.checks) \/ Absent \in ToSet(setup.checks)
  \/ \E action \in ToSet(setup.setupActions) : action.filter.key = Absent

Register ==
  /\ main = "register"
  /\ GoOn(RegistrationError, "init")
  /\ IF RegistrationError THEN UNCHANGED <<load, preRun, postRun>>
     ELSE /\ load' = [load EXCEPT !.manager = NewManager(ToSet(setup.handlers))]
          /\ preRun' = setup.preRun /\ postRun' = setup.postRun
  /\ UNCHANGED <<setup, config, done, server, quit, signals, adder, healthVars>>

-----------------------------------------------------------------------------
(* Run: initialize.                                                        *)

\* What the device manager asks the plugin for; its registrars, once for each entry of a
\* setting.
DevicePlugin ==
  LET entries == Setting("dynamicRegistration.config", << >>) IN
  [handlers |-> ToSet(setup.handlers), outputs |-> ToSet(setup.outputs), functions |-> setup.functions,
   refuses |-> setup.refuses,
   protos |-> [i \in DOMAIN entries |-> setup.protos[entries[i]]],
   devices |-> [i \in DOMAIN entries |-> setup.devices[entries[i]]]]

DeviceConfig == Load(DeviceLoader, setup.world, setup.policies.device)
ProtosOf(merged) == IF Leaf("devices", "lower") \in DOMAIN merged THEN merged[Leaf("devices", "lower")] ELSE << >>

InitDeviceManager ==
  LET inited == InitDevices(load, ProtosOf(DeviceConfig.merged), DevicePlugin, setup.policies.dynamic) IN
  /\ main = "init"
  /\ IF ~DeviceConfig.ok \/ ScanError(DeviceConfig.merged, setup.policies.device)
     THEN GoOn(TRUE, "components") /\ UNCHANGED load
     ELSE load' = inited /\ GoOn(inited.failed /\ ~inited.blocked, IF inited.blocked THEN "blocked" ELSE "components")
  /\ UNCHANGED <<setup, config, preRun, postRun, done, server, quit, signals, adder, healthVars>>

\* server.init and health.Init: the network's type, certificates that can be loaded, and
\* directories that can be made.
TLSError ==
  LET cert == Setting("network.tls.cert", Absent)
      key == Setting("network.tls.key", Absent)
  IN  /\ cert # Absent \/ key # Absent
      /\ ~(({cert, key} \cup ToSet(Setting("network.tls.caCerts", << >>))) \subseteq setup.certificates)

ComponentsError ==
  \/ Setting("network.type", Absent) \notin {"unix", "tcp"}
  \/ Setting("network.type", Absent) = "unix" /\ "/tmp/synse" \in setup.forbidden
  \/ TLSError
  \/ HealthFile \in setup.forbidden

\* The actions of the state manager, the scheduler and the server come after those of
\* the plugin, in this order.
ComponentActions_ServerFirst == <<CleanupServer, StopScheduler>>     \* faulty
ComponentActions == <<StopScheduler, CleanupServer>>

InitComponents ==
  /\ main = "components"
  /\ GoOn(ComponentsError, "preRun")
  /\ IF ComponentsError THEN UNCHANGED <<server, preRun, postRun>>
     ELSE /\ server' = "initialized"
          /\ preRun' = preRun \o <<StateAction, SchedulerAction>>
          /\ postRun' = postRun \o ComponentActions
  /\ UNCHANGED <<setup, config, load, done, quit, signals, adder, healthVars>>

-----------------------------------------------------------------------------
(* Run: pre-run actions, and device setup actions.                         *)

\* An error is collected, and the other actions are executed all the same.
Executed(kind, count, failed, calls) ==
  [count |-> [done.count EXCEPT ![kind] = @ + count], failed |-> [done.failed EXCEPT ![kind] = failed],
   calls |-> done.calls \cup calls]
Collect_Twice(kind, fails, calls) == Executed(kind, 2, done.failed[kind] \/ fails, calls)     \* faulty
Collect_Last(kind, fails, calls) == Executed(kind, 1, fails, calls)     \* faulty
Collect(kind, fails, calls) == Executed(kind, 1, done.failed[kind] \/ fails, calls)

ExecPreRun ==
  LET action == preRun[done.count["preRun"] + 1] IN
  /\ main = "preRun" /\ done.count["preRun"] < Len(preRun)
  /\ done' = Collect("preRun", action.fails, {})
  /\ postRun' = postRun \o action.adds
  /\ UNCHANGED <<setup, main, process, config, load, preRun, server, quit, signals, adder, healthVars>>

\* The goroutine that waits for a signal starts before a dry run ends.
EndPreRun ==
  /\ main = "preRun" /\ done.count["preRun"] = Len(preRun)
  /\ GoOn(done.failed["preRun"], IF "dry-run" \in setup.flags THEN "dry-run" ELSE "setup")
  /\ quit' = IF done.failed["preRun"] THEN quit ELSE "start"
  /\ UNCHANGED <<setup, config, load, preRun, postRun, done, server, signals, adder, healthVars>>

EndDryRun ==
  /\ main = "dry-run"
  /\ End("exit 0")
  /\ UNCHANGED <<setup, main, config, load, preRun, postRun, done, server, quit, signals, adder, healthVars>>

ExecSetupAction ==
  LET action == setup.setupActions[done.count["setup"] + 1] IN
  /\ main = "setup" /\ done.count["setup"] < Len(setup.setupActions)
  /\ IF SetupPanics(load.manager, action) THEN End("panic") /\ UNCHANGED done
     ELSE /\ done' = Collect("setup", SetupFails(load.manager, action), SetupCalls(load.manager, action))
          /\ UNCHANGED process
  /\ UNCHANGED <<setup, main, config, load, preRun, postRun, server, quit, signals, adder, healthVars>>

EndSetup ==
  /\ main = "setup" /\ done.count["setup"] = Len(setup.setupActions)
  /\ GoOn(done.failed["setup"], "health")
  /\ UNCHANGED <<setup, config, load, preRun, postRun, done, server, quit, signals, adder, healthVars>>

-----------------------------------------------------------------------------
(* Run: start, and return.                                                 *)

Ticking == main \in {"updating", "start", "serve", "serving", "return"}
Running == main \in {"serve", "serving", "return"}

\* Status: the default checks count unless they are disabled.
Counted ==
  ToSet(setup.checks)
    \cup (IF Setting("health.checks.disableDefaults", "false") = "true" THEN {} ELSE DefaultChecks)

StartHealth ==
  /\ main = "health"
  /\ IF HealthFile = Absent THEN main' = "start" /\ UNCHANGED healthVars
     ELSE main' = "updating" /\ BeginUpdate(Counted)
  /\ UNCHANGED <<setup, process, config, load, preRun, postRun, done, server, quit, signals, adder>>

\* state.Start and scheduler.Start: what they start is in the modules of their own.
StartComponents ==
  /\ main = "start"
  /\ main' = "serve"
  /\ UNCHANGED <<setup, process, config, load, preRun, postRun, done, server, quit, signals, adder, healthVars>>

\* server.start: the listener may fail, and so does a server that was stopped before.
Serve ==
  LET error == ~setup.listens \/ server # "initialized" IN
  /\ main = "serve"
  /\ GoOn(error, "serving")
  /\ server' = IF error THEN server ELSE "serving"
  /\ UNCHANGED <<setup, config, load, preRun, postRun, done, quit, signals, adder, healthVars>>

Return ==
  /\ main = "serving" /\ server = "stopped"
  /\ main' = "return"
  /\ UNCHANGED <<setup, process, config, load, preRun, postRun, done, server, quit, signals, adder, healthVars>>

EndMain ==
  /\ main = "return"
  /\ End("returned")
  /\ UNCHANGED <<setup, main, config, load, preRun, postRun, done, server, quit, signals, adder, healthVars>>

-----------------------------------------------------------------------------
(* onQuitSignal.                                                           *)

\* A signal kills the process before it is asked for; afterwards it is received by who
\* waits for it, and dropped when nobody does: the channel has no room.
Notify ==
  /\ quit \in {"start", "term", "both"}
  /\ quit' = CASE quit = "start" -> "term" [] quit = "term" -> "both" [] quit = "both" -> "waiting"
  /\ UNCHANGED <<setup, main, process, config, load, preRun, postRun, done, server, signals, adder, healthVars>>

Asked(signal) == quit \notin {"none", "start"} /\ (signal = "SIGINT" => quit # "term")

Signal(signal) ==
  /\ signals < setup.signals
  /\ signals' = signals + 1
  /\ IF Asked(signal) THEN UNCHANGED process ELSE End("killed")
  /\ quit' = IF quit = "waiting" THEN "received" ELSE quit
  /\ UNCHANGED <<setup, main, config, load, preRun, postRun, done, server, adder, healthVars>>

\* teardown: there is a socket to remove for the network of that type, and it may stay.
CleanupFails == Setting("network.type", Absent) = "unix" /\ "socket" \in setup.forbidden
PostRunFails(action) == action.fails \/ (action = CleanupServer /\ CleanupFails)

ExecPostRun ==
  LET action == postRun[done.count["postRun"] + 1] IN
  /\ quit = "received" /\ done.count["postRun"] < Len(postRun)
  /\ done' = Collect("postRun", PostRunFails(action), {})
  /\ server' = IF action = CleanupServer THEN "stopped" ELSE server
  /\ UNCHANGED <<setup, main, process, config, load, preRun, postRun, quit, signals, adder, healthVars>>

Exit ==
  /\ quit = "received" /\ done.count["postRun"] = Len(postRun)
  /\ End(IF done.failed["postRun"] THEN "exit 1" ELSE "exit 0")
  /\ UNCHANGED <<setup, main, config, load, preRun, postRun, done, server, quit, signals, adder, healthVars>>

-----------------------------------------------------------------------------
(* A goroutine of the plugin calls AddDevice, beside all that reads the    *)
(* same maps without a lock.                                               *)

Late == setup.late[1]

Add(step, manager, left) ==
  /\ load' = [manager |-> manager, parser |-> load.parser, blocked |-> load.blocked, failed |-> load.failed]
  /\ adder' = [at |-> step, left |-> left]
  /\ UNCHANGED <<setup, main, process, config, preRun, postRun, done, server, quit, signals, healthVars>>

BeginAdd ==
  /\ adder.at = "none" /\ setup.late # << >> /\ quit # "none"
  /\ Add(IF Refused(load.manager, Late, DevicePlugin) THEN "refused" ELSE "alias", load.manager, << >>)

AddLateAlias ==
  /\ adder.at = "alias"
  /\ Add("store", AddAlias(load.manager, Late), << >>)

StoreLate ==
  /\ adder.at = "store"
  /\ Add("tags", StoreDevice(load.manager, Late), Tagged(Late).tags)

CacheLateTag ==
  /\ adder.at = "tags"
  /\ IF adder.left = << >> THEN Add("done", load.manager, << >>)
     ELSE Add("tags", CacheTag(load.manager, Head(adder.left), Late), Tail(adder.left))

\* A map that is written while it is read ends the process, if the runtime notices.
ConcurrentMapAccess ==
  /\ adder.at \in {"alias", "store", "tags"} /\ (server = "serving" \/ main = "setup")
  /\ End("fatal error")
  /\ UNCHANGED <<setup, main, config, load, preRun, postRun, done, server, quit, signals, adder, healthVars>>

-----------------------------------------------------------------------------
(* Health.                                                                 *)

Tick ==
  /\ Running /\ HealthFile # Absent
  /\ BeginUpdate(Counted)
  /\ UNCHANGED lifecycleVars

UpdateStep ==
  /\ Stat \/ (\E check \in update.left : ReadStatus(check)) \/ WriteFile
  /\ main' = IF main = "updating" /\ update'.at = "idle" THEN "start" ELSE main
  /\ UNCHANGED <<setup, process, config, load, preRun, postRun, done, server, quit, signals, adder>>

RunCheck(check) ==
  /\ Ticking /\ setup.ticks
  /\ Check(check) \/ Store(check)
  /\ UNCHANGED lifecycleVars

Change(check) ==
  /\ Ticking /\ setup.ticks
  /\ Flip(check)
  /\ UNCHANGED lifecycleVars

-----------------------------------------------------------------------------
LoadFiles == process = "up" /\ (NewPlugin \/ InitDeviceManager)
Main ==
  /\ process = "up"
  /\ \/ PrintVersion \/ Register \/ InitComponents
     \/ ExecPreRun \/ EndPreRun \/ EndDryRun \/ ExecSetupAction \/ EndSetup
     \/ StartHealth \/ StartComponents \/ Serve \/ Return \/ EndMain

OnQuitSignal == process = "up" /\ (Notify \/ ExecPostRun \/ Exit)
Adder == process = "up" /\ (BeginAdd \/ AddLateAlias \/ StoreLate \/ CacheLateTag)
UpdateHealthFile == process = "up" /\ (Tick \/ UpdateStep)
CheckRuns(check) == process = "up" /\ RunCheck(check)

Next ==
  \/ LoadFiles \/ Main \/ OnQuitSignal \/ Adder \/ UpdateHealthFile
  \/ \E check \in DOMAIN healthy : CheckRuns(check)
  \/ process = "up" /\ ConcurrentMapAccess
  \/ process = "up" /\ \E signal \in {"SIGTERM", "SIGINT"} : Signal(signal)
  \/ process = "up" /\ \E check \in DOMAIN healthy : Change(check)

Spec == Init /\ [][Next]_vars

\* Every goroutine goes on when it can, and tickers tick.  What loads files can always, and
\* is done once: that it is fair means that the main goroutine leaves its place.
FairSpec ==
  /\ Spec
  /\ []<>(main \notin {"construct", "init"} \/ process # "up")
  /\ WF_vars(Main) /\ WF_vars(OnQuitSignal) /\ WF_vars(Adder) /\ WF_vars(UpdateHealthFile)
  /\ \A check \in DefaultChecks \cup UNION {ToSet(s.checks) : s \in Setups} :
       WF_vars(check \in DOMAIN healthy /\ CheckRuns(check))

-----------------------------------------------------------------------------
(* Properties.                                                             *)

Places == {"construct", "register", "init", "blocked", "components", "preRun", "dry-run", "setup", "health",
           "updating", "start", "serve", "serving", "return"}
Ends == {"up", "error", "exit 0", "exit 1", "returned", "killed", "panic", "fatal error"}

\* Every variable has its type, and no place and no end are reached but those of the code.
TypeOK ==
  /\ setup \in Setups
  /\ main \in Places /\ process \in Ends
  /\ preRun \in Seq(PreRunActions) /\ postRun \in Seq(PostRunActions)
  /\ done.count["preRun"] \in 0 .. Len(preRun) /\ done.count["postRun"] \in 0 .. Len(postRun)
  /\ done.count["setup"] \in 0 .. Len(setup.setupActions)
  /\ done.failed \in [Kinds -> BOOLEAN]
  /\ server \in {"none", "initialized", "serving", "stopped"}
  /\ quit \in {"none", "start", "term", "both", "waiting", "received"}
  /\ signals \in 0 .. setup.signals
  /\ adder.at \in {"none", "refused", "alias", "store", "tags", "done"}
  /\ status \in [DOMAIN healthy -> BOOLEAN] /\ found \in [DOMAIN healthy -> {"none", "ok", "error"}]
  /\ update.at \in {"idle", "status", "write"} /\ update.left \subseteq DOMAIN healthy
  /\ file \in BOOLEAN /\ flips \in 0 .. MaxFlips

Devices == load.manager.devices
TagsOf(id) == ToSet(Devices[id].tags)

\* What a device answers to one tag of a selector: its own tags, any of a namespace, or
\* any of a namespace and annotation.
Answers(id, tag) ==
  \E own \in TagsOf(id) :
    /\ own.label # TagLabelAll /\ own.namespace = tag.namespace
    /\ \/ own = tag
       \/ tag.label = TagLabelAll /\ tag.annotation \in {Absent, own.annotation}

\* A request selects exactly the devices it names: the one of the id, or else of the
\* alias; those that answer to every tag; or all.  It names one twice at most when the
\* first of its tags is all labels of an annotation.
SelectionExact ==
  server = "serving" /\ adder.at \in {"none", "refused", "done"} =>
    \A selector \in setup.selectors :
      LET devices == GetDevices(load.manager, selector) IN
      /\ ToSet(devices) =
           {id \in DOMAIN Devices :
              IF selector.id # Absent
              THEN \/ id = selector.id
                   \/ selector.id \notin DOMAIN Devices /\ Devices[id].alias = selector.id
              ELSE \A tag \in ToSet(selector.tags) : Answers(id, tag)}
      /\ IsInjective(devices) \/ (selector.tags[1].label = TagLabelAll /\ selector.tags[1].annotation # Absent)

\* The three indexes agree at every step of an AddDevice: what a tag finds is found by
\* its id, and by its alias, neither of which another device has; and once a device is added, each of
\* its tags finds it once.
IndexesAgree ==
  LET cache == load.manager.tagCache
      aliases == load.manager.aliasCache
  IN
  /\ \A tag \in DOMAIN cache :
       ToSet(cache[tag]) \subseteq {id \in DOMAIN Devices : tag \in TagsOf(id)} /\ IsInjective(cache[tag])
  /\ \A id \in DOMAIN Devices :
       LET alias == Devices[id].alias IN
       /\ id = GenerateDeviceID(Devices[id])
       /\ alias # Absent => alias \in DOMAIN aliases /\ aliases[alias] = id
  /\ \A alias \in DOMAIN aliases :
       \/ aliases[alias] \in DOMAIN Devices /\ Devices[aliases[alias]].alias = alias
       \/ adder.at = "store" /\ alias = Late.alias
  /\ \A id \in DOMAIN Devices, tag \in UNION {TagsOf(d) : d \in DOMAIN Devices} :
       tag \in TagsOf(id) /\ tag.label # TagLabelAll =>
         \/ tag \in DOMAIN cache /\ id \in ToSet(cache[tag])
         \/ adder.at = "tags" /\ id = GenerateDeviceID(Late) /\ tag \in ToSet(adder.left)

\* An instance of the configuration with which nothing is wrong, of itself.
Sound(c) ==
  /\ \A string \in Strings(c) : string.kind = "tag"
  /\ Own(c, "type") # Absent /\ HandlerOf(c) \in ToSet(setup.handlers)
  /\ c.instance.output \in ToSet(setup.outputs) \cup {Absent}
  /\ \A t \in ToSet(Transforms(c)) : ValidTransform(t, DevicePlugin)
  /\ \A k \in DOMAIN Values(c, "context") : Values(c, "context")[k] # Unparsed
  /\ c.instance.alias.name = Absent => c.instance.alias.template # Unparsed
  /\ Values(c, "data") \notin setup.refuses

IsDeviceOf(device, c) ==
  /\ device.type = Own(c, "type") /\ device.handler = HandlerOf(c)
  /\ device.data = Values(c, "data") /\ device.context = Values(c, "context")
  /\ device.transforms = Transforms(c) /\ device.output = c.instance.output
  /\ device.timeout = IF Own(c, "timeout") = Absent THEN DefaultWriteTimeout ELSE Own(c, "timeout")
  /\ Len(device.tags) = Cardinality(Strings(c)) + 2
  /\ ToSet(device.tags) = {string.tag : string \in Strings(c)}
                            \cup {newIDTag(GenerateDeviceID(device)), newTypeTag(Own(c, "type"))}

\* Once the device manager is initialized, every sound instance of the configuration is a
\* device with what it inherits and overrides, whatever is wrong with the others, unless
\* its id or alias is taken; but Run goes on only if all were.
LoadExact ==
  LET configured == InstancesOf(ProtosOf(DeviceConfig.merged) \o Returned(DevicePlugin.protos, setup.policies.dynamic))
      Made(c) == \E id \in DOMAIN Devices : IsDeviceOf(Devices[id], c)
      Conflicts(c) ==
        \/ IdFor(c) \in DOMAIN Devices
        \/ \E id \in DOMAIN Devices :
             Devices[id].alias = Alias(c.instance.alias, Values(c, "context")) /\ Devices[id].alias # Absent
      Parses == \A c \in ToSet(configured) : \A string \in Strings(c) : string.kind \notin {"blank", "unparsed"}
  IN
  /\ main = "components" /\ Parses => \A c \in ToSet(configured) : Made(c)
  /\ load.failed /\ ~Fails(DevicePlugin.protos, setup.policies.dynamic) /\ Parses =>
       \A c \in ToSet(configured) : Sound(c) => Made(c) \/ Conflicts(c)

\* The variables of the environment for a field, and what they say: the first that is not
\* empty.
For(s, field) ==
  {i \in DOMAIN s.world.env :
     LET v == s.world.env[i] IN
     v.prefix = "PLUGIN" /\ v.name # "PLUGIN_CONFIG" /\ v.field = field /\ field # NotSet}

Environmental(s, field) ==
  LET said == {i \in For(s, field) : s.world.env[i].value # NotSet} IN
  Scanned(field, IF said = {} THEN NotSet ELSE s.world.env[Min(said)].value)

\* The files that are looked for, by the whole of their names: "only this file will be
\* loaded", with or without an extension.
LoaderOf(s) == Overridden(PluginLoader, Target(PluginLoader, s.world))
IsNamed(loader, f) ==
  /\ ~f.isDir /\ f.ext \in ValidExts
  /\ \/ loader.stem = NotSet /\ loader.ext = NotSet
     \/ loader.stem = f.stem /\ loader.ext \in {NotSet, f.ext}
NamedIn(s, path) == {i \in DOMAIN s.world.files[path] : IsNamed(LoaderOf(s), s.world.files[path][i])}

\* No other file is taken for one of that name, as one is that ends in letters of its
\* extension.
NoLookalikes(s) ==
  LET loader == LoaderOf(s) IN
  loader.stem # NotSet /\ loader.ext = NotSet =>
    \A path \in ToSet(loader.paths) : \A f \in ToSet(s.world.files[path]) :
      f.trimmed = loader.stem <=> f.stem = loader.stem

AllFields(s) ==
  {v.field : v \in ToSet(s.world.env)}
    \cup {key.field : key \in UNION {DOMAIN f.content : f \in UNION {ToSet(s.world.files[path]) : path \in DOMAIN s.world.files}}}

\* What a configuration says that follows environment and files.
Precedence(s, fields) ==
  LET paths == {i \in DOMAIN LoaderOf(s).paths : NamedIn(s, LoaderOf(s).paths[i]) # {}}
      path == LoaderOf(s).paths[Min(paths)]
      Content(i) == s.world.files[path][i].content
      Files(key) == IF paths = {} THEN {} ELSE {i \in NamedIn(s, path) : key \in DOMAIN Content(i)}
      InLower(field) == Files(Leaf(field, "lower"))
      InMixed(field) == Files(Leaf(field, "mixed"))
      \* Nowhere is the field spelled in two ways.
      Alike(field) == InMixed(field) = {} \/ (InLower(field) = {} /\ For(s, field) = {})
      Key(field) == Leaf(field, IF InMixed(field) = {} THEN "lower" ELSE "mixed")
  IN
  \A field \in AllFields(s) \cup DOMAIN fields :
    /\ field \in DOMAIN fields <=> For(s, field) # {} \/ InLower(field) # {} \/ InMixed(field) # {}
    /\ field \in DOMAIN fields /\ Alike(field) =>
         fields[field] =
           IF For(s, field) # {} THEN Environmental(s, field)
           ELSE IF field \in ListFields
           THEN FlattenSeq([i \in DOMAIN s.world.files[path] |->
                  IF i \in Files(Key(field)) THEN Content(i)[Key(field)] ELSE << >>])
           ELSE Content(Max(Files(Key(field))))[Key(field)]

\* The environment takes precedence over files; of the files of the first path that has any
\* that are named as looked for, the last takes it, and lists are those of all in order.  A
\* field has a value if a variable or one of these files has one.  That is, if every field is
\* spelled alike wherever it is set, and no other file is taken for one of that name.
ConfigPrecedence == main = "register" /\ NoLookalikes(setup) => Precedence(setup, config)

\* "Environmental configuration takes precedence, so it will override any values that were
\* set in config files."  Not so, when a file spells a field in camel case.
EnvironmentOverrides ==
  main = "register" =>
    \A field \in AllFields(setup) : For(setup, field) # {} =>
      field \in DOMAIN config /\ config[field] = Environmental(setup, field)

\* "If this is set, only this file will be loaded."  Not so, when another file is taken for
\* one of that name.
OnlyNamedFile ==
  main = "register" =>
    \A field \in DOMAIN config :
      \/ For(setup, field) # {}
      \/ \E path \in ToSet(LoaderOf(setup).paths) : \E i \in NamedIn(setup, path) :
           \E key \in DOMAIN setup.world.files[path][i].content : key.field = field

\* A plugin that serves has executed every pre-run action and applied every device setup
\* action to every device that it matched when the plugin started, all without an error.
ServedReady ==
  server = "serving" =>
    /\ done.count["preRun"] = Len(preRun) /\ \A i \in DOMAIN preRun : ~preRun[i].fails
    /\ \A i \in DOMAIN setup.setupActions, id \in DOMAIN Devices :
         LET action == setup.setupActions[i] IN
         \/ adder.at \notin {"none", "refused"} /\ id = GenerateDeviceID(Late)
         \/ /\ action.filter.key = "type"
            /\ \A k \in DOMAIN action.filter.patterns : action.filter.patterns[k] \in {"*", Devices[id].type} =>
                 [action |-> action.name, device |-> id] \in done.calls /\ Devices[id].type \notin action.fails

\* Though the process may end while post-run actions are executed, since the server that
\* was stopped returns to the plugin's main, those the plugin registered before Run, and the
\* scheduler's, are executed before; and an exit is a failure if one of them has failed, or
\* the server's own.
PostRunBeforeStop ==
  LET executed == {postRun[i] : i \in 1 .. done.count["postRun"]} IN
  /\ server = "stopped" => ToSet(setup.postRun) \cup {StopScheduler} \subseteq executed
  /\ process = "returned" => server = "stopped"
  /\ quit = "received" /\ process \in {"exit 0", "exit 1"} /\ main # "dry-run" =>
       executed = ToSet(postRun) /\ (process = "exit 1") = (\E action \in executed : PostRunFails(action))

\* A plugin whose tags all parse starts, or ends with an error; and a plugin that has
\* received a signal ends.
StartsAndEnds ==
  /\ (\A string \in setup.strings : string.kind # "unparsed") => <>(main = "serving" \/ process # "up")
  /\ quit = "received" ~> process # "up"

\* While a plugin runs, a check that fails for good has the health file removed for good,
\* and when all are well for good, the file is there for good.
HealthFileFollows ==
  LET Follows == process = "up" /\ main = "serving" /\ HealthFile # Absent /\ setup.ticks
      Well == \A check \in Counted : healthy[check]
  IN
  /\ <>[](Follows /\ ~Well) => <>[]~file
  /\ <>[](Follows /\ Well) => <>[]file

=============================================================================
