--------------------------- MODULE DeviceManager ---------------------------
(***************************************************************************)
(* The device manager: devices made from configuration or by the plugin,   *)
(* and the three indexes that find them, by id, by alias and by tag.       *)
(*                                                                         *)
(* A plugin is a record: the names of its handlers, transform functions    *)
(* and outputs, the data its validator refuses, and what its registrars    *)
(* return.  Configuration is in records as in the files, with Absent for   *)
(* what is not set.  Nothing here takes a lock.                            *)
(***************************************************************************)
EXTENDS Tags

DefaultWriteTimeout == "30s"
Unparsed == "unparsed"     \* a template in a context or an alias that fails
DataKeys == <<"address", "port">>     \* sorted

Either(value, other) == IF value # Absent THEN value ELSE other

-----------------------------------------------------------------------------
(* NewDeviceFromConfig.                                                    *)

NoProto == [type |-> Absent, handler |-> Absent, tags |-> << >>, data |-> [k \in {} |-> Absent],
            context |-> [k \in {} |-> Absent], transforms |-> << >>, timeout |-> Absent]

\* A transform has one operation: a function that is registered, or a factor that is a number.
ValidTransform(transform, plugin) ==
  \/ transform.apply \in plugin.functions /\ transform.scale = Absent
  \/ transform.apply = Absent /\ transform.scale \notin {Absent, Unparsed}

Inherited_Always(proto, instance) == proto     \* faulty
Inherited(proto, instance) == IF instance.inherit THEN proto ELSE NoProto

\* The name, or else the value in the device's context that the template asks for.
Alias(alias, context) ==
  Either(alias.name, IF alias.template \in DOMAIN context THEN context[alias.template] ELSE Absent)

\* The device, or an error; the parser after its tags; and whether a tag blocked.
NewDeviceFromConfig(proto, instance, plugin, parser) ==
  LET base == Inherited(proto, instance)
      made == NewTags(base.tags \o instance.tags, parser)
      type == Either(instance.type, base.type)
      handler == Either(instance.handler, Either(base.handler, type))
      context == Over(instance.context, base.context)
      transforms == base.transforms \o instance.transforms
  IN
  IF \E t \in ToSet(base.transforms) : ~ValidTransform(t, plugin)
  THEN [ok |-> FALSE, device |-> << >>, parser |-> parser, blocked |-> FALSE]
  ELSE
  [ok |-> /\ made.ok /\ ~made.blocked
          /\ type # Absent /\ handler \in plugin.handlers
          /\ instance.output \in plugin.outputs \cup {Absent}
          /\ \A t \in ToSet(transforms) : ValidTransform(t, plugin)
          /\ \A k \in DOMAIN context : context[k] # Unparsed
          /\ instance.alias.name # Absent \/ instance.alias.template # Unparsed,
   device |-> [type |-> type, handler |-> handler, data |-> Over(instance.data, base.data),
               context |-> context, tags |-> made.tags, transforms |-> transforms,
               timeout |-> Either(instance.timeout, Either(base.timeout, DefaultWriteTimeout)),
               output |-> instance.output, alias |-> Alias(instance.alias, context)],
   parser |-> made.parser,
   blocked |-> made.blocked]

-----------------------------------------------------------------------------
(* AddDevice.  Its steps are operators of their own, for a plugin may add  *)
(* a device while others look for it.                                      *)

Manager(devices, aliasCache, tagCache, handlers) ==
  [devices |-> devices, aliasCache |-> aliasCache, tagCache |-> tagCache, handlers |-> handlers]

NewManager(handlers) == Manager([id \in {} |-> << >>], [alias \in {} |-> Absent], NewTagCache, handlers)

\* The values of the data, one after the other in the order of their keys.
DefaultDeviceIdentifier(data) ==
  FoldLeft(LAMBDA identifier, key : IF key \in DOMAIN data THEN identifier \o data[key] ELSE identifier,
           "", DataKeys)

\* The UUID is made from this name, and told apart by it.
GenerateDeviceID(device) ==
  device.type \o "." \o device.handler \o "." \o DefaultDeviceIdentifier(device.data)

Refused_UnlessAliased(manager, device, plugin) ==     \* faulty
  \/ device.handler = Absent \/ device.handler \notin manager.handlers
  \/ device.data \in plugin.refuses
  \/ GenerateDeviceID(device) \in DOMAIN manager.devices
Refused(manager, device, plugin) ==
  \/ device.handler = Absent \/ device.handler \notin manager.handlers
  \/ device.data \in plugin.refuses
  \/ GenerateDeviceID(device) \in DOMAIN manager.devices
  \/ device.alias # Absent /\ device.alias \in DOMAIN manager.aliasCache

Tagged(device) ==
  [device EXCEPT !.tags = @ \o <<newIDTag(GenerateDeviceID(device)), newTypeTag(device.type)>>]

AddAlias(manager, device) ==
  IF device.alias = Absent THEN manager
  ELSE Manager(manager.devices, Put(manager.aliasCache, device.alias, GenerateDeviceID(device)),
               manager.tagCache, manager.handlers)

StoreDevice(manager, device) ==
  Manager(Put(manager.devices, GenerateDeviceID(device), Tagged(device)),
          manager.aliasCache, manager.tagCache, manager.handlers)

CacheTag(manager, tag, device) ==
  Manager(manager.devices, manager.aliasCache, AddToCache(manager.tagCache, tag, GenerateDeviceID(device)),
          manager.handlers)

AddDevice(manager, device, plugin) ==
  IF Refused(manager, device, plugin) THEN manager
  ELSE FoldLeft(LAMBDA m, tag : CacheTag(m, tag, device),
                StoreDevice(AddAlias(manager, device), device), Tagged(device).tags)

-----------------------------------------------------------------------------
(* init: the configuration of files and registrars, then their devices.    *)

Optional == "optional"

\* A registrar that fails is skipped when it is optional; under any other policy it ends
\* the loading.
Fails(results, policy) == policy # Optional /\ \E result \in ToSet(results) : ~result.ok

\* What the registrars return up to there.
Returned(results, policy) ==
  FlattenSeq([i \in DOMAIN results |->
    IF results[i].ok /\ (policy = Optional \/ \A j \in 1 .. i - 1 : results[j].ok) THEN results[i].list ELSE << >>])

InstancesOf(protos) ==
  FlattenSeq([i \in DOMAIN protos |->
    [j \in DOMAIN protos[i].instances |-> [proto |-> protos[i], instance |-> protos[i].instances[j]]]])

\* One instance; a tag that blocks ends it all.
CreateDevice(load, configured, plugin) ==
  LET new == NewDeviceFromConfig(configured.proto, configured.instance, plugin, load.parser)
      added == new.ok /\ ~Refused(load.manager, new.device, plugin)
  IN
  IF load.blocked THEN load
  ELSE [manager |-> IF added THEN AddDevice(load.manager, new.device, plugin) ELSE load.manager,
        parser |-> new.parser, blocked |-> new.blocked, failed |-> load.failed \/ ~added]

\* All instances, an error in one or not.
CreateDevices(load, protos, plugin) ==
  FoldLeft(LAMBDA l, configured : CreateDevice(l, configured, plugin), load, InstancesOf(protos))

\* The devices that the registrars make, until one is refused.
CreateDynamicDevices(load, plugin, policy) ==
  LET Add(l, device) ==
        IF l.failed THEN l
        ELSE [l EXCEPT !.failed = Refused(l.manager, device, plugin),
                       !.manager = AddDevice(@, device, plugin)]
      loaded == FoldLeft(Add, load, Returned(plugin.devices, policy))
  IN  [loaded EXCEPT !.failed = @ \/ Fails(plugin.devices, policy)]

\* The device manager's init, once its files are loaded.
InitDevices(load, protos, plugin, policy) ==
  LET created == CreateDevices(load, protos \o Returned(plugin.protos, policy), plugin) IN
  IF Fails(plugin.protos, policy) THEN [load EXCEPT !.failed = TRUE]
  ELSE IF created.failed \/ created.blocked THEN created
  ELSE CreateDynamicDevices(created, plugin, policy)

-----------------------------------------------------------------------------
(* Finding devices.                                                        *)

\* By id, or by alias when there is no such id; else by tags; all when neither is given.
GetDevices(manager, selector) ==
  IF selector.id = Absent /\ selector.tags = << >>
  THEN GetDevicesFromNamespace(manager.tagCache, TagNamespaceSystem)
  ELSE IF selector.id = Absent THEN GetDevicesFromTags(manager.tagCache, selector.tags)
  ELSE IF selector.id \in DOMAIN manager.devices THEN <<selector.id>>
  ELSE IF selector.id \in DOMAIN manager.aliasCache THEN <<manager.aliasCache[selector.id]>>
  ELSE << >>

\* A filter is additive over the patterns of its one key; a pattern is a type, or
\* matches all of them.
FilterDevices(manager, filter) ==
  {id \in DOMAIN manager.devices :
     \E pattern \in ToSet(filter.patterns) : pattern \in {"*", manager.devices[id].type}}

\* An action of a filter that is not supported is an error; the other actions are
\* executed all the same, on every device that matches.
SetupCalls(manager, action) ==
  IF action.filter.key # "type" THEN {}
  ELSE {[action |-> action.name, device |-> id] : id \in FilterDevices(manager, action.filter)}

SetupFails(manager, action) ==
  \/ action.filter.key # "type"
  \/ \E call \in SetupCalls(manager, action) : manager.devices[call.device].type \in action.fails

\* A pattern that does not compile panics once a device is matched with it.
SetupPanics(manager, action) ==
  LET patterns == action.filter.patterns IN
  /\ action.filter.key = "type"
  /\ \E id \in DOMAIN manager.devices, i \in DOMAIN patterns :
       /\ patterns[i] = Unparsed
       /\ \A j \in 1 .. i - 1 : patterns[j] \notin {"*", manager.devices[id].type}

=============================================================================
