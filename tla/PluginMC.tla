------------------------------ MODULE PluginMC ------------------------------
(* Setups of Plugin for TLC, each for one part of it.                      *)
EXTENDS Plugin, TLC

-----------------------------------------------------------------------------
(* Tags and devices.                                                       *)

Str(namespace, annotation, label) == [kind |-> "tag", tag |-> Tag(namespace, annotation, label)]
Bad(kind) == [kind |-> kind, tag |-> Tag(Absent, Absent, kind)]

Room == Str("default", Absent, "room")
Hot == Str("default", Absent, "hot")
Lab == Str("default", "site", "lab")
Hall == Str("default", "site", "hall")
AnySite == Str("default", "site", TagLabelAll)

Instance(data, tags) ==
  [type |-> Absent, handler |-> Absent, tags |-> tags, data |-> data, context |-> Empty, transforms |-> << >>,
   timeout |-> Absent, output |-> Absent, alias |-> [name |-> Absent, template |-> Absent], inherit |-> TRUE]
Named(instance, name) == [instance EXCEPT !.alias.name = name]

Proto(type, handler, tags, instances) ==
  [type |-> type, handler |-> handler, tags |-> tags, data |-> "port" :> "1", context |-> "site" :> "lab",
   transforms |-> <<[apply |-> "toF", scale |-> Absent]>>, timeout |-> "5s", instances |-> instances]

At(address) == "address" :> address

\* Two prototypes: what is inherited, and overridden, and an instance on its own; tags
\* that are given twice; labels of one annotation.
Fans == Proto("fan", "rack", <<Room, Lab>>,
  <<Named(Instance(At("a"), <<Hot, Room>>), "first"),
    [Instance(At("b") @@ "port" :> "2", <<Hall, AnySite>>) EXCEPT !.type = "pump", !.timeout = "9s", !.output = "speed",
       !.alias.template = "site", !.transforms = <<[apply |-> Absent, scale |-> "2"]>>],
    [Instance(At("c"), <<Hot>>) EXCEPT !.inherit = FALSE, !.type = "led"]>>)

\* Instances that are refused: nothing to inherit a type from, an unknown handler, output
\* or transform, a template that fails, a malformed or empty tag, data the validator
\* refuses, an id and an alias that are taken, with a sound one between them.
Refusals == Proto("fan", "rack", << >>,
  <<[Instance(At("a"), << >>) EXCEPT !.inherit = FALSE],
    [Instance(At("b"), << >>) EXCEPT !.handler = "none"],
    [Instance(At("c"), << >>) EXCEPT !.output = "none"],
    [Instance(At("d"), << >>) EXCEPT !.transforms = <<[apply |-> "toF", scale |-> "2"]>>],
    [Instance(At("e"), << >>) EXCEPT !.context = "site" :> Unparsed],
    [Instance(At("f"), << >>) EXCEPT !.alias.template = Unparsed],
    Instance(At("g"), <<Bad("malformed")>>), Instance(At("h"), <<Bad("empty")>>),
    Instance(At("x"), << >>),
    Named(Instance(At("i"), <<Room>>), "first"),
    Named(Instance(At("j"), << >>), "first"),
    Instance(At("i"), <<Hot>>),
    [Instance(At("k"), <<Room>>) EXCEPT !.context = "site" :> "hall", !.alias.template = "site"]>>)

One == Proto("fan", "rack", <<Room>>, <<Instance(At("o"), << >>)>>)
Failing == [One EXCEPT !.instances = <<Instance(At("a"), <<Bad("unparsed")>>)>>]
Blank == [One EXCEPT !.instances = <<Instance(At("a"), <<Lab, Bad("blank")>>)>>]

NewLate(alias) == [type |-> "led", handler |-> "led", data |-> At("z"), context |-> Empty, tags |-> <<Room.tag, Lab.tag>>,
                   transforms |-> << >>, timeout |-> "30s", output |-> Absent, alias |-> alias]

-----------------------------------------------------------------------------
(* Configuration.                                                          *)

Lower(field, value) == Leaf(field, "lower") :> value
Mixed(field, value) == Leaf(field, "mixed") :> value
File(stem, ext, content) ==
  [stem |-> stem, ext |-> ext, trimmed |-> IF stem = "configl" THEN "config" ELSE stem, isDir |-> FALSE,
   readable |-> TRUE, content |-> content]
Var(name, field, value) == [prefix |-> "PLUGIN", name |-> name, field |-> field, value |-> value]
DevicesFile(stem, protos) == File(stem, "yml", Lower("devices", protos))

Files(current, local, default, devices) ==
  "." :> current @@ "./config" :> local @@ "/etc/synse/plugin/config" :> default
  @@ "./config/device" :> << >> @@ "/etc/synse/plugin/config/device" :> devices @@ "/elsewhere" :> << >>

NoHealth == Mixed("health.healthFile", Absent)
Basic == Lower("network.type", "tcp") @@ NoHealth

World(content, protos) ==
  [files |-> Files(<<File("config", "yml", content)>>, << >>, << >>, <<DevicesFile("d", protos)>>),
   env |-> << >>, targets |-> [name \in {} |-> << >>]]

Base ==
  [world |-> World(Basic, <<One>>), policies |-> [plugin |-> "optional", device |-> "required", dynamic |-> "optional"],
   named |-> TRUE, flags |-> {}, machineId |-> FALSE, variables |-> {}, certificates |-> {"cert", "key"}, forbidden |-> {},
   listens |-> TRUE, handlers |-> <<"rack", "led">>, outputs |-> <<"speed">>, functions |-> {"toF"},
   refuses |-> {At("x") @@ "port" :> "1"}, protos |-> << >>, devices |-> << >>,
   preRun |-> << >>, postRun |-> << >>, setupActions |-> << >>, checks |-> << >>, failing |-> {}, leftover |-> FALSE,
   ticks |-> FALSE, late |-> << >>, signals |-> 0, selectors |-> {}, strings |-> {}]

With(content, protos) == [Base EXCEPT !.world = World(content, protos)]

-----------------------------------------------------------------------------
(* Files and environment: two files in the second path; two variables of   *)
(* one field, of which one may be empty; lists; fields in two spellings;   *)
(* an override by a file or a directory, or one that is not there; a file  *)
(* that is taken for another.                                              *)

Layered ==
  [Base EXCEPT !.world.files = Files(<<File("other", "yml", Empty), File("config", "txt", Basic)>>,
     <<File("config", "yaml", Basic @@ Lower("debug", "false") @@ Mixed("id.useCustom", <<"x">>)),
       File("config", "yml", Lower("debug", "true") @@ Mixed("id.useCustom", <<"y">>))>>,
     <<File("config", "yml", Lower("debug", "never"))>>, <<DevicesFile("d", <<One>>), DevicesFile("e", <<Fans>>)>>),
     !.world.env = <<Var("PLUGIN_NETWORK_TYPE", "network.type", "unix"), Var("PLUGINS_NETWORK_TYPE", "network.type", "udp"),
                     Var("PLUGIN_HEALTH_HEALTHFILE", "health.healthFile", "/tmp/healthy"),
                     Var("PLUGIN", NotSet, "1")>>]

FromEnv(target) == [Layered EXCEPT !.world.targets = "PLUGIN_CONFIG" :> target,
                                   !.world.env = Append(@, Var("PLUGIN_CONFIG", "config", "f"))]
Targets == {[kind |-> "dir", path |-> "./config"], [kind |-> "dir", path |-> "/elsewhere"], [kind |-> "missing"],
            [kind |-> "file", path |-> "./config", stem |-> "config", ext |-> "yml"],
            [kind |-> "file", path |-> ".", stem |-> "config", ext |-> "txt"]}

\* Variables for a list that a file has, for a field it has, and empty ones.
Overriding == [With(Basic @@ Lower("id.useCustom", <<"x">>) @@ Lower("debug", "true"), <<One>>) EXCEPT
                 !.world.env = <<Var("PLUGIN_ID_USECUSTOM", "id.useCustom", "z"), Var("PLUGIN_DEBUG", "debug", NotSet),
                                 Var("PLUGINS_NETWORK_TYPE", "network.type", NotSet),
                                 Var("PLUGIN_NETWORK_TYPE", "network.type", "unix"),
                                 Var("PLUGIN2_NETWORK_TYPE", "network.type", NotSet)>>]

\* A file in camel case, and a variable for what it sets.
Spelled == [Base EXCEPT !.world.env = <<Var("PLUGIN_HEALTH_HEALTHFILE", "health.healthFile", "/tmp/healthy")>>]
Lookalike == [Base EXCEPT !.world.files["."] = Append(@, File("configl", "yml", Lower("debug", "true")))]

Unreadable == [Base EXCEPT !.world.files["."][1].readable = FALSE]
Nothing == [Base EXCEPT !.world.files = Files(<<>>, <<>>, <<>>, <<>>)]

ConfigSetups ==
  {Layered, Overriding, Spelled, Lookalike, Unreadable, Nothing, [Nothing EXCEPT !.policies.plugin = "required"]}
  \cup {FromEnv(target) : target \in Targets}
  \cup {[Nothing EXCEPT !.world.env = <<Var("PLUGIN_NETWORK_TYPE", "network.type", "tcp"), Var("PLUGIN_ID", "id.usePluginTag", id)>>,
                        !.policies.device = policy] : id \in {"true", "false"}, policy \in {"optional", "required"}}
  \cup {[With(Basic @@ more, <<One>>) EXCEPT !.variables = {"SET"}] :
          more \in {Mixed("id.useMachineID", "true"), Mixed("id.useEnv", <<"SET">>), Mixed("id.useEnv", <<"UNSET">>),
                    Lower("network.tls.cert", "cert") @@ Lower("network.tls.key", "key"),
                    Lower("network.tls.cert", "cert"),
                    Lower("network.tls.cert", "cert") @@ Lower("network.tls.key", "key") @@ Mixed("network.tls.caCerts", <<"none">>)}}
  \cup {With(Lower("network.type", "udp"), <<One>>),
        [With(Lower("network.type", "unix"), <<One>>) EXCEPT !.forbidden = {"/tmp/synse"}],
        [Base EXCEPT !.named = FALSE], [Base EXCEPT !.flags = {"version"}], [Base EXCEPT !.flags = {"dry-run"}, !.signals = 1],
        [Base EXCEPT !.handlers = <<"rack", "rack">>], [Base EXCEPT !.checks = <<Absent>>],
        [Base EXCEPT !.listens = FALSE]}

-----------------------------------------------------------------------------
(* Devices, and those of registrars, which fail or make one that is taken; *)
(* templates that fail; selectors.                                         *)

IdOf(type, handler, key) == type \o "." \o handler \o "." \o key
Sel(id, tags) == [id |-> id, tags |-> tags]
Selectors ==
  {Sel(id, tags) : id \in {IdOf("fan", "rack", "a1"), "first", "lab", "none"}, tags \in {<< >>, <<Hot.tag>>}}
  \cup {Sel(Absent, tags) :
          tags \in {<< >>, <<Room.tag>>, <<Hot.tag, Lab.tag>>, <<Room.tag, Hall.tag>>, <<AnySite.tag>>, <<Hot.tag, AnySite.tag>>,
                    <<AnySite.tag, Room.tag>>, <<Tag("default", Absent, TagLabelAll)>>, <<Tag(Absent, Absent, "room")>>,
                    <<Room.tag, Tag("none", Absent, TagLabelAll)>>, <<Tag("default", "none", TagLabelAll)>>,
                    <<newTypeTag("fan"), Room.tag>>, <<newIDTag(IdOf("led", "led", "z"))>>,
                    <<Tag("system", Absent, TagLabelAll), Hot.tag>>}}

Selecting == [With(Basic, <<Fans, One>>) EXCEPT !.selectors = Selectors]

Dynamic(protos, devices) ==
  [With(Basic @@ Mixed("dynamicRegistration.config", <<1, 2>>), <<One>>) EXCEPT
     !.protos = protos, !.devices = devices, !.selectors = Selectors]
Ok(list) == [ok |-> TRUE, list |-> list]
Fail == [ok |-> FALSE, list |-> << >>]

DynamicSetups ==
  {[Dynamic(<<r[1], r[2]>>, <<r[3], r[4]>>) EXCEPT !.policies.dynamic = policy] :
     r \in {<<Ok(<<Fans>>), Ok(<< >>), Ok(<<NewLate("z")>>), Ok(<< >>)>>,
            <<Fail, Ok(<<[Fans EXCEPT !.instances = Tail(@)]>>), Ok(<< >>), Ok(<<NewLate(Absent)>>)>>,
            <<Ok(<< >>), Ok(<< >>), Ok(<<NewLate(Absent)>>), Fail>>,
            <<Ok(<< >>), Ok(<< >>), Ok(<<NewLate(Absent), NewLate("z")>>), Ok(<<NewLate("y")>>)>>},
     policy \in {"optional", "required"}}

Strings_(setup_, protos) == [setup_ EXCEPT !.strings = {s \in {Bad("unparsed")} : \E i \in DOMAIN protos : protos[i] = Failing}]
TagSetups == {Strings_(With(Basic, protos), protos) : protos \in {<<Failing>>, <<Failing, One>>, <<Blank>>, <<One, Blank>>}}

\* A device that is added while the plugin starts and serves, whose alias may be taken.
LateSetups == {[Selecting EXCEPT !.late = <<NewLate(alias)>>] : alias \in {"late", "first", Absent}}

-----------------------------------------------------------------------------
(* Actions and signals.                                                    *)

Act(name, fails) == [name |-> name, fails |-> fails]
Pre(name, fails, adds) == [name |-> name, fails |-> fails, adds |-> adds]
SetUp(name, key, patterns, fails) == [name |-> name, filter |-> [key |-> key, patterns |-> patterns], fails |-> fails]

SetupSetups ==
  {[With(Basic, <<Fans>>) EXCEPT !.setupActions = some] :
     some \in {<<SetUp("all", "type", <<"*">>, {}), SetUp("fans", "type", <<"fan", "pump">>, {})>>,
               <<SetUp("one", "type", <<"fan">>, {"fan"}), SetUp("other", "type", <<"led">>, {})>>,
               <<SetUp("no", "id", <<"*">>, {}), SetUp("all", "type", <<"*">>, {})>>,
               <<SetUp("bad", "type", <<"fan", Unparsed>>, {})>>,
               <<SetUp("unfiltered", Absent, <<"*">>, {})>>}}

QuitSetups ==
  {[Base EXCEPT !.preRun = <<Pre("open", FALSE, adds)>>, !.postRun = <<Act("save", fails), Act("close", FALSE)>>, !.signals = 2] :
     adds \in {<< >>, <<Act("late", TRUE)>>}, fails \in BOOLEAN}
  \cup {[Base EXCEPT !.preRun = <<Pre("fail", TRUE, << >>), Pre("open", FALSE, << >>)>>]}
  \cup {[With(Lower("network.type", type) @@ NoHealth, <<One>>) EXCEPT !.forbidden = {"socket"}, !.signals = 1] :
           type \in {"unix", "tcp"}}

-----------------------------------------------------------------------------
(* Health: checks that tick and change, with the defaults or without them, *)
(* and a file that a process before has left.                              *)

HealthSetups ==
  {[With(Lower("network.type", "tcp") @@ Mixed("health.checks.disableDefaults", h[1]), <<One>>) EXCEPT
      !.checks = <<"mine">>, !.failing = {h[2]}, !.leftover = h[1] = "true", !.ticks = TRUE] :
     h \in {<<"false", "mine">>, <<"true", "read queue health">>}}

OneSpelled == {Spelled}
OneLookalike == {Lookalike}

AllSetups == ConfigSetups \cup {Selecting, With(Basic, <<Fans, Refusals>>)} \cup DynamicSetups \cup TagSetups \cup LateSetups
               \cup SetupSetups \cup QuitSetups \cup HealthSetups

Names == {"Register default state manager health checks", "Register default scheduler health checks",
          "Stop scheduler", "Cleanup gRPC Server"}
           \cup UNION {{a.name : a \in ToSet(s.preRun \o s.postRun \o s.setupActions)} : s \in AllSetups}
           \cup {"late"}
=============================================================================
