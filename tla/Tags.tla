-------------------------------- MODULE Tags --------------------------------
(***************************************************************************)
(* Tags, and the cache that finds devices by them.  The cache is a map of  *)
(* maps from namespace, annotation and label to a slice of devices: here a *)
(* function from the tags that were added to sequences of device ids.      *)
(***************************************************************************)
EXTENDS Naturals, Sequences, FiniteSets, SequencesExt, FiniteSetsExt, Maps

Absent == ""          \* a namespace, annotation, alias or id that is not given
TagNamespaceSystem == "system"
TagLabelAll == "**"

Tag(namespace, annotation, label) ==
  [namespace |-> namespace, annotation |-> annotation, label |-> label]
IsTag(tag) == tag = Tag(tag.namespace, tag.annotation, tag.label)

newIDTag(id) == Tag(TagNamespaceSystem, "id", id)
newTypeTag(type) == Tag(TagNamespaceSystem, "type", type)

-----------------------------------------------------------------------------
(* NewTag.  A string is a tag, plain or as a template that renders one;    *)
(* empty; blank, as a space is; malformed; or a template that does not     *)
(* parse or execute.  The template they are parsed into is shared, as is   *)
(* the lock around it: a parser is what the template was last, and whether *)
(* the lock is left locked.                                                *)

NothingParsed == [kind |-> "malformed", tag |-> Tag(Absent, Absent, Absent)]
NewParser == [parsed |-> NothingParsed, locked |-> FALSE]

\* A blank string leaves the template as it was, and makes the tag of the string before.
Rendered(string, parsed) == IF string.kind = "blank" THEN parsed ELSE string

LeavesLocked_Malformed(string) == string.kind \in {"unparsed", "malformed"}     \* faulty
LeavesLocked(string) == string.kind = "unparsed"

\* An empty string is refused before the lock is taken.
Blocks(string, parser) == string.kind # "empty" /\ parser.locked

NewTag(string, parser) ==
  LET rendered == Rendered(string, parser.parsed) IN
  [tag |-> rendered.tag,
   ok |-> rendered.kind = "tag",
   parser |-> [parsed |-> IF string.kind \in {"empty", "unparsed"} THEN parser.parsed ELSE rendered,
               locked |-> parser.locked \/ LeavesLocked(string)]]

\* The tags of some strings, each string taken once, until one is refused or blocks.
NewTags(strings, parser) ==
  LET Once(seen, string) == IF string \in ToSet(seen) THEN seen ELSE Append(seen, string)
      Make(made, string) ==
        LET new == NewTag(string, made.parser) IN
        IF ~made.ok \/ made.blocked THEN made
        ELSE IF Blocks(string, made.parser) THEN [made EXCEPT !.blocked = TRUE]
        ELSE [tags |-> Append(made.tags, new.tag), ok |-> new.ok, parser |-> new.parser, blocked |-> FALSE]
  IN  FoldLeft(Make, [tags |-> << >>, ok |-> TRUE, parser |-> parser, blocked |-> FALSE],
               FoldLeft(Once, << >>, strings))

-----------------------------------------------------------------------------
(* TagCache.                                                               *)

NewTagCache == [tag \in {} |-> << >>]

\* A device is cached once for a tag, and never for the label that stands for all.
AddToCache(cache, tag, device) ==
  LET devices == IF tag \in DOMAIN cache THEN cache[tag] ELSE << >> IN
  IF tag.label = TagLabelAll \/ device \in ToSet(devices) THEN cache
  ELSE Put(cache, tag, Append(devices, device))

InNamespace(cache, namespace) == {tag \in DOMAIN cache : tag.namespace = namespace}

\* Once each, in any order: the slice is made from a map.
GetDevicesFromNamespace(cache, namespace) ==
  FoldSet(LAMBDA device, devices : Append(devices, device), << >>,
          UNION {ToSet(cache[tag]) : tag \in InNamespace(cache, namespace)})

\* The cached tags that a tag of a selector stands for; when there is none, nothing
\* is found, whatever the other tags.
Matches(cache, tag) ==
  {cached \in InNamespace(cache, tag.namespace) :
     /\ (tag.label = TagLabelAll /\ tag.annotation = Absent) \/ cached.annotation = tag.annotation
     /\ tag.label \in {TagLabelAll, cached.label}}

\* The slices of all labels of an annotation are joined: a device of two labels is
\* there twice.
Found(cache, tag) ==
  IF tag.label = TagLabelAll /\ tag.annotation = Absent
  THEN GetDevicesFromNamespace(cache, tag.namespace)
  ELSE FoldSet(LAMBDA cached, devices : devices \o cache[cached], << >>, Matches(cache, tag))

Filter_Union(devices, found) == devices \o found     \* faulty
Filter(devices, found) ==
  FoldLeft(LAMBDA kept, device : IF device \in ToSet(found) THEN Append(kept, device) ELSE kept, << >>, devices)

GetDevicesFromTags(cache, tags) ==
  IF tags = << >> \/ \E tag \in ToSet(tags) : Matches(cache, tag) = {} THEN << >>
  ELSE FoldLeft(LAMBDA devices, tag : Filter(devices, Found(cache, tag)),
                Found(cache, Head(tags)), Tail(tags))

=============================================================================
