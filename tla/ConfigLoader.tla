---------------------------- MODULE ConfigLoader ----------------------------
(***************************************************************************)
(* The configuration loader: overrides, search, read, environment, merge   *)
(* and scan.                                                               *)
(*                                                                         *)
(* A configuration is a function from the keys of its leaves to values: a  *)
(* key has a field and its spelling, for the environment spells keys in    *)
(* lower case and files may not.  A file has a name, stem and ext; what is *)
(* left of the name when the characters of .ext are trimmed from its end;  *)
(* whether it can be read; and its content.  A world has the files of each *)
(* path, in the order of their names, the environment, a sequence, and the *)
(* targets that variables of the environment name on the disk.             *)
(***************************************************************************)
EXTENDS Naturals, Sequences, SequencesExt, Maps

NotSet == ""
ListFields == {"devices", "id.useCustom", "id.useEnv", "network.tls.caCerts", "dynamicRegistration.config"}
ValidExts == {"yml", "yaml"}
Required == "required"

Empty == [key \in {} |-> NotSet]
Leaf(field, spelling) == [field |-> field, spelling |-> spelling]

\* checkOverrides: a variable may name a directory, the only path then, or a file there.
\* Nothing falls back to the paths it replaces.
Target(loader, world) ==
  IF loader.override \in DOMAIN world.targets THEN world.targets[loader.override] ELSE [kind |-> "none"]

OverrideError(target) == target.kind = "missing" \/ (target.kind = "file" /\ target.ext \notin ValidExts)

Overridden(loader, target) ==
  CASE target.kind = "dir" -> [loader EXCEPT !.paths = <<target.path>>, !.stem = NotSet, !.ext = NotSet]
    [] target.kind = "file" -> [loader EXCEPT !.paths = <<target.path>>, !.stem = target.stem, !.ext = target.ext]
    [] OTHER -> loader

\* The name that is looked for may have no extension, and fits what is trimmed then.
IsValidFile(loader, file) ==
  /\ ~file.isDir
  /\ file.ext \in ValidExts
  /\ IF loader.ext = NotSet THEN loader.stem \in {NotSet, file.trimmed}
     ELSE loader.stem = file.stem /\ loader.ext = file.ext

\* search: the files of the first path that has any.
Matching(loader, files) ==
  FoldLeft(LAMBDA hits, file : IF IsValidFile(loader, file) THEN Append(hits, file) ELSE hits, << >>, files)

Search(loader, world) ==
  LET Hits(i) == Matching(loader, world.files[loader.paths[i]])
      found == {i \in DOMAIN loader.paths : Hits(i) # << >>}
  IN  IF found = {} THEN << >> ELSE Hits(Min(found))

\* Later maps override, and lists are appended.
Merge(merged, data) ==
  Over([key \in DOMAIN data |->
          IF key.field \in ListFields /\ key \in DOMAIN merged THEN merged[key] \o data[key] ELSE data[key]],
       merged)

\* loadEnv: of the variables for one key the first that is not empty is taken; a variable
\* without a key gives nothing, and the one that overrides is left out.  What is one string
\* is scanned to a list of one.
Counts(loader, v) ==
  loader.prefix # NotSet /\ v.prefix = loader.prefix /\ v.name # loader.override /\ v.field # NotSet
Scanned(field, string) == IF field \in ListFields THEN <<string>> ELSE string

LoadEnv(loader, world) ==
  LET Open(data, key) == key \in DOMAIN data => data[key] = NotSet
      Set(data, v) ==
        LET key == Leaf(v.field, "lower") IN
        IF Counts(loader, v) /\ Open(data, key) THEN Put(data, key, v.value) ELSE data
      strings == FoldLeft(Set, Empty, world.env)
  IN  [key \in DOMAIN strings |-> Scanned(key.field, strings[key])]

\* The environment is merged last, and overrides: a string is not appended to a list.
Sources_EnvFirst(files, env) == Over(FoldLeft(Merge, Empty, files), env)     \* faulty
Sources(files, env) == Over(env, FoldLeft(Merge, Empty, files))

\* Load: an error, or the merged configuration.
Load(unresolved, world, policy) ==
  LET loader == Overridden(unresolved, Target(unresolved, world))
      files == Search(loader, world)
      contents == [i \in DOMAIN files |-> files[i].content]
  IN
  IF \/ OverrideError(Target(unresolved, world))
     \/ policy = Required /\ files = << >>
     \/ \E file \in ToSet(files) : ~file.readable
  THEN [ok |-> FALSE, merged |-> Empty]
  ELSE [ok |-> TRUE, merged |-> Sources(contents, LoadEnv(loader, world))]

\* Scan: with nothing merged, the target is left as it is, without defaults, or it is an
\* error.  Keys are matched with fields in any spelling: of two, either may be taken.
ScanError(merged, policy) == merged = Empty /\ policy # "optional"

Scans(merged) ==
  LET fields == {key.field : key \in DOMAIN merged} IN
  {[field \in fields |-> merged[Leaf(field, spelling[field])]] :
     spelling \in {s \in [fields -> {"lower", "mixed"}] : \A field \in fields : Leaf(field, s[field]) \in DOMAIN merged}}

=============================================================================
