------------------------ MODULE PluginDevicesProofs ------------------------
(***************************************************************************)
(* Theorems about the devices of Plugin: that the indexes of the device    *)
(* manager agree whatever is loaded and added, and that a request selects  *)
(* exactly the devices it names.                                           *)
(***************************************************************************)
EXTENDS PluginConfigProofs, FiniteSetTheorems

-----------------------------------------------------------------------------
(* How the indexes of a manager agree.                                     *)

\* Ids and aliases name the same devices; an alias of new has no device yet.
AliasesAgree(m, new) ==
  /\ \A id \in DOMAIN m.devices :
       LET alias == m.devices[id].alias IN
       /\ id = GenerateDeviceID(m.devices[id])
       /\ alias # Absent => alias \in DOMAIN m.aliasCache /\ m.aliasCache[alias] = id
  /\ \A alias \in DOMAIN m.aliasCache :
       \/ m.aliasCache[alias] \in DOMAIN m.devices /\ m.devices[m.aliasCache[alias]].alias = alias
       \/ alias \in new

TagsIn(m, id) == ToSet(m.devices[id].tags)
Cached(m, id, tag) == tag \in DOMAIN m.tagCache /\ id \in ToSet(m.tagCache[tag])

\* What a tag finds has the tag.
CacheSound(m) ==
  /\ IsFiniteSet(DOMAIN m.tagCache)
  /\ \A tag \in DOMAIN m.tagCache :
       /\ tag.label # TagLabelAll /\ IsTag(tag)
       /\ IsList(m.tagCache[tag]) /\ IsInjective(m.tagCache[tag])
       /\ \A id \in ToSet(m.tagCache[tag]) : id \in DOMAIN m.devices /\ tag \in TagsIn(m, id)

\* A tag of a device finds it, but for those of d that are left to cache.
CacheFull(m, d, left) ==
  \A id \in DOMAIN m.devices :
    /\ IsTags(m.devices[id].tags)
    /\ id # TagLabelAll /\ newIDTag(id) \in TagsIn(m, id)
    /\ \A tag \in TagsIn(m, id) :
         tag.label # TagLabelAll => Cached(m, id, tag) \/ (id = d /\ tag \in left)

TagsAgree(m, d, left) == CacheSound(m) /\ CacheFull(m, d, left)

ManagerAgrees(m) == AliasesAgree(m, {}) /\ TagsAgree(m, Absent, {})

-----------------------------------------------------------------------------
(* The steps of AddDevice.                                                 *)

LEMMA NewAgrees ==
  ASSUME NEW handlers
  PROVE  ManagerAgrees(NewManager(handlers))
<1> DEFINE m == NewManager(handlers)
<1>1. DOMAIN m.devices = {} /\ DOMAIN m.aliasCache = {} /\ DOMAIN m.tagCache = {}
  BY DEF NewManager, Manager, NewTagCache
<1>2. IsFiniteSet({})
  BY FS_EmptySet
<1> HIDE DEF m
<1>3. AliasesAgree(m, {}) /\ CacheSound(m) /\ CacheFull(m, Absent, {})
  BY <1>1, <1>2 DEF AliasesAgree, CacheSound, CacheFull
<1> QED
  BY <1>3 DEF ManagerAgrees, TagsAgree, m

\* With nothing left it does not matter of whom.
LEMMA NothingLeft ==
  ASSUME NEW m, NEW d, NEW e, TagsAgree(m, d, {})
  PROVE  TagsAgree(m, e, {})
BY DEF TagsAgree, CacheFull

LEMMA LeftGrows ==
  ASSUME NEW m, NEW d, NEW left, NEW more, TagsAgree(m, d, left), left \subseteq more
  PROVE  TagsAgree(m, d, more)
<1>1. CacheFull(m, d, more)
  BY DEF TagsAgree, CacheFull
<1> QED
  BY <1>1 DEF TagsAgree

LEMMA CacheTagAgrees ==
  ASSUME NEW m, NEW device, NEW tag, NEW left,
         TagsAgree(m, GenerateDeviceID(device), left), GenerateDeviceID(device) \in DOMAIN m.devices,
         tag \in TagsIn(m, GenerateDeviceID(device))
  PROVE  LET n == CacheTag(m, tag, device) IN
         /\ n.devices = m.devices /\ n.aliasCache = m.aliasCache /\ n.handlers = m.handlers
         /\ TagsAgree(n, GenerateDeviceID(device), left \ {tag})
<1> DEFINE d == GenerateDeviceID(device)
           n == CacheTag(m, tag, device)
           ids == IF tag \in DOMAIN m.tagCache THEN m.tagCache[tag] ELSE << >>
<1>1. n.devices = m.devices /\ n.aliasCache = m.aliasCache /\ n.handlers = m.handlers /\ n.tagCache = AddToCache(m.tagCache, tag, d)
  BY DEF CacheTag, Manager
<1>2. n.tagCache = IF tag.label = TagLabelAll \/ d \in ToSet(ids) THEN m.tagCache ELSE Put(m.tagCache, tag, Append(ids, d))
  BY <1>1 DEF AddToCache
<1>3. IsTag(tag)
  BY DEF TagsAgree, CacheFull, TagsIn, IsTags
<1>4. CacheSound(m) /\ CacheFull(m, d, left)
  BY DEF TagsAgree
<1>5. IsList(ids) /\ IsInjective(ids) /\ \A id \in ToSet(ids) : id \in DOMAIN m.devices /\ tag \in TagsIn(m, id)
  BY <1>4, EmptyList DEF CacheSound
<1>6. CASE tag.label = TagLabelAll \/ d \in ToSet(ids)
  <2>1. n.tagCache = m.tagCache
    BY <1>2, <1>6
  <2>2. CacheSound(n)
    BY <1>1, <1>4, <2>1 DEF CacheSound, TagsIn
  <2>3. tag.label # TagLabelAll => Cached(m, d, tag)
    BY <1>6, EmptyList DEF Cached
  <2> HIDE DEF n, d, ids
  <2>4. CacheFull(n, d, left \ {tag})
    BY <1>1, <1>4, <2>1, <2>3 DEF CacheFull, TagsIn, Cached
  <2> QED
    BY <1>1, <2>2, <2>4 DEF TagsAgree, n, d
<1>7. CASE tag.label # TagLabelAll /\ d \notin ToSet(ids)
  <2> DEFINE list == Append(ids, d)
  <2>1. IsList(list) /\ IsInjective(list) /\ ToSet(list) = ToSet(ids) \cup {d}
    BY <1>5, <1>7, ListAppend
  <2>2. n.tagCache = Put(m.tagCache, tag, list)
    BY <1>2, <1>7
  <2>3. d \in DOMAIN m.devices /\ tag \in TagsIn(m, d)
    OBVIOUS
  <2>4. \A t \in DOMAIN m.tagCache : t # tag => t \in DOMAIN n.tagCache /\ n.tagCache[t] = m.tagCache[t]
    BY <2>2 DEF Put
  <2>5. DOMAIN n.tagCache = DOMAIN m.tagCache \cup {tag} /\ n.tagCache[tag] = list
    BY <2>2 DEF Put
  <2>6. IsFiniteSet(DOMAIN n.tagCache)
    BY <1>4, <2>5, FS_AddElement DEF CacheSound
  <2> HIDE DEF n, d, list
  <2>7. CacheSound(n)
    <3>1. SUFFICES ASSUME NEW t \in DOMAIN n.tagCache
                   PROVE  /\ t.label # TagLabelAll /\ IsTag(t)
                          /\ IsList(n.tagCache[t]) /\ IsInjective(n.tagCache[t])
                          /\ \A id \in ToSet(n.tagCache[t]) : id \in DOMAIN n.devices /\ t \in TagsIn(n, id)
      BY <2>6 DEF CacheSound
    <3>2. CASE t = tag
      BY <1>1, <1>3, <1>5, <1>7, <2>1, <2>3, <2>5, <3>2 DEF TagsIn
    <3>3. CASE t # tag
      BY <1>1, <1>4, <2>4, <2>5, <3>1, <3>3 DEF TagsIn, CacheSound
    <3> QED
      BY <3>2, <3>3
  <2>8. \A id, t : Cached(m, id, t) => Cached(n, id, t)
    <3>1. SUFFICES ASSUME NEW id, NEW t, Cached(m, id, t) PROVE Cached(n, id, t)
      OBVIOUS
    <3>2. CASE t = tag
      BY <2>1, <2>5, <3>1, <3>2 DEF Cached
    <3>3. CASE t # tag
      BY <2>4, <3>1, <3>3 DEF Cached
    <3> QED
      BY <3>2, <3>3
  <2>9. Cached(n, d, tag)
    BY <2>1, <2>5 DEF Cached
  <2>10. CacheFull(n, d, left \ {tag})
    BY <1>1, <1>4, <2>8, <2>9 DEF CacheFull, TagsIn
  <2> QED
    BY <1>1, <2>7, <2>10 DEF TagsAgree, n, d
<1> QED
  BY <1>6, <1>7

\* The tags agree whatever else of the manager changes.
LEMMA TagsKept ==
  ASSUME NEW m, NEW n, NEW d, NEW left, TagsAgree(m, d, left), n.devices = m.devices, n.tagCache = m.tagCache
  PROVE  TagsAgree(n, d, left)
<1>1. CacheSound(n)
  BY DEF TagsAgree, CacheSound, TagsIn
<1>2. CacheFull(n, d, left)
  BY DEF TagsAgree, CacheFull, TagsIn, Cached
<1> QED
  BY <1>1, <1>2 DEF TagsAgree

LEMMA AddAliasAgrees ==
  ASSUME NEW m, NEW device, AliasesAgree(m, {}),
         GenerateDeviceID(device) \notin DOMAIN m.devices,
         device.alias = Absent \/ device.alias \notin DOMAIN m.aliasCache
  PROVE  LET n == AddAlias(m, device) IN
         /\ n.devices = m.devices /\ n.tagCache = m.tagCache /\ n.handlers = m.handlers
         /\ AliasesAgree(n, {device.alias} \ {Absent})
         /\ device.alias # Absent =>
              device.alias \in DOMAIN n.aliasCache /\ n.aliasCache[device.alias] = GenerateDeviceID(device)
<1> DEFINE n == AddAlias(m, device)
<1>1. CASE device.alias = Absent
  <2>1. n = m
    BY <1>1 DEF AddAlias
  <2>2. AliasesAgree(m, {device.alias} \ {Absent})
    BY DEF AliasesAgree
  <2> QED
    BY <1>1, <2>1, <2>2
<1>2. CASE device.alias # Absent
  <2>1. /\ n.devices = m.devices /\ n.tagCache = m.tagCache /\ n.handlers = m.handlers
        /\ n.aliasCache = Put(m.aliasCache, device.alias, GenerateDeviceID(device))
    BY <1>2 DEF AddAlias, Manager
  <2>2. /\ DOMAIN n.aliasCache = DOMAIN m.aliasCache \cup {device.alias}
        /\ n.aliasCache[device.alias] = GenerateDeviceID(device)
        /\ \A alias \in DOMAIN m.aliasCache : n.aliasCache[alias] = m.aliasCache[alias]
    BY <1>2, <2>1 DEF Put
  <2> HIDE DEF n
  <2>3. AliasesAgree(n, {device.alias} \ {Absent})
    <3>1. \A id \in DOMAIN n.devices :
            LET alias == n.devices[id].alias IN
            /\ id = GenerateDeviceID(n.devices[id])
            /\ alias # Absent => alias \in DOMAIN n.aliasCache /\ n.aliasCache[alias] = id
      BY <2>1, <2>2 DEF AliasesAgree
    <3>2. \A alias \in DOMAIN n.aliasCache :
            \/ n.aliasCache[alias] \in DOMAIN n.devices /\ n.devices[n.aliasCache[alias]].alias = alias
            \/ alias \in {device.alias} \ {Absent}
      BY <1>2, <2>1, <2>2 DEF AliasesAgree
    <3> QED
      BY <3>1, <3>2 DEF AliasesAgree
  <2> QED
    BY <2>1, <2>2, <2>3 DEF n
<1> QED
  BY <1>1, <1>2

\* A device keeps what it is when its tags are added.
LEMMA TaggedDevice ==
  ASSUME NEW device, IsDevice(device)
  PROVE  LET t == Tagged(device) IN
         /\ GenerateDeviceID(t) = GenerateDeviceID(device) /\ t.alias = device.alias
         /\ \A field \in DOMAIN device : field # "tags" => t[field] = device[field]
         /\ IsTags(t.tags) /\ Len(t.tags) = Len(device.tags) + 2
         /\ ToSet(t.tags) = ToSet(device.tags) \cup {newIDTag(GenerateDeviceID(device)), newTypeTag(device.type)}
<1> DEFINE t == Tagged(device)
           x == newIDTag(GenerateDeviceID(device))
           y == newTypeTag(device.type)
<1>1. t = [device EXCEPT !.tags = device.tags \o <<x, y>>]
  BY DEF Tagged
<1>2. t.type = device.type /\ t.handler = device.handler /\ t.data = device.data /\ t.alias = device.alias
  BY <1>1 DEF IsDevice
<1>3. t.tags = device.tags \o <<x, y>> /\ \A field \in DOMAIN device : field # "tags" => t[field] = device[field]
  BY <1>1 DEF IsDevice
<1>4. IsTag(x) /\ IsTag(y)
  BY DEF newIDTag, newTypeTag, IsTag, Tag
<1> HIDE DEF t, x, y
<1>5. IsList(<<x, y>>) /\ ToSet(<<x, y>>) = {x, y} /\ Len(<<x, y>>) = 2
  <2>1. ToSet(<<x, y>>) = {x, y}
    BY DEF ToSet
  <2> QED
    BY <2>1 DEF IsList
<1>6. IsList(device.tags) /\ \A tag \in ToSet(device.tags) : IsTag(tag)
  BY DEF IsDevice, IsTags
<1>7. /\ IsList(t.tags) /\ ToSet(t.tags) = ToSet(device.tags) \cup {x, y}
      /\ Len(t.tags) = Len(device.tags) + 2
  BY <1>3, <1>5, <1>6, ListConcat
<1>8. GenerateDeviceID(t) = GenerateDeviceID(device)
  BY <1>2 DEF GenerateDeviceID
<1> QED
  BY <1>2, <1>3, <1>4, <1>6, <1>7, <1>8 DEF IsTags, t, x, y

LEMMA StoreDeviceAgrees ==
  ASSUME NEW m, NEW device, IsDevice(device), NEW d,
         GenerateDeviceID(device) \notin DOMAIN m.devices,
         AliasesAgree(m, {device.alias} \ {Absent}), TagsAgree(m, d, {}),
         device.alias # Absent =>
           device.alias \in DOMAIN m.aliasCache /\ m.aliasCache[device.alias] = GenerateDeviceID(device)
  PROVE  LET n == StoreDevice(m, device)
             id == GenerateDeviceID(device) IN
         /\ n.devices = Put(m.devices, id, Tagged(device)) /\ n.aliasCache = m.aliasCache /\ n.handlers = m.handlers
         /\ AliasesAgree(n, {}) /\ TagsAgree(n, id, ToSet(Tagged(device).tags))
         /\ id \in DOMAIN n.devices /\ TagsIn(n, id) = ToSet(Tagged(device).tags)
<1> DEFINE n == StoreDevice(m, device)
           new == GenerateDeviceID(device)
           t == Tagged(device)
<1>1. /\ n.devices = Put(m.devices, new, t) /\ n.aliasCache = m.aliasCache
      /\ n.tagCache = m.tagCache /\ n.handlers = m.handlers
  BY DEF StoreDevice, Manager
<1>2. /\ DOMAIN n.devices = DOMAIN m.devices \cup {new} /\ n.devices[new] = t
      /\ \A id \in DOMAIN m.devices : n.devices[id] = m.devices[id]
  BY <1>1 DEF Put
<1>3. /\ GenerateDeviceID(t) = new /\ t.alias = device.alias /\ IsTags(t.tags)
      /\ newIDTag(new) \in ToSet(t.tags)
  BY TaggedDevice
<1>4. new # TagLabelAll
  BY DEF IsDevice
<1> HIDE DEF n, new, t
<1>5. new \notin DOMAIN m.devices
  BY DEF new
<1>6. AliasesAgree(n, {})
  <2>1. device.alias # Absent => device.alias \in DOMAIN m.aliasCache /\ m.aliasCache[device.alias] = new
    BY DEF new
  <2>2. ASSUME NEW id \in DOMAIN n.devices
        PROVE  LET alias == n.devices[id].alias IN
               /\ id = GenerateDeviceID(n.devices[id])
               /\ alias # Absent => alias \in DOMAIN n.aliasCache /\ n.aliasCache[alias] = id
    <3>1. CASE id = new
      BY <1>1, <1>2, <1>3, <2>1, <3>1
    <3>2. CASE id # new
      BY <1>1, <1>2, <2>2, <3>2 DEF AliasesAgree
    <3> QED
      BY <3>1, <3>2
  <2>3. ASSUME NEW alias \in DOMAIN n.aliasCache
        PROVE  n.aliasCache[alias] \in DOMAIN n.devices /\ n.devices[n.aliasCache[alias]].alias = alias
    <3>1. CASE m.aliasCache[alias] \in DOMAIN m.devices /\ m.devices[m.aliasCache[alias]].alias = alias
      BY <1>1, <1>2, <3>1
    <3>2. CASE alias = device.alias /\ alias # Absent
      BY <1>1, <1>2, <1>3, <2>1, <3>2
    <3> QED
      BY <1>1, <2>3, <3>1, <3>2 DEF AliasesAgree
  <2> QED
    BY <2>2, <2>3 DEF AliasesAgree
<1>7. CacheSound(n)
  BY <1>1, <1>2, <1>5 DEF TagsAgree, CacheSound, TagsIn
<1>8. CacheFull(n, new, ToSet(t.tags))
  <2>1. ASSUME NEW id \in DOMAIN n.devices
        PROVE  /\ IsTags(n.devices[id].tags)
               /\ id # TagLabelAll /\ newIDTag(id) \in TagsIn(n, id)
               /\ \A tag \in TagsIn(n, id) :
                    tag.label # TagLabelAll => Cached(n, id, tag) \/ (id = new /\ tag \in ToSet(t.tags))
    <3>1. CASE id = new
      BY <1>2, <1>3, <1>4, <3>1 DEF TagsIn
    <3>2. CASE id # new
      <4>1. id \in DOMAIN m.devices /\ n.devices[id] = m.devices[id] /\ TagsIn(n, id) = TagsIn(m, id)
        BY <1>2, <2>1, <3>2 DEF TagsIn
      <4> QED
        BY <1>1, <4>1 DEF TagsAgree, CacheFull, Cached
    <3> QED
      BY <3>1, <3>2
  <2> QED
    BY <2>1 DEF CacheFull
<1>9. new \in DOMAIN n.devices /\ TagsIn(n, new) = ToSet(t.tags)
  BY <1>2 DEF TagsIn
<1> QED
  BY <1>1, <1>6, <1>7, <1>8, <1>9 DEF TagsAgree, n, new, t

-----------------------------------------------------------------------------
(* AddDevice.                                                              *)

CacheNext(c, m, tag) == CacheTag(m, tag, c.device)
CachedUpTo(c, i, m) ==
  /\ m.devices = c.base.devices /\ m.aliasCache = c.base.aliasCache /\ m.handlers = c.base.handlers
  /\ TagsAgree(m, GenerateDeviceID(c.device), {c.tags[j] : j \in i + 1 .. Len(c.tags)})

Caches == INSTANCE FoldInduction WITH Op <- CacheNext, Inv <- CachedUpTo

LEMMA AddDeviceAgrees ==
  ASSUME NEW m, ManagerAgrees(m), NEW device, IsDevice(device), NEW plugin
  PROVE  LET n == AddDevice(m, device, plugin) IN
         /\ ManagerAgrees(n) /\ n.handlers = m.handlers
         /\ n.devices = IF Refused(m, device, plugin) THEN m.devices
                        ELSE Put(m.devices, GenerateDeviceID(device), Tagged(device))
<1> DEFINE d == GenerateDeviceID(device)
           stored == StoreDevice(AddAlias(m, device), device)
           tags == Tagged(device).tags
           c == [device |-> device, base |-> stored, tags |-> tags]
<1>1. CASE Refused(m, device, plugin)
  BY <1>1 DEF AddDevice
<1>2. CASE ~Refused(m, device, plugin)
  <2>1. d \notin DOMAIN m.devices /\ (device.alias = Absent \/ device.alias \notin DOMAIN m.aliasCache)
    BY <1>2 DEF Refused
  <2>2. /\ AddAlias(m, device).devices = m.devices /\ AddAlias(m, device).handlers = m.handlers
        /\ AliasesAgree(AddAlias(m, device), {device.alias} \ {Absent})
        /\ device.alias # Absent =>
             /\ device.alias \in DOMAIN AddAlias(m, device).aliasCache
             /\ AddAlias(m, device).aliasCache[device.alias] = d
        /\ AddAlias(m, device).tagCache = m.tagCache
    BY <2>1, AddAliasAgrees DEF ManagerAgrees
  <2>3. TagsAgree(AddAlias(m, device), Absent, {})
    BY <2>2, TagsKept DEF ManagerAgrees
  <2>4. /\ stored.devices = Put(m.devices, d, Tagged(device)) /\ stored.handlers = m.handlers
        /\ AliasesAgree(stored, {}) /\ TagsAgree(stored, d, ToSet(tags))
        /\ d \in DOMAIN stored.devices /\ TagsIn(stored, d) = ToSet(tags)
    BY <2>1, <2>2, <2>3, StoreDeviceAgrees
  <2>5. IsList(tags)
    BY TaggedDevice DEF IsTags
  <2>6. FoldLeft(LAMBDA l, tag : CacheTag(l, tag, device), stored, tags) = Caches!LeftFold(c, stored, tags)
    BY DEF CacheNext, Caches!LeftFold, FoldLeft, MapThenFoldSet, Max, Caches!FoldLeft, Caches!MapThenFoldSet, Caches!Max
  <2>7. AddDevice(m, device, plugin) = Caches!LeftFold(c, stored, tags)
    BY <1>2, <2>6 DEF AddDevice
  <2>8. c.device = device /\ c.base = stored /\ c.tags = tags
    OBVIOUS
  <2> HIDE DEF c, stored, tags
  <2>9. Len(tags) \in Nat /\ DOMAIN tags = 1 .. Len(tags) /\ \A i \in 1 .. Len(tags) : tags[i] \in ToSet(tags)
    BY <2>5, ListDomain
  <2>10. CachedUpTo(c, 0, stored)
    <3>1. ToSet(tags) \subseteq {tags[j] : j \in 0 + 1 .. Len(tags)}
      BY <2>5, <2>9, ListDomain
    <3>2. TagsAgree(stored, d, {tags[j] : j \in 0 + 1 .. Len(tags)})
      BY <2>4, <3>1, LeftGrows
    <3> QED
      BY <2>8, <3>2 DEF CachedUpTo
  <2>11. ASSUME NEW i \in 1 .. Len(tags), NEW l, CachedUpTo(c, i - 1, l)
         PROVE  CachedUpTo(c, i, CacheNext(c, l, tags[i]))
    <3> DEFINE left == {tags[j] : j \in (i - 1) + 1 .. Len(tags)}
               next == CacheTag(l, tags[i], device)
    <3>1. /\ l.devices = stored.devices /\ l.aliasCache = stored.aliasCache /\ l.handlers = stored.handlers
          /\ TagsAgree(l, d, left)
      BY <2>8, <2>11 DEF CachedUpTo
    <3>2. d \in DOMAIN l.devices /\ tags[i] \in TagsIn(l, d)
      BY <2>4, <2>9, <3>1 DEF TagsIn
    <3>3. /\ next.devices = l.devices /\ next.aliasCache = l.aliasCache /\ next.handlers = l.handlers
          /\ TagsAgree(next, d, left \ {tags[i]})
      BY <3>1, <3>2, CacheTagAgrees
    <3>4. left \ {tags[i]} \subseteq {tags[j] : j \in i + 1 .. Len(tags)}
      BY <2>9
    <3> HIDE DEF left, next, d
    <3>5. TagsAgree(next, d, {tags[j] : j \in i + 1 .. Len(tags)})
      BY <3>3, <3>4, LeftGrows
    <3> QED
      BY <2>8, <3>1, <3>3, <3>5 DEF CachedUpTo, CacheNext, next, d
  <2>12. CachedUpTo(c, Len(tags), Caches!LeftFold(c, stored, tags))
    BY <2>9, <2>10, <2>11, Caches!LeftFoldInduction
  <2> DEFINE n == Caches!LeftFold(c, stored, tags)
  <2>13. /\ n.devices = stored.devices /\ n.aliasCache = stored.aliasCache /\ n.handlers = stored.handlers
         /\ TagsAgree(n, Absent, {})
    <3>1. {tags[j] : j \in Len(tags) + 1 .. Len(tags)} = {}
      BY <2>9
    <3>2. /\ n.devices = stored.devices /\ n.aliasCache = stored.aliasCache /\ n.handlers = stored.handlers
          /\ TagsAgree(n, d, {})
      BY <2>8, <2>12, <3>1 DEF CachedUpTo
    <3> HIDE DEF n, d
    <3> QED
      BY <3>2, NothingLeft
  <2> HIDE DEF n
  <2>14. AliasesAgree(n, {})
    BY <2>4, <2>13 DEF AliasesAgree
  <2> QED
    BY <1>2, <2>4, <2>7, <2>13, <2>14 DEF ManagerAgrees, n
<1> QED
  BY <1>1, <1>2

-----------------------------------------------------------------------------
(* NewTags.                                                                *)

\* What a list has is finite, and as much as it is long when nothing is there twice.
LEMMA ListFinite ==
  ASSUME NEW s, IsList(s)
  PROVE  IsFiniteSet(ToSet(s)) /\ (IsInjective(s) => Cardinality(ToSet(s)) = Len(s))
<1> DEFINE n == Len(s)
           S == ToSet(s)
<1>1. n \in Nat /\ DOMAIN s = 1 .. n /\ (\A i \in 1 .. n : s[i] \in S) /\ (\A x \in S : \E i \in 1 .. n : s[i] = x)
  BY ListDomain
<1>2. s = [i \in 1 .. n |-> s[i]]
  BY <1>1 DEF IsList
<1> HIDE DEF n, S
<1>3. s \in Surjection(1 .. n, S)
  BY <1>1, <1>2 DEF Surjection
<1>4. IsFiniteSet(1 .. n) /\ Cardinality(1 .. n) = n
  BY <1>1, FS_Interval
<1>5. IsFiniteSet(S) /\ (Cardinality(S) = Cardinality(1 .. n) <=> s \in Injection(1 .. n, S))
  BY <1>3, <1>4, FS_Surjection
<1>6. IsInjective(s) => s \in Injection(1 .. n, S)
  BY <1>3 DEF Injection, Surjection
<1> QED
  BY <1>4, <1>5, <1>6 DEF n, S

OnceIn(c, seen, string) == IF string \in ToSet(seen) THEN seen ELSE Append(seen, string)
SeenUpTo(c, i, seen) == IsList(seen) /\ IsInjective(seen) /\ ToSet(seen) = {c[j] : j \in 1 .. i}

Onces == INSTANCE FoldInduction WITH Op <- OnceIn, Inv <- SeenUpTo

LEMMA EachOnce ==
  ASSUME NEW strings, IsList(strings)
  PROVE  LET seen == Onces!LeftFold(strings, << >>, strings) IN
         IsList(seen) /\ IsInjective(seen) /\ ToSet(seen) = ToSet(strings)
<1> DEFINE n == Len(strings)
           seen == Onces!LeftFold(strings, << >>, strings)
<1>1. /\ n \in Nat /\ DOMAIN strings = 1 .. n
      /\ \A i \in 1 .. n : strings[i] \in ToSet(strings)
      /\ \A x \in ToSet(strings) : \E i \in 1 .. n : strings[i] = x
  BY ListDomain
<1>2. SeenUpTo(strings, 0, << >>)
  BY EmptyList DEF SeenUpTo
<1>3. ASSUME NEW i \in 1 .. n, NEW some, SeenUpTo(strings, i - 1, some)
      PROVE  SeenUpTo(strings, i, OnceIn(strings, some, strings[i]))
  <2>1. {strings[j] : j \in 1 .. i} = {strings[j] : j \in 1 .. i - 1} \cup {strings[i]}
    BY <1>1
  <2>2. CASE strings[i] \in ToSet(some)
    BY <1>3, <2>1, <2>2 DEF SeenUpTo, OnceIn
  <2>3. CASE strings[i] \notin ToSet(some)
    <3>1. /\ IsList(Append(some, strings[i])) /\ IsInjective(Append(some, strings[i]))
          /\ ToSet(Append(some, strings[i])) = ToSet(some) \cup {strings[i]}
      BY <1>3, <2>3, ListAppend DEF SeenUpTo
    <3> QED
      BY <1>3, <2>1, <2>3, <3>1 DEF SeenUpTo, OnceIn
  <2> QED
    BY <2>2, <2>3
<1> HIDE DEF n
<1>4. SeenUpTo(strings, n, seen)
  BY <1>1, <1>2, <1>3, Onces!LeftFoldInduction
<1>5. ToSet(strings) = {strings[j] : j \in 1 .. n}
  BY <1>1
<1> QED
  BY <1>4, <1>5 DEF SeenUpTo

\* No string of them leaves the parser locked, or depends on the string before.
Parsing(strings) == \A string \in strings : string.kind \notin {"blank", "unparsed"}
AllTags(strings) == \A string \in strings : string.kind = "tag"

MakeTag(c, made, string) ==
  LET new == NewTag(string, made.parser) IN
  IF ~made.ok \/ made.blocked THEN made
  ELSE IF Blocks(string, made.parser) THEN [made EXCEPT !.blocked = TRUE]
  ELSE [tags |-> Append(made.tags, new.tag), ok |-> new.ok, parser |-> new.parser, blocked |-> FALSE]

MadeUpTo(c, i, made) ==
  /\ made = [tags |-> made.tags, ok |-> made.ok, parser |-> made.parser, blocked |-> made.blocked]
  /\ IsTags(made.tags) /\ IsTag(made.parser.parsed.tag)
  /\ ~c.parser.locked /\ Parsing(ToSet(c.strings)) =>
       /\ ~made.blocked /\ ~made.parser.locked
       /\ made.ok <=> \A j \in 1 .. i : c.strings[j].kind = "tag"
       /\ made.ok => Len(made.tags) = i /\ \A j \in 1 .. i : made.tags[j] = c.strings[j].tag

Makes == INSTANCE FoldInduction WITH Op <- MakeTag, Inv <- MadeUpTo

LEMMA MakeTagStep ==
  ASSUME NEW c, IsStrings(c.strings), NEW i \in 1 .. Len(c.strings), NEW made, MadeUpTo(c, i - 1, made)
  PROVE  MadeUpTo(c, i, MakeTag(c, made, c.strings[i]))
<1> DEFINE string == c.strings[i]
           new == NewTag(string, made.parser)
           tags == Append(made.tags, new.tag)
           next == MakeTag(c, made, string)
           clear == ~c.parser.locked /\ Parsing(ToSet(c.strings))
<1>1. /\ Len(c.strings) \in Nat /\ i \in Nat /\ i - 1 \in Nat
      /\ string \in ToSet(c.strings) /\ IsTag(string.tag)
  BY ListDomain DEF IsStrings
<1>2. /\ new.tag = Rendered(string, made.parser.parsed).tag
      /\ new.ok = (Rendered(string, made.parser.parsed).kind = "tag")
      /\ new.parser.parsed \in {made.parser.parsed, Rendered(string, made.parser.parsed)}
      /\ new.parser.locked = (made.parser.locked \/ LeavesLocked(string))
  BY DEF NewTag
<1>3. IsTag(new.tag) /\ IsTag(new.parser.parsed.tag)
  BY <1>1, <1>2 DEF MadeUpTo, Rendered
<1>4. clear => new.tag = string.tag /\ (new.ok <=> string.kind = "tag") /\ ~LeavesLocked(string)
  BY <1>1, <1>2 DEF Parsing, Rendered, LeavesLocked
<1>5. \A j \in 1 .. i : j \in 1 .. i - 1 \/ j = i
  BY <1>1
<1>6. \A j \in 1 .. i - 1 : j \in 1 .. i
  BY <1>1
<1>7. CASE ~made.ok \/ made.blocked
  <2>1. next = made
    BY <1>7 DEF MakeTag
  <2>2. clear => ~made.ok
    BY <1>7 DEF MadeUpTo
  <2> HIDE DEF next, clear, string
  <2>3. clear => ~\A j \in 1 .. i : c.strings[j].kind = "tag"
    BY <1>6, <2>2 DEF MadeUpTo, clear
  <2>4. MadeUpTo(c, i, made)
    BY <2>2, <2>3 DEF MadeUpTo, clear
  <2> QED
    BY <2>1, <2>4 DEF next, string
<1>8. CASE made.ok /\ ~made.blocked /\ Blocks(string, made.parser)
  <2>1. next = [made EXCEPT !.blocked = TRUE]
    BY <1>8 DEF MakeTag
  <2>2. /\ next = [tags |-> made.tags, ok |-> made.ok, parser |-> made.parser, blocked |-> TRUE]
    BY <2>1 DEF MadeUpTo
  <2>3. ~clear
    BY <1>8 DEF MadeUpTo, Blocks
  <2> HIDE DEF next
  <2> QED
    BY <2>2, <2>3 DEF MadeUpTo, next
<1>9. CASE made.ok /\ ~made.blocked /\ ~Blocks(string, made.parser)
  <2>1. next = [tags |-> tags, ok |-> new.ok, parser |-> new.parser, blocked |-> FALSE]
    BY <1>9 DEF MakeTag
  <2>2. IsTags(tags)
    BY <1>3, ListAppend DEF MadeUpTo, IsTags
  <2>3. clear => ~new.parser.locked
    BY <1>2, <1>4 DEF MadeUpTo
  <2>4. clear => (new.ok <=> \A j \in 1 .. i : c.strings[j].kind = "tag")
    BY <1>1, <1>4, <1>5, <1>6, <1>9 DEF MadeUpTo
  <2>5. clear => Len(tags) = i /\ \A j \in 1 .. i : tags[j] = c.strings[j].tag
    <3>1. /\ Len(tags) = Len(made.tags) + 1 /\ tags[Len(made.tags) + 1] = new.tag
          /\ \A j \in 1 .. Len(made.tags) : tags[j] = made.tags[j]
      BY ListAppend DEF MadeUpTo, IsTags
    <3>2. SUFFICES ASSUME clear PROVE Len(tags) = i /\ \A j \in 1 .. i : tags[j] = c.strings[j].tag
      OBVIOUS
    <3>3. Len(made.tags) = i - 1 /\ \A j \in 1 .. i - 1 : made.tags[j] = c.strings[j].tag
      BY <1>9, <3>2 DEF MadeUpTo
    <3>4. new.tag = c.strings[i].tag
      BY <1>4, <3>2
    <3> HIDE DEF tags, new
    <3> QED
      BY <1>1, <1>5, <3>1, <3>3, <3>4
  <2> HIDE DEF next, tags, new, string
  <2> QED
    BY <1>3, <2>1, <2>2, <2>3, <2>4, <2>5 DEF MadeUpTo, next, string
<1> QED
  BY <1>7, <1>8, <1>9

\* What the tags of some strings are.
LEMMA NewTagsMade ==
  ASSUME NEW strings, IsStrings(strings), NEW parser, IsTag(parser.parsed.tag)
  PROVE  LET made == NewTags(strings, parser) IN
         /\ IsTags(made.tags) /\ IsTag(made.parser.parsed.tag)
         /\ ~parser.locked /\ Parsing(ToSet(strings)) =>
              /\ ~made.blocked /\ ~made.parser.locked
              /\ made.ok <=> AllTags(ToSet(strings))
              /\ made.ok => /\ ToSet(made.tags) = {string.tag : string \in ToSet(strings)}
                            /\ Len(made.tags) = Cardinality(ToSet(strings))
<1> DEFINE each == Onces!LeftFold(strings, << >>, strings)
           base == [tags |-> << >>, ok |-> TRUE, parser |-> parser, blocked |-> FALSE]
           c == [strings |-> each, parser |-> parser]
           made == NewTags(strings, parser)
           n == Len(each)
<1>1. IsList(each) /\ IsInjective(each) /\ ToSet(each) = ToSet(strings)
  BY EachOnce DEF IsStrings
<1>2. /\ n \in Nat /\ DOMAIN each = 1 .. n /\ Cardinality(ToSet(strings)) = n
      /\ \A i \in 1 .. n : each[i] \in ToSet(strings)
      /\ \A x \in ToSet(strings) : \E i \in 1 .. n : each[i] = x
  <2> HIDE DEF each
  <2> QED
    BY <1>1, ListDomain, ListFinite
<1>3. made = Makes!LeftFold(c, base, each)
  BY DEF NewTags, OnceIn, MakeTag, Onces!LeftFold, Makes!LeftFold, FoldLeft, MapThenFoldSet, Max,
     Onces!FoldLeft, Onces!MapThenFoldSet, Onces!Max, Makes!FoldLeft, Makes!MapThenFoldSet, Makes!Max
<1>4. c.strings = each /\ c.parser = parser
  OBVIOUS
<1>5. base.tags = << >> /\ base.ok = TRUE /\ base.parser = parser /\ base.blocked = FALSE
  OBVIOUS
<1>6. base = [tags |-> base.tags, ok |-> base.ok, parser |-> base.parser, blocked |-> base.blocked]
  OBVIOUS
<1> HIDE DEF each, base, c, made, n
<1>7. IsTags(<< >>) /\ Len(<< >>) = 0
  BY EmptyList DEF IsTags
<1>8. MadeUpTo(c, 0, base)
  BY <1>4, <1>5, <1>6, <1>7 DEF MadeUpTo
<1>9. IsStrings(c.strings)
  BY <1>1, <1>4 DEF IsStrings
<1>10. \A i \in 1 .. n : \A m : MadeUpTo(c, i - 1, m) => MadeUpTo(c, i, MakeTag(c, m, each[i]))
  BY <1>4, <1>9, MakeTagStep DEF n
<1>11. MadeUpTo(c, n, made)
  BY <1>2, <1>3, <1>8, <1>10, Makes!LeftFoldInduction
<1>12. IsTags(made.tags) /\ IsTag(made.parser.parsed.tag)
  BY <1>11 DEF MadeUpTo
<1>13. ASSUME ~parser.locked, Parsing(ToSet(strings))
       PROVE  /\ ~made.blocked /\ ~made.parser.locked
              /\ made.ok <=> AllTags(ToSet(strings))
              /\ made.ok => /\ ToSet(made.tags) = {string.tag : string \in ToSet(strings)}
                            /\ Len(made.tags) = Cardinality(ToSet(strings))
  <2>1. /\ ~made.blocked /\ ~made.parser.locked
        /\ made.ok <=> \A j \in 1 .. n : each[j].kind = "tag"
        /\ made.ok => Len(made.tags) = n /\ \A j \in 1 .. n : made.tags[j] = each[j].tag
    BY <1>1, <1>4, <1>11, <1>13 DEF MadeUpTo
  <2>2. made.ok <=> AllTags(ToSet(strings))
    BY <1>2, <2>1 DEF AllTags
  <2>3. ASSUME made.ok PROVE ToSet(made.tags) = {string.tag : string \in ToSet(strings)}
    <3>1. DOMAIN made.tags = 1 .. n
      BY <1>12, <2>1, <2>3, ListDomain DEF IsTags
    <3>2. ToSet(made.tags) = {made.tags[j] : j \in 1 .. n}
      BY <3>1 DEF ToSet
    <3> QED
      BY <1>2, <2>1, <2>3, <3>2
  <2> QED
    BY <1>2, <2>1, <2>2, <2>3
<1> QED
  BY <1>12, <1>13 DEF made

-----------------------------------------------------------------------------
(* NewDeviceFromConfig.                                                    *)

Configured(proto, instance) == [proto |-> proto, instance |-> instance]

\* What a device takes from its instance and prototype is what is configured.
LEMMA Inherits ==
  ASSUME NEW proto, IsProto(proto), NEW instance \in ToSet(proto.instances)
  PROVE  LET c == Configured(proto, instance)
             base == Inherited(proto, instance) IN
         /\ IsStrings(base.tags \o instance.tags) /\ ToSet(base.tags \o instance.tags) = Strings(c)
         /\ base.transforms \o instance.transforms = Transforms(c)
         /\ ToSet(base.transforms) \subseteq ToSet(Transforms(c))
         /\ Either(instance.type, base.type) = Own(c, "type")
         /\ Either(instance.handler, Either(base.handler, Own(c, "type"))) = HandlerOf(c)
         /\ Over(instance.data, base.data) = Values(c, "data")
         /\ Over(instance.context, base.context) = Values(c, "context")
         /\ Either(instance.timeout, Either(base.timeout, DefaultWriteTimeout)) =
              IF Own(c, "timeout") = Absent THEN DefaultWriteTimeout ELSE Own(c, "timeout")
         /\ IdFor(c) # TagLabelAll
<1> DEFINE c == Configured(proto, instance)
           base == Inherited(proto, instance)
<1>1. c.proto = proto /\ c.instance = instance
  BY DEF Configured
<1>2. /\ IsStrings(instance.tags) /\ IsList(instance.transforms) /\ IdFor(c) # TagLabelAll
      /\ IsStrings(proto.tags) /\ IsList(proto.transforms)
  BY DEF IsProto, IsInstance, Configured
<1>3. base = IF instance.inherit THEN proto ELSE NoProto
  BY DEF Inherited
<1>4. /\ NoProto.type = Absent /\ NoProto.handler = Absent /\ NoProto.timeout = Absent
      /\ NoProto.tags = << >> /\ NoProto.transforms = << >>
      /\ NoProto.data = Empty /\ NoProto.context = Empty
  BY DEF NoProto, Empty
<1> HIDE DEF c, base
<1>5. IsStrings(base.tags) /\ ToSet(base.tags) = (IF instance.inherit THEN ToSet(proto.tags) ELSE {})
      /\ IsList(base.transforms)
  BY <1>2, <1>3, <1>4, EmptyList DEF IsStrings
<1>6. IsStrings(base.tags \o instance.tags) /\ ToSet(base.tags \o instance.tags) = Strings(c)
  BY <1>1, <1>2, <1>5, ListConcat DEF IsStrings, Strings
<1>7. base.transforms \o instance.transforms = Transforms(c)
  BY <1>1, <1>3, <1>4 DEF Transforms
<1>8. ToSet(base.transforms) \subseteq ToSet(Transforms(c))
  <2>1. ToSet(base.transforms \o instance.transforms) = ToSet(base.transforms) \cup ToSet(instance.transforms)
    BY <1>2, <1>5, ListConcat
  <2> QED
    BY <1>7, <2>1
<1>9. /\ Either(instance.type, base.type) = Own(c, "type")
      /\ Either(instance.handler, Either(base.handler, Own(c, "type"))) = HandlerOf(c)
  BY <1>1, <1>3, <1>4 DEF Either, Own, HandlerOf
<1>10. /\ Over(instance.data, base.data) = Values(c, "data")
       /\ Over(instance.context, base.context) = Values(c, "context")
  BY <1>1, <1>3, <1>4 DEF Values
<1>11. Either(instance.timeout, Either(base.timeout, DefaultWriteTimeout)) =
         IF Own(c, "timeout") = Absent THEN DefaultWriteTimeout ELSE Own(c, "timeout")
  BY <1>1, <1>3, <1>4 DEF Either, Own
<1> QED
  BY <1>2, <1>6, <1>7, <1>8, <1>9, <1>10, <1>11 DEF c, base

AliasFor(c) == Alias(c.instance.alias, Values(c, "context"))

\* A sound instance is a device, and what is a device is that of its instance.
LEMMA DeviceMade ==
  ASSUME NEW proto, IsProto(proto), NEW instance \in ToSet(proto.instances), NEW parser, IsTag(parser.parsed.tag)
  PROVE  LET c == Configured(proto, instance)
             new == NewDeviceFromConfig(proto, instance, DevicePlugin, parser) IN
         /\ IsTag(new.parser.parsed.tag)
         /\ new.ok => /\ IsDevice(new.device) /\ GenerateDeviceID(new.device) = IdFor(c)
                      /\ new.device.type # Absent /\ new.device.handler = HandlerOf(c)
                      /\ new.device.data = Values(c, "data") /\ new.device.alias = AliasFor(c)
         /\ ~parser.locked /\ Parsing(Strings(c)) =>
              /\ ~new.blocked /\ ~new.parser.locked
              /\ new.ok => IsDeviceOf(Tagged(new.device), c)
              /\ Sound(c) => new.ok
<1> DEFINE c == Configured(proto, instance)
           base == Inherited(proto, instance)
           strings == base.tags \o instance.tags
           made == NewTags(strings, parser)
           type == Own(c, "type")
           context == Values(c, "context")
           plugin == DevicePlugin
           bad == \E t \in ToSet(base.transforms) : ~ValidTransform(t, plugin)
           ok == /\ made.ok /\ ~made.blocked
                 /\ type # Absent /\ HandlerOf(c) \in plugin.handlers
                 /\ instance.output \in plugin.outputs \cup {Absent}
                 /\ \A t \in ToSet(Transforms(c)) : ValidTransform(t, plugin)
                 /\ \A k \in DOMAIN context : context[k] # Unparsed
                 /\ instance.alias.name # Absent \/ instance.alias.template # Unparsed
           timeout == IF Own(c, "timeout") = Absent THEN DefaultWriteTimeout ELSE Own(c, "timeout")
           device == [type |-> type, handler |-> HandlerOf(c), data |-> Values(c, "data"), context |-> context,
                      tags |-> made.tags, transforms |-> Transforms(c), timeout |-> timeout,
                      output |-> instance.output, alias |-> Alias(instance.alias, context)]
           new == NewDeviceFromConfig(proto, instance, plugin, parser)
<1>1. c.proto = proto /\ c.instance = instance
  BY DEF Configured
<1>2. /\ IsStrings(strings) /\ ToSet(strings) = Strings(c)
      /\ base.transforms \o instance.transforms = Transforms(c)
      /\ ToSet(base.transforms) \subseteq ToSet(Transforms(c))
      /\ Either(instance.type, base.type) = type
      /\ Either(instance.handler, Either(base.handler, type)) = HandlerOf(c)
      /\ Over(instance.data, base.data) = Values(c, "data")
      /\ Over(instance.context, base.context) = context
      /\ Either(instance.timeout, Either(base.timeout, DefaultWriteTimeout)) = timeout
      /\ IdFor(c) # TagLabelAll
  BY Inherits
<1>3. new = IF bad THEN [ok |-> FALSE, device |-> << >>, parser |-> parser, blocked |-> FALSE]
            ELSE [ok |-> ok, device |-> device, parser |-> made.parser, blocked |-> made.blocked]
  <2> HIDE DEF c
  <2> QED
    BY <1>2 DEF NewDeviceFromConfig
<1>4. /\ IsTags(made.tags) /\ IsTag(made.parser.parsed.tag)
      /\ ~parser.locked /\ Parsing(Strings(c)) =>
           /\ ~made.blocked /\ ~made.parser.locked
           /\ made.ok <=> AllTags(Strings(c))
           /\ made.ok => /\ ToSet(made.tags) = {string.tag : string \in Strings(c)}
                         /\ Len(made.tags) = Cardinality(Strings(c))
  <2> HIDE DEF strings, c
  <2> QED
    BY <1>2, NewTagsMade
<1>5. /\ device.type = type /\ device.handler = HandlerOf(c) /\ device.data = Values(c, "data")
      /\ device.context = context /\ device.transforms = Transforms(c) /\ device.output = instance.output
      /\ device.timeout = timeout /\ device.tags = made.tags /\ device.alias = Alias(instance.alias, context)
      /\ {"type", "handler", "data", "tags", "alias", "context", "transforms", "output", "timeout"} = DOMAIN device
  BY DEF Configured
<1>6. plugin.handlers = ToSet(setup.handlers) /\ plugin.outputs = ToSet(setup.outputs)
  BY DEF DevicePlugin
<1> HIDE DEF c, base, strings, made, device, plugin, type, context, timeout
<1>7. GenerateDeviceID(device) = IdFor(c)
  BY <1>5 DEF GenerateDeviceID, IdFor, type
<1>8. IsDevice(device)
  BY <1>2, <1>4, <1>5, <1>7 DEF IsDevice
<1>9. new.ok => ok /\ new.device = device /\ new.parser = made.parser /\ new.blocked = made.blocked
  <2>1. CASE bad
    <3>1. new.ok = FALSE
      BY <1>3, <2>1
    <3> QED
      BY <3>1
  <2>2. CASE ~bad
    <3>1. new = [ok |-> ok, device |-> device, parser |-> made.parser, blocked |-> made.blocked]
      BY <1>3, <2>2
    <3> HIDE DEF ok, new, bad
    <3> QED
      BY <3>1
  <2> QED
    BY <2>1, <2>2
<1>10. IsTag(new.parser.parsed.tag)
  BY <1>3, <1>4
<1>11. ASSUME new.ok
       PROVE  /\ IsDevice(new.device) /\ GenerateDeviceID(new.device) = IdFor(c)
              /\ new.device.type # Absent /\ new.device.handler = HandlerOf(c)
              /\ new.device.data = Values(c, "data") /\ new.device.alias = AliasFor(c)
  BY <1>1, <1>5, <1>7, <1>8, <1>9, <1>11 DEF AliasFor, context
<1>12. ASSUME ~parser.locked, Parsing(Strings(c))
       PROVE  /\ ~new.blocked /\ ~new.parser.locked
              /\ new.ok => IsDeviceOf(Tagged(new.device), c)
              /\ Sound(c) => new.ok
  <2>1. ~new.blocked /\ ~new.parser.locked
    BY <1>3, <1>4, <1>12
  <2>2. ASSUME new.ok PROVE IsDeviceOf(Tagged(device), c)
    <3> DEFINE t == Tagged(device)
    <3>1. /\ GenerateDeviceID(t) = GenerateDeviceID(device)
          /\ \A field \in DOMAIN device : field # "tags" => t[field] = device[field]
          /\ Len(t.tags) = Len(device.tags) + 2
          /\ ToSet(t.tags) = ToSet(device.tags) \cup {newIDTag(GenerateDeviceID(device)), newTypeTag(device.type)}
      BY <1>8, TaggedDevice
    <3> HIDE DEF t
    <3>2. /\ t.type = type /\ t.handler = HandlerOf(c) /\ t.data = Values(c, "data")
          /\ t.context = context /\ t.transforms = Transforms(c) /\ t.output = instance.output
          /\ t.timeout = timeout
      BY <1>5, <3>1
    <3>3. made.ok
      BY <1>9, <2>2
    <3>4. ToSet(device.tags) = {string.tag : string \in Strings(c)} /\ Len(device.tags) = Cardinality(Strings(c))
      BY <1>4, <1>5, <1>12, <3>3
    <3> QED
      BY <1>1, <1>5, <3>1, <3>2, <3>4 DEF IsDeviceOf, t, type, context, timeout
  <2>3. ASSUME Sound(c) PROVE new.ok
    <3>1. /\ \A string \in Strings(c) : string.kind = "tag"
          /\ type # Absent /\ HandlerOf(c) \in ToSet(setup.handlers)
          /\ instance.output \in ToSet(setup.outputs) \cup {Absent}
          /\ \A t \in ToSet(Transforms(c)) : ValidTransform(t, plugin)
          /\ \A k \in DOMAIN context : context[k] # Unparsed
          /\ instance.alias.name = Absent => instance.alias.template # Unparsed
      BY <1>1, <2>3 DEF Sound, type, context, plugin
    <3>2. made.ok /\ ~made.blocked
      BY <1>4, <1>12, <3>1 DEF AllTags
    <3>3. ~bad
      BY <1>2, <3>1
    <3>4. ok
      BY <1>6, <3>1, <3>2
    <3> QED
      BY <1>3, <3>3, <3>4
  <2> QED
    BY <1>9, <2>1, <2>2, <2>3
<1> QED
  BY <1>10, <1>11, <1>12 DEF c, plugin

-----------------------------------------------------------------------------
(* init: an instance after the other.                                      *)

Extends(more, devices) == \A id \in DOMAIN devices : id \in DOMAIN more /\ more[id] = devices[id]

MadeIn(devices, c) == \E id \in DOMAIN devices : IsDeviceOf(devices[id], c)
TakenIn(devices, c) ==
  \/ IdFor(c) \in DOMAIN devices
  \/ \E id \in DOMAIN devices : devices[id].alias = AliasFor(c) /\ devices[id].alias # Absent

LoadAgrees(l) ==
  /\ {"manager", "parser", "blocked", "failed"} \subseteq DOMAIN l
  /\ ManagerAgrees(l.manager) /\ IsTag(l.parser.parsed.tag)

\* What was made of the instances so far, whose strings parse.
Made(l, configured) ==
  /\ l.manager.handlers = ToSet(setup.handlers)
  /\ ~l.blocked /\ ~l.parser.locked
  /\ \A c \in configured :
       /\ ~l.failed => MadeIn(l.manager.devices, c)
       /\ Sound(c) => MadeIn(l.manager.devices, c) \/ TakenIn(l.manager.devices, c)

\* What is made, or taken, is for good.
LEMMA MadeKept ==
  ASSUME NEW devices, NEW more, Extends(more, devices), NEW c
  PROVE  /\ MadeIn(devices, c) => MadeIn(more, c)
         /\ TakenIn(devices, c) => TakenIn(more, c)
BY DEF Extends, MadeIn, TakenIn

LEMMA AddDeviceExtends ==
  ASSUME NEW m, ManagerAgrees(m), NEW device, IsDevice(device), NEW plugin
  PROVE  LET n == AddDevice(m, device, plugin) IN
         /\ ManagerAgrees(n) /\ n.handlers = m.handlers /\ Extends(n.devices, m.devices)
         /\ ~Refused(m, device, plugin) =>
              LET id == GenerateDeviceID(device) IN id \in DOMAIN n.devices /\ n.devices[id] = Tagged(device)
<1> DEFINE n == AddDevice(m, device, plugin)
           d == GenerateDeviceID(device)
<1>1. /\ ManagerAgrees(n) /\ n.handlers = m.handlers
      /\ n.devices = IF Refused(m, device, plugin) THEN m.devices ELSE Put(m.devices, d, Tagged(device))
  BY AddDeviceAgrees
<1>2. ~Refused(m, device, plugin) => d \notin DOMAIN m.devices
  BY DEF Refused
<1> HIDE DEF n, d
<1>3. CASE Refused(m, device, plugin)
  BY <1>1, <1>3 DEF Extends, n, d
<1>4. CASE ~Refused(m, device, plugin)
  <2>1. n.devices = Put(m.devices, d, Tagged(device)) /\ d \notin DOMAIN m.devices
    BY <1>1, <1>2, <1>4
  <2>2. Extends(n.devices, m.devices) /\ d \in DOMAIN n.devices /\ n.devices[d] = Tagged(device)
    BY <2>1 DEF Extends, Put
  <2> QED
    BY <1>1, <2>2 DEF n, d
<1> QED
  BY <1>3, <1>4

LEMMA CreateDeviceAgrees ==
  ASSUME NEW l, LoadAgrees(l), NEW proto, IsProto(proto), NEW instance \in ToSet(proto.instances)
  PROVE  LET c == Configured(proto, instance)
             n == CreateDevice(l, c, DevicePlugin) IN
         /\ LoadAgrees(n)
         /\ \A S : Made(l, S) /\ Parsing(Strings(c)) => Made(n, S \cup {c})
<1> DEFINE c == Configured(proto, instance)
           new == NewDeviceFromConfig(proto, instance, DevicePlugin, l.parser)
           refused == Refused(l.manager, new.device, DevicePlugin)
           added == new.ok /\ ~refused
           manager == IF added THEN AddDevice(l.manager, new.device, DevicePlugin) ELSE l.manager
           n == CreateDevice(l, c, DevicePlugin)
<1>1. n = IF l.blocked THEN l
          ELSE [manager |-> manager, parser |-> new.parser, blocked |-> new.blocked, failed |-> l.failed \/ ~added]
  <2>1. c.proto = proto /\ c.instance = instance
    BY DEF Configured
  <2> HIDE DEF c
  <2> QED
    BY <2>1 DEF CreateDevice
<1>2. /\ IsTag(new.parser.parsed.tag)
      /\ new.ok => /\ IsDevice(new.device) /\ GenerateDeviceID(new.device) = IdFor(c)
                   /\ new.device.type # Absent /\ new.device.handler = HandlerOf(c)
                   /\ new.device.data = Values(c, "data") /\ new.device.alias = AliasFor(c)
      /\ ~l.parser.locked /\ Parsing(Strings(c)) =>
           /\ ~new.blocked /\ ~new.parser.locked
           /\ new.ok => IsDeviceOf(Tagged(new.device), c)
           /\ Sound(c) => new.ok
  BY DeviceMade DEF LoadAgrees
<1> HIDE DEF c, new
<1>3. /\ ManagerAgrees(manager) /\ manager.handlers = l.manager.handlers /\ Extends(manager.devices, l.manager.devices)
      /\ added => /\ GenerateDeviceID(new.device) \in DOMAIN manager.devices
                  /\ manager.devices[GenerateDeviceID(new.device)] = Tagged(new.device)
  <2>1. CASE added
    BY <1>2, <2>1, AddDeviceExtends DEF LoadAgrees
  <2>2. CASE ~added
    BY <2>2 DEF LoadAgrees, Extends
  <2> QED
    BY <2>1, <2>2
<1> HIDE DEF manager, n, refused
<1>4. LoadAgrees(n)
  <2>1. CASE l.blocked
    BY <1>1, <2>1
  <2>2. CASE ~l.blocked
    <3>1. n = [manager |-> manager, parser |-> new.parser, blocked |-> new.blocked, failed |-> l.failed \/ ~added]
      BY <1>1, <2>2
    <3>2. n.manager = manager /\ n.parser = new.parser /\ {"manager", "parser", "blocked", "failed"} \subseteq DOMAIN n
      BY <3>1
    <3> QED
      BY <1>2, <1>3, <3>2 DEF LoadAgrees
  <2> QED
    BY <2>1, <2>2
<1>5. ASSUME NEW S, Made(l, S), Parsing(Strings(c))
      PROVE  Made(n, S \cup {c})
  <2>1. ~l.blocked /\ ~l.parser.locked /\ l.manager.handlers = ToSet(setup.handlers)
    BY <1>5 DEF Made
  <2>2. /\ n.manager = manager /\ n.parser = new.parser /\ n.blocked = new.blocked
        /\ n.failed <=> l.failed \/ ~added
    <3> HIDE DEF added
    <3> QED
      BY <1>1, <2>1
  <2>3. /\ ~new.blocked /\ ~new.parser.locked
        /\ new.ok => IsDeviceOf(Tagged(new.device), c)
        /\ Sound(c) => new.ok
    BY <1>2, <1>5, <2>1
  <2>4. ASSUME NEW b \in S
        PROVE  /\ ~n.failed => MadeIn(manager.devices, b)
               /\ Sound(b) => MadeIn(manager.devices, b) \/ TakenIn(manager.devices, b)
    BY <1>3, <1>5, <2>2, <2>4, MadeKept DEF Made
  <2>5. added => MadeIn(manager.devices, c)
    BY <1>3, <2>3 DEF MadeIn
  <2>6. new.ok /\ refused /\ Sound(c) => TakenIn(l.manager.devices, c)
    <3>1. SUFFICES ASSUME new.ok, refused, Sound(c) PROVE TakenIn(l.manager.devices, c)
      OBVIOUS
    <3>2. /\ Own(c, "type") # Absent /\ HandlerOf(c) \in ToSet(setup.handlers)
          /\ Values(c, "data") \notin setup.refuses
      BY <3>1 DEF Sound
    <3>3. HandlerOf(c) # Absent
      BY <3>2 DEF HandlerOf
    <3>4. DevicePlugin.refuses = setup.refuses
      BY DEF DevicePlugin
    <3>5. \/ IdFor(c) \in DOMAIN l.manager.devices
          \/ AliasFor(c) # Absent /\ AliasFor(c) \in DOMAIN l.manager.aliasCache
      BY <1>2, <2>1, <3>1, <3>2, <3>3, <3>4 DEF Refused, refused
    <3> QED
      BY <3>5 DEF TakenIn, LoadAgrees, ManagerAgrees, AliasesAgree
  <2>7. Sound(c) => MadeIn(manager.devices, c) \/ TakenIn(manager.devices, c)
    BY <1>3, <2>3, <2>5, <2>6, MadeKept
  <2> QED
    BY <1>3, <2>1, <2>2, <2>3, <2>4, <2>5, <2>7 DEF Made
<1> QED
  BY <1>4, <1>5 DEF n, c

IsConfigured(c) == \E proto : \E instance : IsProto(proto) /\ instance \in ToSet(proto.instances) /\ c = Configured(proto, instance)

LEMMA InstancesListed ==
  ASSUME NEW protos, IsList(protos), \A proto \in ToSet(protos) : IsProto(proto)
  PROVE  IsList(InstancesOf(protos)) /\ \A c \in ToSet(InstancesOf(protos)) : IsConfigured(c)
<1> DEFINE n == Len(protos)
           Of(i) == [j \in DOMAIN protos[i].instances |-> Configured(protos[i], protos[i].instances[j])]
           lists == [i \in DOMAIN protos |-> Of(i)]
<1>1. n \in Nat /\ DOMAIN protos = 1 .. n /\ \A i \in 1 .. n : protos[i] \in ToSet(protos) /\ IsProto(protos[i])
  BY ListDomain
<1>2. ASSUME NEW i \in 1 .. n
      PROVE  IsList(Of(i)) /\ \A c \in ToSet(Of(i)) : IsConfigured(c)
  <2> DEFINE instances == protos[i].instances
             list == Of(i)
  <2>1. IsList(instances) /\ IsProto(protos[i])
    BY <1>1 DEF IsProto
  <2>2. /\ Len(instances) \in Nat /\ DOMAIN instances = 1 .. Len(instances)
        /\ \A j \in 1 .. Len(instances) : instances[j] \in ToSet(instances)
    BY <2>1, ListDomain
  <2>3. list = [j \in 1 .. Len(instances) |-> list[j]]
    BY <2>2
  <2>4. IsList(list) /\ ToSet(list) = {list[j] : j \in 1 .. Len(instances)}
    <3> HIDE DEF list, instances
    <3> QED
      BY <2>2, <2>3, ListFrom
  <2>5. \A j \in 1 .. Len(instances) : list[j] = Configured(protos[i], instances[j]) /\ instances[j] \in ToSet(protos[i].instances)
    BY <2>2
  <2>6. \A j \in 1 .. Len(instances) : IsConfigured(list[j])
    <3> HIDE DEF list, instances
    <3> QED
      BY <2>1, <2>5 DEF IsConfigured
  <2> HIDE DEF list, instances
  <2>7. \A c \in ToSet(list) : IsConfigured(c)
    BY <2>4, <2>6
  <2> QED
    BY <2>4, <2>7 DEF list
<1>3. InstancesOf(protos) = FlattenSeq(lists)
  BY DEF InstancesOf, Configured
<1>4. lists = [i \in 1 .. n |-> lists[i]] /\ \A i \in 1 .. n : lists[i] = Of(i)
  BY <1>1
<1> HIDE DEF lists, Of, n
<1>5. IsLists(lists) /\ DOMAIN lists = 1 .. n
  BY <1>1, <1>2, <1>4, ListFrom DEF IsLists
<1>6. IsList(FlattenSeq(lists)) /\ ToSet(FlattenSeq(lists)) = UNION {ToSet(lists[i]) : i \in DOMAIN lists}
  BY <1>5, FlattenLists
<1> QED
  BY <1>2, <1>3, <1>4, <1>5, <1>6

CreateNext(c, l, configured) == CreateDevice(l, configured, DevicePlugin)
CreatedUpTo(c, i, l) ==
  /\ LoadAgrees(l)
  /\ Made(c.before, {}) /\ (\A d \in ToSet(c.list) : Parsing(Strings(d))) => Made(l, {c.list[j] : j \in 1 .. i})

Creates == INSTANCE FoldInduction WITH Op <- CreateNext, Inv <- CreatedUpTo

LEMMA CreateDevicesAgree ==
  ASSUME NEW l, LoadAgrees(l), NEW protos, IsList(protos), \A proto \in ToSet(protos) : IsProto(proto)
  PROVE  LET n == CreateDevices(l, protos, DevicePlugin)
             configured == ToSet(InstancesOf(protos)) IN
         /\ LoadAgrees(n)
         /\ Made(l, {}) /\ (\A c \in configured : Parsing(Strings(c))) => Made(n, configured)
<1> DEFINE list == InstancesOf(protos)
           c == [before |-> l, list |-> list]
           k == Len(list)
           n == CreateDevices(l, protos, DevicePlugin)
<1>1. IsList(list) /\ \A d \in ToSet(list) : IsConfigured(d)
  BY InstancesListed
<1>2. n = Creates!LeftFold(c, l, list)
  BY DEF CreateDevices, CreateNext, Creates!LeftFold, FoldLeft, MapThenFoldSet, Max,
     Creates!FoldLeft, Creates!MapThenFoldSet, Creates!Max
<1>3. c.before = l /\ c.list = list
  OBVIOUS
<1> HIDE DEF list, c, n
<1>4. /\ k \in Nat /\ DOMAIN list = 1 .. k
      /\ \A i \in 1 .. k : list[i] \in ToSet(list)
      /\ \A x \in ToSet(list) : \E i \in 1 .. k : list[i] = x
  BY <1>1, ListDomain
<1>5. CreatedUpTo(c, 0, l)
  <2>1. {list[j] : j \in 1 .. 0} = {}
    OBVIOUS
  <2> QED
    BY <1>3, <2>1 DEF CreatedUpTo
<1>6. ASSUME NEW i \in 1 .. k, NEW m, CreatedUpTo(c, i - 1, m)
      PROVE  CreatedUpTo(c, i, CreateNext(c, m, list[i]))
  <2> DEFINE next == CreateDevice(m, list[i], DevicePlugin)
  <2>1. PICK proto, instance : IsProto(proto) /\ instance \in ToSet(proto.instances) /\ list[i] = Configured(proto, instance)
    BY <1>1, <1>4 DEF IsConfigured
  <2>2. LoadAgrees(m)
    BY <1>6 DEF CreatedUpTo
  <2>3. LoadAgrees(next) /\ \A S : Made(m, S) /\ Parsing(Strings(list[i])) => Made(next, S \cup {list[i]})
    BY <2>1, <2>2, CreateDeviceAgrees
  <2>4. {list[j] : j \in 1 .. i} = {list[j] : j \in 1 .. i - 1} \cup {list[i]}
    BY <1>4
  <2> HIDE DEF next
  <2>5. ASSUME Made(l, {}), \A d \in ToSet(list) : Parsing(Strings(d))
        PROVE  Made(next, {list[j] : j \in 1 .. i})
    <3>1. Made(m, {list[j] : j \in 1 .. i - 1})
      BY <1>3, <1>6, <2>5 DEF CreatedUpTo
    <3> QED
      BY <1>4, <2>3, <2>4, <2>5, <3>1
  <2> QED
    BY <1>3, <2>3, <2>5 DEF CreatedUpTo, CreateNext, next
<1> HIDE DEF k
<1>7. CreatedUpTo(c, k, n)
  BY <1>2, <1>4, <1>5, <1>6, Creates!LeftFoldInduction
<1>8. ToSet(list) = {list[j] : j \in 1 .. k}
  BY <1>4
<1> QED
  BY <1>3, <1>7, <1>8 DEF CreatedUpTo, n, list

-----------------------------------------------------------------------------
(* init: what registrars return.                                           *)

\* Some results, of which lists are joined.
LEMMA ReturnedLists ==
  ASSUME NEW results, NEW n \in Nat, DOMAIN results = 1 .. n, NEW P,
         \A i \in 1 .. n : IsList(results[i].list) /\ ToSet(results[i].list) \subseteq P, NEW policy
  PROVE  IsList(Returned(results, policy)) /\ ToSet(Returned(results, policy)) \subseteq P
<1> DEFINE Fine(i) == results[i].ok /\ (policy = Optional \/ \A j \in 1 .. i - 1 : results[j].ok)
           lists == [i \in DOMAIN results |-> IF Fine(i) THEN results[i].list ELSE << >>]
<1>1. Returned(results, policy) = FlattenSeq(lists)
  BY DEF Returned
<1>2. lists = [i \in 1 .. n |-> lists[i]] /\ \A i \in 1 .. n : lists[i] \in {results[i].list, << >>}
  OBVIOUS
<1> HIDE DEF lists
<1>3. IsList(lists) /\ DOMAIN lists = 1 .. n
  BY <1>2, ListFrom
<1>4. \A i \in 1 .. n : IsList(lists[i]) /\ ToSet(lists[i]) \subseteq P
  BY <1>2, EmptyList
<1>5. IsList(FlattenSeq(lists)) /\ ToSet(FlattenSeq(lists)) = UNION {ToSet(lists[i]) : i \in DOMAIN lists}
  BY <1>3, <1>4, FlattenLists DEF IsLists
<1> QED
  BY <1>1, <1>3, <1>4, <1>5

LEMMA PluginLists ==
  ASSUME setup \in Setups, ConfigFits, NEW policy
  PROVE  /\ LET protos == Returned(DevicePlugin.protos, policy) IN
            IsList(protos) /\ \A proto \in ToSet(protos) : IsProto(proto)
         /\ LET devices == Returned(DevicePlugin.devices, policy) IN
            IsList(devices) /\ \A device \in ToSet(devices) : IsDevice(device)
<1> DEFINE entries == Setting("dynamicRegistration.config", << >>)
           n == Len(entries)
<1>1. IsList(entries) /\ ToSet(entries) \subseteq DOMAIN setup.protos \cap DOMAIN setup.devices
  BY EmptyList DEF Setting, ConfigFits, Fits, ListFields
<1>2. /\ DevicePlugin.protos = [i \in DOMAIN entries |-> setup.protos[entries[i]]]
      /\ DevicePlugin.devices = [i \in DOMAIN entries |-> setup.devices[entries[i]]]
  BY DEF DevicePlugin
<1> HIDE DEF entries
<1>3. n \in Nat /\ DOMAIN entries = 1 .. n /\ \A i \in 1 .. n : entries[i] \in DOMAIN setup.protos \cap DOMAIN setup.devices
  BY <1>1, ListDomain
<1>4. /\ DOMAIN DevicePlugin.protos = 1 .. n /\ DOMAIN DevicePlugin.devices = 1 .. n
      /\ \A i \in 1 .. n : /\ DevicePlugin.protos[i] = setup.protos[entries[i]]
                           /\ DevicePlugin.devices[i] = setup.devices[entries[i]]
  BY <1>2, <1>3
<1> DEFINE Protos == {proto \in UNION {ToSet(DevicePlugin.protos[i].list) : i \in 1 .. n} : IsProto(proto)}
           Devs == {device \in UNION {ToSet(DevicePlugin.devices[i].list) : i \in 1 .. n} : IsDevice(device)}
<1> HIDE DEF n
<1>5. \A i \in 1 .. n : IsList(DevicePlugin.protos[i].list) /\ ToSet(DevicePlugin.protos[i].list) \subseteq Protos
  BY <1>3, <1>4, DevicesAssumption
<1>6. \A i \in 1 .. n : IsList(DevicePlugin.devices[i].list) /\ ToSet(DevicePlugin.devices[i].list) \subseteq Devs
  BY <1>3, <1>4, DevicesAssumption
<1>7. IsList(Returned(DevicePlugin.protos, policy)) /\ ToSet(Returned(DevicePlugin.protos, policy)) \subseteq Protos
  <2> HIDE DEF Protos
  <2> QED
    BY <1>3, <1>4, <1>5, ReturnedLists
<1>8. IsList(Returned(DevicePlugin.devices, policy)) /\ ToSet(Returned(DevicePlugin.devices, policy)) \subseteq Devs
  <2> HIDE DEF Devs
  <2> QED
    BY <1>3, <1>4, <1>6, ReturnedLists
<1> QED
  BY <1>7, <1>8

AddNext(c, l, device) ==
  IF l.failed THEN l
  ELSE [l EXCEPT !.failed = Refused(l.manager, device, DevicePlugin), !.manager = AddDevice(@, device, DevicePlugin)]
AddedUpTo(c, i, l) ==
  /\ LoadAgrees(l) /\ l.manager.handlers = c.manager.handlers /\ Extends(l.manager.devices, c.manager.devices)
  /\ l.parser = c.parser /\ l.blocked = c.blocked

Adds == INSTANCE FoldInduction WITH Op <- AddNext, Inv <- AddedUpTo

\* The devices that registrars make come to those there are.
LEMMA DynamicDevicesAgree ==
  ASSUME NEW l, LoadAgrees(l), NEW policy,
         LET devices == Returned(DevicePlugin.devices, policy) IN
         IsList(devices) /\ \A device \in ToSet(devices) : IsDevice(device)
  PROVE  AddedUpTo(l, 0, CreateDynamicDevices(l, DevicePlugin, policy))
<1> DEFINE list == Returned(DevicePlugin.devices, policy)
           k == Len(list)
           loaded == Adds!LeftFold(l, l, list)
           n == CreateDynamicDevices(l, DevicePlugin, policy)
<1>1. IsList(list) /\ \A device \in ToSet(list) : IsDevice(device)
  OBVIOUS
<1>2. n = [loaded EXCEPT !.failed = loaded.failed \/ Fails(DevicePlugin.devices, policy)]
  BY DEF CreateDynamicDevices, AddNext, Adds!LeftFold, FoldLeft, MapThenFoldSet, Max,
     Adds!FoldLeft, Adds!MapThenFoldSet, Adds!Max
<1> HIDE DEF list, n
<1>3. k \in Nat /\ DOMAIN list = 1 .. k /\ \A i \in 1 .. k : IsDevice(list[i])
  BY <1>1, ListDomain
<1>4. AddedUpTo(l, 0, l)
  BY DEF AddedUpTo, Extends
<1>5. ASSUME NEW i \in 1 .. k, NEW m, AddedUpTo(l, i - 1, m)
      PROVE  AddedUpTo(l, i, AddNext(l, m, list[i]))
  <2> DEFINE manager == AddDevice(m.manager, list[i], DevicePlugin)
             next == AddNext(l, m, list[i])
  <2>1. IsDevice(list[i]) /\ LoadAgrees(m)
    BY <1>3, <1>5 DEF AddedUpTo
  <2>2. ManagerAgrees(manager) /\ manager.handlers = m.manager.handlers /\ Extends(manager.devices, m.manager.devices)
    BY <2>1, AddDeviceExtends DEF LoadAgrees
  <2>3. CASE m.failed
    BY <1>5, <2>3 DEF AddNext, AddedUpTo
  <2>4. CASE ~m.failed
    <3>1. next = [m EXCEPT !.failed = Refused(m.manager, list[i], DevicePlugin), !.manager = manager]
      BY <2>1, <2>4 DEF AddNext, LoadAgrees
    <3>2. next.manager = manager /\ next.parser = m.parser /\ next.blocked = m.blocked /\ DOMAIN next = DOMAIN m
      BY <2>1, <3>1 DEF LoadAgrees
    <3> HIDE DEF next, manager
    <3>3. LoadAgrees(next)
      BY <2>1, <2>2, <3>2 DEF LoadAgrees
    <3>4. Extends(next.manager.devices, l.manager.devices)
      BY <1>5, <2>2, <3>2 DEF AddedUpTo, Extends
    <3> QED
      BY <1>5, <2>2, <3>2, <3>3, <3>4 DEF AddedUpTo, next
  <2> QED
    BY <2>3, <2>4
<1> HIDE DEF k
<1>6. AddedUpTo(l, k, loaded)
  BY <1>3, <1>4, <1>5, Adds!LeftFoldInduction
<1> HIDE DEF loaded
<1>7. /\ n.manager = loaded.manager /\ n.parser = loaded.parser /\ n.blocked = loaded.blocked /\ DOMAIN n = DOMAIN loaded
  BY <1>2, <1>6 DEF AddedUpTo, LoadAgrees
<1> QED
  BY <1>6, <1>7 DEF AddedUpTo, LoadAgrees, n

\* What init makes of a manager: its indexes agree, and all is made that can be.
LEMMA InitDevicesAgree ==
  ASSUME setup \in Setups, ConfigFits, NEW l, LoadAgrees(l), NEW policy,
         NEW protos, IsList(protos), \A proto \in ToSet(protos) : IsProto(proto)
  PROVE  LET n == InitDevices(l, protos, DevicePlugin, policy)
             configured == ToSet(InstancesOf(protos \o Returned(DevicePlugin.protos, policy))) IN
         /\ LoadAgrees(n)
         /\ Fails(DevicePlugin.protos, policy) => n.failed
         /\ Made(l, {}) =>
              /\ n.blocked => ~\A c \in configured : Parsing(Strings(c))
              /\ ~Fails(DevicePlugin.protos, policy) /\ (\A c \in configured : Parsing(Strings(c))) => Made(n, configured)
<1> DEFINE all == protos \o Returned(DevicePlugin.protos, policy)
           configured == ToSet(InstancesOf(all))
           created == CreateDevices(l, all, DevicePlugin)
           n == InitDevices(l, protos, DevicePlugin, policy)
           parse == \A c \in configured : Parsing(Strings(c))
<1>1. IsList(all) /\ \A proto \in ToSet(all) : IsProto(proto)
  BY PluginLists, ListConcat
<1>2. LoadAgrees(created) /\ (Made(l, {}) /\ parse => Made(created, configured))
  <2> HIDE DEF all
  <2> QED
    BY <1>1, CreateDevicesAgree
<1>3. n = IF Fails(DevicePlugin.protos, policy) THEN [l EXCEPT !.failed = TRUE]
          ELSE IF created.failed \/ created.blocked THEN created
          ELSE CreateDynamicDevices(created, DevicePlugin, policy)
  BY DEF InitDevices
<1> HIDE DEF n, created, configured, parse
<1>4. CASE Fails(DevicePlugin.protos, policy)
  <2>1. n = [l EXCEPT !.failed = TRUE]
    BY <1>3, <1>4
  <2>2. n.failed = TRUE /\ n.manager = l.manager /\ n.parser = l.parser /\ n.blocked = l.blocked /\ DOMAIN n = DOMAIN l
    BY <2>1 DEF LoadAgrees
  <2>3. LoadAgrees(n) /\ n.failed
    BY <2>2 DEF LoadAgrees
  <2> QED
    BY <1>4, <2>2, <2>3 DEF Made, n, configured
<1>5. CASE ~Fails(DevicePlugin.protos, policy) /\ (created.failed \/ created.blocked)
  <2>1. n = created
    BY <1>3, <1>5
  <2> QED
    BY <1>2, <1>5, <2>1 DEF Made, n, configured, parse
<1>6. CASE ~Fails(DevicePlugin.protos, policy) /\ ~(created.failed \/ created.blocked)
  <2>1. n = CreateDynamicDevices(created, DevicePlugin, policy)
    BY <1>3, <1>6
  <2>2. AddedUpTo(created, 0, n)
    BY <1>2, <2>1, PluginLists, DynamicDevicesAgree
  <2>3. /\ LoadAgrees(n) /\ n.manager.handlers = created.manager.handlers
        /\ Extends(n.manager.devices, created.manager.devices)
        /\ n.parser = created.parser /\ n.blocked = created.blocked
    BY <2>2 DEF AddedUpTo
  <2>4. ASSUME Made(l, {}), parse PROVE Made(n, configured)
    <3>1. Made(created, configured)
      BY <1>2, <2>4
    <3>2. \A c \in configured : MadeIn(n.manager.devices, c)
      BY <1>6, <2>3, <3>1, MadeKept DEF Made
    <3> QED
      BY <2>3, <3>1, <3>2 DEF Made
  <2>5. ~n.blocked
    BY <1>6, <2>3
  <2> QED
    BY <1>6, <2>3, <2>4, <2>5 DEF n, configured, parse
<1> QED
  BY <1>4, <1>5, <1>6

-----------------------------------------------------------------------------
(* A device that is added while the plugin runs.                           *)

LoadTypes ==
  {"manager", "parser", "blocked", "failed"} \subseteq DOMAIN load /\ IsTag(load.parser.parsed.tag)

\* How far the goroutine that adds a device is with the indexes.
AdderAgrees ==
  LET m == load.manager
      d == GenerateDeviceID(Late)
  IN
  /\ adder.at # "none" => quit # "none" /\ setup.late # << >>
  /\ AliasesAgree(m, IF adder.at = "store" THEN {Late.alias} \ {Absent} ELSE {})
  /\ TagsAgree(m, d, IF adder.at = "tags" THEN ToSet(adder.left) ELSE {})
  /\ adder.at \in {"alias", "store"} => d \notin DOMAIN m.devices
  /\ adder.at = "alias" => Late.alias = Absent \/ Late.alias \notin DOMAIN m.aliasCache
  /\ adder.at = "store" /\ Late.alias # Absent =>
       Late.alias \in DOMAIN m.aliasCache /\ m.aliasCache[Late.alias] = d
  /\ adder.at = "tags" => d \in DOMAIN m.devices /\ IsList(adder.left) /\ ToSet(adder.left) \subseteq TagsIn(m, d)

\* Nobody adds a device before the plugin listens for a signal; and what the manager is then
\* is what init made of it.
LEMMA BeforeListening ==
  ASSUME Inv, LoadTypes, AdderAgrees, main \notin Listening
  PROVE  adder.at = "none" /\ quit = "none" /\ LoadAgrees(load)
<1>1. quit = "none"
  BY DEF Inv, QuitOrder
<1>2. adder.at = "none"
  BY <1>1 DEF AdderAgrees
<1>3. AliasesAgree(load.manager, {}) /\ TagsAgree(load.manager, GenerateDeviceID(Late), {})
  BY <1>2 DEF AdderAgrees
<1> QED
  BY <1>1, <1>2, <1>3, NothingLeft DEF LoadAgrees, LoadTypes, ManagerAgrees

LEMMA AgreesWithNobody ==
  ASSUME LoadAgrees(load)', adder'.at = "none"
  PROVE  (LoadTypes /\ AdderAgrees)'
<1>1. LoadTypes'
  BY DEF LoadAgrees, LoadTypes
<1>2. AliasesAgree(load'.manager, {}) /\ TagsAgree(load'.manager, Absent, {})
  BY DEF LoadAgrees, ManagerAgrees
<1>3. TagsAgree(load'.manager, GenerateDeviceID(Late'), {})
  BY <1>2, NothingLeft
<1> QED
  BY <1>1, <1>2, <1>3 DEF AdderAgrees, Late

LEMMA QuitStays ==
  ASSUME Step, quit # "none"
  PROVE  quit' # "none"
<1>1. CASE EndPreRun
  BY <1>1 DEF EndPreRun
<1>2. CASE Notify
  BY <1>2 DEF Notify
<1>3. ASSUME NEW signal \in {"SIGTERM", "SIGINT"}, Signal(signal) PROVE quit' # "none"
  BY <1>3 DEF Signal
<1> QED
  BY <1>1, <1>2, <1>3, StepKeeps

\* What init does.
LEMMA ProtosListed ==
  ASSUME setup \in Setups, DeviceConfig.ok
  PROVE  LET protos == ProtosOf(DeviceConfig.merged) IN IsList(protos) /\ \A proto \in ToSet(protos) : IsProto(proto)
<1> DEFINE merged == DeviceConfig.merged
           key == Leaf("devices", "lower")
<1>1. FitsFields(setup, merged)
  BY LoadsFit DEF DeviceConfig
<1>2. key.field = "devices" /\ "devices" \in ListFields
  BY DEF Leaf, ListFields
<1> HIDE DEF merged, key
<1>3. CASE key \in DOMAIN merged
  <2>1. Fits(setup, "devices", merged[key]) /\ ProtosOf(merged) = merged[key]
    BY <1>1, <1>2, <1>3 DEF FitsFields, ProtosOf, key
  <2> QED
    BY <1>2, <2>1 DEF Fits, merged
<1>4. CASE key \notin DOMAIN merged
  <2>1. ProtosOf(merged) = << >>
    BY <1>4 DEF ProtosOf, key
  <2> QED
    BY <2>1, EmptyList DEF merged
<1> QED
  BY <1>3, <1>4

LEMMA AdderStep ==
  ASSUME ConfigInv, LoadTypes, AdderAgrees, Step
  PROVE  (LoadTypes /\ AdderAgrees)'
<1> DEFINE m == load.manager
           d == GenerateDeviceID(Late)
<1>1. setup' = setup /\ Late' = Late /\ setup \in Setups
  BY StepKeeps DEF Late, ConfigInv, Inv, ControlTypes
<1>2. adder.at # "none" => quit' # "none" /\ IsDevice(Late)
  <2>1. ASSUME adder.at # "none" PROVE quit' # "none" /\ IsDevice(Late)
    <3>1. setup.late # << >> /\ quit # "none"
      BY <2>1 DEF AdderAgrees
    <3>2. IsList(setup.late) /\ \A device \in ToSet(setup.late) : IsDevice(device)
      BY <1>1, DevicesAssumption
    <3>3. 1 \in DOMAIN setup.late
      BY <3>1, <3>2, ListHeadTail
    <3>4. setup.late[1] \in ToSet(setup.late)
      BY <3>3 DEF ToSet
    <3> QED
      BY <3>1, <3>2, <3>4, QuitStays DEF Late
  <2> QED
    BY <2>1
<1>3. CASE Register
  <2>1. main = "register" /\ adder' = adder /\ load' \in {load, [load EXCEPT !.manager = NewManager(ToSet(setup.handlers))]}
    BY <1>3 DEF Register
  <2>2. adder.at = "none" /\ LoadAgrees(load)
    BY <2>1, BeforeListening DEF ConfigInv, Listening
  <2>3. LoadAgrees(load')
    <3>1. CASE load' = load
      BY <2>2, <3>1
    <3>2. CASE load' = [load EXCEPT !.manager = NewManager(ToSet(setup.handlers))]
      <4>1. load'.manager = NewManager(ToSet(setup.handlers)) /\ load'.parser = load.parser /\ DOMAIN load' = DOMAIN load
        BY <2>2, <3>2 DEF LoadAgrees
      <4> QED
        BY <2>2, <4>1, NewAgrees DEF LoadAgrees
    <3> QED
      BY <2>1, <3>1, <3>2
  <2> QED
    BY <2>1, <2>2, <2>3, AgreesWithNobody
<1>4. CASE InitDeviceManager
  <2> DEFINE inited == InitDevices(load, ProtosOf(DeviceConfig.merged), DevicePlugin, setup.policies.dynamic)
  <2>1. main = "init" /\ adder' = adder /\ (load' = load \/ (DeviceConfig.ok /\ load' = inited))
    BY <1>4 DEF InitDeviceManager
  <2>2. adder.at = "none" /\ LoadAgrees(load)
    BY <2>1, BeforeListening DEF ConfigInv, Listening
  <2>3. DeviceConfig.ok => LoadAgrees(inited)
    BY <1>1, <2>2, ProtosListed, InitDevicesAgree DEF ConfigInv
  <2> QED
    BY <2>1, <2>2, <2>3, AgreesWithNobody
<1>5. CASE BeginAdd
  <2>1. /\ adder.at = "none" /\ setup.late # << >> /\ quit # "none" /\ quit' = quit
        /\ load'.manager = m /\ load'.parser = load.parser
        /\ {"manager", "parser", "blocked", "failed"} \subseteq DOMAIN load'
        /\ adder'.at = IF Refused(m, Late, DevicePlugin) THEN "refused" ELSE "alias"
    BY <1>5 DEF BeginAdd, Add
  <2>2. ~Refused(m, Late, DevicePlugin) => d \notin DOMAIN m.devices /\ (Late.alias = Absent \/ Late.alias \notin DOMAIN m.aliasCache)
    BY DEF Refused
  <2> QED
    BY <1>1, <2>1, <2>2 DEF LoadTypes, AdderAgrees
<1>6. CASE AddLateAlias
  <2>1. /\ adder.at = "alias" /\ adder'.at = "store"
        /\ load'.manager = AddAlias(m, Late) /\ load'.parser = load.parser
        /\ {"manager", "parser", "blocked", "failed"} \subseteq DOMAIN load'
    BY <1>6 DEF AddLateAlias, Add
  <2>2. /\ AliasesAgree(m, {}) /\ TagsAgree(m, d, {}) /\ d \notin DOMAIN m.devices
        /\ Late.alias = Absent \/ Late.alias \notin DOMAIN m.aliasCache
        /\ setup.late # << >>
    BY <2>1 DEF AdderAgrees
  <2> DEFINE n == AddAlias(m, Late)
  <2>3. /\ n.devices = m.devices /\ n.tagCache = m.tagCache
        /\ AliasesAgree(n, {Late.alias} \ {Absent})
        /\ Late.alias # Absent => Late.alias \in DOMAIN n.aliasCache /\ n.aliasCache[Late.alias] = d
    BY <2>2, AddAliasAgrees
  <2>4. TagsAgree(n, d, {})
    BY <2>2, <2>3, TagsKept
  <2> QED
    BY <1>1, <1>2, <2>1, <2>2, <2>3, <2>4 DEF LoadTypes, AdderAgrees
<1>7. CASE StoreLate
  <2> DEFINE n == StoreDevice(m, Late)
  <2>1. /\ adder.at = "store" /\ adder'.at = "tags" /\ adder'.left = Tagged(Late).tags
        /\ load'.manager = n /\ load'.parser = load.parser
        /\ {"manager", "parser", "blocked", "failed"} \subseteq DOMAIN load'
    BY <1>7 DEF StoreLate, Add
  <2>2. /\ AliasesAgree(m, {Late.alias} \ {Absent}) /\ TagsAgree(m, d, {}) /\ d \notin DOMAIN m.devices
        /\ Late.alias # Absent => Late.alias \in DOMAIN m.aliasCache /\ m.aliasCache[Late.alias] = d
        /\ setup.late # << >>
    BY <2>1 DEF AdderAgrees
  <2>3. IsDevice(Late)
    BY <1>2, <2>1
  <2>4. /\ AliasesAgree(n, {}) /\ TagsAgree(n, d, ToSet(Tagged(Late).tags))
        /\ d \in DOMAIN n.devices /\ TagsIn(n, d) = ToSet(Tagged(Late).tags)
    BY <2>2, <2>3, StoreDeviceAgrees
  <2>5. IsList(Tagged(Late).tags)
    BY <2>3, TaggedDevice DEF IsTags
  <2> QED
    BY <1>1, <1>2, <2>1, <2>2, <2>4, <2>5 DEF LoadTypes, AdderAgrees
<1>8. CASE CacheLateTag
  <2>1. /\ adder.at = "tags" /\ load'.parser = load.parser
        /\ {"manager", "parser", "blocked", "failed"} \subseteq DOMAIN load'
    BY <1>8 DEF CacheLateTag, Add
  <2>2. /\ AliasesAgree(m, {}) /\ TagsAgree(m, d, ToSet(adder.left)) /\ d \in DOMAIN m.devices
        /\ IsList(adder.left) /\ ToSet(adder.left) \subseteq TagsIn(m, d)
        /\ setup.late # << >>
    BY <2>1 DEF AdderAgrees
  <2>3. CASE adder.left = << >>
    <3>1. adder'.at = "done" /\ load'.manager = m
      BY <1>8, <2>3 DEF CacheLateTag, Add
    <3>2. ToSet(adder.left) = {}
      BY <2>3, EmptyList
    <3> QED
      BY <1>1, <1>2, <2>1, <2>2, <3>1, <3>2 DEF LoadTypes, AdderAgrees
  <2>4. CASE adder.left # << >>
    <3> DEFINE tag == Head(adder.left)
               n == CacheTag(m, tag, Late)
    <3>1. adder'.at = "tags" /\ load'.manager = n /\ adder'.left = Tail(adder.left)
      BY <1>8, <2>4 DEF CacheLateTag, Add
    <3>2. IsList(Tail(adder.left)) /\ ToSet(adder.left) = {tag} \cup ToSet(Tail(adder.left))
      BY <2>2, <2>4, ListHeadTail
    <3>3. n.devices = m.devices /\ n.aliasCache = m.aliasCache /\ TagsAgree(n, d, ToSet(adder.left) \ {tag})
      <4>1. tag \in TagsIn(m, d)
        BY <2>2, <3>2
      <4> HIDE DEF m, tag
      <4> QED
        BY <2>2, <4>1, CacheTagAgrees
    <3> HIDE DEF n, tag
    <3>4. TagsAgree(n, d, ToSet(Tail(adder.left)))
      <4>1. ToSet(adder.left) \ {tag} \subseteq ToSet(Tail(adder.left))
        BY <3>2
      <4> HIDE DEF d
      <4> QED
        BY <3>3, <4>1, LeftGrows
    <3>5. AliasesAgree(n, {})
      BY <2>2, <3>3 DEF AliasesAgree
    <3>6. d \in DOMAIN n.devices /\ ToSet(Tail(adder.left)) \subseteq TagsIn(n, d)
      BY <2>2, <3>2, <3>3 DEF TagsIn
    <3> QED
      BY <1>1, <1>2, <2>1, <2>2, <3>1, <3>2, <3>4, <3>5, <3>6 DEF LoadTypes, AdderAgrees
  <2> QED
    BY <2>3, <2>4
<1>9. CASE UNCHANGED <<load, adder>>
  BY <1>1, <1>2, <1>9 DEF LoadTypes, AdderAgrees
<1> QED
  BY <1>3, <1>4, <1>5, <1>6, <1>7, <1>8, <1>9, StepKeeps

-----------------------------------------------------------------------------
(* The indexes agree.                                                      *)

DevicesInv == ConfigInv /\ LoadTypes /\ AdderAgrees

LEMMA DevicesInvInit == Init => DevicesInv
<1> SUFFICES ASSUME Init PROVE DevicesInv
  OBVIOUS
<1>1. /\ load.manager = NewManager({}) /\ load.parser = NewParser /\ adder.at = "none"
      /\ {"manager", "parser", "blocked", "failed"} \subseteq DOMAIN load
  BY DEF Init
<1>2. LoadTypes
  BY <1>1 DEF LoadTypes, NewParser, NothingParsed, IsTag, Tag
<1>3. AliasesAgree(load.manager, {}) /\ TagsAgree(load.manager, Absent, {})
  BY <1>1, NewAgrees DEF ManagerAgrees
<1>4. TagsAgree(load.manager, GenerateDeviceID(Late), {})
  BY <1>3, NothingLeft
<1>5. AdderAgrees
  BY <1>1, <1>3, <1>4 DEF AdderAgrees
<1> QED
  BY <1>2, <1>5, ConfigInvInit DEF DevicesInv

LEMMA DevicesInvNext == DevicesInv /\ [Next]_vars => DevicesInv'
<1> SUFFICES ASSUME DevicesInv, [Next]_vars PROVE DevicesInv'
  OBVIOUS
<1>1. ConfigInv'
  BY ConfigInvNext DEF DevicesInv
<1>2. CASE Next
  <2>1. Step
    BY <1>2, NextIsStep
  <2> QED
    BY <1>1, <2>1, AdderStep DEF DevicesInv
<1>3. CASE UNCHANGED vars
  <2>1. UNCHANGED <<setup, load, adder, quit>>
    BY <1>3 DEF vars, lifecycleVars
  <2>2. LoadTypes' /\ AdderAgrees'
    BY <2>1 DEF DevicesInv, LoadTypes, AdderAgrees, Late
  <2> QED
    BY <1>1, <2>2 DEF DevicesInv
<1> QED
  BY <1>2, <1>3

LEMMA DevicesInvariance == Spec => []DevicesInv
BY DevicesInvInit, DevicesInvNext, PTL DEF Spec

\* Whatever is configured, and whatever its registrars make: between any two steps of an
\* AddDevice, whichever steps of other goroutines are between them, a tag finds the devices
\* that have it and no other, once each, but for tags that are left to cache; an alias and its
\* device name each other, but for the one whose device is not stored yet.
THEOREM IndexesAlwaysAgree == Spec => []IndexesAgree
<1>1. DevicesInv => IndexesAgree
  <2> SUFFICES ASSUME DevicesInv PROVE IndexesAgree
    OBVIOUS
  <2> DEFINE m == load.manager
             cache == m.tagCache
             aliases == m.aliasCache
  <2>1. /\ AliasesAgree(m, IF adder.at = "store" THEN {Late.alias} \ {Absent} ELSE {})
        /\ CacheSound(m)
        /\ CacheFull(m, GenerateDeviceID(Late), IF adder.at = "tags" THEN ToSet(adder.left) ELSE {})
    BY DEF DevicesInv, AdderAgrees, TagsAgree
  <2>2. Devices = m.devices /\ \A id : TagsOf(id) = TagsIn(m, id)
    BY DEF Devices, TagsOf, TagsIn
  <2>3. \A tag \in DOMAIN cache :
          ToSet(cache[tag]) \subseteq {id \in DOMAIN Devices : tag \in TagsOf(id)} /\ IsInjective(cache[tag])
    BY <2>1, <2>2 DEF CacheSound
  <2>4. \A id \in DOMAIN Devices :
          LET alias == Devices[id].alias IN
          /\ id = GenerateDeviceID(Devices[id])
          /\ alias # Absent => alias \in DOMAIN aliases /\ aliases[alias] = id
    BY <2>1, <2>2 DEF AliasesAgree
  <2>5. \A alias \in DOMAIN aliases :
          \/ aliases[alias] \in DOMAIN Devices /\ Devices[aliases[alias]].alias = alias
          \/ adder.at = "store" /\ alias = Late.alias
    BY <2>1, <2>2 DEF AliasesAgree
  <2>6. \A id \in DOMAIN Devices, tag \in UNION {TagsOf(d) : d \in DOMAIN Devices} :
          tag \in TagsOf(id) /\ tag.label # TagLabelAll =>
            \/ tag \in DOMAIN cache /\ id \in ToSet(cache[tag])
            \/ adder.at = "tags" /\ id = GenerateDeviceID(Late) /\ tag \in ToSet(adder.left)
    BY <2>1, <2>2 DEF CacheFull, Cached
  <2> QED
    BY <2>3, <2>4, <2>5, <2>6 DEF IndexesAgree
<1> QED
  BY <1>1, DevicesInvariance, PTL

-----------------------------------------------------------------------------
(* What tags find.                                                         *)

\* A tag of a device is one that a tag of a selector stands for.
Stands(own, tag) ==
  /\ own.namespace = tag.namespace
  /\ \/ own = tag
     \/ tag.label = TagLabelAll /\ tag.annotation \in {Absent, own.annotation}

Responds(m, id, tag) == \E own \in TagsIn(m, id) : own.label # TagLabelAll /\ Stands(own, tag)
Responding(m, tag) == {id \in DOMAIN m.devices : Responds(m, id, tag)}

\* The lists of some tags, joined.
JoinList(c, devices, tag) == devices \o c[tag]
JoinedOf(c, tags, devices) ==
  /\ IsList(devices) /\ ToSet(devices) = UNION {ToSet(c[tag]) : tag \in tags}
  /\ tags = {} => devices = << >>
  /\ (\A t, u \in tags : t = u) => IsInjective(devices)

Unions == INSTANCE FoldInduction WITH Op <- JoinList, Inv <- JoinedOf

LEMMA JoinsLists ==
  ASSUME NEW cache, NEW tags, IsFiniteSet(tags),
         \A tag \in tags : IsList(cache[tag]) /\ IsInjective(cache[tag])
  PROVE  JoinedOf(cache, tags, Unions!SetFold(cache, << >>, tags))
<1>1. JoinedOf(cache, {}, << >>)
  <2>1. UNION {ToSet(cache[tag]) : tag \in {}} = {}
    OBVIOUS
  <2> QED
    BY <2>1, EmptyList DEF JoinedOf
<1>2. ASSUME NEW T \in SUBSET tags, NEW x \in tags \ T, NEW list, JoinedOf(cache, T, list)
      PROVE  JoinedOf(cache, T \cup {x}, JoinList(cache, list, x))
  <2>1. IsList(list) /\ ToSet(list) = UNION {ToSet(cache[tag]) : tag \in T} /\ (T = {} => list = << >>)
    BY <1>2 DEF JoinedOf
  <2>2. IsList(cache[x]) /\ IsInjective(cache[x])
    OBVIOUS
  <2> DEFINE n == list \o cache[x]
  <2>3. IsList(n) /\ ToSet(n) = ToSet(list) \cup ToSet(cache[x])
    BY <2>1, <2>2, ListConcat
  <2>4. T = {} => n = cache[x]
    BY <2>1, <2>2, ConcatEmpty
  <2>5. (\A t, u \in T \cup {x} : t = u) => T = {}
    OBVIOUS
  <2>6. UNION {ToSet(cache[tag]) : tag \in T \cup {x}} = (UNION {ToSet(cache[tag]) : tag \in T}) \cup ToSet(cache[x])
    <3>1. ASSUME NEW y \in UNION {ToSet(cache[tag]) : tag \in T \cup {x}}
          PROVE  y \in (UNION {ToSet(cache[tag]) : tag \in T}) \cup ToSet(cache[x])
      <4>1. PICK tag \in T \cup {x} : y \in ToSet(cache[tag])
        BY <3>1
      <4> QED
        BY <4>1
    <3>2. ASSUME NEW y \in (UNION {ToSet(cache[tag]) : tag \in T}) \cup ToSet(cache[x])
          PROVE  \E tag \in T \cup {x} : y \in ToSet(cache[tag])
      BY <3>2
    <3> QED
      BY <3>1, <3>2, Zenon
  <2> HIDE DEF n
  <2>7. JoinedOf(cache, T \cup {x}, n)
    BY <2>1, <2>2, <2>3, <2>4, <2>5, <2>6 DEF JoinedOf
  <2> QED
    BY <2>7 DEF JoinList, n
<1>3. \A T \in SUBSET tags : \A x \in tags \ T : \A list :
        JoinedOf(cache, T, list) => JoinedOf(cache, T \cup {x}, JoinList(cache, list, x))
  BY <1>2
<1>4. Unions!IsFiniteSet(tags)
  BY DEF IsFiniteSet, Unions!IsFiniteSet
<1> QED
  BY <1>1, <1>3, <1>4, Unions!SetFoldInduction

\* A set, as a list.
ListOne(c, devices, device) == Append(devices, device)
Listed(c, some, devices) == IsList(devices) /\ IsInjective(devices) /\ ToSet(devices) = some

Lists == INSTANCE FoldInduction WITH Op <- ListOne, Inv <- Listed

LEMMA ListsSet ==
  ASSUME NEW S, IsFiniteSet(S)
  PROVE  Listed(Absent, S, Lists!SetFold(Absent, << >>, S))
<1>1. Listed(Absent, {}, << >>)
  BY EmptyList DEF Listed
<1>2. ASSUME NEW T \in SUBSET S, NEW x \in S \ T, NEW list, Listed(Absent, T, list)
      PROVE  Listed(Absent, T \cup {x}, ListOne(Absent, list, x))
  BY <1>2, ListAppend DEF Listed, ListOne
<1>3. \A T \in SUBSET S : \A x \in S \ T : \A list :
        Listed(Absent, T, list) => Listed(Absent, T \cup {x}, ListOne(Absent, list, x))
  BY <1>2
<1>4. Lists!IsFiniteSet(S)
  BY DEF IsFiniteSet, Lists!IsFiniteSet
<1> QED
  BY <1>1, <1>3, <1>4, Lists!SetFoldInduction

\* Every device whose tags are cached in a namespace, once.
LEMMA NamespaceFound ==
  ASSUME NEW m, NEW namespace, CacheSound(m)
  PROVE  LET devices == GetDevicesFromNamespace(m.tagCache, namespace) IN
         /\ IsList(devices) /\ IsInjective(devices)
         /\ ToSet(devices) = UNION {ToSet(m.tagCache[tag]) : tag \in InNamespace(m.tagCache, namespace)}
<1> DEFINE cache == m.tagCache
           tags == InNamespace(cache, namespace)
           S == UNION {ToSet(cache[tag]) : tag \in tags}
           devices == GetDevicesFromNamespace(cache, namespace)
<1>1. tags \subseteq DOMAIN cache
  BY DEF InNamespace
<1>2. IsFiniteSet(tags) /\ \A tag \in tags : IsList(cache[tag]) /\ IsInjective(cache[tag])
  BY <1>1, FS_Subset DEF CacheSound
<1> HIDE DEF tags
<1>3. JoinedOf(cache, tags, Unions!SetFold(cache, << >>, tags))
  BY <1>2, JoinsLists
<1>4. IsFiniteSet(S)
  BY <1>3, ListFinite DEF JoinedOf
<1>5. devices = Lists!SetFold(Absent, << >>, S)
  BY DEF GetDevicesFromNamespace, tags, ListOne, Lists!SetFold, FoldSet, Lists!FoldSet, MapThenFoldSet, Lists!MapThenFoldSet
<1>6. Listed(Absent, S, devices)
  BY <1>4, <1>5, ListsSet
<1> QED
  BY <1>6 DEF Listed, tags

LEMMA MatchesStand ==
  ASSUME NEW m, NEW tag, CacheSound(m), IsTag(tag)
  PROVE  Matches(m.tagCache, tag) = {cached \in DOMAIN m.tagCache : Stands(cached, tag)}
<1>1. ASSUME NEW cached \in DOMAIN m.tagCache
      PROVE  cached \in Matches(m.tagCache, tag) <=> Stands(cached, tag)
  <2>1. cached.label # TagLabelAll /\ IsTag(cached)
    BY DEF CacheSound
  <2>2. cached = tag <=> /\ cached.namespace = tag.namespace /\ cached.annotation = tag.annotation
                         /\ cached.label = tag.label
    BY <2>1 DEF IsTag, Tag
  <2> QED
    BY <2>1, <2>2 DEF Matches, InNamespace, Stands
<1>2. Matches(m.tagCache, tag) \subseteq DOMAIN m.tagCache
  BY DEF Matches, InNamespace
<1> QED
  BY <1>1, <1>2

\* The devices of the cached tags that a tag stands for are those that respond to it.
LEMMA RespondingCached ==
  ASSUME NEW m, NEW d, NEW tag, TagsAgree(m, d, {}), IsTag(tag)
  PROVE  Responding(m, tag) = UNION {ToSet(m.tagCache[cached]) : cached \in Matches(m.tagCache, tag)}
<1>1. CacheSound(m) /\ CacheFull(m, d, {})
  BY DEF TagsAgree
<1>2. Matches(m.tagCache, tag) = {cached \in DOMAIN m.tagCache : Stands(cached, tag)}
  BY <1>1, MatchesStand
<1>3. ASSUME NEW cached \in Matches(m.tagCache, tag), NEW id \in ToSet(m.tagCache[cached])
      PROVE  id \in Responding(m, tag)
  BY <1>1, <1>2 DEF CacheSound, Responding, Responds
<1>4. ASSUME NEW id \in Responding(m, tag)
      PROVE  \E cached \in Matches(m.tagCache, tag) : id \in ToSet(m.tagCache[cached])
  <2>1. PICK own \in TagsIn(m, id) : own.label # TagLabelAll /\ Stands(own, tag)
    BY DEF Responding, Responds
  <2>2. Cached(m, id, own)
    BY <1>1, <2>1 DEF CacheFull, Responding
  <2> QED
    BY <1>2, <2>1, <2>2 DEF Cached
<1> QED
  BY <1>3, <1>4

\* What a tag finds are the devices that respond to it, once each unless it is all labels
\* of an annotation.
LEMMA FoundExact ==
  ASSUME NEW m, NEW d, NEW tag, TagsAgree(m, d, {}), IsTag(tag)
  PROVE  LET hits == Found(m.tagCache, tag) IN
         /\ IsList(hits) /\ ToSet(hits) = Responding(m, tag)
         /\ IsInjective(hits) \/ (tag.label = TagLabelAll /\ tag.annotation # Absent)
<1> DEFINE cache == m.tagCache
           tags == Matches(cache, tag)
           listing == Found(cache, tag)
<1>1. CacheSound(m)
  BY DEF TagsAgree
<1>2. Responding(m, tag) = UNION {ToSet(cache[cached]) : cached \in tags}
  BY RespondingCached
<1>3. tags = {cached \in DOMAIN cache : Stands(cached, tag)}
  BY <1>1, MatchesStand
<1>4. CASE tag.label = TagLabelAll /\ tag.annotation = Absent
  <2>1. listing = GetDevicesFromNamespace(cache, tag.namespace)
    BY <1>4 DEF Found
  <2>2. tags = InNamespace(cache, tag.namespace)
    BY <1>3, <1>4 DEF InNamespace, Stands
  <2> HIDE DEF listing, tags
  <2> QED
    BY <1>1, <1>2, <2>1, <2>2, NamespaceFound DEF listing
<1>5. CASE ~(tag.label = TagLabelAll /\ tag.annotation = Absent)
  <2>1. listing = FoldSet(LAMBDA cached, devices : devices \o cache[cached], << >>, tags)
    BY <1>5 DEF Found
  <2>2. @ = Unions!SetFold(cache, << >>, tags)
    BY DEF JoinList, Unions!SetFold, FoldSet, Unions!FoldSet, MapThenFoldSet, Unions!MapThenFoldSet
  <2>3. IsFiniteSet(tags) /\ \A cached \in tags : IsList(cache[cached]) /\ IsInjective(cache[cached])
    BY <1>1, <1>3, FS_Subset DEF CacheSound
  <2> HIDE DEF listing, tags
  <2>4. JoinedOf(cache, tags, listing)
    BY <2>1, <2>2, <2>3, JoinsLists
  <2>5. tag.label # TagLabelAll => \A t, u \in tags : t = u
    BY <1>3 DEF Stands
  <2> QED
    BY <1>2, <1>5, <2>4, <2>5 DEF JoinedOf, listing
<1> QED
  BY <1>4, <1>5

-----------------------------------------------------------------------------
(* What a selector finds.                                                  *)

KeepFound(c, kept, device) == IF device \in ToSet(c.hits) THEN Append(kept, device) ELSE kept
KeptUpTo(c, i, kept) ==
  /\ IsList(kept) /\ ToSet(kept) = {c.devices[j] : j \in 1 .. i} \cap ToSet(c.hits)
  /\ IsInjective(c.devices) => IsInjective(kept)

Filters == INSTANCE FoldInduction WITH Op <- KeepFound, Inv <- KeptUpTo

\* What two lists have in common.
LEMMA FilterExact ==
  ASSUME NEW devices, IsList(devices), NEW hits
  PROVE  LET kept == Filter(devices, hits) IN
         /\ IsList(kept) /\ ToSet(kept) = ToSet(devices) \cap ToSet(hits)
         /\ IsInjective(devices) => IsInjective(kept)
<1> DEFINE n == Len(devices)
           c == [devices |-> devices, hits |-> hits]
           result == Filters!LeftFold(c, << >>, devices)
<1>1. /\ n \in Nat /\ DOMAIN devices = 1 .. n
      /\ \A i \in 1 .. n : devices[i] \in ToSet(devices)
      /\ \A x \in ToSet(devices) : \E i \in 1 .. n : devices[i] = x
  BY ListDomain
<1>2. Filter(devices, hits) = result
  BY DEF Filter, KeepFound, Filters!LeftFold, FoldLeft, MapThenFoldSet, Max,
         Filters!FoldLeft, Filters!MapThenFoldSet, Filters!Max
<1>3. c.devices = devices /\ c.hits = hits
  OBVIOUS
<1> HIDE DEF c, n
<1>4. KeptUpTo(c, 0, << >>)
  BY <1>3, EmptyList DEF KeptUpTo
<1>5. ASSUME NEW i \in 1 .. n, NEW kept, KeptUpTo(c, i - 1, kept)
      PROVE  KeptUpTo(c, i, KeepFound(c, kept, devices[i]))
  <2> DEFINE before == {devices[j] : j \in 1 .. i - 1}
  <2>1. /\ IsList(kept) /\ ToSet(kept) = before \cap ToSet(hits)
        /\ IsInjective(devices) => IsInjective(kept)
    BY <1>3, <1>5 DEF KeptUpTo
  <2>2. {devices[j] : j \in 1 .. i} = before \cup {devices[i]}
    BY <1>1
  <2>3. IsInjective(devices) => devices[i] \notin before
    BY <1>1 DEF IsInjective
  <2> HIDE DEF before
  <2>4. CASE devices[i] \in ToSet(hits)
    <3>1. /\ IsList(Append(kept, devices[i])) /\ ToSet(Append(kept, devices[i])) = ToSet(kept) \cup {devices[i]}
          /\ IsInjective(kept) /\ devices[i] \notin ToSet(kept) => IsInjective(Append(kept, devices[i]))
      BY <2>1, ListAppend
    <3> QED
      BY <1>3, <2>1, <2>2, <2>3, <2>4, <3>1 DEF KeptUpTo, KeepFound
  <2>5. CASE devices[i] \notin ToSet(hits)
    BY <1>3, <2>1, <2>2, <2>5 DEF KeptUpTo, KeepFound
  <2> QED
    BY <2>4, <2>5
<1> HIDE DEF result
<1>6. KeptUpTo(c, n, result)
  BY <1>1, <1>4, <1>5, Filters!LeftFoldInduction DEF result
<1>7. {devices[j] : j \in 1 .. n} = ToSet(devices)
  BY <1>1
<1> QED
  BY <1>2, <1>3, <1>6, <1>7 DEF KeptUpTo

NarrowTo(c, devices, tag) == Filter(devices, Found(c.manager.tagCache, tag))
NarrowedBy(c, i, devices) ==
  /\ IsList(devices)
  /\ ToSet(devices) = {id \in Responding(c.manager, c.head) : \A j \in 1 .. i : Responds(c.manager, id, c.tail[j])}
  /\ IsInjective(devices) \/ (c.head.label = TagLabelAll /\ c.head.annotation # Absent)

Narrows == INSTANCE FoldInduction WITH Op <- NarrowTo, Inv <- NarrowedBy

\* The devices that respond to each of some tags.
LEMMA TagsExact ==
  ASSUME NEW m, NEW d, TagsAgree(m, d, {}), NEW tags, IsTags(tags), tags # << >>
  PROVE  LET devices == GetDevicesFromTags(m.tagCache, tags) IN
         /\ ToSet(devices) = {id \in DOMAIN m.devices : \A tag \in ToSet(tags) : Responds(m, id, tag)}
         /\ IsInjective(devices) \/ (tags[1].label = TagLabelAll /\ tags[1].annotation # Absent)
<1> DEFINE cache == m.tagCache
           devices == GetDevicesFromTags(cache, tags)
           exactly == {id \in DOMAIN m.devices : \A tag \in ToSet(tags) : Responds(m, id, tag)}
           c == [manager |-> m, head |-> Head(tags), tail |-> Tail(tags)]
           base == Found(cache, Head(tags))
           n == Len(Tail(tags))
           result == Narrows!LeftFold(c, base, Tail(tags))
<1>1. /\ IsList(Tail(tags)) /\ ToSet(tags) = {Head(tags)} \cup ToSet(Tail(tags)) /\ Head(tags) = tags[1]
      /\ \A tag \in ToSet(tags) : IsTag(tag)
  BY ListHeadTail DEF IsTags
<1>2. /\ n \in Nat /\ DOMAIN Tail(tags) = 1 .. n
      /\ \A i \in 1 .. n : Tail(tags)[i] \in ToSet(Tail(tags))
      /\ \A x \in ToSet(Tail(tags)) : \E i \in 1 .. n : Tail(tags)[i] = x
  BY <1>1, ListDomain
<1>3. CASE \E tag \in ToSet(tags) : Matches(cache, tag) = {}
  <2>1. PICK tag \in ToSet(tags) : Matches(cache, tag) = {}
    BY <1>3
  <2>2. Responding(m, tag) = {}
    BY <1>1, <2>1, RespondingCached
  <2>3. exactly = {}
    BY <2>2 DEF Responding
  <2>4. devices = << >>
    BY <1>3 DEF GetDevicesFromTags
  <2> QED
    BY <2>3, <2>4, EmptyList
<1>4. CASE ~ \E tag \in ToSet(tags) : Matches(cache, tag) = {}
  <2>1. FoldLeft(LAMBDA some, tag : Filter(some, Found(cache, tag)), base, Tail(tags)) = result
    BY DEF NarrowTo, Narrows!LeftFold, FoldLeft, MapThenFoldSet, Max,
           Narrows!FoldLeft, Narrows!MapThenFoldSet, Narrows!Max
  <2>2. devices = result
    BY <1>4, <2>1 DEF GetDevicesFromTags
  <2>3. c.manager = m /\ c.head = Head(tags) /\ c.tail = Tail(tags)
    OBVIOUS
  <2> HIDE DEF c, n, devices, result
  <2>4. NarrowedBy(c, 0, base)
    <3>1. /\ IsList(base) /\ ToSet(base) = Responding(m, Head(tags))
          /\ IsInjective(base) \/ (Head(tags).label = TagLabelAll /\ Head(tags).annotation # Absent)
      BY <1>1, FoundExact
    <3> QED
      BY <2>3, <3>1 DEF NarrowedBy
  <2>5. ASSUME NEW i \in 1 .. n, NEW some, NarrowedBy(c, i - 1, some)
        PROVE  NarrowedBy(c, i, NarrowTo(c, some, Tail(tags)[i]))
    <3> DEFINE tag == Tail(tags)[i]
               hits == Found(cache, tag)
               next == Filter(some, hits)
    <3>1. IsTag(tag)
      BY <1>1, <1>2
    <3>2. ToSet(hits) = Responding(m, tag)
      BY <3>1, FoundExact
    <3>3. IsList(some)
      BY <2>5 DEF NarrowedBy
    <3> HIDE DEF hits
    <3>4. /\ IsList(next) /\ ToSet(next) = ToSet(some) \cap ToSet(hits)
          /\ IsInjective(some) => IsInjective(next)
      BY <3>3, FilterExact
    <3>5. ToSet(some) = {id \in Responding(m, Head(tags)) : \A j \in 1 .. i - 1 : Responds(m, id, Tail(tags)[j])}
      BY <2>3, <2>5 DEF NarrowedBy
    <3>6. Responding(m, Head(tags)) \subseteq DOMAIN m.devices
      BY DEF Responding
    <3>7. \A j : j \in 1 .. i <=> j \in 1 .. i - 1 \/ j = i
      BY <1>2
    <3>8. ToSet(next) = {id \in Responding(m, Head(tags)) : \A j \in 1 .. i : Responds(m, id, Tail(tags)[j])}
      <4>1. ToSet(hits) = {id \in DOMAIN m.devices : Responds(m, id, tag)}
        BY <3>2 DEF Responding
      <4> HIDE DEF next
      <4> QED
        BY <3>4, <3>5, <3>6, <3>7, <4>1
    <3> HIDE DEF next, tag
    <3>9. IsInjective(next) \/ (c.head.label = TagLabelAll /\ c.head.annotation # Absent)
      BY <2>5, <3>4 DEF NarrowedBy
    <3>10. NarrowedBy(c, i, next)
      BY <2>3, <3>4, <3>8, <3>9 DEF NarrowedBy
    <3> QED
      BY <2>3, <3>10 DEF NarrowTo, next, hits, tag
  <2>6. NarrowedBy(c, n, result)
    BY <1>2, <2>4, <2>5, Narrows!LeftFoldInduction DEF n, result
  <2>7. exactly = {id \in Responding(m, Head(tags)) : \A j \in 1 .. n : Responds(m, id, Tail(tags)[j])}
    <3>1. \A id : (\A tag \in ToSet(tags) : Responds(m, id, tag)) <=>
                  Responds(m, id, Head(tags)) /\ \A j \in 1 .. n : Responds(m, id, Tail(tags)[j])
      BY <1>1, <1>2 DEF n
    <3> QED
      BY <3>1 DEF Responding
  <2> HIDE DEF exactly
  <2>8. ToSet(devices) = exactly
    BY <2>2, <2>3, <2>6, <2>7 DEF NarrowedBy
  <2>9. IsInjective(devices) \/ (tags[1].label = TagLabelAll /\ tags[1].annotation # Absent)
    BY <1>1, <2>2, <2>3, <2>6 DEF NarrowedBy
  <2> QED
    BY <2>8, <2>9 DEF devices, exactly
<1> QED
  BY <1>3, <1>4

\* Whatever is configured, registered and added, and whatever the tags: a request selects
\* the devices it names, and no other, whenever no AddDevice is on its way.
THEOREM SelectsExactly == Spec => []SelectionExact
<1>1. DevicesInv => SelectionExact
  <2> SUFFICES ASSUME DevicesInv, adder.at \in {"none", "refused", "done"}, NEW selector \in setup.selectors
               PROVE  LET devices == GetDevices(load.manager, selector) IN
                      /\ ToSet(devices) =
                           {id \in DOMAIN Devices :
                              IF selector.id # Absent
                              THEN \/ id = selector.id
                                   \/ selector.id \notin DOMAIN Devices /\ Devices[id].alias = selector.id
                              ELSE \A tag \in ToSet(selector.tags) : Answers(id, tag)}
                      /\ \/ IsInjective(devices)
                         \/ selector.tags[1].label = TagLabelAll /\ selector.tags[1].annotation # Absent
    BY DEF SelectionExact
  <2> DEFINE m == load.manager
             d == GenerateDeviceID(Late)
             devices == GetDevices(m, selector)
  <2>1. AliasesAgree(m, {}) /\ TagsAgree(m, d, {})
    BY DEF DevicesInv, AdderAgrees
  <2>2. Devices = m.devices /\ \A id, tag : Answers(id, tag) <=> Responds(m, id, tag)
    BY DEF Devices, Answers, TagsOf, Responds, TagsIn, Stands
  <2>3. setup \in Setups
    BY DEF DevicesInv, ConfigInv, Inv, ControlTypes
  <2>4. IsTags(selector.tags)
    BY <2>3, DevicesAssumption
  <2> HIDE DEF m, d
  <2>5. CASE selector.id # Absent
    <3>1. CASE selector.id \in DOMAIN m.devices
      <4>1. devices = <<selector.id>>
        BY <2>5, <3>1 DEF GetDevices
      <4> HIDE DEF devices
      <4>2. ToSet(devices) = {selector.id} /\ IsInjective(devices)
        BY <4>1, SingleList
      <4> QED
        BY <2>2, <2>5, <3>1, <4>2 DEF devices, m
    <3>2. CASE selector.id \notin DOMAIN m.devices /\ selector.id \in DOMAIN m.aliasCache
      <4>1. devices = <<m.aliasCache[selector.id]>>
        BY <2>5, <3>2 DEF GetDevices
      <4> HIDE DEF devices
      <4>2. ToSet(devices) = {m.aliasCache[selector.id]} /\ IsInjective(devices)
        BY <4>1, SingleList
      <4>3. \A id \in DOMAIN m.devices : m.devices[id].alias = selector.id <=> id = m.aliasCache[selector.id]
        BY <2>1, <2>5, <3>2 DEF AliasesAgree
      <4>4. m.aliasCache[selector.id] \in DOMAIN m.devices
        BY <2>1, <3>2 DEF AliasesAgree
      <4> QED
        BY <2>2, <2>5, <3>2, <4>2, <4>3, <4>4 DEF devices, m
    <3>3. CASE selector.id \notin DOMAIN m.devices /\ selector.id \notin DOMAIN m.aliasCache
      <4>1. devices = << >>
        BY <2>5, <3>3 DEF GetDevices
      <4> HIDE DEF devices
      <4>2. ToSet(devices) = {} /\ IsInjective(devices)
        BY <4>1, EmptyList
      <4>3. \A id \in DOMAIN m.devices : id # selector.id /\ m.devices[id].alias # selector.id
        BY <2>1, <2>5, <3>3 DEF AliasesAgree
      <4> QED
        BY <2>2, <2>5, <4>2, <4>3 DEF devices, m
    <3> QED
      BY <3>1, <3>2, <3>3
  <2>6. CASE selector.id = Absent /\ selector.tags = << >>
    <3>1. devices = GetDevicesFromNamespace(m.tagCache, TagNamespaceSystem)
      BY <2>6 DEF GetDevices
    <3>2. CacheSound(m) /\ CacheFull(m, d, {})
      BY <2>1 DEF TagsAgree
    <3> HIDE DEF devices
    <3>3. /\ IsInjective(devices)
          /\ ToSet(devices) = UNION {ToSet(m.tagCache[tag]) : tag \in InNamespace(m.tagCache, TagNamespaceSystem)}
      BY <3>1, <3>2, NamespaceFound
    <3>4. ASSUME NEW id \in DOMAIN m.devices
          PROVE  \E tag \in InNamespace(m.tagCache, TagNamespaceSystem) : id \in ToSet(m.tagCache[tag])
      <4>1. newIDTag(id).namespace = TagNamespaceSystem /\ newIDTag(id).label = id
        BY DEF newIDTag, Tag
      <4>2. Cached(m, id, newIDTag(id))
        BY <3>2, <4>1 DEF CacheFull
      <4> QED
        BY <4>1, <4>2 DEF Cached, InNamespace
    <3>5. \A tag \in InNamespace(m.tagCache, TagNamespaceSystem) : ToSet(m.tagCache[tag]) \subseteq DOMAIN m.devices
      BY <3>2 DEF CacheSound, InNamespace
    <3>6. ToSet(devices) = DOMAIN m.devices
      BY <3>3, <3>4, <3>5
    <3>7. ToSet(selector.tags) = {}
      BY <2>6, EmptyList
    <3> QED
      BY <2>2, <2>6, <3>3, <3>6, <3>7 DEF devices, m
  <2>7. CASE selector.id = Absent /\ selector.tags # << >>
    <3>1. devices = GetDevicesFromTags(m.tagCache, selector.tags)
      BY <2>7 DEF GetDevices
    <3> HIDE DEF devices
    <3>2. /\ ToSet(devices) = {id \in DOMAIN m.devices : \A tag \in ToSet(selector.tags) : Responds(m, id, tag)}
          /\ IsInjective(devices) \/ (selector.tags[1].label = TagLabelAll /\ selector.tags[1].annotation # Absent)
      BY <2>1, <2>4, <2>7, <3>1, TagsExact
    <3> QED
      BY <2>2, <2>7, <3>2 DEF devices, m
  <2> QED
    BY <2>5, <2>6, <2>7
<1> QED
  BY <1>1, DevicesInvariance, PTL

-----------------------------------------------------------------------------
(* What init made of the configuration.                                    *)

Configurable ==
  ToSet(InstancesOf(ProtosOf(DeviceConfig.merged) \o Returned(DevicePlugin.protos, setup.policies.dynamic)))
ParsesAll == \A c \in Configurable : Parsing(Strings(c))

LoadKnown ==
  /\ main \in {"construct", "register"} => load.parser = NewParser /\ ~load.blocked /\ ~load.failed
  /\ main = "init" /\ process = "up" => Made(load, {}) /\ ~load.failed
  /\ main \notin {"init", "blocked"} => ~load.failed
  /\ main = "components" /\ ParsesAll => Made(load, Configurable)
  /\ load.failed /\ ~Fails(DevicePlugin.protos, setup.policies.dynamic) /\ ParsesAll => Made(load, Configurable)

\* The main goroutine leaves init by what it does there.
LEMMA InitLeft ==
  ASSUME Step, main = "init"
  PROVE  InitDeviceManager \/ main' = "init"
BY DEF Step, NewPlugin, PrintVersion, Register, InitComponents, ExecPreRun, EndPreRun,
     EndDryRun, ExecSetupAction, EndSetup, StartHealth, StartComponents, Serve, Return, EndMain, Notify, ExecPostRun, Exit,
     BeginAdd, AddLateAlias, StoreLate, CacheLateTag, Add, ConcurrentMapAccess, Tick, UpdateStep, RunCheck, Change, Signal,
     healthVars, lifecycleVars

\* What is configured, and what is made of it, depend on the setup and the configuration.
LEMMA ConfiguredKept ==
  ASSUME UNCHANGED <<setup, config>>
  PROVE  /\ Configurable' = Configurable /\ (ParsesAll' <=> ParsesAll)
         /\ Fails(DevicePlugin.protos, setup.policies.dynamic)' <=> Fails(DevicePlugin.protos, setup.policies.dynamic)
         /\ \A l, S : Made(l, S)' <=> Made(l, S)
<1>1. DevicePlugin' = DevicePlugin /\ DeviceConfig' = DeviceConfig
  BY DEF DevicePlugin, Setting, DeviceConfig
<1>2. Configurable' = Configurable
  BY <1>1 DEF Configurable
<1>3. ParsesAll' <=> ParsesAll
  BY <1>2 DEF ParsesAll
<1>4. \A c : Sound(c)' <=> Sound(c)
  BY <1>1 DEF Sound
<1>5. \A l, S : Made(l, S)' <=> Made(l, S)
  BY <1>4 DEF Made
<1> QED
  BY <1>1, <1>2, <1>3, <1>5

LEMMA LoadKnownStep ==
  ASSUME DevicesInv, LoadKnown, Step, process = "up"
  PROVE  LoadKnown'
<1>1. setup' = setup /\ setup \in Setups
  BY StepKeeps DEF DevicesInv, ConfigInv, Inv, ControlTypes
<1>2. main \notin Listening => adder.at = "none" /\ quit = "none" /\ LoadAgrees(load)
  BY BeforeListening DEF DevicesInv, ConfigInv
<1>3. (BeginAdd \/ AddLateAlias \/ StoreLate \/ CacheLateTag) => main \in Listening
  BY <1>2 DEF BeginAdd, AddLateAlias, StoreLate, CacheLateTag
<1>4. CASE main = "construct"
  <2>1. UNCHANGED load
    BY <1>3, <1>4, StepKeeps DEF Register, InitDeviceManager, Listening
  <2>2. main' \in {"construct", "register"}
    BY <1>4, MainMoves
  <2> QED
    BY <1>4, <2>1, <2>2 DEF LoadKnown
<1>5. CASE main # "construct" /\ Register
  <2>1. main = "register" /\ load.parser = NewParser /\ ~load.blocked /\ ~load.failed
    BY <1>5 DEF LoadKnown, Register
  <2>2. \/ main' = main /\ load' = load
        \/ main' = "init" /\ load' = [load EXCEPT !.manager = NewManager(ToSet(setup.handlers))]
    BY <1>5 DEF Register, GoOn
  <2>3. CASE main' = main /\ load' = load
    BY <2>1, <2>3 DEF LoadKnown
  <2>4. CASE main' = "init" /\ load' = [load EXCEPT !.manager = NewManager(ToSet(setup.handlers))]
    <3>1. /\ load'.manager = NewManager(ToSet(setup.handlers)) /\ load'.parser = NewParser
          /\ ~load'.blocked /\ ~load'.failed
      BY <2>1, <2>4 DEF DevicesInv, LoadTypes
    <3>2. load'.manager.handlers = ToSet(setup.handlers) /\ ~load'.parser.locked
      BY <3>1 DEF NewManager, Manager, NewParser
    <3>3. Made(load, {})'
      BY <1>1, <3>1, <3>2 DEF Made
    <3> QED
      BY <2>4, <3>1, <3>3 DEF LoadKnown
  <2> QED
    BY <2>2, <2>3, <2>4
<1>6. CASE main # "construct" /\ InitDeviceManager
  <2> DEFINE protos == ProtosOf(DeviceConfig.merged)
             policy == setup.policies.dynamic
             inited == InitDevices(load, protos, DevicePlugin, policy)
             fails == Fails(DevicePlugin.protos, policy)
  <2>1. main = "init" /\ Made(load, {}) /\ ~load.failed /\ UNCHANGED <<setup, config>>
    BY <1>6 DEF LoadKnown, InitDeviceManager
  <2>2. \/ load' = load /\ main' = main /\ process' = "error"
        \/ /\ DeviceConfig.ok /\ load' = inited
           /\ \/ main' = main /\ process' = "error" /\ ~inited.blocked
              \/ main' = "blocked" /\ inited.blocked
              \/ main' = "components" /\ ~inited.blocked /\ ~inited.failed
    BY <1>6 DEF InitDeviceManager, GoOn, End
  <2>3. CASE load' = load /\ main' = main /\ process' = "error"
    BY <2>1, <2>3 DEF LoadKnown
  <2>4. CASE DeviceConfig.ok /\ load' = inited
    <3>1. IsList(protos) /\ \A proto \in ToSet(protos) : IsProto(proto)
      BY <1>1, <2>4, ProtosListed
    <3>2. LoadAgrees(load)
      BY <1>2, <2>1 DEF Listening
    <3>3. ConfigFits
      BY DEF DevicesInv, ConfigInv
    <3> HIDE DEF protos, policy
    <3>4. LET configured == ToSet(InstancesOf(protos \o Returned(DevicePlugin.protos, policy))) IN
          /\ fails => inited.failed
          /\ inited.blocked => ~\A c \in configured : Parsing(Strings(c))
          /\ ~fails /\ (\A c \in configured : Parsing(Strings(c))) => Made(inited, configured)
      BY <1>1, <2>1, <3>1, <3>2, <3>3, InitDevicesAgree
    <3> HIDE DEF inited, fails
    <3>5. /\ fails => inited.failed
          /\ inited.blocked => ~ParsesAll
          /\ ~fails /\ ParsesAll => Made(inited, Configurable)
      BY <3>4 DEF ParsesAll, Configurable, protos, policy
    <3>6. /\ Configurable' = Configurable /\ (ParsesAll' <=> ParsesAll)
          /\ Fails(DevicePlugin.protos, setup.policies.dynamic)' <=> fails
          /\ \A l, S : Made(l, S)' <=> Made(l, S)
      BY <2>1, ConfiguredKept DEF fails, policy
    <3>7. ~fails /\ ParsesAll => Made(load, Configurable)'
      BY <2>4, <3>5, <3>6
    <3> QED
      BY <2>1, <2>2, <2>4, <3>5, <3>6, <3>7 DEF LoadKnown
  <2> QED
    BY <2>2, <2>3, <2>4
<1>7. CASE main # "construct" /\ (BeginAdd \/ AddLateAlias \/ StoreLate \/ CacheLateTag)
  <2>1. main \in Listening /\ main' \in Listening
    BY <1>3, <1>7, MainMoves DEF Listening
  <2>2. load'.failed = load.failed
    BY <1>7 DEF BeginAdd, AddLateAlias, StoreLate, CacheLateTag, Add, DevicesInv, LoadTypes
  <2> QED
    BY <2>1, <2>2 DEF LoadKnown, Listening
<1>8. CASE main # "construct" /\ ~Register /\ ~InitDeviceManager /\ UNCHANGED load
  <2>1. UNCHANGED <<setup, config>>
    BY <1>1, <1>8, ConfigLoaded
  <2>2. /\ Configurable' = Configurable /\ (ParsesAll' <=> ParsesAll)
        /\ Fails(DevicePlugin.protos, setup.policies.dynamic)' <=> Fails(DevicePlugin.protos, setup.policies.dynamic)
        /\ \A S : Made(load, S)' <=> Made(load, S)
    BY <1>8, <2>1, ConfiguredKept
  <2>3. main' = main \/ (main \notin {"register", "init", "blocked"} /\ main' \notin {"construct", "register", "init", "blocked", "components"})
    BY <1>8, MainMoves, InitLeft
  <2>4. Made(load, Configurable)' <=> Made(load, Configurable)
    BY <1>8, <2>2
  <2>5. Made(load, {})' <=> Made(load, {})
    BY <1>8, <2>2
  <2>6. CASE main' = main
    BY <1>8, <2>2, <2>4, <2>5, <2>6 DEF LoadKnown
  <2>7. CASE main \notin {"register", "init", "blocked"} /\ main' \notin {"construct", "register", "init", "blocked", "components"}
    BY <1>8, <2>2, <2>4, <2>7 DEF LoadKnown
  <2> QED
    BY <2>3, <2>6, <2>7
<1> QED
  BY <1>4, <1>5, <1>6, <1>7, <1>8, StepKeeps

LoadInv == DevicesInv /\ LoadKnown

LEMMA LoadInvInit == Init => LoadInv
<1> SUFFICES ASSUME Init PROVE LoadInv
  OBVIOUS
<1>1. main = "construct" /\ load.parser = NewParser /\ ~load.blocked /\ ~load.failed
  BY DEF Init
<1> QED
  BY <1>1, DevicesInvInit DEF LoadInv, LoadKnown

LEMMA LoadInvNext == LoadInv /\ [Next]_vars => LoadInv'
<1> SUFFICES ASSUME LoadInv, [Next]_vars PROVE LoadInv'
  OBVIOUS
<1>1. DevicesInv'
  BY DevicesInvNext DEF LoadInv
<1>2. CASE Next
  <2>1. Step /\ process = "up"
    BY <1>2, NextIsStep
  <2> QED
    BY <1>1, <2>1, LoadKnownStep DEF LoadInv
<1>3. CASE UNCHANGED vars
  <2>1. UNCHANGED <<setup, main, process, config, load>>
    BY <1>3 DEF vars, lifecycleVars
  <2>2. LoadKnown'
    <3>1. /\ Configurable' = Configurable /\ (ParsesAll' <=> ParsesAll)
          /\ Fails(DevicePlugin.protos, setup.policies.dynamic)' <=> Fails(DevicePlugin.protos, setup.policies.dynamic)
          /\ \A S : Made(load, S)' <=> Made(load, S)
      BY <2>1, ConfiguredKept
    <3> QED
      BY <2>1, <3>1 DEF LoadInv, LoadKnown
  <2> QED
    BY <1>1, <2>2 DEF LoadInv
<1> QED
  BY <1>2, <1>3

LEMMA LoadInvariance == Spec => []LoadInv
BY LoadInvInit, LoadInvNext, PTL DEF Spec

\* Whatever files and registrars configure: once the device manager is initialized each
\* instance is a device with what it inherits and overrides; and when an instance or a device
\* of a registrar was refused, each sound one is all the same, but for a taken id or alias.
THEOREM LoadsExactly == Spec => []LoadExact
<1>1. LoadInv => LoadExact
  <2> SUFFICES ASSUME LoadInv PROVE LoadExact
    OBVIOUS
  <2> DEFINE configured == ToSet(InstancesOf(ProtosOf(DeviceConfig.merged) \o Returned(DevicePlugin.protos, setup.policies.dynamic)))
             parses == \A c \in configured : \A string \in Strings(c) : string.kind \notin {"blank", "unparsed"}
  <2>1. configured = Configurable /\ (parses <=> ParsesAll)
    BY DEF Configurable, ParsesAll, Parsing
  <2>2. \A c : MadeIn(load.manager.devices, c) <=> \E id \in DOMAIN Devices : IsDeviceOf(Devices[id], c)
    BY DEF MadeIn, Devices
  <2>3. \A c : TakenIn(load.manager.devices, c) <=>
          \/ IdFor(c) \in DOMAIN Devices
          \/ \E id \in DOMAIN Devices :
               Devices[id].alias = Alias(c.instance.alias, Values(c, "context")) /\ Devices[id].alias # Absent
    BY DEF TakenIn, AliasFor, Devices
  <2> HIDE DEF configured, parses
  <2>4. main = "components" /\ parses => \A c \in configured : MadeIn(load.manager.devices, c)
    BY <2>1 DEF LoadInv, LoadKnown, Made
  <2>5. load.failed /\ ~Fails(DevicePlugin.protos, setup.policies.dynamic) /\ parses =>
          \A c \in configured : Sound(c) => MadeIn(load.manager.devices, c) \/ TakenIn(load.manager.devices, c)
    BY <2>1 DEF LoadInv, LoadKnown, Made
  <2> QED
    BY <2>2, <2>3, <2>4, <2>5 DEF LoadExact, configured, parses
<1> QED
  BY <1>1, LoadInvariance, PTL

=============================================================================
