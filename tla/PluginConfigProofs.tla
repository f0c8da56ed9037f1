------------------------- MODULE PluginConfigProofs -------------------------
(***************************************************************************)
(* Theorems about what Plugin loads from files and environment.  What the  *)
(* folds of the loader compute is proved by induction, in instances of     *)
(* FoldInduction.                                                          *)
(***************************************************************************)
EXTENDS PluginProofs

-----------------------------------------------------------------------------
(* Lists.                                                                  *)

\* A list is a sequence, of what is in it.
LEMMA ListOf ==
  ASSUME NEW S, NEW s \in Seq(S)
  PROVE  /\ IsList(s) /\ ToSet(s) \subseteq S
         /\ Len(s) \in Nat /\ DOMAIN s = 1 .. Len(s)
         /\ \A i \in 1 .. Len(s) : s[i] \in ToSet(s)
BY DEF IsList, ToSet

LEMMA ListDomain ==
  ASSUME NEW s, IsList(s)
  PROVE  /\ Len(s) \in Nat /\ DOMAIN s = 1 .. Len(s)
         /\ \A i \in 1 .. Len(s) : s[i] \in ToSet(s)
         /\ \A x \in ToSet(s) : \E i \in 1 .. Len(s) : s[i] = x
         /\ s = << >> <=> Len(s) = 0
         /\ s = << >> <=> ToSet(s) = {}
<1> DEFINE S == ToSet(s)
<1>1. s \in Seq(S)
  BY DEF IsList
<1>2. \A x \in S : \E i \in DOMAIN s : s[i] = x
  BY DEF ToSet
<1> HIDE DEF S
<1>3. Len(s) \in Nat /\ DOMAIN s = 1 .. Len(s) /\ \A i \in 1 .. Len(s) : s[i] \in S
  BY <1>1
<1>4. s = << >> <=> Len(s) = 0
  BY <1>1
<1>5. Len(s) = 0 <=> S = {}
  <2>1. CASE Len(s) = 0
    BY <1>2, <1>3, <2>1
  <2>2. CASE Len(s) # 0
    <3>1. 1 \in 1 .. Len(s)
      BY <1>3, <2>2
    <3> QED
      BY <1>3, <2>2, <3>1
  <2> QED
    BY <2>1, <2>2
<1> QED
  BY <1>2, <1>3, <1>4, <1>5 DEF S

\* A function from the first numbers is a list.
LEMMA ListFrom ==
  ASSUME NEW n \in Nat, NEW f, f = [i \in 1 .. n |-> f[i]]
  PROVE  IsList(f) /\ Len(f) = n /\ ToSet(f) = {f[i] : i \in 1 .. n}
<1> DEFINE S == {f[i] : i \in 1 .. n}
<1>1. f \in Seq(S)
  OBVIOUS
<1>2. ToSet(f) = S
  BY DEF ToSet
<1> HIDE DEF S
<1> QED
  BY <1>1, <1>2 DEF IsList, S

LEMMA EmptyList ==
  IsList(<< >>) /\ ToSet(<< >>) = {} /\ IsInjective(<< >>)
<1>1. ToSet(<< >>) = {}
  BY DEF ToSet
<1>2. IsInjective(<< >>)
  BY DEF IsInjective
<1> QED
  BY <1>1, <1>2 DEF IsList

LEMMA SingleList ==
  ASSUME NEW x
  PROVE  IsList(<<x>>) /\ ToSet(<<x>>) = {x} /\ IsInjective(<<x>>)
<1>1. ToSet(<<x>>) = {x}
  BY DEF ToSet
<1>2. IsInjective(<<x>>)
  BY DEF IsInjective
<1> QED
  BY <1>1, <1>2 DEF IsList

LEMMA ListAppend ==
  ASSUME NEW s, IsList(s), NEW x
  PROVE  /\ IsList(Append(s, x)) /\ ToSet(Append(s, x)) = ToSet(s) \cup {x}
         /\ Len(Append(s, x)) = Len(s) + 1 /\ Append(s, x)[Len(s) + 1] = x
         /\ \A i \in 1 .. Len(s) : Append(s, x)[i] = s[i]
         /\ IsInjective(s) /\ x \notin ToSet(s) => IsInjective(Append(s, x))
<1> DEFINE S == ToSet(s) \cup {x}
           t == Append(s, x)
<1>1. s \in Seq(S)
  BY ListDomain DEF IsList
<1>2. Len(s) \in Nat /\ \A i \in 1 .. Len(s) : s[i] \in ToSet(s)
  BY ListDomain
<1>3. \A y \in ToSet(s) : \E i \in 1 .. Len(s) : s[i] = y
  BY ListDomain
<1>4. /\ t \in Seq(S) /\ Len(t) = Len(s) + 1 /\ t[Len(s) + 1] = x
      /\ \A i \in 1 .. Len(s) : t[i] = s[i]
  <2> HIDE DEF S
  <2>1. x \in S
    BY DEF S
  <2> QED
    BY <1>1, <2>1
<1>5. DOMAIN t = 1 .. Len(s) + 1 /\ DOMAIN s = 1 .. Len(s)
  <2> HIDE DEF S
  <2> QED
    BY <1>1, <1>4
<1> HIDE DEF t
<1>6. ToSet(t) = S
  <2>1. \A i \in DOMAIN t : t[i] \in S
    BY <1>2, <1>4, <1>5
  <2>2. \A y \in S : \E i \in DOMAIN t : t[i] = y
    BY <1>2, <1>3, <1>4, <1>5
  <2> HIDE DEF S
  <2> QED
    BY <2>1, <2>2 DEF ToSet
<1>7. ASSUME IsInjective(s), x \notin ToSet(s) PROVE IsInjective(t)
  <2> SUFFICES ASSUME NEW i \in DOMAIN t, NEW j \in DOMAIN t, t[i] = t[j] PROVE i = j
    BY DEF IsInjective
  <2>1. CASE i \in 1 .. Len(s) /\ j \in 1 .. Len(s)
    BY <1>4, <1>5, <1>7, <2>1 DEF IsInjective
  <2>2. CASE i = Len(s) + 1 /\ j = Len(s) + 1
    BY <2>2
  <2>3. CASE i \in 1 .. Len(s) /\ j = Len(s) + 1
    BY <1>2, <1>4, <1>7, <2>3
  <2>4. CASE i = Len(s) + 1 /\ j \in 1 .. Len(s)
    BY <1>2, <1>4, <1>7, <2>4
  <2> QED
    BY <1>2, <1>5, <2>1, <2>2, <2>3, <2>4
<1> HIDE DEF S
<1>8. IsList(t)
  BY <1>4, <1>6 DEF IsList
<1> QED
  BY <1>4, <1>6, <1>7, <1>8 DEF S, t

LEMMA ListConcat ==
  ASSUME NEW s, IsList(s), NEW t, IsList(t)
  PROVE  /\ IsList(s \o t) /\ ToSet(s \o t) = ToSet(s) \cup ToSet(t)
         /\ Len(s \o t) = Len(s) + Len(t)
<1> DEFINE S == ToSet(s) \cup ToSet(t)
           u == s \o t
<1>1. s \in Seq(S) /\ t \in Seq(S)
  BY ListDomain DEF IsList
<1>2. Len(s) \in Nat /\ \A i \in 1 .. Len(s) : s[i] \in ToSet(s)
  BY ListDomain
<1>3. Len(t) \in Nat /\ \A i \in 1 .. Len(t) : t[i] \in ToSet(t)
  BY ListDomain
<1>4. /\ \A y \in ToSet(s) : \E i \in 1 .. Len(s) : s[i] = y
      /\ \A y \in ToSet(t) : \E i \in 1 .. Len(t) : t[i] = y
  BY ListDomain
<1> HIDE DEF S
<1>5. /\ u \in Seq(S) /\ Len(u) = Len(s) + Len(t)
      /\ \A i \in 1 .. Len(s) : u[i] = s[i]
      /\ \A i \in 1 .. Len(t) : u[Len(s) + i] = t[i]
  BY <1>1
<1>6. DOMAIN u = 1 .. Len(s) + Len(t)
  BY <1>5
<1> HIDE DEF u
<1>7. ToSet(u) = S
  <2>1. \A i \in DOMAIN u : u[i] \in S
    BY <1>5
  <2>2. \A y \in S : \E i \in DOMAIN u : u[i] = y
    <3>1. TAKE y \in S
    <3>2. CASE y \in ToSet(s)
      BY <1>2, <1>3, <1>4, <1>5, <1>6, <3>2
    <3>3. CASE y \in ToSet(t)
      <4>1. PICK i \in 1 .. Len(t) : t[i] = y
        BY <1>4, <3>3
      <4>2. Len(s) + i \in DOMAIN u
        BY <1>2, <1>3, <1>6
      <4> QED
        BY <1>5, <4>1, <4>2
    <3> QED
      BY <3>2, <3>3 DEF S
  <2> QED
    BY <2>1, <2>2 DEF ToSet
<1> QED
  BY <1>5, <1>7 DEF IsList, S, u

LEMMA ListHeadTail ==
  ASSUME NEW s, IsList(s), s # << >>
  PROVE  /\ IsList(Tail(s)) /\ ToSet(s) = {Head(s)} \cup ToSet(Tail(s))
         /\ Head(s) = s[1] /\ 1 \in DOMAIN s
<1> DEFINE S == ToSet(s)
           t == Tail(s)
<1>1. s \in Seq(S)
  BY DEF IsList
<1>2. /\ Len(s) \in Nat /\ DOMAIN s = 1 .. Len(s) /\ \A i \in 1 .. Len(s) : s[i] \in S
      /\ \A x \in S : \E i \in 1 .. Len(s) : s[i] = x
  BY ListDomain
<1> HIDE DEF S
<1>3. Len(s) # 0
  BY <1>1
<1>4. /\ t \in Seq(S) /\ Len(t) = Len(s) - 1 /\ \A i \in 1 .. Len(s) - 1 : t[i] = s[i + 1]
  BY <1>1, <1>3
<1>5. DOMAIN t = 1 .. Len(s) - 1
  BY <1>4
<1>6. 1 \in 1 .. Len(s) /\ Head(s) = s[1]
  BY <1>1, <1>2, <1>3
<1> HIDE DEF t
<1>7. ToSet(t) \subseteq S /\ IsList(t)
  BY <1>4, ListOf
<1>8. S \subseteq {Head(s)} \cup ToSet(t)
  <2>1. SUFFICES ASSUME NEW x \in S PROVE x \in {Head(s)} \cup ToSet(t)
    OBVIOUS
  <2>2. PICK i \in 1 .. Len(s) : s[i] = x
    BY <1>2
  <2>3. CASE i = 1
    BY <1>6, <2>2, <2>3
  <2>4. CASE i # 1
    <3>1. i - 1 \in DOMAIN t /\ t[i - 1] = x
      BY <1>2, <1>4, <1>5, <2>2, <2>4
    <3> QED
      BY <3>1 DEF ToSet
  <2> QED
    BY <2>3, <2>4
<1> QED
  BY <1>2, <1>6, <1>7, <1>8 DEF S, t

-----------------------------------------------------------------------------
(* Lists of lists, joined.                                                 *)

Join(lists, joined, list) == joined \o list
Joined(lists, i, joined) ==
  IsList(joined) /\ ToSet(joined) = UNION {ToSet(lists[j]) : j \in 1 .. i}

Joins == INSTANCE FoldInduction WITH Op <- Join, Inv <- Joined

IsLists(lists) == IsList(lists) /\ \A i \in DOMAIN lists : IsList(lists[i])

\* What is joined of each number of the lists.
JoinsTo(lists, f) ==
  /\ f[0] = << >>
  /\ \A i \in 1 .. Len(lists) : f[i] = f[i - 1] \o lists[i]
  /\ f[Len(lists)] = FlattenSeq(lists)

LEMMA Flattens ==
  ASSUME NEW lists, IsLists(lists)
  PROVE  \E f : JoinsTo(lists, f)
<1> DEFINE n == Len(lists)
<1>1. n \in Nat /\ DOMAIN lists = 1 .. n /\ (lists = << >> <=> n = 0)
  BY ListDomain DEF IsLists
<1>2. CASE n = 0
  <2>1. FlattenSeq(lists) = << >>
    BY <1>1, <1>2 DEF FlattenSeq
  <2>2. JoinsTo(lists, [i \in {0} |-> << >>])
    BY <1>2, <2>1 DEF JoinsTo
  <2> QED
    BY <2>2
<1>3. CASE n # 0
  <2> DEFINE Value(f, i) == IF i = 1 THEN lists[i] ELSE f[i - 1] \o lists[i]
             Equation(f) == f = [i \in 1 .. n |-> Value(f, i)]
             flatten == CHOOSE f : Equation(f)
  <2>1. FlattenSeq(lists) = flatten[n]
    BY <1>3 DEF FlattenSeq
  <2>2. PICK f : f[0] = << >> /\ \A i \in 1 .. n : f[i] = f[i - 1] \o lists[i]
    <3>1. Joins!LeftUnfolds(lists, << >>, lists, n)
      BY <1>1, Joins!LeftFoldUnfolds
    <3> QED
      BY <3>1 DEF Joins!LeftUnfolds, Join
  <2>3. << >> \o lists[1] = lists[1]
    <3>1. IsList(lists[1])
      BY <1>1, <1>3 DEF IsLists
    <3> QED
      BY <3>1 DEF IsList
  <2>4. \A i \in 1 .. n : i = 1 => f[i] = lists[i]
    <3>1. SUFFICES ASSUME NEW i \in 1 .. n, i = 1 PROVE f[i] = lists[i]
      OBVIOUS
    <3>2. f[i] = f[i - 1] \o lists[i] /\ i - 1 = 0
      BY <1>1, <2>2, <3>1
    <3> QED
      BY <2>2, <2>3, <3>1, <3>2
  <2> DEFINE g == [i \in 1 .. n |-> f[i]]
  <2>5. Equation(g)
    <3>1. \A i \in 1 .. n : g[i] = Value(g, i)
      <4>1. TAKE i \in 1 .. n
      <4>2. CASE i = 1
        BY <2>4, <4>2
      <4>3. CASE i # 1
        <5>1. i - 1 \in 1 .. n
          BY <1>1, <4>3
        <5> QED
          BY <2>2, <4>3, <5>1
      <4> QED
        BY <4>2, <4>3
    <3> HIDE DEF Value
    <3> QED
      BY <3>1
  <2>6. Equation(flatten)
    <3> HIDE DEF Equation, g
    <3> QED
      BY <2>5
  <2>7. \A i \in 1 .. n : flatten[i] = Value(flatten, i)
    <3> HIDE DEF flatten
    <3> QED
      BY <2>6
  <2> HIDE DEF flatten
  <2> DEFINE h == [i \in 0 .. n |-> IF i = 0 THEN << >> ELSE flatten[i]]
  <2>8. h[0] = << >> /\ \A i \in 1 .. n : h[i] = flatten[i]
    BY <1>1
  <2> HIDE DEF h
  <2>9. \A i \in 1 .. n : h[i] = h[i - 1] \o lists[i]
    <3>1. TAKE i \in 1 .. n
    <3>2. CASE i = 1
      <4>1. h[i] = lists[i] /\ h[i - 1] = << >>
        BY <2>7, <2>8, <3>2
      <4> QED
        BY <2>3, <3>2, <4>1
    <3>3. CASE i # 1
      <4>1. i - 1 \in 1 .. n
        BY <1>1, <3>3
      <4> QED
        BY <2>7, <2>8, <3>3, <4>1
    <3> QED
      BY <3>2, <3>3
  <2>10. h[n] = flatten[n]
    BY <1>1, <1>3, <2>8
  <2>11. JoinsTo(lists, h)
    BY <2>1, <2>8, <2>9, <2>10 DEF JoinsTo
  <2> QED
    BY <2>11
<1> QED
  BY <1>2, <1>3

\* What is in any of the lists, is in the list that they are joined to.
LEMMA FlattenLists ==
  ASSUME NEW lists, IsLists(lists)
  PROVE  IsList(FlattenSeq(lists)) /\ ToSet(FlattenSeq(lists)) = UNION {ToSet(lists[i]) : i \in DOMAIN lists}
<1>1. Len(lists) \in Nat /\ DOMAIN lists = 1 .. Len(lists)
  BY ListDomain DEF IsLists
<1>2. PICK f : JoinsTo(lists, f)
  BY Flattens
<1>3. Joined(lists, 0, f[0])
  <2>1. 1 .. 0 = {}
    OBVIOUS
  <2> QED
    BY <1>2, <2>1, EmptyList DEF JoinsTo, Joined
<1>4. \A i \in 1 .. Len(lists) : Joined(lists, i - 1, f[i - 1]) => Joined(lists, i, f[i])
  <2>1. SUFFICES ASSUME NEW i \in 1 .. Len(lists), Joined(lists, i - 1, f[i - 1]) PROVE Joined(lists, i, f[i])
    OBVIOUS
  <2>2. IsList(lists[i]) /\ f[i] = f[i - 1] \o lists[i]
    BY <1>1, <1>2 DEF JoinsTo, IsLists
  <2>3. IsList(f[i]) /\ ToSet(f[i]) = ToSet(f[i - 1]) \cup ToSet(lists[i])
    BY <2>1, <2>2, ListConcat DEF Joined
  <2>4. 1 .. i = (1 .. i - 1) \cup {i}
    BY <1>1
  <2> QED
    BY <2>1, <2>3, <2>4 DEF Joined
<1>5. \A i \in 0 .. Len(lists) : Joined(lists, i, f[i])
  BY <1>1, <1>3, <1>4, Joins!Upwards
<1> QED
  BY <1>1, <1>2, <1>5 DEF JoinsTo, Joined

\* One list more.
Agrees(other, i, joined) == joined = other[i]

Joints == INSTANCE FoldInduction WITH Op <- Join, Inv <- Agrees

LEMMA FlattenAppend ==
  ASSUME NEW lists, IsLists(lists), NEW more, IsLists(more),
         Len(more) = Len(lists) + 1, \A i \in 1 .. Len(lists) : more[i] = lists[i]
  PROVE  FlattenSeq(more) = FlattenSeq(lists) \o more[Len(more)]
<1> DEFINE n == Len(lists)
<1>1. n \in Nat
  BY ListDomain DEF IsLists
<1>2. PICK f : JoinsTo(lists, f)
  BY Flattens
<1>3. PICK g : JoinsTo(more, g)
  BY Flattens
<1>4. Agrees(g, 0, f[0])
  BY <1>2, <1>3 DEF JoinsTo, Agrees
<1>5. \A i \in 1 .. n : Agrees(g, i - 1, f[i - 1]) => Agrees(g, i, f[i])
  <2>1. SUFFICES ASSUME NEW i \in 1 .. n, f[i - 1] = g[i - 1] PROVE f[i] = g[i]
    BY DEF Agrees
  <2>2. f[i] = f[i - 1] \o lists[i]
    BY <1>2 DEF JoinsTo
  <2>3. i \in 1 .. Len(more)
    BY <1>1
  <2>4. g[i] = g[i - 1] \o more[i]
    BY <1>3, <2>3 DEF JoinsTo
  <2> QED
    BY <2>1, <2>2, <2>4
<1>6. \A i \in 0 .. n : Agrees(g, i, f[i])
  <2> HIDE DEF n
  <2> QED
    BY <1>1, <1>4, <1>5, Joints!Upwards
<1>7. f[n] = g[n]
  BY <1>1, <1>6 DEF Agrees
<1>8. n + 1 \in 1 .. Len(more) /\ (n + 1) - 1 = n
  BY <1>1
<1>9. g[n + 1] = g[n] \o more[n + 1]
  BY <1>3, <1>8 DEF JoinsTo
<1> QED
  BY <1>2, <1>3, <1>7, <1>9 DEF JoinsTo

LEMMA ConcatEmpty ==
  ASSUME NEW s, IsList(s)
  PROVE  s \o << >> = s /\ << >> \o s = s
BY DEF IsList

-----------------------------------------------------------------------------
(* The environment.  A source c has a loader and what it reads.            *)

Set(c, data, v) ==
  IF Counts(c.loader, v) /\ (Leaf(v.field, "lower") \in DOMAIN data => data[Leaf(v.field, "lower")] = NotSet)
  THEN Put(data, Leaf(v.field, "lower"), v.value) ELSE data

\* Of the first variables one counts for a field; and it is the one that is taken, the first
\* that is not empty if there is any.
CountsFor(c, field, j) == Counts(c.loader, c.env[j]) /\ c.env[j].field = field
IsTaken(c, i, field, j) ==
  /\ CountsFor(c, field, j)
  /\ \A k \in 1 .. i : CountsFor(c, field, k) /\ c.env[k].value # NotSet => c.env[j].value # NotSet /\ j <= k

SetBy(c, i, data) ==
  /\ \A key \in DOMAIN data :
       /\ key = Leaf(key.field, "lower")
       /\ \E j \in 1 .. i : IsTaken(c, i, key.field, j) /\ data[key] = c.env[j].value
  /\ \A j \in 1 .. i : Counts(c.loader, c.env[j]) => Leaf(c.env[j].field, "lower") \in DOMAIN data

Env == INSTANCE FoldInduction WITH Op <- Set, Inv <- SetBy

LEMMA SetStep ==
  ASSUME NEW c, NEW i \in Nat, i # 0, NEW data, SetBy(c, i - 1, data)
  PROVE  SetBy(c, i, Set(c, data, c.env[i]))
<1> DEFINE v == c.env[i]
           key == Leaf(v.field, "lower")
           more == Set(c, data, v)
<1>1. /\ 1 .. i = (1 .. i - 1) \cup {i} /\ i \in 1 .. i
      /\ \A j \in 1 .. i - 1 : j \in 1 .. i /\ j <= i
  OBVIOUS
<1>2. key.field = v.field /\ key = Leaf(key.field, "lower")
  BY DEF Leaf
\* What was taken so far is taken still, if the new variable is empty, or for another field,
\* or there was one that is not empty.
<1>3. ASSUME NEW field, NEW j \in 1 .. i - 1, IsTaken(c, i - 1, field, j),
             CountsFor(c, field, i) /\ v.value # NotSet => c.env[j].value # NotSet
      PROVE  IsTaken(c, i, field, j)
  BY <1>1, <1>3 DEF IsTaken
<1>4. CASE ~Counts(c.loader, v)
  <2>1. more = data /\ \A field : ~CountsFor(c, field, i)
    BY <1>4 DEF Set, CountsFor
  <2> QED
    BY <1>1, <1>3, <1>4, <2>1 DEF SetBy
<1>5. CASE Counts(c.loader, v) /\ key \in DOMAIN data /\ data[key] # NotSet
  <2>1. more = data
    BY <1>5 DEF Set
  <2>2. ASSUME NEW k \in DOMAIN data
        PROVE  \E j \in 1 .. i : IsTaken(c, i, k.field, j) /\ data[k] = c.env[j].value
    <3>1. PICK j \in 1 .. i - 1 : IsTaken(c, i - 1, k.field, j) /\ data[k] = c.env[j].value
      BY <2>2 DEF SetBy
    <3>2. k = Leaf(k.field, "lower")
      BY <2>2 DEF SetBy
    <3>3. CountsFor(c, k.field, i) => k = key
      BY <3>2 DEF CountsFor
    <3>4. CountsFor(c, k.field, i) => c.env[j].value # NotSet
      BY <1>5, <3>1, <3>3
    <3> QED
      BY <1>1, <1>3, <3>1, <3>4
  <2> QED
    BY <1>1, <1>5, <2>1, <2>2 DEF SetBy
<1>6. CASE Counts(c.loader, v) /\ (key \in DOMAIN data => data[key] = NotSet)
  <2>1. /\ DOMAIN more = DOMAIN data \cup {key} /\ more[key] = v.value
        /\ \A k \in DOMAIN data : k # key => more[k] = data[k]
    BY <1>6 DEF Set, Put
  <2> HIDE DEF more
  <2>2. IsTaken(c, i, key.field, i)
    <3>1. CountsFor(c, key.field, i)
      BY <1>2, <1>6 DEF CountsFor
    <3>2. ASSUME NEW k \in 1 .. i - 1, CountsFor(c, key.field, k), c.env[k].value # NotSet PROVE FALSE
      <4>1. key \in DOMAIN data
        <5>1. Leaf(c.env[k].field, "lower") \in DOMAIN data
          BY <3>2 DEF SetBy, CountsFor
        <5> QED
          BY <1>2, <3>2, <5>1 DEF CountsFor
      <4>2. PICK j \in 1 .. i - 1 : IsTaken(c, i - 1, key.field, j) /\ data[key] = c.env[j].value
        <5> HIDE DEF key
        <5> QED
          BY <4>1 DEF SetBy
      <4> QED
        BY <1>6, <3>2, <4>1, <4>2 DEF IsTaken
    <3> QED
      BY <1>1, <3>1, <3>2 DEF IsTaken
  <2>3. ASSUME NEW k \in DOMAIN more
        PROVE  /\ k = Leaf(k.field, "lower")
               /\ \E j \in 1 .. i : IsTaken(c, i, k.field, j) /\ more[k] = c.env[j].value
    <3>1. CASE k = key
      BY <1>1, <1>2, <2>1, <2>2, <3>1
    <3>2. CASE k # key
      <4>1. k \in DOMAIN data /\ more[k] = data[k]
        BY <2>1, <2>3, <3>2
      <4>2. PICK j \in 1 .. i - 1 : IsTaken(c, i - 1, k.field, j) /\ data[k] = c.env[j].value
        BY <4>1 DEF SetBy
      <4>3. k = Leaf(k.field, "lower")
        BY <4>1 DEF SetBy
      <4>4. ~CountsFor(c, k.field, i)
        BY <3>2, <4>3 DEF CountsFor
      <4> QED
        BY <1>1, <1>3, <4>1, <4>2, <4>3, <4>4
    <3> QED
      BY <3>1, <3>2
  <2>4. \A j \in 1 .. i : Counts(c.loader, c.env[j]) => Leaf(c.env[j].field, "lower") \in DOMAIN more
    BY <1>1, <2>1 DEF SetBy
  <2> QED
    BY <2>3, <2>4 DEF SetBy, more
<1> QED
  BY <1>4, <1>5, <1>6

\* The environment's part of a configuration is what the fold gives, scanned.
ScannedFrom(strings) == [key \in DOMAIN strings |-> Scanned(key.field, strings[key])]
FromEnvironment(loader, world, env) ==
  \E strings : env = ScannedFrom(strings) /\ SetBy([loader |-> loader, env |-> world.env], Len(world.env), strings)

LEMMA LoadEnvSets ==
  ASSUME NEW loader, NEW world, IsList(world.env)
  PROVE  FromEnvironment(loader, world, LoadEnv(loader, world))
<1> DEFINE c == [loader |-> loader, env |-> world.env]
           n == Len(world.env)
           strings == Env!LeftFold(c, Empty, world.env)
<1>1. LoadEnv(loader, world) = ScannedFrom(strings)
  BY SMTT(30) DEF LoadEnv, ScannedFrom, Set, Env!LeftFold, FoldLeft, MapThenFoldSet, Max, Env!FoldLeft, Env!MapThenFoldSet, Env!Max
<1>2. n \in Nat /\ DOMAIN world.env = 1 .. n
  BY ListDomain
<1>3. SetBy(c, 0, Empty)
  BY DEF SetBy, Empty
<1>4. \A i \in 1 .. n : \A data : SetBy(c, i - 1, data) => SetBy(c, i, Set(c, data, world.env[i]))
  <2>1. c.env = world.env
    OBVIOUS
  <2> HIDE DEF c
  <2>2. TAKE i \in 1 .. n
  <2>3. i \in Nat /\ i # 0
    BY <1>2
  <2> QED
    BY <2>1, <2>3, SetStep
<1>5. SetBy(c, n, strings)
  <2> HIDE DEF c, n
  <2> QED
    BY <1>2, <1>3, <1>4, Env!LeftFoldInduction
<1> HIDE DEF strings
<1> QED
  BY <1>1, <1>5 DEF FromEnvironment
-----------------------------------------------------------------------------
(* The files.                                                              *)

MergeIn(c, merged, data) == Merge(merged, data)
Always(c, i, data) == TRUE

Merges == INSTANCE FoldInduction WITH Op <- MergeIn, Inv <- Always

Contents(hits) == [i \in DOMAIN hits |-> hits[i].content]
MergedOf(hits) == Merges!LeftFold(0, Empty, Contents(hits))

\* A file that is read and has the key.
Has(c, key, j) == IsValidFile(c.loader, c.files[j]) /\ key \in DOMAIN c.files[j].content
Padded(c, key, i) == [j \in 1 .. i |-> IF Has(c, key, j) THEN c.files[j].content[key] ELSE << >>]

\* What the first files give: of each key the last value, or all of them for a list.
MergedBy(c, i, data) ==
  /\ \A key : key \in DOMAIN data <=> \E j \in 1 .. i : Has(c, key, j)
  /\ \A key : \A j \in 1 .. i :
       key.field \notin ListFields /\ Has(c, key, j) /\ (\A k \in j + 1 .. i : ~Has(c, key, k)) =>
         data[key] = c.files[j].content[key]
  /\ \A key : key.field \in ListFields =>
       FlattenSeq(Padded(c, key, i)) = IF key \in DOMAIN data THEN data[key] ELSE << >>

\* Lists are lists.
ListsIn(c) ==
  /\ IsList(c.files)
  /\ \A f \in ToSet(c.files) : \A key \in DOMAIN f.content : key.field \in ListFields => IsList(f.content[key])

LEMMA PaddedLists ==
  ASSUME NEW c, ListsIn(c), NEW key, key.field \in ListFields, NEW i \in 0 .. Len(c.files)
  PROVE  /\ IsLists(Padded(c, key, i)) /\ Len(Padded(c, key, i)) = i
         /\ \A j \in 1 .. i : Padded(c, key, i)[j] = IF Has(c, key, j) THEN c.files[j].content[key] ELSE << >>
<1> DEFINE p == Padded(c, key, i)
<1>1. Len(c.files) \in Nat /\ \A j \in 1 .. Len(c.files) : c.files[j] \in ToSet(c.files)
  BY ListDomain DEF ListsIn
<1>2. i \in Nat /\ \A j \in 1 .. i : j \in 1 .. Len(c.files)
  BY <1>1
<1>3. /\ \A j \in 1 .. i : p[j] = IF Has(c, key, j) THEN c.files[j].content[key] ELSE << >>
      /\ p = [j \in 1 .. i |-> p[j]]
  BY DEF Padded
<1> HIDE DEF p
<1>4. IsList(p) /\ Len(p) = i
  BY <1>2, <1>3, ListFrom
<1>5. DOMAIN p = 1 .. i
  BY <1>4, ListDomain
<1>6. \A j \in 1 .. i : IsList(p[j])
  BY <1>1, <1>2, <1>3, EmptyList DEF ListsIn, Has
<1> QED
  BY <1>3, <1>4, <1>5, <1>6 DEF IsLists, p

\* One file more is padded by what it has, or nothing.
LEMMA PaddedStep ==
  ASSUME NEW c, ListsIn(c), NEW key, key.field \in ListFields, NEW i \in 1 .. Len(c.files)
  PROVE  /\ Has(c, key, i) =>
              FlattenSeq(Padded(c, key, i)) = FlattenSeq(Padded(c, key, i - 1)) \o c.files[i].content[key]
         /\ ~Has(c, key, i) => FlattenSeq(Padded(c, key, i)) = FlattenSeq(Padded(c, key, i - 1))
         /\ Has(c, key, i) => IsList(c.files[i].content[key])
<1> DEFINE p == Padded(c, key, i - 1)
           q == Padded(c, key, i)
<1>1. Len(c.files) \in Nat /\ \A j \in 1 .. Len(c.files) : c.files[j] \in ToSet(c.files)
  BY ListDomain DEF ListsIn
<1>2. i - 1 \in 0 .. Len(c.files) /\ i \in 0 .. Len(c.files) /\ i = (i - 1) + 1 /\ i \in 1 .. i
      /\ \A j \in 1 .. i - 1 : j \in 1 .. i
  BY <1>1
<1>3. /\ IsLists(p) /\ Len(p) = i - 1
      /\ \A j \in 1 .. i - 1 : p[j] = IF Has(c, key, j) THEN c.files[j].content[key] ELSE << >>
  BY <1>2, PaddedLists
<1>4. /\ IsLists(q) /\ Len(q) = i
      /\ \A j \in 1 .. i : q[j] = IF Has(c, key, j) THEN c.files[j].content[key] ELSE << >>
  BY <1>2, PaddedLists
<1> HIDE DEF p, q
<1>5. FlattenSeq(q) = FlattenSeq(p) \o q[i]
  <2>1. Len(q) = Len(p) + 1 /\ \A j \in 1 .. Len(p) : q[j] = p[j]
    BY <1>2, <1>3, <1>4
  <2> QED
    BY <1>3, <1>4, <2>1, FlattenAppend
<1>6. FlattenSeq(p) \o << >> = FlattenSeq(p)
  BY <1>3, FlattenLists, ConcatEmpty
<1>7. Has(c, key, i) => IsList(c.files[i].content[key])
  BY <1>1 DEF ListsIn, Has
<1> QED
  BY <1>2, <1>4, <1>5, <1>6, <1>7 DEF p, q

LEMMA MergeStep ==
  ASSUME NEW c, ListsIn(c), NEW i \in 1 .. Len(c.files), NEW data, MergedBy(c, i - 1, data)
  PROVE  /\ IsValidFile(c.loader, c.files[i]) => MergedBy(c, i, Merge(data, c.files[i].content))
         /\ ~IsValidFile(c.loader, c.files[i]) => MergedBy(c, i, data)
<1> DEFINE content == c.files[i].content
           new == Merge(data, content)
<1>1. Len(c.files) \in Nat /\ i \in Nat /\ 1 .. i = (1 .. i - 1) \cup {i}
  BY ListDomain DEF ListsIn
<1>2. /\ DOMAIN new = DOMAIN content \cup DOMAIN data
      /\ \A key \in DOMAIN content :
           new[key] = IF key.field \in ListFields /\ key \in DOMAIN data THEN data[key] \o content[key] ELSE content[key]
      /\ \A key \in DOMAIN data : key \notin DOMAIN content => new[key] = data[key]
  BY DEF Merge, Over
<1>3. ASSUME NEW key, NEW j \in 1 .. i, \A k \in j + 1 .. i : ~Has(c, key, k), j # i
      PROVE  j \in 1 .. i - 1 /\ (\A k \in j + 1 .. i - 1 : ~Has(c, key, k)) /\ ~Has(c, key, i)
  <2>1. i \in j + 1 .. i /\ \A k \in j + 1 .. i - 1 : k \in j + 1 .. i
    BY <1>1, <1>3
  <2> QED
    BY <1>1, <1>3, <2>1
<1> HIDE DEF content, new
<1>4. CASE IsValidFile(c.loader, c.files[i])
  <2>1. \A key : Has(c, key, i) <=> key \in DOMAIN content
    BY <1>4 DEF Has, content
  <2>2. \A key : key \in DOMAIN new <=> \E j \in 1 .. i : Has(c, key, j)
    <3>1. TAKE key
    <3>2. key \in DOMAIN data <=> \E j \in 1 .. i - 1 : Has(c, key, j)
      BY DEF MergedBy
    <3> QED
      BY <1>1, <1>2, <2>1, <3>2
  <2>3. ASSUME NEW key, NEW j \in 1 .. i, key.field \notin ListFields, Has(c, key, j),
               \A k \in j + 1 .. i : ~Has(c, key, k)
        PROVE  new[key] = c.files[j].content[key]
    <3>1. CASE j = i
      BY <1>2, <2>1, <2>3, <3>1 DEF content
    <3>2. CASE j # i
      <4>1. j \in 1 .. i - 1 /\ (\A k \in j + 1 .. i - 1 : ~Has(c, key, k)) /\ ~Has(c, key, i)
        BY <1>3, <2>3, <3>2
      <4>2. key \in DOMAIN data /\ data[key] = c.files[j].content[key]
        BY <2>3, <4>1 DEF MergedBy
      <4> QED
        BY <1>2, <2>1, <4>1, <4>2
    <3> QED
      BY <3>1, <3>2
  <2>4. ASSUME NEW key, key.field \in ListFields
        PROVE  FlattenSeq(Padded(c, key, i)) = IF key \in DOMAIN new THEN new[key] ELSE << >>
    <3>1. FlattenSeq(Padded(c, key, i - 1)) = IF key \in DOMAIN data THEN data[key] ELSE << >>
      BY <2>4 DEF MergedBy
    <3>2. CASE key \in DOMAIN content
      <4>1. /\ FlattenSeq(Padded(c, key, i)) = FlattenSeq(Padded(c, key, i - 1)) \o content[key]
            /\ IsList(content[key])
        BY <2>1, <2>4, <3>2, PaddedStep DEF content
      <4>2. << >> \o content[key] = content[key]
        BY <4>1, ConcatEmpty
      <4> QED
        BY <1>2, <2>4, <3>1, <3>2, <4>1, <4>2
    <3>3. CASE key \notin DOMAIN content
      <4>1. FlattenSeq(Padded(c, key, i)) = FlattenSeq(Padded(c, key, i - 1))
        BY <2>1, <2>4, <3>3, PaddedStep
      <4> QED
        BY <1>2, <3>1, <3>3, <4>1
    <3> QED
      BY <3>2, <3>3
  <2>5. MergedBy(c, i, new)
    BY <2>2, <2>3, <2>4 DEF MergedBy
  <2> QED
    BY <1>4, <2>5 DEF new, content
<1>5. CASE ~IsValidFile(c.loader, c.files[i])
  <2>1. \A key : ~Has(c, key, i)
    BY <1>5 DEF Has
  <2>2. \A key : key \in DOMAIN data <=> \E j \in 1 .. i : Has(c, key, j)
    <3>1. TAKE key
    <3>2. key \in DOMAIN data <=> \E j \in 1 .. i - 1 : Has(c, key, j)
      BY DEF MergedBy
    <3> QED
      BY <1>1, <2>1, <3>2
  <2>3. ASSUME NEW key, NEW j \in 1 .. i, key.field \notin ListFields, Has(c, key, j),
               \A k \in j + 1 .. i : ~Has(c, key, k)
        PROVE  data[key] = c.files[j].content[key]
    <3>1. j # i
      BY <2>1, <2>3
    <3>2. j \in 1 .. i - 1 /\ (\A k \in j + 1 .. i - 1 : ~Has(c, key, k))
      BY <1>3, <2>3, <3>1
    <3> QED
      BY <2>3, <3>2 DEF MergedBy
  <2>4. ASSUME NEW key, key.field \in ListFields
        PROVE  FlattenSeq(Padded(c, key, i)) = IF key \in DOMAIN data THEN data[key] ELSE << >>
    <3>1. FlattenSeq(Padded(c, key, i - 1)) = IF key \in DOMAIN data THEN data[key] ELSE << >>
      BY <2>4 DEF MergedBy
    <3>2. FlattenSeq(Padded(c, key, i)) = FlattenSeq(Padded(c, key, i - 1))
      BY <2>1, <2>4, PaddedStep
    <3> QED
      BY <3>1, <3>2
  <2>5. MergedBy(c, i, data)
    BY <2>2, <2>3, <2>4 DEF MergedBy
  <2> QED
    BY <1>5, <2>5
<1> QED
  BY <1>4, <1>5 DEF new, content

\* The files that are looked for, and what they give together.
Hit(c, hits, new) == IF IsValidFile(c.loader, new) THEN Append(hits, new) ELSE hits
HitsBy(c, i, hits) ==
  /\ IsList(hits) /\ ToSet(hits) \subseteq ToSet(c.files)
  /\ hits # << >> <=> \E j \in 1 .. i : IsValidFile(c.loader, c.files[j])
  /\ MergedBy(c, i, MergedOf(hits))

Hits == INSTANCE FoldInduction WITH Op <- Hit, Inv <- HitsBy

LEMMA NothingMerged == MergedOf(<< >>) = Empty
<1> DEFINE none == Contents(<< >>)
<1>1. Merges!LeftUnfolds(0, Empty, none, 0)
  <2>1. 0 \in Nat /\ DOMAIN none = 1 .. 0
    BY DEF Contents
  <2> HIDE DEF none
  <2> QED
    BY <2>1, Merges!LeftFoldUnfolds
<1> HIDE DEF none
<1>2. Merges!LeftFold(0, Empty, none) = Empty
  BY <1>1 DEF Merges!LeftUnfolds
<1> QED
  BY <1>2 DEF MergedOf, none

LEMMA MergedAppend ==
  ASSUME NEW hits, IsList(hits), NEW new
  PROVE  MergedOf(Append(hits, new)) = Merge(MergedOf(hits), new.content)
<1> DEFINE n == Len(hits)
           s == Contents(hits)
           t == Contents(Append(hits, new))
<1>1. n \in Nat /\ DOMAIN hits = 1 .. n
  BY ListDomain
<1>2. /\ IsList(Append(hits, new)) /\ Len(Append(hits, new)) = n + 1 /\ Append(hits, new)[n + 1] = new
      /\ \A i \in 1 .. n : Append(hits, new)[i] = hits[i]
  BY ListAppend
<1>3. DOMAIN Append(hits, new) = 1 .. n + 1
  BY <1>2, ListDomain
<1>4. DOMAIN s = 1 .. n /\ DOMAIN t = 1 .. n + 1
  BY <1>1, <1>3 DEF Contents
<1>5. n + 1 \in 1 .. n + 1 /\ \A i \in 1 .. n : i \in 1 .. n + 1
  BY <1>1
<1>6. t[n + 1] = new.content /\ \A i \in 1 .. n : t[i] = s[i]
  BY <1>1, <1>2, <1>3, <1>5 DEF Contents
<1> HIDE DEF n, s, t
<1>7. Merges!LeftFold(0, Empty, t) = MergeIn(0, Merges!LeftFold(0, Empty, s), t[n + 1])
  BY <1>1, <1>4, <1>6, Merges!LeftFoldAppend
<1> QED
  BY <1>6, <1>7 DEF MergeIn, MergedOf, s, t

LEMMA MatchingHits ==
  ASSUME NEW loader, NEW files, ListsIn([loader |-> loader, files |-> files])
  PROVE  HitsBy([loader |-> loader, files |-> files], Len(files), Matching(loader, files))
<1> DEFINE c == [loader |-> loader, files |-> files]
           n == Len(files)
<1>1. Matching(loader, files) = Hits!LeftFold(c, << >>, files)
  BY DEF Matching, Hit, Hits!LeftFold, FoldLeft, MapThenFoldSet, Max, Hits!FoldLeft, Hits!MapThenFoldSet, Hits!Max
<1>2. c.loader = loader /\ c.files = files
  OBVIOUS
<1>3. n \in Nat /\ DOMAIN files = 1 .. n /\ \A i \in 1 .. n : files[i] \in ToSet(files)
  BY <1>2, ListDomain DEF ListsIn
<1> HIDE DEF c
<1>4. HitsBy(c, 0, << >>)
  <2>1. 1 .. 0 = {} /\ \A k : k \notin DOMAIN Empty
    BY DEF Empty
  <2>2. DOMAIN Contents(<< >>) = 1 .. 0
    BY DEF Contents
  <2>3. MergedOf(<< >>) = Empty
    BY NothingMerged
  <2>4. ASSUME NEW key PROVE FlattenSeq(Padded(c, key, 0)) = << >>
    <3>1. Padded(c, key, 0) = << >>
      BY <2>1 DEF Padded
    <3> QED
      BY <3>1 DEF FlattenSeq
  <2>5. MergedBy(c, 0, Empty)
    BY <2>1, <2>4 DEF MergedBy
  <2> QED
    BY <2>1, <2>3, <2>5, EmptyList DEF HitsBy
<1>5. \A i \in 1 .. n : \A hits : HitsBy(c, i - 1, hits) => HitsBy(c, i, Hit(c, hits, files[i]))
  <2>1. SUFFICES ASSUME NEW i \in 1 .. n, NEW hits, HitsBy(c, i - 1, hits)
                 PROVE  HitsBy(c, i, Hit(c, hits, files[i]))
    OBVIOUS
  <2>2. ListsIn(c) /\ i \in 1 .. Len(c.files) /\ 1 .. i = (1 .. i - 1) \cup {i} /\ i \in Nat
    BY <1>2, <1>3 DEF c
  <2>3. IsList(hits) /\ MergedBy(c, i - 1, MergedOf(hits))
    BY <2>1 DEF HitsBy
  <2>4. CASE IsValidFile(c.loader, files[i])
    <3> DEFINE more == Append(hits, files[i])
    <3>1. Hit(c, hits, files[i]) = more
      BY <2>4 DEF Hit
    <3>2. IsList(more) /\ ToSet(more) = ToSet(hits) \cup {files[i]}
      BY <2>3, ListAppend
    <3>3. MergedOf(more) = Merge(MergedOf(hits), files[i].content)
      BY <2>3, MergedAppend
    <3> HIDE DEF more
    <3>4. MergedBy(c, i, MergedOf(more))
      BY <1>2, <2>2, <2>3, <2>4, <3>3, MergeStep
    <3>5. more # << >>
      BY <3>2, ListDomain
    <3>6. \E j \in 1 .. i : IsValidFile(c.loader, c.files[j])
      BY <1>2, <2>2, <2>4
    <3>7. ToSet(more) \subseteq ToSet(c.files)
      BY <1>2, <1>3, <2>1, <3>2 DEF HitsBy
    <3>8. HitsBy(c, i, more)
      BY <3>2, <3>4, <3>5, <3>6, <3>7 DEF HitsBy
    <3> QED
      BY <3>1, <3>8
  <2>5. CASE ~IsValidFile(c.loader, files[i])
    <3>1. Hit(c, hits, files[i]) = hits
      BY <2>5 DEF Hit
    <3>2. MergedBy(c, i, MergedOf(hits))
      BY <1>2, <2>2, <2>3, <2>5, MergeStep
    <3>3. hits # << >> <=> \E j \in 1 .. i : IsValidFile(c.loader, c.files[j])
      BY <1>2, <2>1, <2>2, <2>5 DEF HitsBy
    <3>4. HitsBy(c, i, hits)
      BY <2>1, <3>2, <3>3 DEF HitsBy
    <3> QED
      BY <3>1, <3>4
  <2> QED
    BY <2>4, <2>5
<1> HIDE DEF n
<1>6. HitsBy(c, n, Hits!LeftFold(c, << >>, files))
  BY <1>3, <1>4, <1>5, Hits!LeftFoldInduction
<1> QED
  BY <1>1, <1>6 DEF c, n

-----------------------------------------------------------------------------
(* What is loaded: the files of the first path that has any, and the       *)
(* environment over them.                                                  *)

Resolved(u, w) == Overridden(u, Target(u, w))
Fitting(l, w, i) == {j \in DOMAIN w.files[l.paths[i]] : IsValidFile(l, w.files[l.paths[i]][j])}
FittingPaths(l, w) == {i \in DOMAIN l.paths : Fitting(l, w, i) # {}}
FirstPath(l, w) == CHOOSE i \in FittingPaths(l, w) : \A j \in FittingPaths(l, w) : i <= j
Source(l, w) == [loader |-> l, files |-> w.files[l.paths[FirstPath(l, w)]]]

\* The paths of a loader are there, whatever overrides them.
LEMMA LoaderPaths ==
  ASSUME NEW u \in {PluginLoader, DeviceLoader}, NEW s \in Setups
  PROVE  LET l == Resolved(u, s.world) IN
         /\ DOMAIN l.paths \subseteq Nat
         /\ \A i \in DOMAIN l.paths : l.paths[i] \in DOMAIN s.world.files
<1> DEFINE w == s.world
           target == Target(u, w)
           l == Resolved(u, w)
<1>1. Paths \subseteq DOMAIN w.files
  BY FilesAssumption
<1>2. \A t \in ToSet(w.targets) : t.kind \in {"dir", "file"} => t.path \in DOMAIN w.files
  BY FilesAssumption
<1>3. DOMAIN u.paths \subseteq Nat /\ \A i \in DOMAIN u.paths : u.paths[i] \in DOMAIN w.files
  <2>1. CASE u = PluginLoader
    <3>1. u.paths = <<".", "./config", "/etc/synse/plugin/config">>
      BY <2>1 DEF PluginLoader
    <3> QED
      BY <1>1, <3>1 DEF Paths
  <2>2. CASE u = DeviceLoader
    <3>1. u.paths = <<"./config/device", "/etc/synse/plugin/config/device">>
      BY <2>2 DEF DeviceLoader
    <3> QED
      BY <1>1, <3>1 DEF Paths
  <2> QED
    BY <2>1, <2>2
<1>4. CASE target.kind \in {"dir", "file"}
  <2>1. target \in ToSet(w.targets)
    BY <1>4 DEF Target, ToSet
  <2>2. "paths" \in DOMAIN u
    BY DEF PluginLoader, DeviceLoader
  <2>3. l.paths = <<target.path>>
    <3> HIDE DEF target
    <3> QED
      BY <1>4, <2>2 DEF Resolved, Overridden, target
  <2> QED
    BY <1>2, <1>4, <2>1, <2>3
<1>5. CASE target.kind \notin {"dir", "file"}
  <2>1. l = u
    BY <1>5 DEF Resolved, Overridden
  <2> QED
    BY <1>3, <2>1
<1> HIDE DEF l
<1> QED
  BY <1>4, <1>5 DEF l

\* The configurations that a search finds are lists of what fits a setup.
LEMMA FilesFit ==
  ASSUME NEW s \in Setups, NEW path \in DOMAIN s.world.files, NEW l
  PROVE  /\ ListsIn([loader |-> l, files |-> s.world.files[path]])
         /\ \A j \in 1 .. Len(s.world.files[path]) : \A key \in DOMAIN s.world.files[path][j].content :
              key.field # NotSet /\ Fits(s, key.field, s.world.files[path][j].content[key])
<1> DEFINE files == s.world.files[path]
           c == [loader |-> l, files |-> files]
<1>1. IsList(files) /\ \A f \in ToSet(files) : \A key \in DOMAIN f.content :
                          key.field # NotSet /\ Fits(s, key.field, f.content[key])
  BY FilesAssumption
<1>2. \A j \in 1 .. Len(files) : files[j] \in ToSet(files)
  BY <1>1, ListDomain
<1>3. c.files = files
  OBVIOUS
<1> HIDE DEF files, c
<1>4. ListsIn(c)
  BY <1>1, <1>3 DEF ListsIn, Fits
<1> QED
  BY <1>1, <1>2, <1>4 DEF c, files

FromFiles(l, w, merged) ==
  /\ FittingPaths(l, w) = {} => merged = Empty
  /\ FittingPaths(l, w) # {} =>
       /\ FirstPath(l, w) \in FittingPaths(l, w)
       /\ MergedBy(Source(l, w), Len(Source(l, w).files), merged)

LEMMA SearchFinds ==
  ASSUME NEW u \in {PluginLoader, DeviceLoader}, NEW s \in Setups
  PROVE  LET l == Resolved(u, s.world) IN
         FromFiles(l, s.world, MergedOf(Search(l, s.world)))
<1> DEFINE w == s.world
           l == Resolved(u, w)
           MatchingIn(i) == Matching(l, w.files[l.paths[i]])
           fitting == {i \in DOMAIN l.paths : MatchingIn(i) # << >>}
<1>1. DOMAIN l.paths \subseteq Nat /\ \A i \in DOMAIN l.paths : l.paths[i] \in DOMAIN w.files
  BY LoaderPaths
<1>2. Search(l, w) = IF fitting = {} THEN << >> ELSE MatchingIn(Min(fitting))
  BY DEF Search
<1> HIDE DEF l
<1>3. \A i \in DOMAIN l.paths :
        HitsBy([loader |-> l, files |-> w.files[l.paths[i]]], Len(w.files[l.paths[i]]), MatchingIn(i))
  BY <1>1, FilesFit, MatchingHits
<1>4. \A i \in DOMAIN l.paths : MatchingIn(i) # << >> <=> Fitting(l, w, i) # {}
  <2>1. TAKE i \in DOMAIN l.paths
  <2> DEFINE files == w.files[l.paths[i]]
             c == [loader |-> l, files |-> files]
  <2>2. ListsIn(c)
    BY <1>1, FilesFit
  <2>3. c.files = files /\ c.loader = l
    OBVIOUS
  <2>4. MatchingIn(i) # << >> <=> \E j \in 1 .. Len(files) : IsValidFile(c.loader, c.files[j])
    <3>1. HitsBy(c, Len(files), MatchingIn(i))
      BY <1>3
    <3> HIDE DEF c, files, MatchingIn
    <3> QED
      BY <3>1 DEF HitsBy
  <2>5. DOMAIN files = 1 .. Len(files)
    <3> HIDE DEF c, files
    <3> QED
      BY <2>2, <2>3, ListDomain DEF ListsIn
  <2> QED
    BY <2>3, <2>4, <2>5 DEF Fitting
<1>5. fitting = FittingPaths(l, w)
  <2> HIDE DEF MatchingIn
  <2> QED
    BY <1>4 DEF FittingPaths
<1> HIDE DEF fitting, MatchingIn
<1>6. CASE fitting = {}
  <2>1. Search(l, w) = << >>
    BY <1>2, <1>6
  <2>2. MergedOf(<< >>) = Empty
    BY NothingMerged
  <2> QED
    BY <1>5, <1>6, <2>1, <2>2 DEF FromFiles, l
<1>7. CASE fitting # {}
  <2>1. fitting \in SUBSET Nat
    BY <1>1, <1>5 DEF FittingPaths
  <2>2. \E m \in fitting : \A i \in fitting : m <= i
    BY <1>7, <2>1, Hits!Least
  <2>3. Min(fitting) \in fitting /\ Min(fitting) = FirstPath(l, w)
    <3>1. Min(fitting) = FirstPath(l, w)
      BY <1>5 DEF Min, FirstPath
    <3> QED
      BY <2>2, <3>1 DEF Min
  <2> DEFINE i == FirstPath(l, w)
  <2>4. i \in fitting /\ i \in DOMAIN l.paths
    BY <1>5, <2>3 DEF FittingPaths
  <2>5. Search(l, w) = MatchingIn(i)
    BY <1>2, <1>7, <2>3
  <2>6. HitsBy(Source(l, w), Len(w.files[l.paths[i]]), MatchingIn(i))
    BY <1>3, <2>4 DEF Source
  <2>7. Source(l, w).files = w.files[l.paths[i]]
    BY DEF Source
  <2> HIDE DEF i
  <2>8. MergedBy(Source(l, w), Len(Source(l, w).files), MergedOf(Search(l, w)))
    BY <2>5, <2>6, <2>7 DEF HitsBy
  <2> QED
    BY <1>5, <1>7, <2>4, <2>8 DEF FromFiles, i, l
<1> QED
  BY <1>6, <1>7

\* A loader that gives no error, gives the variables over what files give.
IsLoaded(l, w, data) ==
  \E env, merged :
    /\ data = Over(env, merged)
    /\ FromEnvironment(l, w, env)
    /\ FromFiles(l, w, merged)

LEMMA Loads ==
  ASSUME NEW u \in {PluginLoader, DeviceLoader}, NEW s \in Setups, NEW policy, Load(u, s.world, policy).ok
  PROVE  IsLoaded(Resolved(u, s.world), s.world, Load(u, s.world, policy).merged)
<1> DEFINE w == s.world
           l == Resolved(u, w)
           files == Search(l, w)
<1>1. Load(u, w, policy).merged = Over(LoadEnv(l, w), FoldLeft(Merge, Empty, Contents(files)))
  BY DEF Load, Resolved, Sources, Contents
<1>2. FoldLeft(Merge, Empty, Contents(files)) = MergedOf(files)
  BY DEF MergedOf, MergeIn, Merges!LeftFold, FoldLeft, MapThenFoldSet, Max, Merges!FoldLeft,
         Merges!MapThenFoldSet, Merges!Max
<1>3. FromFiles(l, w, MergedOf(files))
  BY SearchFinds
<1>4. FromEnvironment(l, w, LoadEnv(l, w))
  BY FilesAssumption, LoadEnvSets
<1> HIDE DEF l, files
<1> QED
  BY <1>1, <1>2, <1>3, <1>4 DEF IsLoaded, l
-----------------------------------------------------------------------------
(* What is loaded has the types of its fields.                             *)

FitsFields(s, data) == \A key \in DOMAIN data : key.field # NotSet /\ Fits(s, key.field, data[key])

LEMMA MergedFits ==
  ASSUME NEW s \in Setups, NEW path \in DOMAIN s.world.files, NEW l, NEW data,
         MergedBy([loader |-> l, files |-> s.world.files[path]], Len(s.world.files[path]), data)
  PROVE  FitsFields(s, data)
<1> DEFINE files == s.world.files[path]
           c == [loader |-> l, files |-> files]
           n == Len(files)
<1>1. ListsIn(c) /\ \A j \in 1 .. n : \A key \in DOMAIN files[j].content :
                       key.field # NotSet /\ Fits(s, key.field, files[j].content[key])
  BY FilesFit
<1>2. c.files = files
  OBVIOUS
<1>3. MergedBy(c, n, data)
  OBVIOUS
<1> HIDE DEF c, files
<1>4. n \in Nat /\ n \in 0 .. Len(c.files)
  BY <1>1, <1>2, ListDomain DEF ListsIn
<1> HIDE DEF n
<1>5. SUFFICES ASSUME NEW key \in DOMAIN data PROVE key.field # NotSet /\ Fits(s, key.field, data[key])
  BY DEF FitsFields
<1>6. key.field # NotSet
  <2>1. PICK j \in 1 .. n : Has(c, key, j)
    BY <1>3, <1>5 DEF MergedBy
  <2> QED
    BY <1>1, <1>2, <2>1 DEF Has
<1>7. CASE key.field \notin ListFields
  BY <1>6, <1>7 DEF Fits, ListFields
<1>8. CASE key.field \in ListFields
  <2> DEFINE p == Padded(c, key, n)
             joined == FlattenSeq(p)
  <2>1. data[key] = joined
    BY <1>3, <1>5, <1>8 DEF MergedBy
  <2>2. /\ IsLists(p) /\ Len(p) = n
        /\ \A j \in 1 .. n : p[j] = IF Has(c, key, j) THEN c.files[j].content[key] ELSE << >>
    BY <1>1, <1>4, <1>8, PaddedLists
  <2> HIDE DEF p
  <2>3. IsList(joined) /\ ToSet(joined) = UNION {ToSet(p[i]) : i \in DOMAIN p}
    BY <2>2, FlattenLists
  <2>4. DOMAIN p = 1 .. n
    BY <2>2, ListDomain DEF IsLists
  <2> HIDE DEF joined
  <2>5. ASSUME NEW x \in ToSet(joined)
        PROVE  \E j \in 1 .. n : key \in DOMAIN files[j].content /\ x \in ToSet(files[j].content[key])
    <3>1. PICK j \in 1 .. n : x \in ToSet(p[j])
      BY <2>3, <2>4
    <3>2. p[j] # << >>
      BY <3>1, EmptyList
    <3>3. Has(c, key, j) /\ p[j] = files[j].content[key]
      BY <1>2, <2>2, <3>2
    <3> QED
      BY <1>2, <3>1, <3>3 DEF Has
  <2>6. key.field = "devices" => \A proto \in ToSet(joined) : IsProto(proto)
    BY <1>1, <2>5 DEF Fits
  <2>7. key.field = "dynamicRegistration.config" => ToSet(joined) \subseteq DOMAIN s.protos \cap DOMAIN s.devices
    BY <1>1, <2>5 DEF Fits
  <2> QED
    BY <1>6, <2>1, <2>3, <2>6, <2>7 DEF Fits
<1> QED
  BY <1>7, <1>8

LEMMA FilesGiveFits ==
  ASSUME NEW u \in {PluginLoader, DeviceLoader}, NEW s \in Setups, NEW merged,
         FromFiles(Resolved(u, s.world), s.world, merged)
  PROVE  FitsFields(s, merged)
<1> DEFINE w == s.world
           l == Resolved(u, w)
<1>1. \A i \in DOMAIN l.paths : l.paths[i] \in DOMAIN w.files
  BY LoaderPaths
<1>2. FromFiles(l, w, merged)
  OBVIOUS
<1> HIDE DEF l
<1>3. CASE FittingPaths(l, w) = {}
  BY <1>2, <1>3 DEF FromFiles, FitsFields, Empty
<1>4. CASE FittingPaths(l, w) # {}
  <2> DEFINE path == l.paths[FirstPath(l, w)]
  <2>1. path \in DOMAIN w.files
    BY <1>1, <1>2, <1>4 DEF FromFiles, FittingPaths
  <2>2. Source(l, w) = [loader |-> l, files |-> w.files[path]]
    BY DEF Source
  <2>3. MergedBy([loader |-> l, files |-> w.files[path]], Len(w.files[path]), merged)
    BY <1>2, <1>4, <2>2 DEF FromFiles
  <2> HIDE DEF path
  <2> QED
    BY <2>1, <2>3, MergedFits
<1> QED
  BY <1>3, <1>4

LEMMA LoadsFit ==
  ASSUME NEW u \in {PluginLoader, DeviceLoader}, NEW s \in Setups, NEW policy, Load(u, s.world, policy).ok
  PROVE  FitsFields(s, Load(u, s.world, policy).merged)
<1> DEFINE w == s.world
           l == Resolved(u, w)
           data == Load(u, w, policy).merged
<1>1. PICK env, merged :
        /\ data = Over(env, merged)
        /\ FromEnvironment(l, w, env)
        /\ FromFiles(l, w, merged)
  <2>1. IsLoaded(l, w, data)
    BY Loads
  <2> HIDE DEF l, data
  <2> QED
    BY <2>1 DEF IsLoaded
<1>2. FitsFields(s, merged)
  BY <1>1, FilesGiveFits
<1>3. FitsFields(s, env)
  <2>1. IsList(w.env) /\ \A v \in ToSet(w.env) : v.field \notin {"devices", "dynamicRegistration.config"}
    BY FilesAssumption
  <2>2. \A j \in 1 .. Len(w.env) : w.env[j].field \notin {"devices", "dynamicRegistration.config"}
    BY <2>1, ListDomain
  <2> DEFINE c == [loader |-> l, env |-> w.env]
  <2>3. PICK strings : env = ScannedFrom(strings) /\ SetBy(c, Len(w.env), strings)
    BY <1>1 DEF FromEnvironment
  <2>4. c.env = w.env
    OBVIOUS
  <2> HIDE DEF l, c
  <2>5. SUFFICES ASSUME NEW key \in DOMAIN env PROVE key.field # NotSet /\ Fits(s, key.field, env[key])
    BY DEF FitsFields
  <2>6. key \in DOMAIN strings /\ env[key] = Scanned(key.field, strings[key])
    BY <2>3, <2>5 DEF ScannedFrom
  <2>7. PICK j \in 1 .. Len(w.env) : IsTaken(c, Len(w.env), key.field, j)
    BY <2>3, <2>6 DEF SetBy
  <2>8. key.field = w.env[j].field /\ key.field # NotSet
    BY <2>4, <2>7 DEF IsTaken, CountsFor, Counts
  <2>9. IsList(<<strings[key]>>)
    BY SingleList
  <2> QED
    BY <2>2, <2>6, <2>8, <2>9 DEF Fits, Scanned
<1>4. FitsFields(s, Over(env, merged))
  BY <1>2, <1>3 DEF FitsFields, Over
<1> QED
  BY <1>1, <1>4

-----------------------------------------------------------------------------
(* Which value a field has.                                                *)

\* The first of a set of numbers is less than the others, and the last of a bounded one greater.
LEMMA FirstOf ==
  ASSUME NEW S \in SUBSET Nat, NEW m \in S, \A i \in S : m <= i
  PROVE  m = CHOOSE i \in S : \A j \in S : i <= j
<1>1. \A i \in S : (\A j \in S : i <= j) => i = m
  OBVIOUS
<1> QED
  BY <1>1

LEMMA LatestOf ==
  ASSUME NEW n \in Nat, NEW S \in SUBSET (1 .. n), S # {}
  PROVE  LET m == CHOOSE i \in S : \A j \in S : i >= j IN
         m \in S /\ \A j \in S : m >= j
BY Hits!Greatest

\* The environment's part has what the variables for a field say, in lower case only.
LEMMA EnvironmentSays ==
  ASSUME NEW s \in Setups, NEW env, FromEnvironment(LoaderOf(s), s.world, env), NEW field
  PROVE  /\ Leaf(field, "lower") \in DOMAIN env <=> For(s, field) # {}
         /\ Leaf(field, "mixed") \notin DOMAIN env
         /\ For(s, field) # {} => env[Leaf(field, "lower")] = Environmental(s, field)
<1> DEFINE loader == LoaderOf(s)
           variables == s.world.env
           n == Len(variables)
           c == [loader |-> loader, env |-> variables]
           key == Leaf(field, "lower")
           said == {i \in For(s, field) : variables[i].value # NotSet}
<1>1. PICK strings : env = ScannedFrom(strings) /\ SetBy(c, n, strings)
  BY DEF FromEnvironment
<1>2. n \in Nat /\ DOMAIN variables = 1 .. n
  BY FilesAssumption, ListDomain
<1>3. loader.prefix = "PLUGIN" /\ loader.override = "PLUGIN_CONFIG"
  BY DEF LoaderOf, Overridden, PluginLoader
<1>4. c.env = variables /\ c.loader = loader
  OBVIOUS
<1>5. key.field = field /\ Leaf(field, "mixed").field = field /\ Leaf(field, "mixed") # key
  BY DEF Leaf
<1> HIDE DEF loader, c, n
<1>6. \A j : j \in For(s, field) <=> j \in 1 .. n /\ CountsFor(c, field, j)
  <2>1. \A j \in 1 .. n : CountsFor(c, field, j) <=>
          variables[j].prefix = "PLUGIN" /\ variables[j].name # "PLUGIN_CONFIG" /\ variables[j].field = field /\ field # NotSet
    BY <1>3, <1>4 DEF CountsFor, Counts, NotSet
  <2> QED
    BY <1>2, <2>1 DEF For
<1>7. DOMAIN env = DOMAIN strings /\ (key \in DOMAIN env => env[key] = Scanned(field, strings[key]))
  BY <1>1, <1>5 DEF ScannedFrom
<1>8. Leaf(field, "mixed") \notin DOMAIN env
  <2> HIDE DEF key
  <2> QED
    BY <1>1, <1>5, <1>7 DEF SetBy, key
<1>9. ASSUME For(s, field) # {} PROVE key \in DOMAIN env
  <2>1. PICK j \in 1 .. n : CountsFor(c, field, j)
    BY <1>6, <1>9
  <2> QED
    BY <1>1, <1>4, <1>7, <2>1 DEF SetBy, CountsFor
<1>10. ASSUME key \in DOMAIN env
       PROVE  For(s, field) # {} /\ env[key] = Environmental(s, field)
  <2>1. PICK j \in 1 .. n : IsTaken(c, n, field, j) /\ strings[key] = variables[j].value
    <3> HIDE DEF key
    <3> QED
      BY <1>1, <1>4, <1>5, <1>7, <1>10 DEF SetBy
  <2>2. j \in For(s, field)
    BY <1>6, <2>1 DEF IsTaken
  <2>3. \A k \in said : j \in said /\ j <= k
    BY <1>4, <1>6, <2>1, <2>2 DEF IsTaken
  <2>4. strings[key] = IF said = {} THEN NotSet ELSE variables[Min(said)].value
    <3>1. CASE said = {}
      BY <2>1, <2>2, <3>1
    <3>2. CASE said # {}
      <4>1. said \in SUBSET Nat /\ j \in said
        BY <1>6, <2>3, <3>2
      <4> HIDE DEF said
      <4>2. j = CHOOSE i \in said : \A k \in said : i <= k
        BY <2>3, <4>1, FirstOf
      <4> QED
        BY <2>1, <3>2, <4>2 DEF Min
    <3> QED
      BY <3>1, <3>2
  <2> QED
    BY <1>7, <1>10, <2>2, <2>4 DEF Environmental
<1> QED
  BY <1>8, <1>9, <1>10

\* The files that are looked for, by their names; and where they set a key.
NamedPaths(s) == {i \in DOMAIN LoaderOf(s).paths : NamedIn(s, LoaderOf(s).paths[i]) # {}}
NamedFiles(s) == s.world.files[LoaderOf(s).paths[Min(NamedPaths(s))]]
FilesWith(s, key) ==
  IF NamedPaths(s) = {} THEN {}
  ELSE {i \in NamedIn(s, LoaderOf(s).paths[Min(NamedPaths(s))]) : key \in DOMAIN NamedFiles(s)[i].content}
FilesGive(s, key) ==
  IF key.field \in ListFields
  THEN FlattenSeq([i \in DOMAIN NamedFiles(s) |-> IF i \in FilesWith(s, key) THEN NamedFiles(s)[i].content[key] ELSE << >>])
  ELSE NamedFiles(s)[Max(FilesWith(s, key))].content[key]

\* Unless another file is taken for one of that name, these are the files that are searched for.
LEMMA NamesFit ==
  ASSUME NEW s \in Setups, NoLookalikes(s)
  PROVE  /\ \A i \in DOMAIN LoaderOf(s).paths : NamedIn(s, LoaderOf(s).paths[i]) = Fitting(LoaderOf(s), s.world, i)
         /\ NamedPaths(s) = FittingPaths(LoaderOf(s), s.world)
         /\ Min(NamedPaths(s)) = FirstPath(LoaderOf(s), s.world)
<1> DEFINE loader == LoaderOf(s)
           world == s.world
<1>1. loader = Resolved(PluginLoader, world)
  BY DEF LoaderOf, Resolved
<1>2. \A i \in DOMAIN loader.paths : loader.paths[i] \in DOMAIN world.files
  BY <1>1, LoaderPaths
<1>3. ASSUME NEW i \in DOMAIN loader.paths
      PROVE  NamedIn(s, loader.paths[i]) = Fitting(loader, world, i)
  <2> DEFINE files == world.files[loader.paths[i]]
  <2>1. ASSUME NEW j \in DOMAIN files PROVE IsNamed(loader, files[j]) <=> IsValidFile(loader, files[j])
    <3> DEFINE f == files[j]
    <3>1. loader.stem # NotSet /\ loader.ext = NotSet => (f.trimmed = loader.stem <=> f.stem = loader.stem)
      <4>1. loader.paths[i] \in ToSet(loader.paths) /\ f \in ToSet(files)
        BY <1>3, <2>1 DEF ToSet
      <4> HIDE DEF f, loader
      <4> QED
        BY <4>1 DEF NoLookalikes, loader
    <3> HIDE DEF f, loader
    <3> QED
      BY <3>1 DEF IsNamed, IsValidFile, f
  <2> QED
    BY <2>1 DEF NamedIn, Fitting
<1>4. NamedPaths(s) = FittingPaths(loader, world)
  BY <1>3 DEF NamedPaths, FittingPaths
<1>5. Min(NamedPaths(s)) = FirstPath(loader, world)
  BY <1>4 DEF Min, FirstPath
<1> QED
  BY <1>3, <1>4, <1>5

\* The files' part has each key that one of them has: the last value, or all of them in order
\* for a list.
LEMMA FilesSay ==
  ASSUME NEW s \in Setups, NoLookalikes(s), NEW merged, FromFiles(LoaderOf(s), s.world, merged), NEW key
  PROVE  /\ key \in DOMAIN merged <=> FilesWith(s, key) # {}
         /\ key \in DOMAIN merged => merged[key] = FilesGive(s, key)
<1> DEFINE world == s.world
           loader == LoaderOf(s)
           paths == NamedPaths(s)
           files == FilesWith(s, key)
           src == Source(loader, world)
           m == Len(src.files)
<1>1. loader = Resolved(PluginLoader, world)
  BY DEF LoaderOf, Resolved
<1>2. /\ \A i \in DOMAIN loader.paths : NamedIn(s, loader.paths[i]) = Fitting(loader, world, i)
      /\ paths = FittingPaths(loader, world) /\ Min(paths) = FirstPath(loader, world)
  BY NamesFit
<1>3. FromFiles(loader, world, merged)
  OBVIOUS
<1> HIDE DEF loader
<1>4. CASE paths = {}
  <2>1. DOMAIN merged = {}
    BY <1>2, <1>3, <1>4 DEF FromFiles, Empty
  <2> QED
    BY <1>4, <2>1 DEF FilesWith
<1>5. CASE paths # {}
  <2> DEFINE path == loader.paths[Min(paths)]
  <2>1. MergedBy(src, m, merged) /\ FirstPath(loader, world) \in FittingPaths(loader, world)
    BY <1>2, <1>3, <1>5 DEF FromFiles
  <2>2. Min(paths) \in DOMAIN loader.paths
    BY <1>2, <2>1 DEF FittingPaths
  <2>3. path \in DOMAIN world.files
    <3>1. \A i \in DOMAIN loader.paths : loader.paths[i] \in DOMAIN world.files
      BY <1>1, LoaderPaths
    <3> QED
      BY <2>2, <3>1
  <2>4. src.files = world.files[path] /\ src.loader = loader
    BY <1>2 DEF Source
  <2>5. NamedFiles(s) = src.files
    BY <2>4 DEF NamedFiles, loader
  <2>6. m \in Nat /\ DOMAIN src.files = 1 .. m
    <3>1. IsList(world.files[path])
      BY <2>3, FilesAssumption
    <3> HIDE DEF src
    <3> QED
      BY <2>4, <3>1, ListDomain
  <2>7. files = {i \in Fitting(loader, world, Min(paths)) : key \in DOMAIN src.files[i].content}
    BY <1>2, <1>5, <2>2, <2>5 DEF FilesWith, loader
  <2>8. Fitting(loader, world, Min(paths)) = {i \in DOMAIN src.files : IsValidFile(loader, src.files[i])}
    BY <2>4 DEF Fitting
  <2> HIDE DEF src, files, m, path
  <2>9. \A i : i \in files <=> i \in 1 .. m /\ Has(src, key, i)
    BY <2>4, <2>6, <2>7, <2>8 DEF Has
  <2>10. key \in DOMAIN merged <=> files # {}
    BY <2>1, <2>9 DEF MergedBy
  <2>11. ASSUME key \in DOMAIN merged, key.field \in ListFields
         PROVE  merged[key] = FlattenSeq([i \in DOMAIN NamedFiles(s) |-> IF i \in files THEN NamedFiles(s)[i].content[key] ELSE << >>])
    <3>1. FlattenSeq(Padded(src, key, m)) = merged[key]
      BY <2>1, <2>11 DEF MergedBy
    <3>2. Padded(src, key, m) = [i \in DOMAIN src.files |-> IF i \in files THEN src.files[i].content[key] ELSE << >>]
      BY <2>6, <2>9 DEF Padded
    <3> QED
      BY <2>5, <3>1, <3>2
  <2>12. ASSUME key \in DOMAIN merged, key.field \notin ListFields
         PROVE  merged[key] = NamedFiles(s)[Max(files)].content[key]
    <3> DEFINE l == CHOOSE i \in files : \A j \in files : i >= j
    <3>1. files \in SUBSET (1 .. m)
      BY <2>9
    <3>2. l \in files /\ \A j \in files : l >= j
      BY <2>6, <2>10, <2>12, <3>1, LatestOf
    <3>3. l = Max(files)
      BY DEF Max
    <3> HIDE DEF l
    <3>4. l \in 1 .. m /\ Has(src, key, l)
      BY <2>9, <3>2
    <3>5. \A k \in l + 1 .. m : ~Has(src, key, k)
      <4>1. SUFFICES ASSUME NEW k \in l + 1 .. m, Has(src, key, k) PROVE FALSE
        OBVIOUS
      <4>2. k \in 1 .. m
        BY <2>6, <3>4
      <4>3. k \in files
        BY <2>9, <4>1, <4>2
      <4> QED
        BY <2>6, <3>2, <3>4, <4>3
    <3>6. merged[key] = src.files[l].content[key]
      BY <2>1, <2>12, <3>4, <3>5 DEF MergedBy
    <3> QED
      BY <2>5, <3>3, <3>6
  <2> QED
    BY <2>10, <2>11, <2>12 DEF FilesGive, files
<1> QED
  BY <1>4, <1>5

\* What is scanned from what is loaded is what environment and files say.
LEMMA FieldTaken ==
  ASSUME NEW s \in Setups, NEW policy, Load(PluginLoader, s.world, policy).ok, NoLookalikes(s),
         NEW fields \in Scans(Load(PluginLoader, s.world, policy).merged)
  PROVE  Precedence(s, fields)
<1> DEFINE world == s.world
           loader == LoaderOf(s)
           data == Load(PluginLoader, world, policy).merged
<1>1. PICK env, merged : data = Over(env, merged) /\ FromEnvironment(loader, world, env) /\ FromFiles(loader, world, merged)
  <2>1. loader = Resolved(PluginLoader, world)
    BY DEF LoaderOf, Resolved
  <2>2. IsLoaded(loader, world, data)
    BY <2>1, Loads
  <2> HIDE DEF loader, data
  <2> QED
    BY <2>2 DEF IsLoaded
<1>2. fields \in Scans(data)
  OBVIOUS
<1> HIDE DEF data, loader
<1>3. /\ DOMAIN data = DOMAIN env \cup DOMAIN merged
      /\ \A key \in DOMAIN env : data[key] = env[key]
      /\ \A key \in DOMAIN merged : key \notin DOMAIN env => data[key] = merged[key]
  BY <1>1 DEF Over
<1>4. DOMAIN fields = {key.field : key \in DOMAIN data}
  BY <1>2 DEF Scans
<1>5. \A field \in DOMAIN fields : \E spelling \in {"lower", "mixed"} :
        Leaf(field, spelling) \in DOMAIN data /\ fields[field] = data[Leaf(field, spelling)]
  BY <1>2 DEF Scans
<1>6. \A field : /\ Leaf(field, "lower") \in DOMAIN env <=> For(s, field) # {}
                 /\ Leaf(field, "mixed") \notin DOMAIN env
                 /\ For(s, field) # {} => env[Leaf(field, "lower")] = Environmental(s, field)
  BY <1>1, EnvironmentSays DEF loader
<1>7. \A key : /\ key \in DOMAIN merged <=> FilesWith(s, key) # {}
               /\ key \in DOMAIN merged => merged[key] = FilesGive(s, key)
  BY <1>1, FilesSay DEF loader
<1> DEFINE InLower(field) == FilesWith(s, Leaf(field, "lower"))
           InMixed(field) == FilesWith(s, Leaf(field, "mixed"))
           Alike(field) == InMixed(field) = {} \/ (InLower(field) = {} /\ For(s, field) = {})
           Key(field) == Leaf(field, IF InMixed(field) = {} THEN "lower" ELSE "mixed")
<1>8. ASSUME NEW field
      PROVE  field \in DOMAIN fields <=> For(s, field) # {} \/ InLower(field) # {} \/ InMixed(field) # {}
  <2>1. \A spelling : Leaf(field, spelling).field = field
    BY DEF Leaf
  <2> QED
    BY <1>3, <1>4, <1>5, <1>6, <1>7, <2>1
<1>9. ASSUME NEW field \in DOMAIN fields, Alike(field)
      PROVE  fields[field] = IF For(s, field) # {} THEN Environmental(s, field) ELSE FilesGive(s, Key(field))
  <2>1. PICK spelling \in {"lower", "mixed"} :
          Leaf(field, spelling) \in DOMAIN data /\ fields[field] = data[Leaf(field, spelling)]
    BY <1>5, <1>9
  <2>2. InMixed(field) = {} => spelling = "lower"
    BY <1>3, <1>6, <1>7, <2>1
  <2>3. CASE For(s, field) # {}
    BY <1>3, <1>6, <1>9, <2>1, <2>2, <2>3
  <2>4. CASE For(s, field) = {}
    <3>1. Leaf(field, spelling) \notin DOMAIN env /\ Leaf(field, spelling) \in DOMAIN merged
      BY <1>3, <1>6, <2>1, <2>4
    <3>2. Leaf(field, spelling) = Key(field)
      BY <1>7, <1>9, <2>2, <3>1
    <3> QED
      BY <1>3, <1>7, <2>1, <2>4, <3>1, <3>2
  <2> QED
    BY <2>3, <2>4
<1>10. \A field : Key(field).field = field
  BY DEF Leaf
<1> HIDE DEF Key
<1>11. ASSUME NEW field \in DOMAIN fields, Alike(field)
       PROVE  fields[field] =
                IF For(s, field) # {} THEN Environmental(s, field)
                ELSE IF field \in ListFields
                THEN FlattenSeq([i \in DOMAIN NamedFiles(s) |->
                       IF i \in FilesWith(s, Key(field)) THEN NamedFiles(s)[i].content[Key(field)] ELSE << >>])
                ELSE NamedFiles(s)[Max(FilesWith(s, Key(field)))].content[Key(field)]
  BY <1>9, <1>10, <1>11 DEF FilesGive
<1> QED
  BY <1>8, <1>11 DEF Precedence, NamedPaths, NamedFiles, FilesWith, Key

-----------------------------------------------------------------------------
(* The configuration of the plugin.                                        *)

\* It is loaded once.
LEMMA ConfigLoaded ==
  ASSUME Step
  PROVE  \/ UNCHANGED config /\ (main' = "register" => main = "register")
         \/ /\ main = "construct" /\ Load(PluginLoader, setup.world, setup.policies.plugin).ok
            /\ config' \in Scans(Load(PluginLoader, setup.world, setup.policies.plugin).merged)
<1>1. CASE NewPlugin
  <2> DEFINE loaded == Load(PluginLoader, setup.world, setup.policies.plugin)
             error == ~setup.named \/ ~loaded.ok \/ ScanError(loaded.merged, setup.policies.plugin)
  <2>1. CASE error
    <3>1. UNCHANGED <<main, config>>
      BY <1>1, <2>1 DEF NewPlugin, healthVars
    <3> QED
      BY <3>1
  <2>2. CASE ~error
    <3>1. main = "construct" /\ \E fields \in Scans(loaded.merged) : config' = fields
      BY <1>1, <2>2 DEF NewPlugin, healthVars
    <3> QED
      BY <2>2, <3>1
  <2> QED
    BY <2>1, <2>2
<1>2. CASE ~NewPlugin
  <2>1. UNCHANGED config
    BY <1>2 DEF Step, InitDeviceManager, PrintVersion, Register, InitComponents, ExecPreRun, EndPreRun,
         EndDryRun, ExecSetupAction, EndSetup, StartHealth, StartComponents, Serve, Return, EndMain, Notify, ExecPostRun, Exit,
         BeginAdd, AddLateAlias, StoreLate, CacheLateTag, Add, ConcurrentMapAccess, Tick, UpdateStep, RunCheck, Change, Signal,
         healthVars, lifecycleVars
  <2>2. main = "construct" => main' = "construct"
    BY <1>2 DEF Step, InitDeviceManager, PrintVersion, Register, InitComponents, ExecPreRun, EndPreRun,
         EndDryRun, ExecSetupAction, EndSetup, StartHealth, StartComponents, Serve, Return, EndMain, Notify, ExecPostRun, Exit,
         BeginAdd, AddLateAlias, StoreLate, CacheLateTag, Add, ConcurrentMapAccess, Tick, UpdateStep, RunCheck, Change, Signal,
         healthVars, lifecycleVars
  <2>3. main' = "register" => main = "register"
    BY <2>2, MainMoves
  <2> QED
    BY <2>1, <2>3
<1> QED
  BY <1>1, <1>2

ConfigFits == \A field \in DOMAIN config : Fits(setup, field, config[field])
ConfigInv == Inv /\ ConfigFits /\ ConfigPrecedence

LEMMA ScansFit ==
  ASSUME NEW s, NEW merged, FitsFields(s, merged), NEW fields \in Scans(merged)
  PROVE  \A field \in DOMAIN fields : Fits(s, field, fields[field])
<1>1. PICK spelling : \A field \in {key.field : key \in DOMAIN merged} : Leaf(field, spelling[field]) \in DOMAIN merged
                        /\ DOMAIN fields = {key.field : key \in DOMAIN merged}
                        /\ fields[field] = merged[Leaf(field, spelling[field])]
  BY DEF Scans
<1>2. DOMAIN fields = {key.field : key \in DOMAIN merged}
  BY DEF Scans
<1>3. \A field, sp : Leaf(field, sp).field = field
  BY DEF Leaf
<1> QED
  BY <1>1, <1>2, <1>3 DEF FitsFields

LEMMA ConfigInvInit == Init => ConfigInv
<1> SUFFICES ASSUME Init PROVE ConfigInv
  OBVIOUS
<1>1. ConfigFits /\ ConfigPrecedence
  BY DEF Init, ConfigFits, ConfigPrecedence, Empty
<1> QED
  BY <1>1, InvInit DEF ConfigInv

LEMMA ConfigInvNext == ConfigInv /\ [Next]_vars => ConfigInv'
<1> SUFFICES ASSUME ConfigInv, [Next]_vars PROVE ConfigInv'
  OBVIOUS
<1>1. Inv'
  BY InvNext DEF ConfigInv
<1>2. CASE UNCHANGED <<setup, config>> /\ (main' = "register" => main = "register")
  <2>1. ConfigFits'
    BY <1>2 DEF ConfigInv, ConfigFits
  <2>2. ConfigPrecedence'
    BY <1>2 DEF ConfigInv, ConfigPrecedence
  <2> QED
    BY <1>1, <2>1, <2>2 DEF ConfigInv
<1>3. ASSUME setup' = setup, Load(PluginLoader, setup.world, setup.policies.plugin).ok,
             config' \in Scans(Load(PluginLoader, setup.world, setup.policies.plugin).merged)
      PROVE  ConfigInv'
  <2>1. setup \in Setups
    BY DEF ConfigInv, Inv, ControlTypes
  <2>2. FitsFields(setup, Load(PluginLoader, setup.world, setup.policies.plugin).merged)
    BY <1>3, <2>1, LoadsFit
  <2>3. ConfigFits'
    BY <1>3, <2>2, ScansFit DEF ConfigFits
  <2>4. NoLookalikes(setup) => Precedence(setup, config')
    BY <1>3, <2>1, FieldTaken
  <2>5. ConfigPrecedence'
    BY <1>3, <2>4 DEF ConfigPrecedence
  <2> QED
    BY <1>1, <2>3, <2>5 DEF ConfigInv
<1>4. CASE Next
  <2>1. Step /\ setup' = setup
    BY <1>4, NextIsStep, StepKeeps
  <2> QED
    BY <1>2, <1>3, <2>1, ConfigLoaded
<1>5. CASE UNCHANGED vars
  <2>1. UNCHANGED <<setup, config, main>>
    BY <1>5 DEF vars, lifecycleVars
  <2> QED
    BY <1>2, <2>1
<1> QED
  BY <1>4, <1>5

LEMMA ConfigInvariance == Spec => []ConfigInv
BY ConfigInvInit, ConfigInvNext, PTL DEF Spec

\* Whatever files and variables there are, as long as no other file is taken for one of the
\* name that is looked for: a field of the plugin's configuration that is spelled alike
\* wherever it is set has what the first variable for it says that is not empty, if there is
\* a variable for it; else that of the last of the files so named, in the first path that has
\* any, or of all of these in order when it is a list.
THEOREM ConfigPrecedes == Spec => []ConfigPrecedence
<1>1. ConfigInv => ConfigPrecedence
  BY DEF ConfigInv
<1> QED
  BY <1>1, ConfigInvariance, PTL

=============================================================================
