--------------------------- MODULE FoldInduction ---------------------------
(***************************************************************************)
(* Induction over what a fold computes.  Op is what is folded and Inv what *)
(* holds on the way, both with a parameter for the names that are free in  *)
(* the expression that is folded; an instance of this module says what     *)
(* they are.                                                               *)
(***************************************************************************)
EXTENDS Naturals, Sequences, FiniteSets, SequencesExt, FiniteSetsExt, FiniteSetTheorems, WellFoundedInduction, TLAPS

CONSTANTS
  Op(_, _, _),     \* Op(c, acc, x): one step of the fold
  Inv(_, _, _)     \* Inv(c, i, acc): what holds of the result for a part of the input

LeftFold(c, base, seq) == FoldLeft(LAMBDA acc, x : Op(c, acc, x), base, seq)
SetFold(c, base, S) == FoldSet(LAMBDA x, acc : Op(c, acc, x), base, S)

-----------------------------------------------------------------------------
(* Induction over numbers.                                                 *)

\* A set of numbers that is not empty has a least element.
LEMMA Least ==
  ASSUME NEW S \in SUBSET Nat, S # {}
  PROVE  \E m \in S : \A n \in S : m <= n
<1> DEFINE R == {ss \in Nat \X Nat : ss[1] < ss[2]}
<1>1. IsWellFoundedOn(R, Nat)
  BY NatLessThanWellFounded, Zenon DEF OpToRel
<1>2. PICK m \in S : \A n \in S : ~ (<<n, m>> \in R)
  <2> HIDE DEF R
  <2> QED
    BY <1>1, WFMin
<1>3. \A n \in S : ~ (n < m)
  <2>1. TAKE n \in S
  <2>2. <<n, m>> \notin R
    BY <1>2
  <2> QED
    BY <2>2
<1> QED
  BY <1>2, <1>3

\* A set of numbers that is not empty and bounded has a greatest element.
LEMMA Greatest ==
  ASSUME NEW n \in Nat, NEW S \in SUBSET (1 .. n), S # {}
  PROVE  \E m \in S : \A k \in S : m >= k
<1> DEFINE Left == {n - k : k \in S}
<1>1. Left \in SUBSET Nat /\ Left # {}
  <2>1. \A k \in S : n - k \in Nat
    OBVIOUS
  <2> QED
    BY <2>1
<1>2. PICK d \in Left : \A e \in Left : d <= e
  BY <1>1, Least
<1>3. PICK m \in S : d = n - m
  BY <1>2
<1>4. \A k \in S : n - m <= n - k
  BY <1>2, <1>3
<1> QED
  BY <1>4

\* What holds at 0, and at each next number if at the one before, holds all along.
LEMMA Upwards ==
  ASSUME NEW c, NEW n \in Nat, NEW f,
         Inv(c, 0, f[0]),
         \A i \in 1 .. n : Inv(c, i - 1, f[i - 1]) => Inv(c, i, f[i])
  PROVE  \A i \in 0 .. n : Inv(c, i, f[i])
<1> DEFINE Left == {i \in 0 .. n : ~Inv(c, i, f[i])}
<1>1. Left = {}
  <2>1. SUFFICES ASSUME Left # {} PROVE FALSE
    OBVIOUS
  <2>2. PICK m \in Left : \A k \in Left : m <= k
    <3>1. Left \in SUBSET Nat
      OBVIOUS
    <3> HIDE DEF Left
    <3> QED
      BY <2>1, <3>1, Least
  <2>3. m # 0
    BY <2>2
  <2>4. m \in 1 .. n /\ m - 1 \in 0 .. n /\ m - 1 \notin Left
    BY <2>2, <2>3
  <2> QED
    BY <2>2, <2>4
<1> QED
  BY <1>1

-----------------------------------------------------------------------------
(* A fold is what its recursive function says.                             *)

\* The recursion over the subsets of a finite set, an element less at a time, has a solution.
Picks(pick, S) == \A s \in SUBSET S : s # {} => pick[s] \in s

Soluble(c, base, S, data, pick) ==
  \E g : /\ g = [s \in SUBSET S |-> g[s]]
         /\ g[{}] = base
         /\ \A s \in SUBSET S : s # {} => g[s] = Op(c, g[s \ {pick[s]}], data[pick[s]])

LEMMA Solution ==
  ASSUME NEW c, NEW base, NEW S, IsFiniteSet(S), NEW data, NEW pick, Picks(pick, S)
  PROVE  Soluble(c, base, S, data, pick)
<1> DEFINE Small(n) == {s \in SUBSET S : Cardinality(s) <= n}
           Value(g, s) == IF s = {} THEN base ELSE Op(c, g[s \ {pick[s]}], data[pick[s]])
           Solved == {n \in Nat : \E g : g = [s \in Small(n) |-> Value(g, s)]}
<1>1. \A s \in SUBSET S : IsFiniteSet(s) /\ Cardinality(s) \in Nat /\ Cardinality(s) <= Cardinality(S)
                          /\ (Cardinality(s) = 0 <=> s = {})
  BY FS_Subset, FS_CardinalityType, FS_EmptySet
<1>2. \A s \in SUBSET S : s # {} => s \ {pick[s]} \in SUBSET S /\ Cardinality(s \ {pick[s]}) = Cardinality(s) - 1
  BY <1>1, FS_RemoveElement DEF Picks
<1>3. 0 \in Solved
  <2> DEFINE g == [s \in Small(0) |-> base]
  <2>1. \A s \in Small(0) : s = {}
    BY <1>1
  <2>2. g = [s \in Small(0) |-> Value(g, s)]
    BY <2>1
  <2> QED
    BY <2>2
<1>4. ASSUME NEW n \in Solved PROVE n + 1 \in Solved
  <2>1. PICK g : g = [s \in Small(n) |-> Value(g, s)]
    OBVIOUS
  <2> DEFINE h == [s \in Small(n + 1) |-> IF s \in Small(n) THEN g[s] ELSE Value(g, s)]
  <2>2. \A s \in Small(n + 1) : s # {} => s \ {pick[s]} \in Small(n)
    BY <1>1, <1>2
  <2>3. Small(n) \subseteq Small(n + 1)
    BY <1>1
  <2>4. \A s \in Small(n + 1) : s # {} => h[s \ {pick[s]}] = g[s \ {pick[s]}]
    BY <2>2, <2>3
  <2>5. \A s \in Small(n + 1) : h[s] = Value(g, s)
    BY <2>1
  <2>6. \A s \in Small(n + 1) : h[s] = Value(h, s)
    BY <2>4, <2>5
  <2>7. h = [s \in Small(n + 1) |-> Value(h, s)]
    <3> DEFINE k == [s \in Small(n + 1) |-> Value(h, s)]
    <3>1. \A s \in Small(n + 1) : h[s] = k[s]
      BY <2>6
    <3> HIDE DEF Value, Small
    <3> QED
      BY <3>1
  <2> HIDE DEF h, Value, Small
  <2> QED
    BY <2>7
<1>5. \A n \in Nat : n \in Solved
  <2> DEFINE Left == {n \in Nat : n \notin Solved}
  <2>1. SUFFICES ASSUME Left # {} PROVE FALSE
    OBVIOUS
  <2> HIDE DEF Solved
  <2>2. PICK m \in Left : \A n \in Left : m <= n
    BY <2>1, Least
  <2>3. m - 1 \in Nat /\ m = (m - 1) + 1
    BY <2>2, <1>3
  <2>4. m - 1 \notin Left
    BY <2>2, <2>3
  <2> QED
    BY <1>4, <2>2, <2>3, <2>4
<1>6. Small(Cardinality(S)) = SUBSET S
  BY <1>1
<1>7. Cardinality(S) \in Solved
  BY <1>1, <1>5
<1>8. PICK g : g = [s \in SUBSET S |-> Value(g, s)]
  BY <1>6, <1>7
<1>9. g = [s \in SUBSET S |-> g[s]] /\ \A s \in SUBSET S : g[s] = Value(g, s)
  BY <1>8
<1>10. g[{}] = base /\ \A s \in SUBSET S : s # {} => g[s] = Op(c, g[s \ {pick[s]}], data[pick[s]])
  BY <1>9
<1> HIDE DEF Small, Solved, Value
<1> QED
  BY <1>9, <1>10 DEF Soluble

\* Of a sequence, the last element is folded last; of a set, an element that is chosen.
LeftUnfolds(c, base, seq, n) ==
  \E f : /\ f[0] = base
         /\ \A i \in 1 .. n : f[i] = Op(c, f[i - 1], seq[i])
         /\ LeftFold(c, base, seq) = f[n]

SetUnfolds(c, base, S) ==
  \E g, pick : /\ Picks(pick, S)
               /\ g[{}] = base
               /\ \A s \in SUBSET S : s # {} => g[s] = Op(c, g[s \ {pick[s]}], pick[s])
               /\ SetFold(c, base, S) = g[S]

LEMMA LeftFoldUnfolds ==
  ASSUME NEW c, NEW base, NEW seq, NEW n \in Nat, DOMAIN seq = 1 .. n
  PROVE  LeftUnfolds(c, base, seq, n)
<1> DEFINE Value(g, s) == IF s = {} THEN base ELSE Op(c, g[s \ {Max(s)}], seq[Max(s)])
           Equation(g) == g = [s \in SUBSET (1 .. n) |-> Value(g, s)]
           iter == CHOOSE g : Equation(g)
           pick == [s \in SUBSET (1 .. n) |-> Max(s)]
<1>1. LeftFold(c, base, seq) = iter[1 .. n]
  BY DEF LeftFold, FoldLeft, MapThenFoldSet
<1>2. \A s \in SUBSET (1 .. n) : pick[s] = Max(s) /\ (s # {} => pick[s] \in s)
  <2>1. TAKE s \in SUBSET (1 .. n)
  <2>2. ASSUME s # {} PROVE Max(s) \in s
    <3>1. \E x \in s : \A y \in s : x >= y
      BY <2>2, Greatest
    <3> QED
      BY <3>1 DEF Max
  <2> QED
    BY <2>2
<1>3. PICK g : /\ g = [s \in SUBSET (1 .. n) |-> g[s]]
               /\ g[{}] = base
               /\ \A s \in SUBSET (1 .. n) : s # {} => g[s] = Op(c, g[s \ {pick[s]}], seq[pick[s]])
  <2>1. IsFiniteSet(1 .. n)
    BY FS_Interval
  <2>2. Picks(pick, 1 .. n)
    BY <1>2 DEF Picks
  <2>3. Soluble(c, base, 1 .. n, seq, pick)
    <3> HIDE DEF pick
    <3> QED
      BY <2>1, <2>2, Solution
  <2> HIDE DEF pick
  <2> QED
    BY <2>3 DEF Soluble
<1>4. Equation(g)
  <2> HIDE DEF pick
  <2>1. \A s \in SUBSET (1 .. n) : g[s] = Value(g, s)
    BY <1>2, <1>3
  <2> HIDE DEF Value
  <2> QED
    BY <1>3, <2>1
<1>5. Equation(iter)
  <2> HIDE DEF Equation
  <2> QED
    BY <1>4
<1>6. {} \in SUBSET (1 .. n) /\ \A s \in SUBSET (1 .. n) : iter[s] = Value(iter, s)
  <2> HIDE DEF iter
  <2> QED
    BY <1>5
<1> HIDE DEF iter
<1>7. \A i \in 1 .. n : iter[1 .. i] = Op(c, iter[1 .. i - 1], seq[i])
  <2>1. TAKE i \in 1 .. n
  <2>2. Max(1 .. i) = i
    <3>1. i \in 1 .. i /\ \A k \in 1 .. i : i >= k
      OBVIOUS
    <3>2. \A k \in 1 .. i : (\A l \in 1 .. i : k >= l) => k = i
      BY <3>1
    <3> QED
      BY <3>1, <3>2 DEF Max
  <2>3. 1 .. i \in SUBSET (1 .. n) /\ 1 .. i # {}
    <3>1. i \in 1 .. i /\ 1 .. i \subseteq 1 .. n
      OBVIOUS
    <3> QED
      BY <3>1
  <2>4. (1 .. i) \ {i} = 1 .. i - 1
    OBVIOUS
  <2> QED
    BY <1>6, <2>2, <2>3, <2>4
<1> DEFINE f == [i \in 0 .. n |-> iter[1 .. i]]
<1>8. f[0] = base /\ f[n] = iter[1 .. n]
  <2>1. 1 .. 0 = {}
    OBVIOUS
  <2>2. f[0] = iter[1 .. 0] /\ f[n] = iter[1 .. n]
    OBVIOUS
  <2> QED
    BY <1>6, <2>1, <2>2
<1>9. \A i \in 1 .. n : f[i] = Op(c, f[i - 1], seq[i])
  <2>1. TAKE i \in 1 .. n
  <2>2. f[i] = iter[1 .. i] /\ f[i - 1] = iter[1 .. i - 1]
    OBVIOUS
  <2> QED
    BY <1>7, <2>2
<1> HIDE DEF f
<1> QED
  BY <1>1, <1>8, <1>9 DEF LeftUnfolds

\* What is folded from a sequence with one element more.
LEMMA LeftFoldAppend ==
  ASSUME NEW c, NEW base, NEW seq, NEW n \in Nat, DOMAIN seq = 1 .. n,
         NEW more, DOMAIN more = 1 .. n + 1, \A i \in 1 .. n : more[i] = seq[i]
  PROVE  LeftFold(c, base, more) = Op(c, LeftFold(c, base, seq), more[n + 1])
<1>1. PICK f : /\ f[0] = base
               /\ \A i \in 1 .. n : f[i] = Op(c, f[i - 1], seq[i])
               /\ LeftFold(c, base, seq) = f[n]
  <2>1. LeftUnfolds(c, base, seq, n)
    BY LeftFoldUnfolds
  <2> QED
    BY <2>1 DEF LeftUnfolds
<1>2. PICK g : /\ g[0] = base
               /\ \A i \in 1 .. n + 1 : g[i] = Op(c, g[i - 1], more[i])
               /\ LeftFold(c, base, more) = g[n + 1]
  <2>1. LeftUnfolds(c, base, more, n + 1)
    BY LeftFoldUnfolds
  <2> QED
    BY <2>1 DEF LeftUnfolds
<1> DEFINE Left == {i \in 0 .. n : f[i] # g[i]}
<1>3. Left = {}
  <2>1. SUFFICES ASSUME Left # {} PROVE FALSE
    OBVIOUS
  <2>2. PICK m \in Left : \A k \in Left : m <= k
    <3>1. Left \in SUBSET Nat
      OBVIOUS
    <3> HIDE DEF Left
    <3> QED
      BY <2>1, <3>1, Least
  <2>3. m # 0
    BY <1>1, <1>2, <2>2
  <2>4. m \in 1 .. n /\ m \in 1 .. n + 1 /\ m - 1 \in 0 .. n /\ m - 1 \notin Left
    BY <2>2, <2>3
  <2>5. f[m - 1] = g[m - 1]
    BY <2>4
  <2>6. f[m] = Op(c, f[m - 1], seq[m]) /\ g[m] = Op(c, g[m - 1], more[m]) /\ more[m] = seq[m]
    BY <1>1, <1>2, <2>4
  <2> QED
    BY <2>2, <2>5, <2>6
<1>4. f[n] = g[n]
  BY <1>3
<1>5. n + 1 \in 1 .. n + 1 /\ (n + 1) - 1 = n
  OBVIOUS
<1>6. g[n + 1] = Op(c, g[n], more[n + 1])
  BY <1>2, <1>5
<1> QED
  BY <1>1, <1>2, <1>4, <1>6

LEMMA SetFoldUnfolds ==
  ASSUME NEW c, NEW base, NEW S, IsFiniteSet(S)
  PROVE  SetUnfolds(c, base, S)
<1> DEFINE Value(g, s) == IF s = {} THEN base
                          ELSE Op(c, g[s \ {CHOOSE x \in s : TRUE}], CHOOSE x \in s : TRUE)
           Equation(g) == g = [s \in SUBSET S |-> Value(g, s)]
           iter == CHOOSE g : Equation(g)
           pick == [s \in SUBSET S |-> CHOOSE x \in s : TRUE]
           data == [x \in S |-> x]
<1>1. SetFold(c, base, S) = iter[S]
  BY DEF SetFold, FoldSet, MapThenFoldSet
<1>2. \A s \in SUBSET S : pick[s] = (CHOOSE x \in s : TRUE) /\ (s # {} => pick[s] \in s /\ data[pick[s]] = pick[s])
  OBVIOUS
<1>3. PICK g : /\ g = [s \in SUBSET S |-> g[s]]
               /\ g[{}] = base
               /\ \A s \in SUBSET S : s # {} => g[s] = Op(c, g[s \ {pick[s]}], data[pick[s]])
  <2>1. Picks(pick, S)
    BY <1>2 DEF Picks
  <2>2. Soluble(c, base, S, data, pick)
    <3> HIDE DEF pick, data
    <3> QED
      BY <2>1, Solution
  <2> HIDE DEF pick, data
  <2> QED
    BY <2>2 DEF Soluble
<1>4. Equation(g)
  <2>1. \A s \in SUBSET S : g[s] = Value(g, s)
    <3> HIDE DEF pick, data
    <3> QED
      BY <1>2, <1>3
  <2> HIDE DEF Value
  <2> QED
    BY <1>3, <2>1
<1>5. Equation(iter)
  <2> HIDE DEF Equation
  <2> QED
    BY <1>4
<1>6. {} \in SUBSET S /\ \A s \in SUBSET S : iter[s] = Value(iter, s)
  <2> HIDE DEF iter
  <2> QED
    BY <1>5
<1>7. \A s \in SUBSET S : s # {} => pick[s] \in s /\ iter[s] = Op(c, iter[s \ {pick[s]}], pick[s])
  <2> HIDE DEF iter, pick
  <2> QED
    BY <1>2, <1>6
<1> HIDE DEF iter, pick
<1> QED
  BY <1>1, <1>6, <1>7 DEF SetUnfolds, Picks

-----------------------------------------------------------------------------
(* Induction over a fold.                                                  *)

\* What holds of the base, and if of what is folded from a part of a sequence, of what is
\* folded from that part and the next element, holds of the fold.
LEMMA LeftFoldInduction ==
  ASSUME NEW c, NEW base, NEW seq, NEW n \in Nat, DOMAIN seq = 1 .. n,
         Inv(c, 0, base),
         \A i \in 1 .. n : \A acc : Inv(c, i - 1, acc) => Inv(c, i, Op(c, acc, seq[i]))
  PROVE  Inv(c, n, LeftFold(c, base, seq))
<1>1. PICK f : /\ f[0] = base
               /\ \A i \in 1 .. n : f[i] = Op(c, f[i - 1], seq[i])
               /\ LeftFold(c, base, seq) = f[n]
  <2>1. LeftUnfolds(c, base, seq, n)
    BY LeftFoldUnfolds
  <2> QED
    BY <2>1 DEF LeftUnfolds
<1>2. \A i \in 1 .. n : Inv(c, i - 1, f[i - 1]) => Inv(c, i, f[i])
  BY <1>1
<1>3. \A i \in 0 .. n : Inv(c, i, f[i])
  BY <1>1, <1>2, Upwards
<1> QED
  BY <1>1, <1>3

\* The same of a finite set, whose elements are folded in any order.
LEMMA SetFoldInduction ==
  ASSUME NEW c, NEW base, NEW S, IsFiniteSet(S),
         Inv(c, {}, base),
         \A T \in SUBSET S : \A x \in S \ T : \A acc : Inv(c, T, acc) => Inv(c, T \cup {x}, Op(c, acc, x))
  PROVE  Inv(c, S, SetFold(c, base, S))
<1>1. PICK g, pick : /\ \A s \in SUBSET S : s # {} => pick[s] \in s
                     /\ g[{}] = base
                     /\ \A s \in SUBSET S : s # {} => g[s] = Op(c, g[s \ {pick[s]}], pick[s])
                     /\ SetFold(c, base, S) = g[S]
  <2>1. SetUnfolds(c, base, S)
    BY SetFoldUnfolds
  <2> QED
    BY <2>1 DEF SetUnfolds, Picks
<1>2. \A s \in SUBSET S : IsFiniteSet(s) /\ Cardinality(s) \in Nat /\ (Cardinality(s) = 0 <=> s = {})
  BY FS_Subset, FS_CardinalityType, FS_EmptySet
<1> DEFINE Left == {Cardinality(s) : s \in {u \in SUBSET S : ~Inv(c, u, g[u])}}
<1>3. Left = {}
  <2>1. SUFFICES ASSUME Left # {} PROVE FALSE
    OBVIOUS
  <2>2. Left \in SUBSET Nat
    BY <1>2
  <2>3. PICK m \in Left : \A k \in Left : m <= k
    <3> HIDE DEF Left
    <3> QED
      BY <2>1, <2>2, Least
  <2>4. PICK s \in SUBSET S : ~Inv(c, s, g[s]) /\ m = Cardinality(s)
    BY <2>3
  <2>5. s # {}
    BY <1>1, <2>4
  <2> DEFINE t == s \ {pick[s]}
  <2>6. t \in SUBSET S /\ pick[s] \in S \ t /\ s = t \cup {pick[s]} /\ g[s] = Op(c, g[t], pick[s])
    BY <1>1, <2>5
  <2>7. Cardinality(t) = Cardinality(s) - 1
    BY <1>1, <1>2, <2>5, FS_RemoveElement
  <2>8. Inv(c, t, g[t])
    <3>1. SUFFICES ASSUME ~Inv(c, t, g[t]) PROVE FALSE
      OBVIOUS
    <3>2. Cardinality(t) \in Left
      BY <2>6, <3>1
    <3>3. m <= Cardinality(t) /\ Cardinality(s) \in Nat
      BY <1>2, <2>3, <3>2
    <3> QED
      BY <2>4, <2>7, <3>3
  <2> HIDE DEF t
  <2> QED
    BY <2>4, <2>6, <2>8
<1>4. \A s \in SUBSET S : Inv(c, s, g[s])
  BY <1>3
<1>5. S \in SUBSET S
  OBVIOUS
<1> HIDE DEF Left
<1> QED
  BY <1>1, <1>4, <1>5
=============================================================================
